---------------------------- MODULE SahPoolProofs ----------------------------
(***************************************************************************)
(* What the pool of OPFS files (SahPool) promises, for any number of       *)
(* prefixes, databases, queued steps and failures.                         *)
(***************************************************************************)
EXTENDS SahPool, FiniteSetTheorems, SequenceTheorems, TLAPS

(***************************************************************************)
(* The invariant.                                                          *)
(***************************************************************************)

\* The names a step puts images under, and those whose originals it has to give back.
Imaged(step)    == {f \in Files : step.image[f] # Absent}
Originals(step) == {f \in Files : step.original[f] # Absent}

Replacing(step) == step.stage \in {"unlinking", "importing", "undoing", "restoring"}

\* Only the first step of the queue runs, an open is one database and does not replace
\* anything, and a step that was not started yet has no original in its hands.
StepOk(step) ==
  /\ Imaged(step) \subseteq step.targets
  /\ step.kind = "open" =>
       ~Replacing(step) /\ Imaged(step) = {} /\ \E f \in Files : step.targets = {f}
  /\ ~Replacing(step) => Originals(step) = {}
  /\ step.kind = "pool" => step.targets = Files
  /\ step.left \subseteq step.targets /\ step.touched \subseteq step.targets

StepInv ==
  \A i \in 1..Len(queue) : StepOk(queue[i]) /\ (i > 1 => queue[i].stage = "queued")

\* A connection that can be used has its database; one that is not in a transaction has
\* no journal, and one that is has half of it in the database.
Conn(f) ==
  /\ conns[f] \in {"idle", "writing"} => pool.content[f] # Absent
  /\ conns[f] \in {"idle", "dead"} => pool.journal[f] = Absent
  /\ conns[f] = "writing" => pool.journal[f] # Absent /\ pool.content[f] = Torn

ConnInv == \A f \in Files : Conn(f)

\* A database is what was acknowledged last, or half a transaction with a journal that
\* holds it, or a new database beside the journal of a deleted one.
Kept(f) ==
  /\ pool.content[f] = Absent \/ pool.journal[f] = Absent => pool.content[f] = acked[f]
  /\ pool.content[f] # Absent /\ pool.journal[f] # Absent =>
       \/ pool.content[f] = Torn /\ pool.journal[f] = acked[f]
       \/ pool.content[f] = Fresh /\ acked[f] = Fresh

KeptInv ==
  \A f \in Files \ (BeingReplaced \cup lost) : acked[f] # Torn /\ Kept(f)

\* What the step that replaces files still has to know of them.
ReplacementInv ==
  queue # <<>> /\ Replacing(Head(queue)) =>
    LET step == Head(queue) IN
    /\ step.targets \cap Open = {} /\ step.targets \cap Journals = {}
    /\ Originals(step) \subseteq step.targets
    /\ \A f \in step.targets \ lost : step.original[f] = acked[f] /\ acked[f] # Torn
    /\ step.stage = "unlinking" => \A f \in step.targets : pool.content[f] = step.original[f]
    /\ step.stage = "importing" =>
         /\ step.left \subseteq Imaged(step) /\ step.left \cap Databases = {}
         /\ \A f \in step.targets \ step.left : pool.content[f] = step.image[f]
    /\ step.stage \in {"importing", "undoing"} =>
         \A f \in step.targets \ step.touched : pool.content[f] = step.original[f]
    /\ step.stage = "restoring" =>
         /\ step.left \subseteq Originals(step)
         /\ ~step.failed => \A f \in step.targets \ step.left : pool.content[f] = step.original[f]

\* The images of a step are whole, but for those of files that were lost.
WholeImage(step) == \A f \in Files \ step.lost : step.image[f] # Torn

\* The slots: for what is there, for a journal of every connection, and for what the
\* step that runs may still add.
Occupied == Journals \cup Open
Joining(step) == IF step.kind = "open" THEN step.targets ELSE {}
Wanted(step)  == Joining(step) \cup Imaged(step) \cup Originals(step)
Load(files, journals) == Cardinality(files) + Cardinality(journals)

RoomInv ==
  /\ Load(Databases, Occupied) <= pool.capacity
  /\ queue # <<>> =>
       LET step == Head(queue) IN
       /\ step.stage = "growing" =>
            Load(Databases \cup Wanted(step), Occupied \cup Joining(step)) <= step.need
       /\ Replacing(step) => Load(Databases \cup Wanted(step), Occupied) <= pool.capacity

Inv == TypeOK /\ StepInv /\ ConnInv /\ KeptInv /\ ReplacementInv /\ ExportsAreWhole /\ RoomInv

-----------------------------------------------------------------------------
(***************************************************************************)
(* Sets of files, pools and queues.                                        *)
(***************************************************************************)

LEMMA FilesAreFinite == IsFiniteSet(Files)
  BY SahPoolAssumption, FS_Product DEF Files

LEMMA Fits ==
  ASSUME NEW D \in SUBSET Files, NEW O \in SUBSET Files,
         NEW d \in SUBSET D, NEW o \in SUBSET O
  PROVE  /\ Load(d, o) \in Nat /\ Load(D, O) \in Nat
         /\ Load(d, o) <= Load(D, O)
<1>1. IsFiniteSet(D) /\ IsFiniteSet(O)
  BY FilesAreFinite, FS_Subset
<1>2. /\ IsFiniteSet(d) /\ IsFiniteSet(o)
      /\ Cardinality(d) <= Cardinality(D) /\ Cardinality(o) <= Cardinality(O)
  BY <1>1, FS_Subset
<1>3. /\ Cardinality(D) \in Nat /\ Cardinality(O) \in Nat
      /\ Cardinality(d) \in Nat /\ Cardinality(o) \in Nat
  BY <1>1, <1>2, FS_CardinalityType
<1> QED
  BY <1>2, <1>3 DEF Load

Pools == [content : [Files -> Images], journal : [Files -> Images], capacity : Nat]

\* What a connection leaves when it is closed.
LEMMA ClosedIs ==
  ASSUME TypeOK, NEW s \in SUBSET Files
  PROVE  /\ Closed(s) \in Pools /\ Closed(s).capacity = pool.capacity
         /\ \A f \in Files :
              LET undone == f \in s /\ conns[f] = "writing" IN
              /\ Closed(s).content[f] = IF undone THEN pool.journal[f] ELSE pool.content[f]
              /\ Closed(s).journal[f] = IF undone THEN Absent ELSE pool.journal[f]
  BY DEF TypeOK, Closed, Pools, Images

LEMMA WithoutIs ==
  ASSUME NEW q \in Pools, NEW s \in SUBSET Files, NEW sides \in SUBSET Files
  PROVE  /\ Without(q, s, sides) \in Pools /\ Without(q, s, sides).capacity = q.capacity
         /\ \A f \in Files :
              /\ Without(q, s, sides).content[f] = IF f \in s THEN Absent ELSE q.content[f]
              /\ Without(q, s, sides).journal[f] = IF f \in sides THEN Absent ELSE q.journal[f]
  BY DEF Without, Pools, Images

\* Databases are unlinked and no journal.
LEMMA WithoutFiles ==
  ASSUME NEW q \in Pools, NEW s \in SUBSET Files
  PROVE  /\ Without(q, s, {}) \in Pools /\ Without(q, s, {}).capacity = q.capacity
         /\ \A f \in Files :
              /\ Without(q, s, {}).content[f] = IF f \in s THEN Absent ELSE q.content[f]
              /\ Without(q, s, {}).journal[f] = q.journal[f]
  BY DEF Without, Pools, Images

LEMMA RecoveredIs ==
  ASSUME NEW q \in Pools, NEW s \in SUBSET Files
  PROVE  /\ Recovered(q, s) \in Pools /\ Recovered(q, s).capacity = q.capacity
         /\ \A f \in Files :
              LET hot == f \in s /\ q.content[f] # Absent /\ q.journal[f] # Absent IN
              /\ Recovered(q, s).content[f] =
                     IF hot /\ q.content[f] # Fresh THEN q.journal[f] ELSE q.content[f]
              /\ Recovered(q, s).journal[f] = IF hot THEN Absent ELSE q.journal[f]
  BY DEF Recovered, Pools, Images

LEMMA GrownIs ==
  ASSUME TypeOK, NEW n \in Nat
  PROVE  /\ Grown(n) \in Pools /\ Grown(n).content = pool.content /\ Grown(n).journal = pool.journal
         /\ Grown(n).capacity \in Nat /\ Grown(n).capacity >= n
         /\ Grown(n).capacity >= pool.capacity
  BY DEF TypeOK, Grown, Pools

LEMMA HeadOfQueue ==
  ASSUME TypeOK, queue # <<>>
  PROVE  /\ Len(queue) \in Nat /\ Len(queue) >= 1 /\ Head(queue) \in Steps
         /\ Head(queue) = queue[1] /\ 1 \in 1..Len(queue)
         /\ Tail(queue) \in Seq(Steps) /\ Len(Tail(queue)) = Len(queue) - 1
         /\ \A i \in 1..Len(Tail(queue)) : Tail(queue)[i] = queue[i + 1] /\ i + 1 \in 1..Len(queue)
<1>1. queue \in Seq(Steps)
  BY DEF TypeOK
<1>2. Len(queue) \in Nat /\ Len(queue) >= 1
  BY <1>1, EmptySeq, LenProperties
<1> QED
  BY <1>1, <1>2, HeadTailProperties

\* The step that runs becomes another one.
LEMMA AfterBecomes ==
  ASSUME TypeOK, queue # <<>>, NEW step \in Steps, Becomes(step)
  PROVE  /\ queue' \in Seq(Steps) /\ queue' # <<>> /\ Len(queue') = Len(queue)
         /\ Head(queue') = step /\ queue'[1] = step
         /\ \A i \in 1..Len(queue') : i > 1 => queue'[i] = queue[i]
<1>1. <<step>> \in Seq(Steps) /\ Len(<<step>>) = 1 /\ <<step>>[1] = step
  OBVIOUS
<1>2. queue' = <<step>> \o Tail(queue)
  BY DEF Becomes
<1>3. /\ queue' \in Seq(Steps) /\ Len(queue') = Len(queue)
      /\ \A i \in 1..Len(queue') : queue'[i] = IF i <= 1 THEN <<step>>[i] ELSE Tail(queue)[i - 1]
  BY <1>1, <1>2, HeadOfQueue, ConcatProperties
<1>4. queue'[1] = step /\ queue' # <<>>
  BY <1>1, <1>3, HeadOfQueue, EmptySeq
<1>5. ASSUME NEW i \in 1..Len(queue'), i > 1 PROVE queue'[i] = queue[i]
  <2>1. i - 1 \in 1..Len(Tail(queue)) /\ (i - 1) + 1 = i
    BY <1>3, <1>5, HeadOfQueue
  <2> QED
    BY <1>3, <1>5, <2>1, HeadOfQueue
<1> QED
  BY <1>3, <1>4, <1>5, HeadTailProperties

LEMMA AfterAppend ==
  ASSUME TypeOK, NEW step \in Steps, queue' = Append(queue, step)
  PROVE  /\ queue' \in Seq(Steps) /\ queue' # <<>> /\ Len(queue') = Len(queue) + 1
         /\ Len(queue) \in Nat
         /\ \A i \in 1..Len(queue) : queue'[i] = queue[i]
         /\ queue'[Len(queue) + 1] = step
         /\ Head(queue') = IF queue = <<>> THEN step ELSE Head(queue)
<1>1. queue \in Seq(Steps) /\ Len(queue) \in Nat
  BY LenProperties DEF TypeOK
<1>2. /\ queue' \in Seq(Steps) /\ Len(queue') = Len(queue) + 1
      /\ \A i \in 1..Len(queue) : queue'[i] = queue[i]
      /\ queue'[Len(queue) + 1] = step
  BY <1>1, AppendProperties
<1>3. queue' # <<>> /\ Head(queue') = queue'[1]
  BY <1>1, <1>2, EmptySeq, HeadTailProperties
<1>4. CASE queue = <<>>
  BY <1>1, <1>2, <1>3, <1>4
<1>5. CASE queue # <<>>
  BY <1>1, <1>2, <1>3, <1>5, HeadOfQueue
<1> QED
  BY <1>1, <1>2, <1>3, <1>4, <1>5

LEMMA AfterEnds ==
  ASSUME TypeOK, StepInv, queue # <<>>, Ends
  PROVE  /\ queue' \in Seq(Steps) /\ Len(queue') = Len(queue) - 1
         /\ \A i \in 1..Len(queue') : queue'[i] = queue[i + 1] /\ i + 1 \in 1..Len(queue)
         /\ StepInv' /\ BeingReplaced' = {} /\ ReplacementInv'
         /\ queue' # <<>> => Head(queue').stage = "queued"
<1>1. queue' = Tail(queue)
  BY DEF Ends
<1>2. /\ queue' \in Seq(Steps) /\ Len(queue') = Len(queue) - 1
      /\ \A i \in 1..Len(queue') : queue'[i] = queue[i + 1] /\ i + 1 \in 1..Len(queue) /\ i + 1 > 1
  BY <1>1, HeadOfQueue
<1>3. \A i \in 1..Len(queue') : queue'[i].stage = "queued"
  BY <1>2 DEF StepInv
<1>4. queue' # <<>> => Head(queue').stage = "queued"
  <2>1. ASSUME queue' # <<>> PROVE Head(queue') = queue'[1] /\ 1 \in 1..Len(queue')
    BY <1>2, <2>1, HeadTailProperties, EmptySeq
  <2> QED
    BY <1>3, <2>1
<1>5. StepInv'
  <2>1. ASSUME NEW i \in 1..Len(queue') PROVE StepOk(queue'[i]) /\ queue'[i].stage = "queued"
    BY <1>2, <1>3, <2>1 DEF StepInv
  <2> QED
    BY <2>1 DEF StepInv, StepOk, Replacing, Imaged, Originals
<1> QED
  BY <1>2, <1>4, <1>5 DEF BeingReplaced, ReplacementInv, Replacing

LEMMA StepInvBecomes ==
  ASSUME TypeOK, StepInv, queue # <<>>, NEW step \in Steps, Becomes(step), StepOk(step)
  PROVE  StepInv'
<1>1. ASSUME NEW i \in 1..Len(queue')
      PROVE  StepOk(queue'[i]) /\ (i > 1 => queue'[i].stage = "queued")
  <2>1. i = 1 \/ (i > 1 /\ i \in 1..Len(queue))
    BY AfterBecomes, HeadOfQueue
  <2> QED
    BY <2>1, AfterBecomes DEF StepInv
<1> QED
  BY <1>1 DEF StepInv, StepOk, Replacing, Imaged, Originals

LEMMA StepInvAppend ==
  ASSUME TypeOK, StepInv, NEW step \in Steps, queue' = Append(queue, step), StepOk(step),
         step.stage = "queued"
  PROVE  StepInv'
<1>1. \A i \in 1..Len(queue') : i \in 1..Len(queue) \/ i = Len(queue) + 1
  BY AfterAppend
<1>2. ASSUME NEW i \in 1..Len(queue')
      PROVE  StepOk(queue'[i]) /\ (i > 1 => queue'[i].stage = "queued")
  BY <1>1, AfterAppend DEF StepInv
<1> QED
  BY <1>2 DEF StepInv, StepOk, Replacing, Imaged, Originals

-----------------------------------------------------------------------------
(***************************************************************************)
(* Types.                                                                  *)
(***************************************************************************)

LEMMA StartsTyped == Init => TypeOK
<1>1. Absent \in Images /\ [f \in Files |-> Absent] \in [Files -> Images]
  BY DEF Images
<1>2. <<>> \in Seq(Steps)
  OBVIOUS
<1>3. NoSnapshot \in [of : {"none", "prefix", "pool"}, image : [Files -> Images], lost : SUBSET Files]
  BY <1>1 DEF NoSnapshot
<1>4. Initial \in Nat /\ 0 \in 0..MaxFaults
  BY SahPoolAssumption
<1> SUFFICES ASSUME Init PROVE TypeOK
  OBVIOUS
<1>5. pool \in [content : [Files -> Images], journal : [Files -> Images], capacity : Nat]
  BY <1>1, <1>4 DEF Init
<1>6. conns \in [Files -> {"closed", "idle", "writing", "dead"}] /\ held \in BOOLEAN
  BY DEF Init
<1> QED
  BY <1>1, <1>2, <1>3, <1>4, <1>5, <1>6 DEF Init, TypeOK

LEMMA RenamedIs ==
  ASSUME NEW image \in [Files -> Images], NEW from \in Prefixes, NEW to \in Prefixes
  PROVE  /\ Renamed(image, from, to) \in [Files -> Images]
         /\ \A f \in Files : /\ <<from, f[2]>> \in Of(from)
                             /\ Renamed(image, from, to)[f] =
                                  IF f \in Of(to) THEN image[<<from, f[2]>>] ELSE Absent
<1>1. \A f \in Files : <<from, f[2]>> \in Files /\ <<from, f[2]>>[1] = from
  BY DEF Files
<1> QED
  BY <1>1 DEF Renamed, Images, Of

LEMMA RenamedIsWhole ==
  ASSUME NEW image \in [Files -> Images], NEW from \in Prefixes, NEW to \in Prefixes,
         NEW s \in SUBSET Files, \A f \in Of(from) \ s : image[f] # Torn
  PROVE  /\ Renamed(image, from, to) \in [Files -> Images]
         /\ RenamedSet(s, from, to) \in SUBSET Files
         /\ \A f \in Files : Renamed(image, from, to)[f] # Absent => f \in Of(to)
         /\ \A f \in Files \ RenamedSet(s, from, to) : Renamed(image, from, to)[f] # Torn
<1>1. Absent # Torn
  BY DEF Absent, Torn
<1>2. ASSUME NEW f \in Files
      PROVE  /\ Renamed(image, from, to)[f] # Absent => f \in Of(to)
             /\ f \notin RenamedSet(s, from, to) => Renamed(image, from, to)[f] # Torn
  <2> DEFINE source == <<from, f[2]>>
  <2>1. source \in Of(from) /\ Renamed(image, from, to)[f] =
            IF f \in Of(to) THEN image[source] ELSE Absent
    BY <1>2, RenamedIs
  <2>2. f \in Of(to) /\ f \notin RenamedSet(s, from, to) => source \notin s
    BY DEF RenamedSet
  <2> HIDE DEF source
  <2> QED
    BY <1>1, <2>1, <2>2
<1>3. Renamed(image, from, to) \in [Files -> Images] /\ RenamedSet(s, from, to) \in SUBSET Files
  BY RenamedIs DEF RenamedSet, Of
<1> QED
  BY <1>2, <1>3

LEMMA ImagesOfIs ==
  ASSUME TypeOK, NEW s \in SUBSET Files
  PROVE  /\ ImagesOf(s) \in [Files -> Images]
         /\ \A f \in Files : ImagesOf(s)[f] = IF f \in s THEN pool.content[f] ELSE Absent
  BY DEF TypeOK, ImagesOf, Images

LEMMA NewStep ==
  ASSUME NEW kind \in {"open", "restore", "copy", "pool"}, NEW targets \in SUBSET Files,
         NEW image \in [Files -> Images], NEW from \in SUBSET Files
  PROVE  /\ Step(kind, targets, image, from) \in Steps
         /\ Originals(Step(kind, targets, image, from)) = {}
         /\ Imaged(Step(kind, targets, image, from)) = Imaged([image |-> image])
         /\ Step(kind, targets, image, from).left = {}
         /\ Step(kind, targets, image, from).touched = {}
  BY DEF Step, Steps, NoSnapshot, Images, Originals, Imaged

LEMMA EnqueueTypes ==
  ASSUME TypeOK, NEW step \in Steps, Enqueue(step), snapshot' \in {snapshot, NoSnapshot}
  PROVE  TypeOK'
<1>1. queue' \in Seq(Steps)
  BY AfterAppend DEF Enqueue
<1>2. NoSnapshot \in [of : {"none", "prefix", "pool"}, image : [Files -> Images], lost : SUBSET Files]
  BY DEF NoSnapshot, Images
<1> QED
  BY <1>1, <1>2 DEF Enqueue, TypeOK

LEMMA CallTypes ==
  ASSUME TypeOK,
         \/ \E f \in Files : CallOpen(f)
         \/ \E p, from \in Prefixes : CallRestore(p, from)
         \/ \E p, from \in Prefixes : CallCopy(p, from)
         \/ CallImportPool
  PROVE  TypeOK'
<1>0. /\ snapshot.image \in [Files -> Images] /\ NoSnapshot.image \in [Files -> Images]
      /\ snapshot.lost \in SUBSET Files /\ {} \in SUBSET Files
      /\ \A p \in Prefixes : Of(p) \in SUBSET Files
      /\ \A s \in SUBSET Files : \A p, from \in Prefixes : RenamedSet(s, from, p) \in SUBSET Files
  BY DEF TypeOK, NoSnapshot, Images, Of, RenamedSet
<1>1. ASSUME NEW f \in Files, CallOpen(f) PROVE TypeOK'
  <2>1. {f} \in SUBSET Files
    OBVIOUS
  <2>2. Step("open", {f}, NoSnapshot.image, {}) \in Steps
    BY <1>0, <2>1, NewStep
  <2> QED
    BY <1>1, <2>2, EnqueueTypes DEF CallOpen
<1>2. ASSUME NEW p \in Prefixes, NEW from \in Prefixes, CallRestore(p, from) PROVE TypeOK'
  <2>1. Step("restore", Of(p), Renamed(snapshot.image, from, p),
             RenamedSet(snapshot.lost, from, p)) \in Steps
    BY <1>0, NewStep, RenamedIs
  <2> QED
    BY <1>2, <2>1, EnqueueTypes DEF CallRestore
<1>3. ASSUME NEW p \in Prefixes, NEW from \in Prefixes, CallCopy(p, from) PROVE TypeOK'
  <2>1. ImagesOf(Of(from)) \in [Files -> Images] /\ lost \in SUBSET Files
    BY <1>0, ImagesOfIs DEF TypeOK
  <2>2. Step("copy", Of(p), Renamed(ImagesOf(Of(from)), from, p),
             RenamedSet(lost, from, p)) \in Steps
    BY <1>0, <2>1, NewStep, RenamedIs
  <2> QED
    BY <1>3, <2>2, EnqueueTypes DEF CallCopy
<1>4. ASSUME CallImportPool PROVE TypeOK'
  <2>1. Step("pool", Files, snapshot.image, snapshot.lost) \in Steps
    BY <1>0, NewStep
  <2> QED
    BY <1>4, <2>1, EnqueueTypes DEF CallImportPool
<1> QED
  BY <1>1, <1>2, <1>3, <1>4

LEMMA FaultIsTyped == TypeOK /\ Fault => faults' \in 0..MaxFaults
  BY SahPoolAssumption DEF TypeOK, Fault

LEMMA DeathTypes ==
  ASSUME TypeOK, Dies
  PROVE  /\ installed' \in {"no", "waiting", "yes"} /\ held' \in BOOLEAN
         /\ conns' \in [Files -> {"closed", "idle", "writing", "dead"}]
         /\ queue' \in Seq(Steps) /\ BeingReplaced \subseteq Files
         /\ snapshot' \in [of : {"none", "prefix", "pool"}, image : [Files -> Images],
                          lost : SUBSET Files]
<1>1. BeingReplaced \subseteq Files
  BY HeadOfQueue DEF BeingReplaced, Steps
<1>2. NoSnapshot \in [of : {"none", "prefix", "pool"}, image : [Files -> Images], lost : SUBSET Files]
  BY DEF NoSnapshot, Images
<1>3. queue' \in Seq(Steps)
  BY EmptySeq DEF Dies
<1> QED
  BY <1>1, <1>2, <1>3 DEF Dies

LEMMA WorkerTypes ==
  ASSUME TypeOK, Install \/ Installs \/ InstallTimesOut \/ ReleaseHandles \/ Terminate
  PROVE  TypeOK'
<1>1. CASE Install \/ Installs \/ InstallTimesOut \/ ReleaseHandles
  BY <1>1 DEF Install, Installs, InstallTimesOut, ReleaseHandles, TypeOK
<1>2. CASE Terminate
  BY <1>2, DeathTypes, FaultIsTyped DEF Terminate, TypeOK
<1> QED
  BY <1>1, <1>2

LEMMA ConnectionTypes ==
  ASSUME TypeOK,
         \/ \E f \in Files : BeginWrite(f) \/ CommitWrite(f) \/ RollbackWrite(f)
         \/ \E f \in Files : Reset(f) \/ ResetFails(f)
         \/ \E p \in Prefixes : CloseStorage(p) \/ DeleteStorage(p) \/ DeletionCutOff(p)
         \/ \E p \in Prefixes : ExportSnapshot(p)
         \/ ExportPool
  PROVE  TypeOK'
<1>0. {Absent, Fresh, Written, Torn} = Images /\ \A p \in Prefixes : Of(p) \in SUBSET Files
  BY DEF Images, Of
<1>1. ASSUME NEW f \in Files, BeginWrite(f) PROVE TypeOK'
  BY <1>0, <1>1 DEF BeginWrite, TypeOK
<1>2. ASSUME NEW f \in Files, CommitWrite(f) PROVE TypeOK'
  BY <1>0, <1>2 DEF CommitWrite, TypeOK
<1>3. ASSUME NEW f \in Files, RollbackWrite(f) PROVE TypeOK'
  <2>1. pool' \in Pools
    BY <1>3, ClosedIs DEF RollbackWrite
  <2> QED
    BY <1>3, <2>1 DEF RollbackWrite, TypeOK, Pools
<1>4. ASSUME NEW f \in Files, Reset(f) PROVE TypeOK'
  BY <1>0, <1>4 DEF Reset, TypeOK
<1>9. ASSUME NEW f \in Files, ResetFails(f) PROVE TypeOK'
  <2>1. PICK left \in {pool.content[f], Absent, Fresh} :
          /\ pool' = [pool EXCEPT !.content[f] = left]
          /\ acked' = IF left = pool.content[f] THEN acked ELSE [acked EXCEPT ![f] = left]
          /\ \/ /\ conns' = [conns EXCEPT ![f] = "dead"] /\ lost' \in {lost, lost \ {f}}
                /\ UNCHANGED <<installed, held, queue, snapshot>>
             \/ Dies /\ lost' \in {lost \cup BeingReplaced, (lost \ {f}) \cup BeingReplaced}
    BY <1>9 DEF ResetFails
  <2>2. left \in Images /\ faults' \in 0..MaxFaults
    BY <1>0, <1>9, <2>1, FaultIsTyped DEF ResetFails, TypeOK
  <2>3. pool' \in Pools /\ acked' \in [Files -> Images]
    BY <2>1, <2>2 DEF TypeOK, Pools
  <2>4. CASE Dies /\ lost' \in {lost \cup BeingReplaced, (lost \ {f}) \cup BeingReplaced}
    BY <2>2, <2>3, <2>4, DeathTypes DEF TypeOK, Pools
  <2>5. CASE /\ conns' = [conns EXCEPT ![f] = "dead"] /\ lost' \in {lost, lost \ {f}}
             /\ UNCHANGED <<installed, held, queue, snapshot>>
    BY <2>2, <2>3, <2>5 DEF TypeOK, Pools
  <2> QED
    BY <2>1, <2>4, <2>5
<1>5. ASSUME NEW p \in Prefixes, CloseStorage(p) PROVE TypeOK'
  <2>1. pool' \in Pools
    BY <1>0, <1>5, ClosedIs DEF CloseStorage
  <2> QED
    BY <1>5, <2>1 DEF CloseStorage, Disconnected, TypeOK, Pools
<1>6. ASSUME NEW p \in Prefixes, DeleteStorage(p) PROVE TypeOK'
  <2>1. pool' \in Pools /\ acked' \in [Files -> Images]
    BY <1>0, <1>6, ClosedIs, WithoutIs DEF DeleteStorage, Unlinks, TypeOK
  <2> QED
    BY <1>6, <2>1 DEF DeleteStorage, Disconnected, TypeOK, Pools
<1>10. ASSUME NEW p \in Prefixes, DeletionCutOff(p) PROVE TypeOK'
  <2>1. PICK dbs \in SUBSET (Of(p) \cap Databases), sides \in SUBSET (Of(p) \cap Journals) :
          /\ Unlinks(p, dbs, sides)
          /\ \/ /\ conns' = Disconnected(Of(p)) /\ lost' = (lost \ dbs) \cup Orphaned(dbs, sides)
                /\ UNCHANGED <<installed, held, queue, snapshot>>
             \/ /\ Dies /\ lost' = (lost \ dbs) \cup Orphaned(dbs, sides) \cup BeingReplaced
    BY <1>10 DEF DeletionCutOff
  <2>2. dbs \in SUBSET Files /\ sides \in SUBSET Files /\ faults' \in 0..MaxFaults
    BY <1>10, FaultIsTyped DEF Databases, Journals, DeletionCutOff
  <2>3. pool' \in Pools /\ acked' \in [Files -> Images]
    BY <1>0, <2>1, <2>2, ClosedIs, WithoutIs DEF Unlinks, TypeOK
  <2>4. Orphaned(dbs, sides) \subseteq Files /\ lost \subseteq Files
    BY <2>2 DEF Orphaned, TypeOK
  <2>5. CASE /\ conns' = Disconnected(Of(p)) /\ lost' = (lost \ dbs) \cup Orphaned(dbs, sides)
             /\ UNCHANGED <<installed, held, queue, snapshot>>
    BY <2>2, <2>3, <2>4, <2>5 DEF Disconnected, TypeOK, Pools
  <2>6. CASE Dies /\ lost' = (lost \ dbs) \cup Orphaned(dbs, sides) \cup BeingReplaced
    BY <2>2, <2>3, <2>4, <2>6, DeathTypes DEF TypeOK, Pools
  <2> QED
    BY <2>1, <2>5, <2>6
<1>7. ASSUME NEW p \in Prefixes, ExportSnapshot(p) PROVE TypeOK'
  <2>1. ImagesOf(Of(p)) \in [Files -> Images]
    BY <1>0, ImagesOfIs
  <2>2. lost \cap Of(p) \in SUBSET Files
    BY <1>0
  <2> QED
    BY <1>7, <2>1, <2>2 DEF ExportSnapshot, TypeOK
<1>8. ASSUME ExportPool PROVE TypeOK'
  <2>1. pool \in Pools
    BY DEF TypeOK, Pools
  <2>2. pool' \in Pools
    BY <1>8, <2>1, RecoveredIs DEF ExportPool
  <2>3. snapshot' = snapshot \/ snapshot' = [of |-> "pool", image |-> pool'.content, lost |-> lost]
    BY <1>8 DEF ExportPool
  <2> QED
    BY <1>8, <2>2, <2>3 DEF ExportPool, TypeOK, Pools
<1> QED
  BY <1>1, <1>2, <1>3, <1>4, <1>5, <1>6, <1>7, <1>8, <1>9, <1>10

-----------------------------------------------------------------------------
(***************************************************************************)
(* What happens outside of the step that runs.                             *)
(***************************************************************************)

Started == queue # <<>> /\ Replacing(Head(queue))

LEMMA BeingReplacedIs ==
  ASSUME TypeOK
  PROVE  /\ BeingReplaced \subseteq Files
         /\ BeingReplaced # {} => Started /\ BeingReplaced = Head(queue).targets
  BY HeadOfQueue DEF BeingReplaced, Started, Replacing, Steps

\* Something happens to the files in s, which the running step does not replace, and
\* no file and no connection is added.
LEMMA Elsewhere ==
  ASSUME Inv, UNCHANGED queue, NEW s \in SUBSET Files, pool'.capacity = pool.capacity,
         \A f \in Files \ s :
           /\ pool'.content[f] = pool.content[f] /\ pool'.journal[f] = pool.journal[f]
           /\ conns'[f] = conns[f] /\ acked'[f] = acked[f]
           /\ f \in lost => f \in lost',
         \A f \in s : Conn(f)' /\ (f \notin lost' => (acked[f] # Torn /\ Kept(f))'),
         Started => s \cap Head(queue).targets = {},
         Databases' \subseteq Databases, Occupied' \subseteq Occupied
  PROVE  StepInv' /\ ConnInv' /\ KeptInv' /\ ReplacementInv' /\ RoomInv'
<1>1. StepInv'
  BY DEF Inv, StepInv
<1>2. ConnInv'
  <2>1. ASSUME NEW f \in Files PROVE Conn(f)'
    BY <2>1 DEF Inv, ConnInv, Conn
  <2> QED
    BY <2>1 DEF ConnInv, Conn
<1>3. KeptInv'
  <2>1. BeingReplaced' = BeingReplaced
    BY DEF BeingReplaced
  <2>2. ASSUME NEW f \in Files, f \notin BeingReplaced, f \notin lost'
        PROVE  (acked[f] # Torn /\ Kept(f))'
    BY <2>2 DEF Inv, KeptInv, Kept
  <2> QED
    BY <2>1, <2>2 DEF KeptInv
<1>4. ReplacementInv'
  <2>1. CASE ~Started
    BY <2>1 DEF Started, ReplacementInv
  <2>2. CASE Started
    <3>1. Head(queue) \in Steps
      BY <2>2, HeadOfQueue DEF Inv, Started
    <3>2. \A f \in Head(queue).targets : f \in Files /\ f \notin s
      BY <2>2, <3>1 DEF Steps
    <3>3. /\ \A f \in Head(queue).targets :
               /\ pool'.content[f] = pool.content[f] /\ acked'[f] = acked[f]
               /\ f \in lost => f \in lost'
          /\ Head(queue).targets \cap Open' = {} /\ Head(queue).targets \cap Journals' = {}
      BY <2>2, <3>2 DEF Inv, ReplacementInv, Started, Open, Journals
    <3> QED
      BY <2>2, <3>3 DEF Inv, ReplacementInv, Started, Imaged, Originals, Replacing
  <2> QED
    BY <2>1, <2>2
<1>5. RoomInv'
  <2>1. Databases \in SUBSET Files /\ Occupied \in SUBSET Files
    BY DEF Databases, Occupied, Journals, Open
  <2>2. Load(Databases, Occupied)' <= pool'.capacity
    <3>1. Load(Databases', Occupied') <= Load(Databases, Occupied)
      BY <2>1, Fits
    <3>2. /\ Load(Databases', Occupied') \in Nat /\ Load(Databases, Occupied) \in Nat
          /\ pool.capacity \in Nat
      BY <2>1, Fits DEF Inv, TypeOK
    <3> QED
      BY <3>1, <3>2 DEF Inv, RoomInv, Load
  <2>3. ASSUME queue # <<>> PROVE
          LET step == Head(queue) IN
          /\ Wanted(step) \in SUBSET Files /\ Joining(step) \in SUBSET Files
          /\ Load(Databases' \cup Wanted(step), Occupied' \cup Joining(step))
               <= Load(Databases \cup Wanted(step), Occupied \cup Joining(step))
          /\ Load(Databases' \cup Wanted(step), Occupied')
               <= Load(Databases \cup Wanted(step), Occupied)
          /\ Load(Databases' \cup Wanted(step), Occupied' \cup Joining(step)) \in Nat
          /\ Load(Databases' \cup Wanted(step), Occupied') \in Nat
          /\ Load(Databases \cup Wanted(step), Occupied \cup Joining(step)) \in Nat
          /\ Load(Databases \cup Wanted(step), Occupied) \in Nat
          /\ step.need \in Nat
    <3> DEFINE step == Head(queue)
    <3>1. step \in Steps
      BY <2>3, HeadOfQueue DEF Inv
    <3>2. Wanted(step) \in SUBSET Files /\ Joining(step) \in SUBSET Files /\ step.need \in Nat
      BY <3>1 DEF Wanted, Joining, Imaged, Originals, Steps
    <3> HIDE DEF step
    <3>3. /\ Databases' \cup Wanted(step) \in SUBSET (Databases \cup Wanted(step))
          /\ Databases \cup Wanted(step) \in SUBSET Files
          /\ Occupied' \cup Joining(step) \in SUBSET (Occupied \cup Joining(step))
          /\ Occupied \cup Joining(step) \in SUBSET Files
      BY <2>1, <3>2
    <3>4. /\ Load(Databases' \cup Wanted(step), Occupied' \cup Joining(step))
               <= Load(Databases \cup Wanted(step), Occupied \cup Joining(step))
          /\ Load(Databases' \cup Wanted(step), Occupied' \cup Joining(step)) \in Nat
          /\ Load(Databases \cup Wanted(step), Occupied \cup Joining(step)) \in Nat
      BY <3>3, Fits
    <3>5. /\ Load(Databases' \cup Wanted(step), Occupied')
               <= Load(Databases \cup Wanted(step), Occupied)
          /\ Load(Databases' \cup Wanted(step), Occupied') \in Nat
          /\ Load(Databases \cup Wanted(step), Occupied) \in Nat
      BY <2>1, <3>3, Fits
    <3> QED
      BY <3>2, <3>4, <3>5 DEF step
  <2>4. pool.capacity \in Nat
    BY DEF Inv, TypeOK
  <2>5. ASSUME queue # <<>>, Head(queue).stage = "growing"
        PROVE  Load(Databases' \cup Wanted(Head(queue)), Occupied' \cup Joining(Head(queue)))
                   <= Head(queue).need
    BY <2>3, <2>5 DEF Inv, RoomInv
  <2>6. ASSUME Started
        PROVE  Load(Databases' \cup Wanted(Head(queue)), Occupied') <= pool'.capacity
    BY <2>3, <2>4, <2>6 DEF Inv, RoomInv, Started
  <2> QED
    BY <2>2, <2>5, <2>6 DEF RoomInv, Started, Load, Wanted, Joining, Imaged, Originals, Replacing
<1> QED
  BY <1>1, <1>2, <1>3, <1>4, <1>5

\* A connection that is open is to no file that is being replaced.
LEMMA OpenIsElsewhere ==
  ASSUME Inv, NEW f \in Files, conns[f] # "closed"
  PROVE  Started => {f} \cap Head(queue).targets = {}
  BY DEF Inv, ReplacementInv, Started, Open

LEMMA NoTornImage ==
  ASSUME Inv, UNCHANGED <<queue, snapshot>> PROVE ExportsAreWhole'
  BY DEF Inv, ExportsAreWhole

\* Nothing happens to any file.
LEMMA NowhereElse ==
  ASSUME Inv, UNCHANGED <<pool, conns, queue, acked, lost>>
  PROVE  StepInv' /\ ConnInv' /\ KeptInv' /\ ReplacementInv' /\ RoomInv'
<1> DEFINE s == {}
<1>1. s \in SUBSET Files /\ pool'.capacity = pool.capacity
  OBVIOUS
<1>2. \A f \in Files \ s :
        /\ pool'.content[f] = pool.content[f] /\ pool'.journal[f] = pool.journal[f]
        /\ conns'[f] = conns[f] /\ acked'[f] = acked[f] /\ (f \in lost => f \in lost')
  OBVIOUS
<1>3. \A f \in s : Conn(f)' /\ (f \notin lost' => (acked[f] # Torn /\ Kept(f))')
  OBVIOUS
<1>4. Started => s \cap Head(queue).targets = {}
  OBVIOUS
<1>5. Databases' = Databases /\ Occupied' = Occupied
  BY DEF Databases, Occupied, Journals, Open
<1> HIDE DEF s
<1> QED
  BY <1>1, <1>2, <1>3, <1>4, <1>5, Elsewhere

LEMMA WorkerKeepsInv ==
  ASSUME Inv, Install \/ Installs \/ InstallTimesOut \/ ReleaseHandles
  PROVE  Inv'
<1>1. UNCHANGED <<pool, conns, queue, snapshot, acked, lost>>
  BY DEF Install, Installs, InstallTimesOut, ReleaseHandles
<1>2. TypeOK'
  BY WorkerTypes DEF Inv
<1> QED
  BY <1>1, <1>2, NowhereElse, NoTornImage DEF Inv

\* The worker dies, whatever it was doing: what it was replacing is lost.
LEMMA DeathKeepsInv ==
  ASSUME Inv, TypeOK', Dies, pool'.capacity = pool.capacity,
         Databases' \subseteq Databases, Journals' \subseteq Journals,
         \A f \in Files : f \notin lost' => (acked[f] # Torn /\ Kept(f))'
  PROVE  Inv'
<1>1. queue' = <<>> /\ Len(queue') = 0 /\ \A f \in Files : conns'[f] = "closed"
  BY EmptySeq DEF Dies
<1>2. StepInv' /\ ReplacementInv' /\ BeingReplaced' = {} /\ ExportsAreWhole'
  <2>1. \A f \in Files : snapshot'.image[f] # Torn
    BY DEF Dies, NoSnapshot, Absent, Torn
  <2>2. DOMAIN queue' = {}
    BY <1>1
  <2> QED
    BY <1>1, <2>1, <2>2 DEF StepInv, ReplacementInv, BeingReplaced, ExportsAreWhole
<1>3. ConnInv'
  BY <1>1 DEF ConnInv, Conn
<1>4. KeptInv'
  BY DEF KeptInv
<1>5. RoomInv'
  <2>1. Occupied' \subseteq Occupied /\ Databases \in SUBSET Files /\ Occupied \in SUBSET Files
    BY <1>1 DEF Databases, Occupied, Journals, Open
  <2>2. /\ Load(Databases', Occupied') <= Load(Databases, Occupied)
        /\ Load(Databases', Occupied') \in Nat /\ Load(Databases, Occupied) \in Nat
    BY <2>1, Fits
  <2> QED
    BY <1>1, <2>2 DEF RoomInv, Load, Inv, TypeOK
<1> QED
  BY <1>2, <1>3, <1>4, <1>5 DEF Inv

LEMMA TerminateKeepsInv ==
  ASSUME Inv, Terminate PROVE Inv'
<1>1. TypeOK' /\ Dies /\ UNCHANGED <<pool, acked>> /\ lost' = lost \cup BeingReplaced
  BY WorkerTypes DEF Inv, Terminate
<1>2. Databases' = Databases /\ Journals' = Journals
  BY <1>1 DEF Databases, Journals
<1>3. \A f \in Files : f \notin lost' => (acked[f] # Torn /\ Kept(f))'
  BY <1>1 DEF Inv, KeptInv, Kept
<1> QED
  BY <1>1, <1>2, <1>3, DeathKeepsInv

LEMMA WritesKeepInv ==
  ASSUME Inv, NEW f \in Files, BeginWrite(f) \/ CommitWrite(f) \/ RollbackWrite(f)
  PROVE  Inv'
<1>1. TypeOK'
  BY ConnectionTypes DEF Inv
<1>2. conns[f] \in {"idle", "writing"} /\ UNCHANGED <<queue, snapshot, lost>>
  BY DEF BeginWrite, CommitWrite, RollbackWrite
<1>3. Started => {f} \cap Head(queue).targets = {}
  BY <1>2, OpenIsElsewhere
<1>4. Absent # Torn /\ Absent # Fresh /\ Absent # Written /\ Torn # Fresh /\ Torn # Written
  BY DEF Absent, Torn, Fresh, Written
<1>5. /\ pool.content[f] # Absent
      /\ conns[f] = "idle" => pool.journal[f] = Absent
      /\ conns[f] = "writing" => pool.journal[f] # Absent /\ pool.content[f] = Torn
  BY <1>2 DEF Inv, ConnInv, Conn
<1>6. f \notin lost => acked[f] # Torn /\ Kept(f)
  BY <1>3, BeingReplacedIs DEF Inv, KeptInv
<1>7. /\ pool'.capacity = pool.capacity
      /\ \A g \in Files \ {f} : /\ pool'.content[g] = pool.content[g]
                                /\ pool'.journal[g] = pool.journal[g]
                                /\ conns'[g] = conns[g] /\ acked'[g] = acked[g]
      /\ pool'.content[f] # Absent /\ conns'[f] # "closed"
      /\ Conn(f)'
      /\ f \notin lost => (acked[f] # Torn /\ Kept(f))'
  <2>1. CASE BeginWrite(f)
    BY <1>4, <1>5, <1>6, <2>1 DEF BeginWrite, Inv, TypeOK, Conn, Kept
  <2>2. CASE CommitWrite(f)
    BY <1>4, <1>5, <1>6, <2>2 DEF CommitWrite, Inv, TypeOK, Conn, Kept
  <2>3. CASE RollbackWrite(f)
    <3>1. /\ pool'.capacity = pool.capacity
          /\ \A g \in Files \ {f} : /\ pool'.content[g] = pool.content[g]
                                    /\ pool'.journal[g] = pool.journal[g]
          /\ pool'.content[f] = pool.journal[f] /\ pool'.journal[f] = Absent
      BY <2>3, ClosedIs DEF RollbackWrite, Inv
    <3> QED
      BY <1>4, <1>5, <1>6, <2>3, <3>1 DEF RollbackWrite, Inv, TypeOK, Conn, Kept
  <2> QED
    BY <2>1, <2>2, <2>3
<1>8. Databases' \subseteq Databases /\ Occupied' \subseteq Occupied
  BY <1>2, <1>5, <1>7 DEF Databases, Occupied, Journals, Open
<1>9. StepInv' /\ ConnInv' /\ KeptInv' /\ ReplacementInv' /\ RoomInv'
  BY <1>2, <1>3, <1>7, <1>8, Elsewhere
<1> QED
  BY <1>1, <1>2, <1>9, NoTornImage DEF Inv

\* One file gets another content.
LEMMA OneFile ==
  ASSUME Inv, NEW f \in Files, NEW image \in Images, pool' = [pool EXCEPT !.content[f] = image]
  PROVE  /\ pool' \in Pools /\ pool'.capacity = pool.capacity
         /\ \A g \in Files : /\ pool'.content[g] = IF g = f THEN image ELSE pool.content[g]
                             /\ pool'.journal[g] = pool.journal[g]
         /\ Databases' \subseteq Databases \cup {f}
<1>1. pool \in Pools
  BY DEF Inv, TypeOK, Pools
<1>2. /\ pool' \in Pools /\ pool'.capacity = pool.capacity
      /\ \A g \in Files : /\ pool'.content[g] = IF g = f THEN image ELSE pool.content[g]
                          /\ pool'.journal[g] = pool.journal[g]
  BY <1>1 DEF Pools
<1> QED
  BY <1>2 DEF Databases

\* A reset leaves an empty file, none or what was there, of which somebody is told.
LEMMA ResetTo ==
  ASSUME Inv, TypeOK', NEW f \in Files, conns[f] = "idle",
         NEW left \in {pool.content[f], Absent, Fresh}, pool' = [pool EXCEPT !.content[f] = left],
         \A g \in Files \ {f} : acked'[g] = acked[g] /\ (g \in lost => g \in lost'),
         f \notin lost' => acked'[f] = left /\ left # Torn,
         \/ Dies /\ BeingReplaced \subseteq lost'
         \/ /\ UNCHANGED <<queue, snapshot>>
            /\ \/ conns' = [conns EXCEPT ![f] = "dead"]
               \/ conns' = conns /\ left # Absent
  PROVE  Inv'
<1>1. /\ pool.content[f] # Absent /\ pool.journal[f] = Absent /\ left \in Images
      /\ pool \in Pools /\ conns \in [Files -> {"closed", "idle", "writing", "dead"}]
  BY DEF Inv, ConnInv, Conn, TypeOK, Pools, Images
<1>2. /\ pool'.capacity = pool.capacity
      /\ \A g \in Files : /\ pool'.content[g] = IF g = f THEN left ELSE pool.content[g]
                          /\ pool'.journal[g] = pool.journal[g]
  BY <1>1, OneFile
<1>3. f \notin lost' => (acked[f] # Torn /\ Kept(f))'
  BY <1>1, <1>2 DEF Kept
<1>4. Databases' \subseteq Databases /\ Journals' = Journals
  BY <1>1, <1>2 DEF Databases, Journals
<1>5. CASE Dies /\ BeingReplaced \subseteq lost'
  <2>1. ASSUME NEW g \in Files, g \notin lost' PROVE (acked[g] # Torn /\ Kept(g))'
    <3>1. CASE g = f
      BY <1>3, <2>1, <3>1
    <3>2. CASE g # f
      BY <1>2, <1>5, <2>1, <3>2 DEF Inv, KeptInv, Kept
    <3> QED
      BY <3>1, <3>2
  <2> QED
    BY <1>2, <1>4, <1>5, <2>1, DeathKeepsInv
<1>6. CASE /\ UNCHANGED <<queue, snapshot>>
           /\ \/ conns' = [conns EXCEPT ![f] = "dead"]
              \/ conns' = conns /\ left # Absent
  <2>1. /\ \A g \in Files \ {f} : conns'[g] = conns[g]
        /\ conns'[f] = "dead" \/ (conns'[f] = "idle" /\ left # Absent)
    BY <1>1, <1>6
  <2>2. Conn(f)' /\ Occupied' = Occupied
    BY <1>1, <1>2, <1>4, <2>1 DEF Conn, Occupied, Open
  <2>3. Started => {f} \cap Head(queue).targets = {}
    BY OpenIsElsewhere
  <2>4. StepInv' /\ ConnInv' /\ KeptInv' /\ ReplacementInv' /\ RoomInv'
    <3>1. \A g \in Files \ {f} :
            /\ pool'.content[g] = pool.content[g] /\ pool'.journal[g] = pool.journal[g]
            /\ conns'[g] = conns[g] /\ acked'[g] = acked[g]
            /\ g \in lost => g \in lost'
      BY <1>2, <2>1
    <3>2. \A g \in {f} : Conn(g)' /\ (g \notin lost' => (acked[g] # Torn /\ Kept(g))')
      BY <1>3, <2>2
    <3>3. {f} \in SUBSET Files /\ Databases' \subseteq Databases /\ Occupied' \subseteq Occupied
      BY <1>4, <2>2
    <3> QED
      BY <1>2, <1>6, <2>3, <3>1, <3>2, <3>3, Elsewhere
  <2> QED
    BY <1>6, <2>4, NoTornImage DEF Inv
<1> QED
  BY <1>5, <1>6

LEMMA ResetsKeepInv ==
  ASSUME Inv, NEW f \in Files, Reset(f) \/ ResetFails(f) PROVE Inv'
<1>1. TypeOK' /\ conns[f] = "idle"
  BY ConnectionTypes DEF Inv, Reset, ResetFails
<1>2. /\ acked \in [Files -> Images] /\ pool.journal[f] = Absent
      /\ Fresh # Torn /\ Absent # Torn /\ Absent # Fresh
  BY <1>1 DEF Inv, TypeOK, ConnInv, Conn, Fresh, Absent, Torn
<1>3. f \notin lost => acked[f] = pool.content[f] /\ acked[f] # Torn
  <2>1. f \notin BeingReplaced
    BY <1>1, OpenIsElsewhere, BeingReplacedIs DEF Inv
  <2> QED
    BY <1>2, <2>1 DEF Inv, KeptInv, Kept
<1>4. CASE Reset(f)
  <2>1. /\ \A g \in Files \ {f} : acked'[g] = acked[g] /\ (g \in lost => g \in lost')
        /\ acked'[f] = Fresh /\ pool' = [pool EXCEPT !.content[f] = Fresh]
        /\ UNCHANGED <<queue, snapshot, conns>>
    BY <1>2, <1>4 DEF Reset
  <2> QED
    BY <1>1, <1>2, <2>1, ResetTo
<1>5. CASE ResetFails(f)
  <2>1. PICK left \in {pool.content[f], Absent, Fresh} :
          LET here == IF left = pool.content[f] THEN lost ELSE lost \ {f} IN
          /\ pool' = [pool EXCEPT !.content[f] = left]
          /\ acked' = IF left = pool.content[f] THEN acked ELSE [acked EXCEPT ![f] = left]
          /\ \/ /\ conns' = [conns EXCEPT ![f] = "dead"] /\ lost' = here
                /\ UNCHANGED <<installed, held, queue, snapshot>>
             \/ Dies /\ lost' = here \cup BeingReplaced
    BY <1>5 DEF ResetFails
  <2>2. \A g \in Files \ {f} : acked'[g] = acked[g] /\ (g \in lost => g \in lost')
    BY <1>2, <2>1
  <2>3. f \notin lost' => acked'[f] = left /\ left # Torn
    BY <1>2, <1>3, <2>1
  <2>4. \/ Dies /\ BeingReplaced \subseteq lost'
        \/ UNCHANGED <<queue, snapshot>> /\ conns' = [conns EXCEPT ![f] = "dead"]
    BY <2>1
  <2> QED
    BY <1>1, <2>1, <2>2, <2>3, <2>4, ResetTo
<1> QED
  BY <1>4, <1>5

LEMMA CloseKeepsInv ==
  ASSUME Inv, NEW p \in Prefixes, CloseStorage(p) PROVE Inv'
<1> DEFINE s == Of(p) \cap Open
<1>1. TypeOK'
  BY ConnectionTypes DEF Inv
<1>2. UNCHANGED <<queue, snapshot, lost, acked>> /\ s \in SUBSET Files /\ Of(p) \in SUBSET Files
  BY DEF CloseStorage, Of
<1>3. Started => s \cap Head(queue).targets = {}
  BY DEF Inv, ReplacementInv, Started
<1>4. \A f \in Files : /\ conns'[f] = IF f \in Of(p) THEN "closed" ELSE conns[f]
                       /\ f \in s <=> f \in Of(p) /\ conns[f] # "closed"
  BY <1>2 DEF CloseStorage, Disconnected, Open
<1>5. /\ pool'.capacity = pool.capacity
      /\ \A f \in Files :
           LET undone == f \in Of(p) /\ conns[f] = "writing" IN
           /\ pool'.content[f] = IF undone THEN pool.journal[f] ELSE pool.content[f]
           /\ pool'.journal[f] = IF undone THEN Absent ELSE pool.journal[f]
  BY <1>2, ClosedIs DEF CloseStorage, Inv
<1>6. \A f \in Files \ s :
        /\ pool'.content[f] = pool.content[f] /\ pool'.journal[f] = pool.journal[f]
        /\ conns'[f] = conns[f]
  BY <1>4, <1>5
<1>7. ASSUME NEW f \in s
      PROVE  Conn(f)' /\ (f \notin lost' => (acked[f] # Torn /\ Kept(f))')
  <2>1. f \notin lost => acked[f] # Torn /\ Kept(f)
    BY <1>2, <1>3, <1>7, BeingReplacedIs DEF Inv, KeptInv
  <2>2. Conn(f)
    BY <1>2, <1>7 DEF Inv, ConnInv, Conn
  <2> QED
    BY <1>2, <1>4, <1>5, <1>7, <2>1, <2>2 DEF Conn, Kept
<1>8. Databases' \subseteq Databases /\ Occupied' \subseteq Occupied
  BY <1>4, <1>5 DEF Databases, Occupied, Journals, Open, Inv, ConnInv, Conn
<1>9. StepInv' /\ ConnInv' /\ KeptInv' /\ ReplacementInv' /\ RoomInv'
  BY <1>2, <1>3, <1>5, <1>6, <1>7, <1>8, Elsewhere
<1> QED
  BY <1>1, <1>2, <1>9, NoTornImage DEF Inv

\* Files of one prefix are unlinked: what is left of them is whole, or it is lost.
LEMMA UnlinksIs ==
  ASSUME Inv, NEW p \in Prefixes, NEW dbs \in SUBSET Of(p), NEW sides \in SUBSET Of(p),
         Unlinks(p, dbs, sides), (lost \ dbs) \cup Orphaned(dbs, sides) \subseteq lost'
  PROVE  /\ pool'.capacity = pool.capacity
         /\ Databases' \subseteq Databases /\ Journals' \subseteq Journals
         /\ Started => Of(p) \cap Head(queue).targets = {}
         /\ \A f \in Files \ Of(p) :
              /\ pool'.content[f] = pool.content[f] /\ pool'.journal[f] = pool.journal[f]
              /\ acked'[f] = acked[f] /\ (f \in lost => f \in lost')
         /\ \A f \in Of(p) : f \notin lost' => (acked[f] # Torn /\ Kept(f))'
<1>1. Of(p) \in SUBSET Files /\ dbs \in SUBSET Files /\ sides \in SUBSET Files /\ TypeOK
  BY DEF Of, Inv
<1>2. /\ Closed(Of(p)) \in Pools /\ Closed(Of(p)).capacity = pool.capacity
      /\ \A f \in Files :
           LET undone == f \in Of(p) /\ conns[f] = "writing" IN
           /\ Closed(Of(p)).content[f] = IF undone THEN pool.journal[f] ELSE pool.content[f]
           /\ Closed(Of(p)).journal[f] = IF undone THEN Absent ELSE pool.journal[f]
  BY <1>1, ClosedIs
<1>3. /\ pool' = Without(Closed(Of(p)), dbs, sides)
      /\ acked' = [f \in Files |-> IF f \in dbs THEN Absent ELSE acked[f]]
  BY DEF Unlinks
<1>4. /\ pool'.capacity = pool.capacity
      /\ \A f \in Files :
           LET undone == f \in Of(p) /\ conns[f] = "writing" IN
           /\ pool'.content[f] = IF f \in dbs THEN Absent
                  ELSE IF undone THEN pool.journal[f] ELSE pool.content[f]
           /\ pool'.journal[f] = IF f \in sides \/ undone THEN Absent ELSE pool.journal[f]
  <2> DEFINE q == Closed(Of(p))
  <2>1. /\ q \in Pools /\ q.capacity = pool.capacity /\ pool' = Without(q, dbs, sides)
        /\ \A f \in Files :
             LET undone == f \in Of(p) /\ conns[f] = "writing" IN
             /\ q.content[f] = IF undone THEN pool.journal[f] ELSE pool.content[f]
             /\ q.journal[f] = IF undone THEN Absent ELSE pool.journal[f]
    BY <1>2, <1>3
  <2> HIDE DEF q
  <2>2. /\ Without(q, dbs, sides).capacity = q.capacity
        /\ \A f \in Files :
             /\ Without(q, dbs, sides).content[f] = IF f \in dbs THEN Absent ELSE q.content[f]
             /\ Without(q, dbs, sides).journal[f] = IF f \in sides THEN Absent ELSE q.journal[f]
    <3>1. q \in Pools /\ dbs \in SUBSET Files /\ sides \in SUBSET Files
      BY <1>1, <2>1
    <3> QED
      BY <3>1 DEF Without, Pools, Images
  <2>3. ASSUME NEW f \in Files
        PROVE  LET undone == f \in Of(p) /\ conns[f] = "writing" IN
               /\ pool'.content[f] = IF f \in dbs THEN Absent
                      ELSE IF undone THEN pool.journal[f] ELSE pool.content[f]
               /\ pool'.journal[f] = IF f \in sides \/ undone THEN Absent ELSE pool.journal[f]
    <3>1. pool'.content[f] = IF f \in dbs THEN Absent ELSE q.content[f]
      BY <2>1, <2>2
    <3>2. pool'.journal[f] = IF f \in sides THEN Absent ELSE q.journal[f]
      BY <2>1, <2>2
    <3> QED
      BY <2>1, <3>1, <3>2
  <2>4. pool'.capacity = pool.capacity
    BY <2>1, <2>2
  <2> QED
    BY <2>3, <2>4
<1>5. Started => Of(p) \cap Head(queue).targets = {}
  <2>1. ASSUME Started PROVE Head(queue) = queue[1] /\ 1 \in DOMAIN queue
    BY <1>1, <2>1, HeadOfQueue, LenProperties DEF Started, TypeOK
  <2> QED
    BY <2>1 DEF Unlinks, About
<1>6. ASSUME NEW f \in Of(p), f \notin lost' PROVE (acked[f] # Torn /\ Kept(f))'
  <2>0. f \in Files /\ Absent # Torn /\ Fresh # Torn
    BY <1>1, <1>6 DEF Absent, Torn, Fresh
  <2>1. CASE f \in dbs
    BY <1>3, <1>4, <2>0, <2>1 DEF Kept
  <2>2. CASE f \notin dbs
    <3>1. f \notin lost /\ f \notin Orphaned(dbs, sides)
      BY <1>6, <2>2
    <3>2. acked[f] # Torn /\ Kept(f) /\ Conn(f)
      BY <1>1, <1>5, <1>6, <2>0, <3>1, BeingReplacedIs DEF Inv, KeptInv, ConnInv
    <3>3. acked'[f] = acked[f]
      BY <1>3, <2>0, <2>2
    <3>4. CASE conns[f] = "writing"
      BY <1>4, <1>6, <2>0, <2>2, <3>2, <3>3, <3>4 DEF Kept, Conn
    <3>5. CASE conns[f] # "writing" /\ f \in sides /\ pool.journal[f] # Absent
      <4>1. pool.content[f] # Torn
        BY <2>2, <3>1, <3>5 DEF Orphaned
      <4> QED
        BY <1>4, <2>0, <2>2, <3>2, <3>3, <3>5, <4>1 DEF Kept
    <3>6. CASE conns[f] # "writing" /\ (f \notin sides \/ pool.journal[f] = Absent)
      <4>1. pool'.content[f] = pool.content[f] /\ pool'.journal[f] = pool.journal[f]
        BY <1>4, <2>0, <2>2, <3>6
      <4> QED
        BY <3>2, <3>3, <4>1 DEF Kept
    <3> QED
      BY <3>4, <3>5, <3>6
  <2> QED
    BY <2>1, <2>2
<1>7. Databases' \subseteq Databases /\ Journals' \subseteq Journals
  BY <1>4 DEF Databases, Journals, Inv, ConnInv, Conn, Absent, Torn
<1>8. \A f \in Files \ Of(p) :
        /\ pool'.content[f] = pool.content[f] /\ pool'.journal[f] = pool.journal[f]
        /\ acked'[f] = acked[f] /\ (f \in lost => f \in lost')
  BY <1>3, <1>4
<1> QED
  BY <1>4, <1>5, <1>6, <1>7, <1>8

LEMMA DeletionKeepsInv ==
  ASSUME Inv, TypeOK', NEW p \in Prefixes, NEW dbs \in SUBSET Of(p), NEW sides \in SUBSET Of(p),
         Unlinks(p, dbs, sides), (lost \ dbs) \cup Orphaned(dbs, sides) \subseteq lost',
         conns' = Disconnected(Of(p)), UNCHANGED <<queue, snapshot>>
  PROVE  Inv'
<1>1. Of(p) \in SUBSET Files /\ \A f \in Files : conns'[f] = IF f \in Of(p) THEN "closed" ELSE conns[f]
  BY DEF Of, Disconnected
<1>2. Occupied' \subseteq Occupied
  BY <1>1, UnlinksIs DEF Occupied, Open
<1>3. \A f \in Of(p) : Conn(f)'
  BY <1>1 DEF Conn
<1>4. StepInv' /\ ConnInv' /\ KeptInv' /\ ReplacementInv' /\ RoomInv'
  BY <1>1, <1>2, <1>3, UnlinksIs, Elsewhere
<1> QED
  BY <1>4, NoTornImage DEF Inv

LEMMA DeleteKeepsInv ==
  ASSUME Inv, NEW p \in Prefixes, DeleteStorage(p) \/ DeletionCutOff(p) PROVE Inv'
<1>0. TypeOK' /\ Of(p) \in SUBSET Of(p)
  BY ConnectionTypes DEF Inv
<1>1. CASE DeleteStorage(p)
  <2>1. (lost \ Of(p)) \cup Orphaned(Of(p), Of(p)) \subseteq lost'
    BY <1>1 DEF DeleteStorage, Orphaned
  <2> QED
    BY <1>0, <1>1, <2>1, DeletionKeepsInv DEF DeleteStorage
<1>2. CASE DeletionCutOff(p)
  <2>1. PICK dbs \in SUBSET (Of(p) \cap Databases), sides \in SUBSET (Of(p) \cap Journals) :
          /\ Unlinks(p, dbs, sides)
          /\ \/ /\ conns' = Disconnected(Of(p)) /\ lost' = (lost \ dbs) \cup Orphaned(dbs, sides)
                /\ UNCHANGED <<installed, held, queue, snapshot>>
             \/ /\ Dies /\ lost' = (lost \ dbs) \cup Orphaned(dbs, sides) \cup BeingReplaced
    BY <1>2 DEF DeletionCutOff
  <2>2. dbs \in SUBSET Of(p) /\ sides \in SUBSET Of(p)
        /\ (lost \ dbs) \cup Orphaned(dbs, sides) \subseteq lost'
    BY <2>1
  <2>3. CASE conns' = Disconnected(Of(p)) /\ UNCHANGED <<queue, snapshot>>
    BY <1>0, <2>1, <2>2, <2>3, DeletionKeepsInv
  <2>4. CASE Dies /\ BeingReplaced \subseteq lost'
    <3>1. ASSUME NEW f \in Files, f \notin Of(p), f \notin lost'
          PROVE  (acked[f] # Torn /\ Kept(f))'
      <4>1. f \notin lost /\ f \notin BeingReplaced
        BY <2>2, <2>4, <3>1
      <4>2. acked[f] # Torn /\ Kept(f)
        BY <3>1, <4>1 DEF Inv, KeptInv
      <4>3. /\ pool'.content[f] = pool.content[f] /\ pool'.journal[f] = pool.journal[f]
            /\ acked'[f] = acked[f]
        BY <2>1, <2>2, <3>1, UnlinksIs
      <4> QED
        BY <4>2, <4>3 DEF Kept
    <3>2. \A f \in Files : f \notin lost' => (acked[f] # Torn /\ Kept(f))'
      BY <2>1, <2>2, <3>1, UnlinksIs
    <3>3. /\ pool'.capacity = pool.capacity
          /\ Databases' \subseteq Databases /\ Journals' \subseteq Journals
      BY <2>1, <2>2, UnlinksIs
    <3> QED
      BY <1>0, <2>4, <3>2, <3>3, DeathKeepsInv
  <2> QED
    BY <2>1, <2>3, <2>4
<1> QED
  BY <1>1, <1>2

-----------------------------------------------------------------------------
(***************************************************************************)
(* Exports, and the steps that are queued.                                 *)
(***************************************************************************)

\* What an export or a clone reads is no half transaction.
LEMMA WhatIsReadIsWhole ==
  ASSUME Inv, NEW s \in SUBSET Files, Stable(s), NoReplacementOf(s)
  PROVE  \A f \in s \ lost : pool.content[f] # Torn
<1>1. s \cap BeingReplaced = {}
  <2>1. ASSUME Started PROVE Head(queue) = queue[1] /\ 1 \in DOMAIN queue /\ 1 \in 1..Len(queue)
    BY <2>1, HeadOfQueue, LenProperties DEF Started, Inv, TypeOK
  <2>2. ASSUME Started PROVE s \cap Head(queue).targets = {}
    BY <2>1, <2>2 DEF NoReplacementOf, Inv, StepInv, StepOk, Started
  <2> QED
    BY <2>2, BeingReplacedIs DEF Inv
<1>2. ASSUME NEW f \in s \ lost PROVE pool.content[f] # Torn
  <2>1. acked[f] # Torn /\ Kept(f)
    BY <1>1, <1>2 DEF Inv, KeptInv
  <2>2. pool.journal[f] = Absent
    BY <1>2 DEF Stable, Journals
  <2> QED
    BY <2>1, <2>2 DEF Kept
<1> QED
  BY <1>2

LEMMA ExportKeepsInv ==
  ASSUME Inv, NEW p \in Prefixes, ExportSnapshot(p) PROVE Inv'
<1>1. UNCHANGED <<pool, conns, queue, acked, lost>> /\ TypeOK'
  BY ConnectionTypes DEF ExportSnapshot, Inv
<1>2. Of(p) \in SUBSET Files
  BY DEF Of
<1>3. \A f \in Of(p) \ lost : pool.content[f] # Torn
  BY <1>2, WhatIsReadIsWhole DEF ExportSnapshot
<1>4. \A f \in Files \ snapshot'.lost : snapshot'.image[f] # Torn
  BY <1>2, <1>3, ImagesOfIs DEF ExportSnapshot, Inv, Absent, Torn
<1>5. ExportsAreWhole'
  BY <1>1, <1>4 DEF Inv, ExportsAreWhole
<1> QED
  BY <1>1, <1>5, NowhereElse DEF Inv

LEMMA ExportPoolKeepsInv ==
  ASSUME Inv, ExportPool PROVE Inv'
<1>1. TypeOK' /\ UNCHANGED <<conns, queue, acked, lost>> /\ queue = <<>> /\ Open = {}
  BY ConnectionTypes DEF ExportPool, Inv, TypeOK
<1>2. /\ pool'.capacity = pool.capacity
      /\ \A f \in Files :
           LET hot == pool.content[f] # Absent /\ pool.journal[f] # Absent IN
           /\ pool'.content[f] =
                  IF hot /\ pool.content[f] # Fresh THEN pool.journal[f] ELSE pool.content[f]
           /\ pool'.journal[f] = IF hot THEN Absent ELSE pool.journal[f]
  BY RecoveredIs DEF ExportPool, Inv, TypeOK, Pools
<1>3. ~Started /\ BeingReplaced = {}
  BY <1>1 DEF Started, BeingReplaced
<1>4. \A f \in Files : conns[f] = "closed" /\ (f \notin lost => acked[f] # Torn /\ Kept(f))
  BY <1>1, <1>3 DEF Inv, KeptInv, Open
<1>5. \A f \in Files \ lost : pool'.content[f] = acked[f]
  BY <1>2, <1>4 DEF Kept, Absent, Torn, Fresh
<1>6. \A f \in Files : Conn(f)' /\ (f \notin lost => (acked[f] # Torn /\ Kept(f))')
  <2>1. ASSUME NEW f \in Files, f \notin lost PROVE Kept(f)'
    <3>1. pool'.content[f] = Absent \/ pool'.journal[f] = Absent
      BY <1>2, <2>1
    <3> QED
      BY <1>1, <1>5, <2>1, <3>1 DEF Kept
  <2> QED
    BY <1>1, <1>4, <2>1 DEF Conn
<1>7. Databases' \subseteq Databases /\ Occupied' \subseteq Occupied
  BY <1>1, <1>2 DEF Databases, Occupied, Journals, Open
<1>8. StepInv' /\ ConnInv' /\ KeptInv' /\ ReplacementInv' /\ RoomInv'
  BY <1>1, <1>2, <1>3, <1>6, <1>7, Elsewhere
<1>9. \A f \in Files \ snapshot'.lost : snapshot'.image[f] # Torn
  BY <1>1, <1>4, <1>5 DEF ExportPool, Inv, ExportsAreWhole
<1>10. ExportsAreWhole'
  BY <1>1, <1>9 DEF Inv, ExportsAreWhole
<1> QED
  BY <1>1, <1>8, <1>10 DEF Inv

\* A step joins the queue.
LEMMA EnqueueKeepsInv ==
  ASSUME Inv, TypeOK', NEW step \in Steps, Enqueue(step), step.stage = "queued", StepOk(step),
         WholeImage(step), snapshot' \in {snapshot, NoSnapshot}
  PROVE  Inv'
<1>1. UNCHANGED <<pool, conns, acked, lost>> /\ queue' = Append(queue, step)
  BY DEF Enqueue
<1>2. StepInv'
  BY <1>1, StepInvAppend DEF Inv
<1>3. /\ queue' # <<>> /\ Len(queue') = Len(queue) + 1 /\ Len(queue) \in Nat
      /\ \A i \in 1..Len(queue') : i \in 1..Len(queue) \/ i = Len(queue) + 1
      /\ \A i \in 1..Len(queue) : queue'[i] = queue[i]
      /\ queue'[Len(queue) + 1] = step
      /\ Head(queue') = IF queue = <<>> THEN step ELSE Head(queue)
  BY <1>1, AfterAppend DEF Inv
<1>4. Started' = Started /\ BeingReplaced' = BeingReplaced
  BY <1>3 DEF Started, BeingReplaced, Replacing
<1>5. ConnInv' /\ KeptInv'
  BY <1>1, <1>4 DEF Inv, ConnInv, Conn, KeptInv, Kept
<1>6. ReplacementInv'
  <2>1. CASE ~Started
    BY <1>4, <2>1 DEF Started, ReplacementInv
  <2>2. CASE Started
    <3>1. Head(queue') = Head(queue)
      BY <1>3, <2>2 DEF Started
    <3> QED
      BY <1>1, <2>2, <3>1 DEF Inv, ReplacementInv, Started, Imaged, Originals, Replacing, Open,
                              Journals, Databases
  <2> QED
    BY <2>1, <2>2
<1>7. RoomInv'
  <2>1. CASE queue = <<>>
    <3>1. Head(queue').stage = "queued"
      BY <1>3, <2>1
    <3> QED
      BY <1>1, <3>1 DEF Inv, RoomInv, Load, Databases, Occupied, Journals, Open, Replacing
  <2>2. CASE queue # <<>>
    <3>1. Head(queue') = Head(queue)
      BY <1>3, <2>2
    <3>2. pool' = pool /\ Databases' = Databases /\ Occupied' = Occupied
      BY <1>1 DEF Databases, Occupied, Journals, Open
    <3> QED
      BY <2>2, <3>1, <3>2 DEF Inv, RoomInv, Load, Replacing, Wanted, Joining, Imaged, Originals
  <2> QED
    BY <2>1, <2>2
<1>8. ExportsAreWhole'
  <2>1. DOMAIN queue' = 1..Len(queue') /\ DOMAIN queue = 1..Len(queue)
    BY LenProperties DEF TypeOK, Inv
  <2>2. \A f \in Files \ snapshot'.lost : snapshot'.image[f] # Torn
    BY DEF Inv, ExportsAreWhole, NoSnapshot, Absent, Torn
  <2>3. \A i \in 1..Len(queue') : WholeImage(queue'[i])
    BY <1>3, <2>1 DEF Inv, ExportsAreWhole, WholeImage
  <2> QED
    BY <2>1, <2>2, <2>3 DEF ExportsAreWhole, WholeImage
<1> QED
  BY <1>2, <1>5, <1>6, <1>7, <1>8 DEF Inv

LEMMA CallsKeepInv ==
  ASSUME Inv,
         \/ \E f \in Files : CallOpen(f)
         \/ \E p, from \in Prefixes : CallRestore(p, from)
         \/ \E p, from \in Prefixes : CallCopy(p, from)
         \/ CallImportPool
  PROVE  Inv'
<1>0. /\ TypeOK' /\ TypeOK
      /\ snapshot.image \in [Files -> Images] /\ NoSnapshot.image \in [Files -> Images]
      /\ \A p \in Prefixes : Of(p) \in SUBSET Files
      /\ snapshot.lost \in SUBSET Files /\ lost \in SUBSET Files /\ {} \in SUBSET Files
      /\ \A f \in Files \ snapshot.lost : snapshot.image[f] # Torn
      /\ \A f \in Files : NoSnapshot.image[f] # Torn /\ NoSnapshot.image[f] = Absent
  BY CallTypes DEF Inv, TypeOK, NoSnapshot, Images, Of, ExportsAreWhole, Absent, Torn
<1>1. ASSUME NEW f \in Files, CallOpen(f) PROVE Inv'
  <2> DEFINE step == Step("open", {f}, NoSnapshot.image, {})
  <2>1. /\ step \in Steps /\ Originals(step) = {} /\ Imaged(step) = {}
        /\ step.kind = "open" /\ step.stage = "queued" /\ step.targets = {f}
        /\ step.image = NoSnapshot.image
        /\ step.left = {} /\ step.touched = {} /\ Enqueue(step) /\ snapshot' = snapshot
    BY <1>0, <1>1, NewStep DEF Step, Imaged, CallOpen
  <2>2. StepOk(step) /\ WholeImage(step)
    BY <1>0, <2>1 DEF StepOk, Replacing, WholeImage
  <2> HIDE DEF step
  <2> QED
    BY <1>0, <2>1, <2>2, EnqueueKeepsInv
<1>2. ASSUME NEW p \in Prefixes, NEW from \in Prefixes, CallRestore(p, from) PROVE Inv'
  <2> DEFINE image == Renamed(snapshot.image, from, p)
             taken == RenamedSet(snapshot.lost, from, p)
             step  == Step("restore", Of(p), image, taken)
  <2>1. /\ image \in [Files -> Images] /\ taken \in SUBSET Files
        /\ \A f \in Files : image[f] # Absent => f \in Of(p)
        /\ \A f \in Files \ taken : image[f] # Torn
    <3>1. \A f \in Of(from) \ snapshot.lost : snapshot.image[f] # Torn
      BY <1>0 DEF Of
    <3> QED
      BY <1>0, <3>1, RenamedIsWhole
  <2> HIDE DEF image, taken
  <2>2. /\ step \in Steps /\ Originals(step) = {} /\ step.kind = "restore"
        /\ step.stage = "queued" /\ step.targets = Of(p) /\ step.image = image
        /\ step.lost = taken
        /\ step.left = {} /\ step.touched = {} /\ Enqueue(step) /\ snapshot' = NoSnapshot
    BY <1>0, <1>2, <2>1, NewStep DEF Step, CallRestore, image, taken
  <2>3. StepOk(step) /\ WholeImage(step)
    BY <2>1, <2>2 DEF StepOk, Replacing, Imaged, WholeImage
  <2> HIDE DEF step
  <2> QED
    BY <1>0, <2>1, <2>2, <2>3, EnqueueKeepsInv
<1>3. ASSUME NEW p \in Prefixes, NEW from \in Prefixes, CallCopy(p, from) PROVE Inv'
  <2> DEFINE read  == ImagesOf(Of(from))
             image == Renamed(read, from, p)
             taken == RenamedSet(lost, from, p)
             step  == Step("copy", Of(p), image, taken)
  <2>0. /\ read \in [Files -> Images] /\ lost \in SUBSET Files
        /\ \A f \in Of(from) \ lost : read[f] # Torn
    <3>1. \A f \in Of(from) : f \in Files /\ read[f] = pool.content[f]
      BY <1>0, <1>3, ImagesOfIs
    <3>2. \A f \in Of(from) \ lost : pool.content[f] # Torn
      BY <1>0, <1>3, WhatIsReadIsWhole DEF CallCopy
    <3> QED
      BY <1>0, <3>1, <3>2, ImagesOfIs
  <2> HIDE DEF read
  <2>1. /\ image \in [Files -> Images] /\ taken \in SUBSET Files
        /\ \A f \in Files : image[f] # Absent => f \in Of(p)
        /\ \A f \in Files \ taken : image[f] # Torn
    BY <1>3, <2>0, RenamedIsWhole
  <2> HIDE DEF image, taken
  <2>2. /\ step \in Steps /\ Originals(step) = {} /\ step.kind = "copy"
        /\ step.stage = "queued" /\ step.targets = Of(p) /\ step.image = image
        /\ step.lost = taken
        /\ step.left = {} /\ step.touched = {} /\ Enqueue(step) /\ snapshot' = snapshot
    BY <1>0, <1>3, <2>1, NewStep DEF Step, CallCopy, image, read, taken
  <2>3. StepOk(step) /\ WholeImage(step)
    BY <2>1, <2>2 DEF StepOk, Replacing, Imaged, WholeImage
  <2> HIDE DEF step
  <2> QED
    BY <1>0, <2>1, <2>2, <2>3, EnqueueKeepsInv
<1>4. ASSUME CallImportPool PROVE Inv'
  <2> DEFINE step == Step("pool", Files, snapshot.image, snapshot.lost)
  <2>1. /\ step \in Steps /\ Originals(step) = {} /\ step.kind = "pool"
        /\ step.stage = "queued" /\ step.targets = Files /\ step.image = snapshot.image
        /\ step.lost = snapshot.lost
        /\ step.left = {} /\ step.touched = {} /\ Enqueue(step) /\ snapshot' = NoSnapshot
    BY <1>0, <1>4, NewStep DEF Step, CallImportPool
  <2>2. StepOk(step) /\ WholeImage(step)
    BY <1>0, <2>1 DEF StepOk, Replacing, Imaged, WholeImage
  <2> HIDE DEF step
  <2> QED
    BY <1>0, <2>1, <2>2, EnqueueKeepsInv
<1> QED
  BY <1>1, <1>2, <1>3, <1>4

-----------------------------------------------------------------------------
(***************************************************************************)
(* The step that runs.                                                     *)
(***************************************************************************)

LEMMA RunningStep ==
  ASSUME Inv, NEW stage, Running(stage)
  PROVE  /\ queue # <<>> /\ Head(queue) \in Steps /\ Head(queue).stage = stage
         /\ StepOk(Head(queue))
         /\ WholeImage(Head(queue))
         /\ Head(queue).targets \in SUBSET Files
         /\ TypeOK /\ StepInv /\ pool \in Pools /\ Absent # Torn
<1>1. /\ queue # <<>> /\ Head(queue) \in Steps /\ Head(queue).stage = stage
      /\ Head(queue) = queue[1] /\ 1 \in 1..Len(queue)
  BY HeadOfQueue DEF Running, Inv
<1>2. 1 \in DOMAIN queue
  BY <1>1, LenProperties DEF Inv, TypeOK
<1> QED
  BY <1>1, <1>2 DEF Inv, StepInv, ExportsAreWhole, WholeImage, Steps, TypeOK, Pools, Absent, Torn

\* The step goes on as another one.
LEMMA GoesOn ==
  ASSUME Inv, queue # <<>>, NEW step \in Steps, Becomes(step), StepOk(step), UNCHANGED snapshot,
         WholeImage(step)
  PROVE  /\ queue' \in Seq(Steps) /\ queue' # <<>> /\ Head(queue') = step
         /\ StepInv' /\ ExportsAreWhole'
<1>1. TypeOK /\ StepInv /\ ExportsAreWhole
  BY DEF Inv
<1>2. /\ queue' \in Seq(Steps) /\ queue' # <<>> /\ Len(queue') = Len(queue)
      /\ Head(queue') = step /\ queue'[1] = step
      /\ \A i \in 1..Len(queue') : i > 1 => queue'[i] = queue[i]
  BY <1>1, AfterBecomes
<1>3. DOMAIN queue' = 1..Len(queue') /\ DOMAIN queue = 1..Len(queue) /\ Len(queue) \in Nat
  BY <1>1, <1>2, LenProperties DEF TypeOK
<1>4. \A i \in 1..Len(queue') : WholeImage(queue'[i])
  <2>1. ASSUME NEW i \in 1..Len(queue') PROVE WholeImage(queue'[i])
    <3>1. i = 1 \/ (i > 1 /\ i \in DOMAIN queue)
      BY <1>2, <1>3
    <3> QED
      BY <1>1, <1>2, <3>1 DEF ExportsAreWhole, WholeImage
  <2> QED
    BY <2>1
<1> QED
  BY <1>1, <1>2, <1>3, <1>4, StepInvBecomes DEF ExportsAreWhole, WholeImage

\* The step is over, and nothing of it is left.
LEMMA IsOver ==
  ASSUME Inv, queue # <<>>, Ends, UNCHANGED snapshot, Load(Databases', Occupied') <= pool'.capacity
  PROVE  /\ queue' \in Seq(Steps) /\ BeingReplaced' = {}
         /\ StepInv' /\ ReplacementInv' /\ ExportsAreWhole' /\ RoomInv'
<1>1. TypeOK /\ StepInv /\ ExportsAreWhole
  BY DEF Inv
<1>2. /\ queue' \in Seq(Steps)
      /\ \A i \in 1..Len(queue') : queue'[i] = queue[i + 1] /\ i + 1 \in 1..Len(queue)
      /\ StepInv' /\ BeingReplaced' = {} /\ ReplacementInv'
      /\ queue' # <<>> => Head(queue').stage = "queued"
  BY <1>1, AfterEnds
<1>3. DOMAIN queue' = 1..Len(queue') /\ DOMAIN queue = 1..Len(queue)
  BY <1>1, <1>2, LenProperties DEF TypeOK
<1>4. ExportsAreWhole'
  BY <1>1, <1>2, <1>3 DEF ExportsAreWhole
<1>5. RoomInv'
  BY <1>2 DEF RoomInv, Replacing, Load
<1> QED
  BY <1>2, <1>4, <1>5

\* The slots of what was there are enough for less.
LEMMA LessIsEnough ==
  ASSUME Inv, Databases' \subseteq Databases, Occupied' \subseteq Occupied,
         pool'.capacity \in Nat, pool'.capacity >= pool.capacity
  PROVE  Load(Databases', Occupied') <= pool'.capacity
<1>1. Databases \in SUBSET Files /\ Occupied \in SUBSET Files
  BY DEF Databases, Occupied, Journals, Open
<1>2. /\ Load(Databases', Occupied') <= Load(Databases, Occupied)
      /\ Load(Databases', Occupied') \in Nat /\ Load(Databases, Occupied) \in Nat
  BY <1>1, Fits
<1> QED
  BY <1>2 DEF Inv, RoomInv, TypeOK

LEMMA GrowFailsKeepsInv ==
  ASSUME Inv, GrowFails PROVE Inv'
<1>1. UNCHANGED <<pool, conns, acked, lost, snapshot>> /\ Ends /\ Running("growing")
  BY DEF GrowFails
<1>2. queue # <<>> /\ Head(queue).stage = "growing"
  BY <1>1 DEF Running
<1>3. Load(Databases', Occupied') <= pool'.capacity
  BY <1>1, LessIsEnough DEF Databases, Occupied, Journals, Open, Inv, TypeOK
<1>4. /\ queue' \in Seq(Steps) /\ BeingReplaced' = {}
      /\ StepInv' /\ ReplacementInv' /\ ExportsAreWhole' /\ RoomInv'
  BY <1>1, <1>2, <1>3, IsOver
<1>5. TypeOK'
  BY <1>4, FaultIsTyped DEF GrowFails, Inv, TypeOK
<1>6. BeingReplaced = {}
  BY <1>2 DEF BeingReplaced
<1>7. ConnInv' /\ KeptInv'
  BY <1>1, <1>4, <1>6 DEF Inv, ConnInv, Conn, KeptInv, Kept
<1> QED
  BY <1>4, <1>5, <1>7 DEF Inv

\* What is counted is enough for what the step adds.
LEMMA NeedIsEnough ==
  ASSUME Inv, queue # <<>>, StepOk(Head(queue)), Head(queue).stage = "queued", Head(queue) \in Steps
  PROVE  /\ Need(Head(queue)) \in Nat
         /\ Load(Databases \cup Wanted(Head(queue)), Occupied \cup Joining(Head(queue)))
                <= Need(Head(queue))
<1> DEFINE step == Head(queue)
<1>1. /\ step.targets \in SUBSET Files /\ Originals(step) = {}
      /\ step.kind = "open" => Imaged(step) = {} /\ \E f \in Files : step.targets = {f}
  BY DEF StepOk, Steps, Replacing
<1>2. Imaged(step) = {f \in Files : step.image[f] # Absent}
  BY DEF Imaged
<1> HIDE DEF step
<1>3. /\ IsFiniteSet(Databases) /\ IsFiniteSet(Journals) /\ IsFiniteSet(Open)
      /\ IsFiniteSet(Imaged(step)) /\ IsFiniteSet(step.targets)
  BY <1>1, FilesAreFinite, FS_Subset DEF Databases, Journals, Open, Imaged
<1>4. PICK d \in Nat, j \in Nat, o \in Nat :
        d = Cardinality(Databases) /\ j = Cardinality(Journals) /\ o = Cardinality(Open)
  BY <1>3, FS_CardinalityType
<1>5. Cardinality(Occupied) \in Nat /\ Cardinality(Occupied) <= j + o /\ IsFiniteSet(Occupied)
  <2>1. /\ IsFiniteSet(Occupied)
        /\ Cardinality(Occupied) = j + o - Cardinality(Journals \cap Open)
    BY <1>3, <1>4, FS_Union DEF Occupied
  <2>2. Cardinality(Journals \cap Open) \in Nat
    BY <1>3, FS_Intersection, FS_CardinalityType
  <2>3. Cardinality(Occupied) \in Nat
    BY <2>1, FS_CardinalityType
  <2> QED
    BY <2>1, <2>2, <2>3
<1>6. PICK c \in Nat : c = Cardinality(Occupied) /\ c <= j + o
  BY <1>5
<1>7. CASE step.kind = "open"
  <2>1. PICK f \in Files : step.targets = {f}
    BY <1>1, <1>7
  <2>2. Wanted(step) = {f} /\ Joining(step) = {f}
    BY <1>1, <1>7, <2>1 DEF Wanted, Joining
  <2>3. PICK more \in {0, 1} : Cardinality(Databases \cup {f}) = d + more /\ Adding(step) = more + 1
    <3>1. CASE f \in Databases
      <4>1. step.targets \ Databases = {} /\ Databases \cup {f} = Databases
        BY <2>1, <3>1
      <4>2. Cardinality(step.targets \ Databases) = 0
        BY <4>1, FS_EmptySet
      <4>3. Adding(step) = 0 + 1
        BY <1>7, <4>2 DEF Adding
      <4>4. Cardinality(Databases \cup {f}) = d + 0
        <5>1. Cardinality(Databases \cup {f}) = Cardinality(Databases)
          BY <4>1
        <5> QED
          BY <1>4, <5>1
      <4> QED
        BY <4>3, <4>4
    <3>2. CASE f \notin Databases
      <4>1. step.targets \ Databases = {f}
        BY <2>1, <3>2
      <4>2. Cardinality({f}) = 1
        BY FS_Singleton
      <4>3. Cardinality(Databases \cup {f}) = d + 1
        BY <1>3, <1>4, <3>2, FS_AddElement
      <4> QED
        BY <1>7, <4>1, <4>2, <4>3 DEF Adding
    <3> QED
      BY <3>1, <3>2
  <2>4. PICK e \in Nat : e = Cardinality(Occupied \cup {f}) /\ e <= c + 1
    <3>1. Cardinality(Occupied \cup {f}) = IF f \in Occupied THEN c ELSE c + 1
      BY <1>5, <1>6, FS_AddElement
    <3> QED
      BY <3>1
  <2>5. Need(step) = d + j + (more + 1) + o
    BY <1>4, <2>3 DEF Need, Used, Connections
  <2>6. Load(Databases \cup Wanted(step), Occupied \cup Joining(step)) = (d + more) + e
    BY <2>2, <2>3, <2>4 DEF Load
  <2>7. (d + more) + e <= d + j + (more + 1) + o /\ d + j + (more + 1) + o \in Nat
    BY <1>6, <2>4
  <2> QED
    BY <2>5, <2>6, <2>7 DEF step
<1>8. CASE step.kind # "open"
  <2>1. Wanted(step) = Imaged(step) /\ Joining(step) = {}
    BY <1>1, <1>8 DEF Wanted, Joining
  <2>2. PICK a \in Nat : a = Cardinality(Imaged(step))
    BY <1>3, FS_CardinalityType
  <2>3. PICK u \in Nat : u = Cardinality(Databases \cup Imaged(step)) /\ u <= d + a
    <3>1. /\ IsFiniteSet(Databases \cup Imaged(step))
          /\ Cardinality(Databases \cup Imaged(step)) =
                 d + a - Cardinality(Databases \cap Imaged(step))
      BY <1>3, <1>4, <2>2, FS_Union
    <3>2. Cardinality(Databases \cap Imaged(step)) \in Nat
      BY <1>3, FS_Intersection, FS_CardinalityType
    <3>3. Cardinality(Databases \cup Imaged(step)) \in Nat
      BY <3>1, FS_CardinalityType
    <3> QED
      BY <3>1, <3>2, <3>3
  <2>4. Adding(step) = a
    BY <1>2, <1>8, <2>2 DEF Adding
  <2>5. Need(step) = d + j + a + o
    BY <1>4, <2>4 DEF Need, Used, Connections
  <2>6. Occupied \cup {} = Occupied
    OBVIOUS
  <2>7. Load(Databases \cup Wanted(step), Occupied \cup Joining(step)) = u + c
    BY <1>6, <2>1, <2>3, <2>6 DEF Load
  <2>8. u + c <= d + j + a + o /\ d + j + a + o \in Nat
    BY <1>6, <2>3
  <2> QED
    BY <2>5, <2>7, <2>8 DEF step
<1> QED
  BY <1>7, <1>8

LEMMA ReserveKeepsInv ==
  ASSUME Inv, Reserve PROVE Inv'
<1> DEFINE step == [Head(queue) EXCEPT !.stage = "growing", !.need = Need(Head(queue))]
<1>1. /\ UNCHANGED <<pool, installed, held, conns, acked, lost, snapshot, faults>>
      /\ Running("queued") /\ Becomes(step)
  BY DEF Reserve
<1>2. /\ queue # <<>> /\ Head(queue) \in Steps /\ Head(queue).stage = "queued"
      /\ StepOk(Head(queue))
      /\ WholeImage(Head(queue))
  BY <1>1, RunningStep
<1>3. Need(Head(queue)) \in Nat
  BY <1>2, NeedIsEnough
<1>4. /\ step \in Steps /\ step.stage = "growing" /\ step.need = Need(Head(queue))
      /\ step.kind = Head(queue).kind /\ step.targets = Head(queue).targets
      /\ step.image = Head(queue).image /\ step.lost = Head(queue).lost /\ step.original = Head(queue).original
      /\ step.left = Head(queue).left /\ step.touched = Head(queue).touched
  BY <1>2, <1>3 DEF Steps
<1> HIDE DEF step
<1>5. /\ StepOk(step) /\ Wanted(step) = Wanted(Head(queue)) /\ Joining(step) = Joining(Head(queue))
      /\ ~Replacing(step) /\ WholeImage(step)
  BY <1>2, <1>4 DEF StepOk, Replacing, Imaged, Originals, Wanted, Joining, WholeImage
<1>6. /\ queue' \in Seq(Steps) /\ queue' # <<>> /\ Head(queue') = step
      /\ StepInv' /\ ExportsAreWhole'
  BY <1>1, <1>2, <1>4, <1>5, GoesOn
<1>7. TypeOK'
  BY <1>1, <1>6 DEF Inv, TypeOK
<1>8. BeingReplaced = {} /\ BeingReplaced' = {}
  BY <1>2, <1>4, <1>6 DEF BeingReplaced
<1>9. ConnInv' /\ KeptInv' /\ ReplacementInv'
  BY <1>1, <1>5, <1>6, <1>8 DEF Inv, ConnInv, Conn, KeptInv, Kept, ReplacementInv
<1>10. Databases' = Databases /\ Occupied' = Occupied
  BY <1>1 DEF Databases, Occupied, Journals, Open
<1>11. RoomInv'
  <2>1. Load(Databases', Occupied') <= pool'.capacity
    BY <1>1, <1>10 DEF Inv, RoomInv
  <2>2. Load(Databases' \cup Wanted(step), Occupied' \cup Joining(step)) <= step.need
    BY <1>2, <1>4, <1>5, <1>10, NeedIsEnough
  <2> QED
    BY <1>5, <1>6, <2>1, <2>2 DEF RoomInv, Load, Wanted, Joining, Imaged, Originals, Replacing
<1> QED
  BY <1>6, <1>7, <1>9, <1>11 DEF Inv

\* An open, and a replacement that begins, take no more than was reserved.
LEMMA ReservedIsEnough ==
  ASSUME Inv, Running("growing"), pool'.capacity \in Nat, pool'.capacity >= Head(queue).need,
         NEW D \in SUBSET (Databases \cup Wanted(Head(queue))),
         NEW O \in SUBSET (Occupied \cup Joining(Head(queue)))
  PROVE  Load(D, O) <= pool'.capacity
<1> DEFINE step == Head(queue)
<1>1. /\ Load(Databases \cup Wanted(step), Occupied \cup Joining(step)) <= step.need
      /\ step \in Steps /\ step.need \in Nat
  <2>1. queue # <<>> /\ step \in Steps /\ step.stage = "growing"
    BY RunningStep
  <2> QED
    BY <2>1 DEF Inv, RoomInv, Steps
<1>2. Wanted(step) \in SUBSET Files /\ Joining(step) \in SUBSET Files
  BY <1>1 DEF Wanted, Joining, Imaged, Originals, Steps
<1> HIDE DEF step
<1>3. Databases \cup Wanted(step) \in SUBSET Files /\ Occupied \cup Joining(step) \in SUBSET Files
  BY <1>2 DEF Databases, Occupied, Journals, Open
<1>4. /\ D \in SUBSET (Databases \cup Wanted(step)) /\ O \in SUBSET (Occupied \cup Joining(step))
      /\ pool'.capacity >= step.need
  BY DEF step
<1>5. /\ Load(D, O) <= Load(Databases \cup Wanted(step), Occupied \cup Joining(step))
      /\ Load(D, O) \in Nat
      /\ Load(Databases \cup Wanted(step), Occupied \cup Joining(step)) \in Nat
  BY <1>3, <1>4, Fits
<1> QED
  BY <1>1, <1>4, <1>5

LEMMA OpenKeepsInv ==
  ASSUME Inv, OpenRuns PROVE Inv'
<1>1. /\ Running("growing") /\ Head(queue).kind = "open" /\ Ends
      /\ UNCHANGED <<installed, held, snapshot, lost, faults>>
  BY DEF OpenRuns
<1>2. /\ queue # <<>> /\ Head(queue) \in Steps /\ Head(queue).stage = "growing"
      /\ Head(queue).targets \in SUBSET Files /\ TypeOK /\ StepInv /\ Head(queue).need \in Nat
  BY <1>1, RunningStep DEF Steps
<1>3. PICK f \in Head(queue).targets :
        LET grown == Grown(Head(queue).need)
            new   == pool.content[f] = Absent IN
        /\ pool' = FirstRead(IF new THEN [grown EXCEPT !.content[f] = Fresh] ELSE grown, f)
        /\ acked' = IF new THEN [acked EXCEPT ![f] = Fresh] ELSE acked
        /\ conns' = [conns EXCEPT ![f] = "idle"]
  BY DEF OpenRuns
<1> DEFINE grown == Grown(Head(queue).need)
<1>4. /\ grown \in Pools /\ grown.content = pool.content /\ grown.journal = pool.journal
      /\ grown.capacity \in Nat /\ grown.capacity >= Head(queue).need
      /\ grown.capacity >= pool.capacity
  BY <1>2, GrownIs
<1> HIDE DEF grown
<1>5. f \in Files /\ {f} \in SUBSET Files
  BY <1>2
<1>6. Absent # Torn /\ Absent # Fresh /\ Torn # Fresh /\ Fresh \in Images /\ Absent \in Images
  BY DEF Absent, Torn, Fresh, Images
<1>7. Conn(f)
  BY <1>5 DEF Inv, ConnInv
<1> DEFINE made == IF pool.content[f] = Absent THEN [grown EXCEPT !.content[f] = Fresh] ELSE grown
<1>16. /\ made \in Pools /\ made.capacity = grown.capacity /\ made.journal = pool.journal
       /\ \A g \in Files : made.content[g] =
             IF g = f /\ pool.content[f] = Absent THEN Fresh ELSE pool.content[g]
  BY <1>4, <1>5, <1>6 DEF Pools
<1>17. pool' = Recovered(made, {f})
  BY <1>3 DEF made, grown, FirstRead
<1> HIDE DEF made
<1>8. /\ pool' \in Pools /\ pool'.capacity = grown.capacity
      /\ \A g \in Files \ {f} :
           /\ pool'.content[g] = pool.content[g] /\ pool'.journal[g] = pool.journal[g]
      /\ pool'.content[f] = IF pool.content[f] \in {Absent, Fresh} THEN Fresh
                            ELSE IF pool.journal[f] # Absent THEN pool.journal[f]
                                ELSE pool.content[f]
      /\ pool'.journal[f] = Absent
  BY <1>5, <1>6, <1>16, <1>17, RecoveredIs
<1>9. /\ \A g \in Files \ {f} : conns'[g] = conns[g] /\ acked'[g] = acked[g]
      /\ conns'[f] = "idle"
      /\ acked'[f] = IF pool.content[f] = Absent THEN Fresh ELSE acked[f]
  BY <1>2, <1>3, <1>5 DEF TypeOK
<1>10. Databases' \subseteq Databases \cup {f} /\ Occupied' \subseteq Occupied \cup {f}
  BY <1>8, <1>9 DEF Databases, Occupied, Journals, Open
<1>11. Load(Databases', Occupied') <= pool'.capacity
  <2>1. f \in Wanted(Head(queue)) /\ f \in Joining(Head(queue))
    BY <1>1, <1>3 DEF Wanted, Joining
  <2> QED
    BY <1>1, <1>4, <1>8, <1>10, <2>1, ReservedIsEnough
<1>12. /\ queue' \in Seq(Steps) /\ BeingReplaced' = {}
       /\ StepInv' /\ ReplacementInv' /\ ExportsAreWhole' /\ RoomInv'
  BY <1>1, <1>2, <1>11, IsOver
<1>13. TypeOK'
  <2>1. conns' \in [Files -> {"closed", "idle", "writing", "dead"}] /\ acked' \in [Files -> Images]
    BY <1>2, <1>3, <1>5, <1>6 DEF TypeOK
  <2> QED
    BY <1>1, <1>2, <1>8, <1>12, <2>1 DEF TypeOK, Pools
<1>14. ConnInv'
  <2>1. ASSUME NEW g \in Files PROVE Conn(g)'
    <3>1. CASE g = f
      BY <1>6, <1>8, <1>9, <3>1 DEF Conn
    <3>2. CASE g # f
      BY <1>8, <1>9, <3>2 DEF Inv, ConnInv, Conn
    <3> QED
      BY <3>1, <3>2
  <2> QED
    BY <2>1 DEF ConnInv
<1>15. KeptInv'
  <2>1. BeingReplaced = {}
    BY <1>2 DEF BeingReplaced
  <2>2. ASSUME NEW g \in Files, g \notin lost PROVE (acked[g] # Torn /\ Kept(g))'
    <3>1. acked[g] # Torn /\ Kept(g)
      BY <2>1, <2>2 DEF Inv, KeptInv
    <3>2. CASE g = f
      BY <1>6, <1>8, <1>9, <3>1, <3>2 DEF Kept
    <3>3. CASE g # f
      BY <1>8, <1>9, <3>1, <3>3 DEF Kept
    <3> QED
      BY <3>2, <3>3
  <2> QED
    BY <1>1, <2>2 DEF KeptInv
<1> QED
  BY <1>12, <1>13, <1>14, <1>15 DEF Inv

LEMMA OpenFailsKeepsInv ==
  ASSUME Inv, OpenFails PROVE Inv'
<1>1. /\ Running("growing") /\ Head(queue).kind = "open" /\ Ends
      /\ UNCHANGED <<installed, held, conns, snapshot, lost>>
  BY DEF OpenFails
<1>2. /\ queue # <<>> /\ Head(queue) \in Steps /\ Head(queue).stage = "growing"
      /\ Head(queue).targets \in SUBSET Files /\ TypeOK /\ StepInv /\ Head(queue).need \in Nat
  BY <1>1, RunningStep DEF Steps
<1> DEFINE grown == Grown(Head(queue).need)
<1>3. PICK f \in Head(queue).targets :
        \/ pool' = grown /\ UNCHANGED acked
        \/ /\ pool.content[f] = Absent
           /\ pool' = [grown EXCEPT !.content[f] = Fresh]
           /\ acked' = [acked EXCEPT ![f] = Fresh]
  BY DEF OpenFails
<1>4. /\ grown \in Pools /\ grown.content = pool.content /\ grown.journal = pool.journal
      /\ grown.capacity \in Nat /\ grown.capacity >= Head(queue).need
      /\ grown.capacity >= pool.capacity
  BY <1>2, GrownIs
<1> HIDE DEF grown
<1>5. f \in Files /\ Fresh \in Images /\ Fresh # Absent /\ Fresh # Torn /\ faults' \in 0..MaxFaults
  BY <1>2, FaultIsTyped DEF OpenFails, Images, Fresh, Absent, Torn
<1>6. /\ pool' \in Pools /\ pool'.capacity = grown.capacity /\ pool'.journal = pool.journal
      /\ acked' \in [Files -> Images]
      /\ \A g \in Files \ {f} : pool'.content[g] = pool.content[g] /\ acked'[g] = acked[g]
      /\ \/ pool'.content[f] = pool.content[f] /\ acked'[f] = acked[f]
         \/ pool'.content[f] = Fresh /\ acked'[f] = Fresh /\ pool.content[f] = Absent
  BY <1>2, <1>3, <1>4, <1>5 DEF Pools, TypeOK
<1>7. Databases' \subseteq Databases \cup {f} /\ Occupied' = Occupied
  BY <1>1, <1>6 DEF Databases, Occupied, Journals, Open
<1>8. Load(Databases', Occupied') <= pool'.capacity
  <2>1. f \in Wanted(Head(queue))
    BY <1>1, <1>3 DEF Wanted, Joining
  <2> QED
    BY <1>1, <1>4, <1>6, <1>7, <2>1, ReservedIsEnough
<1>9. /\ queue' \in Seq(Steps) /\ BeingReplaced' = {}
      /\ StepInv' /\ ReplacementInv' /\ ExportsAreWhole' /\ RoomInv'
  BY <1>1, <1>2, <1>8, IsOver
<1>10. TypeOK'
  BY <1>1, <1>2, <1>5, <1>6, <1>9 DEF TypeOK, Pools
<1>11. ConnInv'
  <2>1. ASSUME NEW g \in Files PROVE Conn(g)'
    <3>1. Conn(g) /\ conns'[g] = conns[g]
      BY <1>1 DEF Inv, ConnInv
    <3> QED
      BY <1>5, <1>6, <3>1 DEF Conn, Absent, Torn
  <2> QED
    BY <2>1 DEF ConnInv
<1>12. KeptInv'
  <2>1. BeingReplaced = {}
    BY <1>2 DEF BeingReplaced
  <2>2. ASSUME NEW g \in Files, g \notin lost PROVE (acked[g] # Torn /\ Kept(g))'
    <3>1. acked[g] # Torn /\ Kept(g)
      BY <2>1, <2>2 DEF Inv, KeptInv
    <3> QED
      BY <1>5, <1>6, <2>2, <3>1 DEF Kept
  <2> QED
    BY <1>1, <2>2 DEF KeptInv
<1> QED
  BY <1>9, <1>10, <1>11, <1>12 DEF Inv

LEMMA ReplaceKeepsInv ==
  ASSUME Inv, ReplaceRuns PROVE Inv'
<1> DEFINE step  == Head(queue)
           grown == Grown(step.need)
           ready == CASE step.kind = "copy" ->
               [Closed(step.targets) EXCEPT !.capacity = grown.capacity]
                      [] step.kind = "pool" -> Recovered(grown, Files)
                      [] OTHER              -> grown
           refused == \/ step.kind # "copy" /\ step.targets \cap Open # {}
                      \/ \E f \in step.targets : ready.journal[f] # Absent
           next == [step EXCEPT !.stage = "unlinking", !.need = 0, !.original =
                      [f \in Files |-> IF f \in step.targets THEN ready.content[f] ELSE Absent]]
<1>1. /\ Running("growing") /\ step.kind # "open"
      /\ UNCHANGED <<installed, held, snapshot, acked, lost, faults>>
      /\ pool' = IF step.kind = "pool" /\ Open # {} THEN grown ELSE ready
      /\ conns' = IF step.kind = "copy" THEN Disconnected(step.targets) ELSE conns
      /\ IF refused THEN Ends ELSE Becomes(next)
  BY DEF ReplaceRuns
<1>2. /\ queue # <<>> /\ step \in Steps /\ step.stage = "growing" /\ StepOk(step)
      /\ WholeImage(step)
      /\ step.targets \in SUBSET Files /\ TypeOK /\ StepInv /\ step.need \in Nat
  BY <1>1, RunningStep DEF Steps
<1>3. /\ grown \in Pools /\ grown.content = pool.content /\ grown.journal = pool.journal
      /\ grown.capacity \in Nat /\ grown.capacity >= step.need /\ grown.capacity >= pool.capacity
  BY <1>2, GrownIs
<1>4. \A f \in Files : Conn(f)
  BY DEF Inv, ConnInv
<1> DEFINE
      undone(f) == \/ step.kind = "copy" /\ f \in step.targets /\ conns[f] = "writing"
                   \/ step.kind = "pool" /\ pool.content[f] # Absent /\ pool.journal[f] # Absent
<1>5. /\ ready \in Pools /\ ready.capacity = grown.capacity
      /\ \A f \in Files :
           /\ ready.content[f] =
                  IF undone(f) /\ pool.content[f] # Fresh THEN pool.journal[f] ELSE pool.content[f]
           /\ ready.journal[f] = IF undone(f) THEN Absent ELSE pool.journal[f]
  <2>1. CASE step.kind = "copy"
    <3>1. ready = [Closed(step.targets) EXCEPT !.capacity = grown.capacity]
      BY <2>1
    <3>2. /\ Closed(step.targets) \in Pools
          /\ \A f \in Files :
               LET closed == f \in step.targets /\ conns[f] = "writing" IN
               /\ Closed(step.targets).content[f] =
                      IF closed THEN pool.journal[f] ELSE pool.content[f]
               /\ Closed(step.targets).journal[f] = IF closed THEN Absent ELSE pool.journal[f]
      BY <1>2, ClosedIs
    <3> HIDE DEF ready, grown, step
    <3> QED
      BY <1>3, <1>4, <2>1, <3>1, <3>2 DEF Pools, Conn, Torn, Fresh
  <2>2. CASE step.kind = "pool"
    <3>1. ready = Recovered(grown, Files)
      BY <2>2
    <3> HIDE DEF ready, grown, step
    <3>2. /\ ready \in Pools /\ ready.capacity = grown.capacity
          /\ \A f \in Files :
               LET hot == pool.content[f] # Absent /\ pool.journal[f] # Absent IN
               /\ ready.content[f] =
                      IF hot /\ pool.content[f] # Fresh THEN pool.journal[f] ELSE pool.content[f]
               /\ ready.journal[f] = IF hot THEN Absent ELSE pool.journal[f]
      BY <1>3, <3>1, RecoveredIs
    <3> QED
      BY <2>2, <3>2
  <2>3. CASE step.kind \notin {"copy", "pool"}
    <3>1. ready = grown
      BY <2>3
    <3> HIDE DEF ready, grown, step
    <3> QED
      BY <1>3, <2>3, <3>1
  <2> QED
    BY <2>1, <2>2, <2>3
<1>6. step.kind = "pool" /\ Open # {} => refused
  <2>1. step.kind = "pool" => step.targets = Files
    BY <1>2 DEF StepOk
  <2> QED
    BY <2>1 DEF Open
<1>7. /\ \A f \in Files : conns'[f] =
             IF step.kind = "copy" /\ f \in step.targets THEN "closed" ELSE conns[f]
      /\ conns' \in [Files -> {"closed", "idle", "writing", "dead"}]
  BY <1>1, <1>2 DEF Disconnected, TypeOK
<1> HIDE DEF step, grown, ready, next
\* What is undone is undone before anything else, and no database goes.
<1> DEFINE done(f) == undone(f) /\ ~(step.kind = "pool" /\ Open # {})
<1>8. /\ pool' \in Pools /\ pool'.capacity = grown.capacity
      /\ \A f \in Files :
           /\ pool'.content[f] =
                  IF done(f) /\ pool.content[f] # Fresh THEN pool.journal[f] ELSE pool.content[f]
           /\ pool'.journal[f] = IF done(f) THEN Absent ELSE pool.journal[f]
  <2>1. CASE step.kind = "pool" /\ Open # {}
    BY <1>1, <1>3, <2>1
  <2>2. CASE ~(step.kind = "pool" /\ Open # {})
    BY <1>1, <1>5, <2>2
  <2> QED
    BY <2>1, <2>2
<1>9. \A f \in Files : done(f) => /\ pool.journal[f] # Absent /\ pool.content[f] # Absent
                                  /\ conns'[f] # "writing"
  BY <1>4, <1>7 DEF Conn, Open, Torn, Absent
<1>10. ConnInv'
  <2>1. ASSUME NEW f \in Files PROVE Conn(f)'
    <3>1. Conn(f)
      BY <1>4
    <3>2. CASE done(f)
      BY <1>7, <1>8, <1>9, <3>1, <3>2 DEF Conn
    <3>3. CASE ~done(f)
      BY <1>7, <1>8, <3>1, <3>3 DEF Conn
    <3> QED
      BY <3>2, <3>3
  <2> QED
    BY <2>1 DEF ConnInv
<1>11. Databases' = Databases /\ Occupied' \subseteq Occupied
  BY <1>7, <1>8, <1>9 DEF Databases, Occupied, Journals, Open
<1>12. BeingReplaced = {}
  BY <1>2 DEF BeingReplaced, step
<1>13. ASSUME NEW f \in Files, f \notin lost PROVE (acked[f] # Torn /\ Kept(f))'
  <2>1. acked[f] # Torn /\ Kept(f)
    BY <1>12, <1>13 DEF Inv, KeptInv
  <2> QED
    <3>1. CASE done(f)
      <4>1. /\ pool.journal[f] # Absent /\ pool.content[f] # Absent /\ pool'.journal[f] = Absent
            /\ pool'.content[f] =
                   IF pool.content[f] # Fresh THEN pool.journal[f] ELSE pool.content[f]
        BY <1>8, <1>9, <3>1
      <4> QED
        BY <1>1, <2>1, <4>1 DEF Kept, Torn, Fresh
    <3>2. CASE ~done(f)
      <4>1. pool'.content[f] = pool.content[f] /\ pool'.journal[f] = pool.journal[f]
        BY <1>8, <3>2
      <4> QED
        BY <1>1, <2>1, <4>1 DEF Kept
    <3> QED
      BY <3>1, <3>2
<1>14. CASE refused
  <2>1. Load(Databases', Occupied') <= pool'.capacity
    BY <1>3, <1>8, <1>11, LessIsEnough
  <2>2. /\ queue' \in Seq(Steps) /\ BeingReplaced' = {}
        /\ StepInv' /\ ReplacementInv' /\ ExportsAreWhole' /\ RoomInv'
    BY <1>1, <1>2, <1>14, <2>1, IsOver
  <2>3. TypeOK'
    BY <1>1, <1>2, <1>7, <1>8, <2>2 DEF TypeOK, Pools
  <2>4. KeptInv'
    BY <1>1, <1>13 DEF KeptInv
  <2> QED
    BY <1>10, <2>2, <2>3, <2>4 DEF Inv
<1>15. CASE ~refused
  <2>1. pool' = ready /\ Becomes(next)
    BY <1>1, <1>6, <1>15
  <2>2. /\ \A f \in step.targets : pool'.journal[f] = Absent /\ conns'[f] = "closed"
    BY <1>2, <1>7, <1>15, <2>1 DEF Open
  <2>3. /\ next \in Steps /\ next.stage = "unlinking"
        /\ next.targets = step.targets /\ next.image = step.image /\ next.kind = step.kind
        /\ next.lost = step.lost
        /\ next.left = step.left /\ next.touched = step.touched
        /\ \A f \in Files : next.original[f] =
               IF f \in step.targets THEN pool'.content[f] ELSE Absent
    <3>1. [f \in Files |-> IF f \in step.targets THEN ready.content[f] ELSE Absent]
              \in [Files -> Images]
      BY <1>5 DEF Pools, Images
    <3> QED
      BY <1>2, <2>1, <3>1 DEF next, Steps
  <2>4. /\ StepOk(next) /\ WholeImage(next) /\ Imaged(next) = Imaged(step) /\ Originals(next) \subseteq step.targets
        /\ Originals(next) \subseteq Databases'
        /\ Joining(next) = {} /\ Joining(step) = {}
    BY <1>1, <1>2, <2>3 DEF StepOk, Replacing, Imaged, Originals, Databases, Joining, WholeImage
  <2>5. /\ queue' \in Seq(Steps) /\ queue' # <<>> /\ Head(queue') = next
        /\ StepInv' /\ ExportsAreWhole'
    BY <1>1, <1>2, <2>1, <2>3, <2>4, GoesOn
  <2>6. TypeOK'
    BY <1>1, <1>2, <1>7, <1>8, <2>5 DEF TypeOK, Pools
  <2>7. BeingReplaced' = {}
    BY <2>3, <2>5 DEF BeingReplaced
  <2>8. KeptInv'
    BY <1>1, <1>13 DEF KeptInv
  <2>9. ReplacementInv'
    <3>1. step.targets \cap Open' = {} /\ step.targets \cap Journals' = {}
      BY <2>2 DEF Open, Journals
    <3>2. \A f \in step.targets \ lost' : next.original[f] = acked'[f] /\ acked'[f] # Torn
      BY <1>1, <1>2, <1>13, <2>2, <2>3 DEF Kept
    <3>3. \A f \in step.targets : pool'.content[f] = next.original[f]
      BY <1>2, <2>3
    <3> QED
      BY <2>3, <2>4, <2>5, <3>1, <3>2, <3>3 DEF ReplacementInv, Originals
  <2>10. RoomInv'
    <3>1. Databases' \cup Wanted(next) \subseteq Databases \cup Wanted(step)
      BY <1>11, <2>4 DEF Wanted
    <3>2. Load(Databases' \cup Wanted(next), Occupied') <= pool'.capacity
      BY <1>1, <1>3, <1>8, <1>11, <3>1, ReservedIsEnough DEF step
    <3>3. Load(Databases', Occupied') <= pool'.capacity
      BY <1>3, <1>8, <1>11, LessIsEnough
    <3> QED
      BY <2>3, <2>5, <3>2, <3>3 DEF RoomInv, Load, Wanted, Joining, Imaged, Originals, Replacing
  <2> QED
    BY <1>10, <2>5, <2>6, <2>8, <2>9, <2>10 DEF Inv
<1> QED
  BY <1>14, <1>15

\* What ReplacementInv says of the stage that the step is in.
Progress(step) ==
  /\ step.stage = "importing" =>
       /\ step.left \subseteq Imaged(step) /\ step.left \cap Databases = {}
       /\ \A f \in step.targets \ step.left : pool.content[f] = step.image[f]
  /\ step.stage \in {"importing", "undoing"} =>
       \A f \in step.targets \ step.touched : pool.content[f] = step.original[f]
  /\ step.stage = "restoring" =>
       /\ step.left \subseteq Originals(step)
       /\ ~step.failed => \A f \in step.targets \ step.left : pool.content[f] = step.original[f]

\* A replacement goes on: it changes what it replaces, where nobody is connected.
LEMMA ReplacementGoesOn ==
  ASSUME Inv, queue # <<>>, Replacing(Head(queue)),
         NEW next \in Steps, Becomes(next), StepOk(next),
         next.stage \in {"importing", "undoing", "restoring"},
         next.targets = Head(queue).targets, next.original = Head(queue).original,
         WholeImage(next), Imaged(next) \subseteq Imaged(Head(queue)),
         UNCHANGED <<installed, held, conns, snapshot, acked, lost>>, faults' \in 0..MaxFaults,
         pool' \in Pools, pool'.capacity = pool.capacity,
         \A f \in Files \ next.targets :
           pool'.content[f] = pool.content[f] /\ pool'.journal[f] = pool.journal[f],
         \A f \in next.targets : pool'.journal[f] = Absent,
         Databases' \subseteq Databases \cup Wanted(Head(queue)), Progress(next)'
  PROVE  Inv'
<1> DEFINE step == Head(queue)
<1>1. TypeOK /\ step \in Steps /\ step.targets \in SUBSET Files /\ StepOk(step)
  BY HeadOfQueue DEF Inv, Steps, StepInv
<1>2. /\ queue' \in Seq(Steps) /\ queue' # <<>> /\ Head(queue') = next
      /\ StepInv' /\ ExportsAreWhole'
  BY GoesOn
<1>3. TypeOK'
  BY <1>1, <1>2 DEF TypeOK, Pools
<1>4. BeingReplaced' = step.targets /\ BeingReplaced \subseteq step.targets
  BY <1>2 DEF BeingReplaced
<1>5. /\ step.targets \cap Open = {} /\ step.targets \cap Journals = {}
      /\ Originals(step) \subseteq step.targets
      /\ \A f \in step.targets \ lost : step.original[f] = acked[f] /\ acked[f] # Torn
  BY DEF Inv, ReplacementInv
<1>6. ConnInv'
  <2>1. ASSUME NEW f \in Files PROVE Conn(f)'
    <3>1. CASE f \in step.targets
      <4>1. conns'[f] = "closed" /\ pool'.journal[f] = Absent
        BY <1>5, <3>1 DEF Open
      <4> QED
        BY <4>1 DEF Conn
    <3>2. CASE f \notin step.targets
      BY <3>2 DEF Inv, ConnInv, Conn
    <3> QED
      BY <3>1, <3>2
  <2> QED
    BY <2>1 DEF ConnInv
<1>7. KeptInv'
  <2>1. ASSUME NEW f \in Files, f \notin step.targets, f \notin lost
        PROVE  (acked[f] # Torn /\ Kept(f))'
    BY <1>4, <2>1 DEF Inv, KeptInv, Kept
  <2> QED
    BY <1>4, <2>1 DEF KeptInv
<1>8. ReplacementInv'
  <2>1. step.targets \cap Open' = {} /\ step.targets \cap Journals' = {}
    BY <1>5 DEF Open, Journals
  <2>2. Originals(next) = Originals(step)
    BY DEF Originals
  <2> HIDE DEF step
  <2>3. next.targets = step.targets /\ next.original = step.original
    BY DEF step
  <2> QED
    BY <1>2, <1>5, <2>1, <2>2, <2>3 DEF ReplacementInv, Progress, Originals, Imaged
<1>9. RoomInv'
  <2>1. step.kind # "open" /\ next.kind # "open"
    BY <1>1 DEF StepOk, Replacing
  <2>2. /\ Wanted(next) \subseteq Wanted(step) /\ Wanted(step) \in SUBSET Files
        /\ Databases \in SUBSET Files /\ Occupied \in SUBSET Files
    BY <2>1 DEF Wanted, Joining, Originals, Imaged, Databases, Occupied, Journals, Open
  <2>3. Occupied' \subseteq Occupied
    BY <1>5 DEF Occupied, Journals, Open
  <2>4. Load(Databases \cup Wanted(step), Occupied) <= pool.capacity
    BY DEF Inv, RoomInv
  <2>5. ASSUME NEW D \in SUBSET (Databases \cup Wanted(step))
        PROVE  Load(D, Occupied') <= pool'.capacity
    <3>1. Databases \cup Wanted(step) \in SUBSET Files
      BY <2>2
    <3>2. /\ Load(D, Occupied') <= Load(Databases \cup Wanted(step), Occupied)
          /\ Load(D, Occupied') \in Nat /\ Load(Databases \cup Wanted(step), Occupied) \in Nat
      BY <2>2, <2>3, <2>5, <3>1, Fits
    <3>3. pool.capacity \in Nat
      BY <1>1 DEF TypeOK
    <3> QED
      BY <2>4, <3>2, <3>3
  <2>6. Load(Databases', Occupied') <= pool'.capacity
    BY <2>5
  <2>7. Load(Databases' \cup Wanted(next), Occupied') <= pool'.capacity
    BY <2>2, <2>5
  <2> QED
    BY <1>2, <2>6, <2>7 DEF RoomInv, Load, Wanted, Joining, Imaged, Originals, Replacing
<1> QED
  BY <1>2, <1>3, <1>6, <1>7, <1>8, <1>9 DEF Inv

\* What a step that replaces knows.
LEMMA ReplacingStep ==
  ASSUME Inv, NEW stage \in {"unlinking", "importing", "undoing", "restoring"}, Running(stage)
  PROVE  LET step == Head(queue) IN
         /\ Replacing(step) /\ step.kind # "open"
         /\ step.targets \cap Open = {}
         /\ \A f \in step.targets : pool.journal[f] = Absent /\ f \in Files
         /\ Progress(step) /\ Originals(step) \subseteq step.targets
         /\ Imaged(step) \subseteq step.targets
         /\ step.left \in SUBSET step.targets /\ step.touched \in SUBSET step.targets
         /\ stage = "unlinking" => \A f \in step.targets : pool.content[f] = step.original[f]
         /\ \A f \in step.targets \ lost : step.original[f] = acked[f] /\ acked[f] # Torn
<1>1. /\ queue # <<>> /\ Head(queue) \in Steps /\ Head(queue).stage = stage /\ StepOk(Head(queue))
      /\ Head(queue).targets \in SUBSET Files
  BY RunningStep
<1>2. Replacing(Head(queue))
  BY <1>1 DEF Replacing
<1> QED
  BY <1>1, <1>2 DEF Inv, ReplacementInv, Progress, StepOk, Journals

LEMMA NoImage ==
  /\ NoSnapshot.image \in [Files -> Images]
  /\ \A f \in Files : NoSnapshot.image[f] = Absent
  BY DEF NoSnapshot, Images

LEMMA UnlinkKeepsInv ==
  ASSUME Inv, Unlink PROVE Inv'
<1> DEFINE step    == Head(queue)
           present == step.targets \cap Databases
<1>1. Running("unlinking") /\ UNCHANGED <<installed, held, conns, snapshot, acked, lost>>
  BY DEF Unlink
<1>2. /\ queue # <<>> /\ step \in Steps /\ step.stage = "unlinking" /\ StepOk(step)
      /\ WholeImage(step)
      /\ step.targets \in SUBSET Files /\ TypeOK /\ pool \in Pools /\ Absent # Torn
  BY <1>1, RunningStep
<1>3. /\ Replacing(step) /\ step.kind # "open"
      /\ \A f \in step.targets : pool.journal[f] = Absent /\ f \in Files
      /\ Imaged(step) \subseteq step.targets /\ step.left \in SUBSET step.targets
      /\ \A f \in step.targets : pool.content[f] = step.original[f]
  BY <1>1, ReplacingStep
<1>4. present \in SUBSET Files /\ present \in SUBSET step.targets
  BY <1>2
<1>5. \A f \in step.targets \ present : pool.content[f] = Absent
  BY <1>2 DEF Databases
<1> DEFINE allGone == [step EXCEPT !.stage = "importing", !.touched = present,
                         !.left = {f \in Files : step.image[f] # Absent}]
<1>6. CASE pool' = Without(pool, present, {}) /\ Becomes(allGone) /\ UNCHANGED faults
  <2>1. /\ pool' \in Pools /\ pool'.capacity = pool.capacity
        /\ \A f \in Files : /\ pool'.content[f] = IF f \in present THEN Absent ELSE pool.content[f]
                            /\ pool'.journal[f] = pool.journal[f]
    BY <1>2, <1>4, <1>6, WithoutFiles
  <2>2. PICK next \in Steps :
          /\ Becomes(next) /\ next.stage = "importing" /\ next.touched = present
          /\ next.left = Imaged(step) /\ next.targets = step.targets
          /\ next.image = step.image /\ next.lost = step.lost /\ next.original = step.original
          /\ next.kind = step.kind
    <3>1. /\ allGone \in Steps /\ allGone.stage = "importing" /\ allGone.touched = present
          /\ allGone.left = Imaged(step) /\ allGone.targets = step.targets
          /\ allGone.image = step.image /\ allGone.lost = step.lost /\ allGone.original = step.original
          /\ allGone.kind = step.kind
      BY <1>2, <1>4 DEF Steps, Imaged
    <3> HIDE DEF step, present, allGone
    <3> QED
      BY <1>6, <3>1
  <2> HIDE DEF step, present, allGone
  <2>3. StepOk(next) /\ WholeImage(next) /\ Imaged(next) = Imaged(step)
    BY <1>2, <1>3, <1>4, <2>2 DEF StepOk, Replacing, Imaged, Originals, WholeImage
  <2>4. Progress(next)'
    <3>1. \A f \in step.targets \ Imaged(step) : pool'.content[f] = step.image[f]
      BY <1>2, <1>5, <2>1 DEF Imaged
    <3>2. \A f \in step.targets \ present : pool'.content[f] = step.original[f]
      BY <1>2, <1>3, <2>1
    <3>3. Imaged(step) \cap Databases' = {}
      BY <1>2, <1>3, <1>5, <2>1 DEF Databases
    <3> QED
      BY <2>2, <2>3, <3>1, <3>2, <3>3 DEF Progress
  <2>5. /\ \A f \in Files \ step.targets :
             pool'.content[f] = pool.content[f] /\ pool'.journal[f] = pool.journal[f]
        /\ \A f \in step.targets : pool'.journal[f] = Absent
        /\ Databases' \subseteq Databases
    BY <1>3, <1>4, <2>1 DEF Databases
  <2> QED
    BY <1>1, <1>2, <1>3, <1>6, <2>1, <2>2, <2>3, <2>4, <2>5, ReplacementGoesOn DEF step, TypeOK
<1>7. CASE Fault /\ \E f \in present : \E done \in SUBSET (present \ {f}) :
             /\ \/ pool' = Without(pool, done \cup {f}, {})
                \/ pool' = Without(pool, done, {})
             /\ Becomes([step EXCEPT !.stage = "undoing", !.image = NoSnapshot.image,
                           !.touched = Touching(done, {f})])
  <2>0. PICK f \in present : \E done \in SUBSET (present \ {f}) :
             /\ \/ pool' = Without(pool, done \cup {f}, {})
                \/ pool' = Without(pool, done, {})
             /\ Becomes([step EXCEPT !.stage = "undoing", !.image = NoSnapshot.image,
                           !.touched = Touching(done, {f})])
    BY <1>7
  <2>1. PICK done \in SUBSET (present \ {f}) :
             /\ \/ pool' = Without(pool, done \cup {f}, {})
                \/ pool' = Without(pool, done, {})
             /\ Becomes([step EXCEPT !.stage = "undoing", !.image = NoSnapshot.image,
                           !.touched = Touching(done, {f})])
    BY <2>0
  <2> DEFINE failing == [step EXCEPT !.stage = "undoing", !.image = NoSnapshot.image,
                           !.touched = Touching(done, {f})]
             touched == done \cup {f}
  <2>2. PICK gone \in SUBSET touched : pool' = Without(pool, gone, {})
    BY <2>1
  <2>3. touched \in SUBSET step.targets /\ touched \in SUBSET Files /\ gone \in SUBSET Files
    BY <1>4, <2>2
  <2>4. /\ pool' \in Pools /\ pool'.capacity = pool.capacity
        /\ \A g \in Files : /\ pool'.content[g] = IF g \in gone THEN Absent ELSE pool.content[g]
                            /\ pool'.journal[g] = pool.journal[g]
    <3>1. pool \in Pools
      BY <1>2 DEF TypeOK, Pools
    <3> QED
      BY <2>2, <2>3, <3>1, WithoutFiles
  <2>5. PICK next \in Steps :
          /\ Becomes(next) /\ next.stage = "undoing" /\ next.touched = touched
          /\ next.left = step.left /\ next.targets = step.targets
          /\ next.image = NoSnapshot.image /\ next.lost = step.lost /\ next.original = step.original
          /\ next.kind = step.kind
    <3>1. /\ failing \in Steps /\ failing.stage = "undoing" /\ failing.touched = touched
          /\ failing.left = step.left /\ failing.targets = step.targets
          /\ failing.image = NoSnapshot.image /\ failing.lost = step.lost /\ failing.original = step.original
          /\ failing.kind = step.kind
      BY <1>2, <2>3, NoImage DEF Steps, Touching
    <3>2. Becomes(failing)
      BY <2>1
    <3> HIDE DEF step, present, failing, touched
    <3> QED
      BY <3>1, <3>2
  <2> HIDE DEF step, present, failing, touched
  <2>7. StepOk(next) /\ Imaged(next) = {} /\ WholeImage(next)
    BY <1>2, <1>3, <2>3, <2>5, NoImage DEF StepOk, Replacing, Imaged, Originals, WholeImage
  <2>8. Progress(next)'
    <3>1. \A g \in step.targets \ touched : pool'.content[g] = step.original[g]
      BY <1>2, <1>3, <2>2, <2>4
    <3> QED
      BY <2>5, <3>1 DEF Progress
  <2>9. /\ \A g \in Files \ step.targets :
             pool'.content[g] = pool.content[g] /\ pool'.journal[g] = pool.journal[g]
        /\ \A g \in step.targets : pool'.journal[g] = Absent
        /\ Databases' \subseteq Databases
    BY <1>3, <2>2, <2>3, <2>4 DEF Databases
  <2>10. faults' \in 0..MaxFaults
    BY <1>2, <1>7, FaultIsTyped
  <2> QED
    BY <1>1, <1>2, <1>3, <2>4, <2>5, <2>7, <2>8, <2>9, <2>10, ReplacementGoesOn DEF step
<1> QED
  BY <1>6, <1>7 DEF Unlink

LEMMA ImportKeepsInv ==
  ASSUME Inv, Import PROVE Inv'
<1> DEFINE step == Head(queue)
<1>1. Running("importing") /\ UNCHANGED <<installed, held, conns, snapshot, acked, lost>>
  BY DEF Import
<1>2. /\ queue # <<>> /\ step \in Steps /\ step.stage = "importing" /\ StepOk(step)
      /\ WholeImage(step)
      /\ step.targets \in SUBSET Files /\ TypeOK /\ pool \in Pools /\ Absent # Torn
  BY <1>1, RunningStep
<1>3. /\ Replacing(step) /\ step.kind # "open"
      /\ \A f \in step.targets : pool.journal[f] = Absent /\ f \in Files
      /\ Imaged(step) \subseteq step.targets
      /\ step.left \in SUBSET step.targets /\ step.touched \in SUBSET step.targets
      /\ Progress(step)
  BY <1>1, ReplacingStep
<1>4. /\ step.left \subseteq Imaged(step) /\ step.left \cap Databases = {}
      /\ \A f \in step.targets \ step.left : pool.content[f] = step.image[f]
      /\ \A f \in step.targets \ step.touched : pool.content[f] = step.original[f]
  BY <1>2, <1>3 DEF Progress
<1>5. PICK f \in step.left :
       \/ /\ pool' = [pool EXCEPT !.content[f] = step.image[f]]
          /\ Becomes([step EXCEPT !.left = @ \ {f}, !.touched = @ \cup {f}])
          /\ UNCHANGED faults
       \/ /\ pool' \in {pool, [pool EXCEPT !.content[f] = Torn]} /\ (UNCHANGED faults \/ Fault)
          /\ Becomes([step EXCEPT !.stage = "undoing", !.image = NoSnapshot.image, !.left = {},
                             !.touched = @ \cup {f}])
  BY DEF Import
<1>6. /\ f \in step.targets /\ f \in Files /\ f \in Imaged(step)
      /\ step.image[f] \in Images /\ Torn \in Images
      /\ pool.content[f] \in Images
  BY <1>2, <1>3, <1>4 DEF Steps, Images, Pools
<1>7. faults' \in 0..MaxFaults
  BY <1>2, <1>5, FaultIsTyped DEF TypeOK
<1> DEFINE imported == [step EXCEPT !.left = @ \ {f}, !.touched = @ \cup {f}]
           failing  == [step EXCEPT !.stage = "undoing", !.image = NoSnapshot.image, !.left = {},
                             !.touched = @ \cup {f}]
<1>8. CASE pool' = [pool EXCEPT !.content[f] = step.image[f]] /\ Becomes(imported)
  <2>1. /\ pool' \in Pools /\ pool'.capacity = pool.capacity
        /\ \A g \in Files : /\ pool'.content[g] = IF g = f THEN step.image[f] ELSE pool.content[g]
                            /\ pool'.journal[g] = pool.journal[g]
        /\ Databases' \subseteq Databases \cup {f}
    BY <1>6, <1>8, OneFile
  <2>2. PICK next \in Steps :
          /\ Becomes(next) /\ next.stage = "importing" /\ next.touched = step.touched \cup {f}
          /\ next.left = step.left \ {f} /\ next.targets = step.targets
          /\ next.image = step.image /\ next.lost = step.lost /\ next.original = step.original /\ next.kind = step.kind
    <3>1. /\ imported \in Steps /\ imported.stage = "importing"
          /\ imported.touched = step.touched \cup {f}
          /\ imported.left = step.left \ {f} /\ imported.targets = step.targets
          /\ imported.image = step.image /\ imported.lost = step.lost /\ imported.original = step.original
          /\ imported.kind = step.kind
      BY <1>2, <1>6 DEF Steps
    <3> HIDE DEF step, imported
    <3> QED
      BY <1>8, <3>1
  <2> HIDE DEF step, imported, failing
  <2>3. StepOk(next) /\ WholeImage(next) /\ Imaged(next) = Imaged(step) /\ f \in Wanted(step)
    BY <1>2, <1>3, <1>6, <2>2 DEF StepOk, Replacing, Imaged, Originals, Wanted, WholeImage
  <2>4. Progress(next)'
    <3>1. \A g \in step.targets \ (step.left \ {f}) : pool'.content[g] = step.image[g]
      BY <1>2, <1>4, <2>1
    <3>2. \A g \in step.targets \ (step.touched \cup {f}) : pool'.content[g] = step.original[g]
      BY <1>2, <1>4, <2>1
    <3>3. (step.left \ {f}) \cap Databases' = {}
      BY <1>2, <1>4, <2>1 DEF Databases
    <3> QED
      BY <1>4, <2>2, <2>3, <3>1, <3>2, <3>3 DEF Progress
  <2>5. /\ \A g \in Files \ step.targets :
             pool'.content[g] = pool.content[g] /\ pool'.journal[g] = pool.journal[g]
        /\ \A g \in step.targets : pool'.journal[g] = Absent
        /\ Databases' \subseteq Databases \cup Wanted(step)
    BY <1>3, <1>6, <2>1, <2>3
  <2> QED
    BY <1>1, <1>2, <1>3, <1>7, <2>1, <2>2, <2>3, <2>4, <2>5, ReplacementGoesOn DEF step
<1>9. CASE pool' \in {pool, [pool EXCEPT !.content[f] = Torn]} /\ Becomes(failing)
  <2>1. PICK left \in Images : pool' = [pool EXCEPT !.content[f] = left]
    <3>1. pool = [pool EXCEPT !.content[f] = pool.content[f]]
      BY <1>2, <1>6 DEF Pools
    <3> QED
      BY <1>6, <1>9, <3>1
  <2>2. /\ pool' \in Pools /\ pool'.capacity = pool.capacity
        /\ \A g \in Files : /\ pool'.content[g] = IF g = f THEN left ELSE pool.content[g]
                            /\ pool'.journal[g] = pool.journal[g]
        /\ Databases' \subseteq Databases \cup {f}
    BY <1>6, <2>1, OneFile
  <2>3. PICK next \in Steps :
          /\ Becomes(next) /\ next.stage = "undoing" /\ next.touched = step.touched \cup {f}
          /\ next.left = {} /\ next.targets = step.targets
          /\ next.image = NoSnapshot.image /\ next.lost = step.lost /\ next.original = step.original /\ next.kind = step.kind
    <3>1. /\ failing \in Steps /\ failing.stage = "undoing"
          /\ failing.touched = step.touched \cup {f}
          /\ failing.left = {} /\ failing.targets = step.targets
          /\ failing.image = NoSnapshot.image /\ failing.lost = step.lost /\ failing.original = step.original
          /\ failing.kind = step.kind
      BY <1>2, <1>6, NoImage DEF Steps
    <3> HIDE DEF step, failing
    <3> QED
      BY <1>9, <3>1
  <2> HIDE DEF step, imported, failing
  <2>4. /\ StepOk(next) /\ Imaged(next) = {} /\ WholeImage(next)
        /\ f \in Wanted(step)
    BY <1>2, <1>3, <1>6, <2>3, NoImage DEF StepOk, Replacing, Imaged, Originals, Wanted, WholeImage
  <2>5. Progress(next)'
    <3>1. \A g \in step.targets \ (step.touched \cup {f}) : pool'.content[g] = step.original[g]
      BY <1>2, <1>4, <2>2
    <3> QED
      BY <2>3, <3>1 DEF Progress
  <2>6. /\ \A g \in Files \ step.targets :
             pool'.content[g] = pool.content[g] /\ pool'.journal[g] = pool.journal[g]
        /\ \A g \in step.targets : pool'.journal[g] = Absent
        /\ Databases' \subseteq Databases \cup Wanted(step)
    BY <1>3, <1>6, <2>2, <2>4
  <2> QED
    BY <1>1, <1>2, <1>3, <1>7, <2>2, <2>3, <2>4, <2>5, <2>6, ReplacementGoesOn DEF step
<1> QED
  BY <1>5, <1>8, <1>9

LEMMA UndoKeepsInv ==
  ASSUME Inv, Undo PROVE Inv'
<1> DEFINE step == Head(queue)
           put  == step.touched \cap Databases
           back == {f \in step.touched : step.original[f] # Absent}
<1>1. Running("undoing") /\ UNCHANGED <<installed, held, conns, snapshot, acked, lost>>
  BY DEF Undo
<1>2. /\ queue # <<>> /\ step \in Steps /\ step.stage = "undoing" /\ StepOk(step)
      /\ WholeImage(step)
      /\ step.targets \in SUBSET Files /\ TypeOK /\ pool \in Pools /\ Absent # Torn
  BY <1>1, RunningStep
<1>3. /\ Replacing(step) /\ step.kind # "open"
      /\ \A f \in step.targets : pool.journal[f] = Absent /\ f \in Files
      /\ Imaged(step) \subseteq step.targets /\ step.touched \in SUBSET step.targets
      /\ Progress(step)
  BY <1>1, ReplacingStep
<1>4. \A f \in step.targets \ step.touched : pool.content[f] = step.original[f]
  BY <1>2, <1>3 DEF Progress
<1>5. PICK kept \in SUBSET put :
        /\ pool' = Without(pool, put \ kept, {})
        /\ \/ kept = {} /\ Becomes([step EXCEPT !.stage = "restoring", !.left = back])
           \/ Becomes([step EXCEPT !.stage = "restoring", !.left = back, !.failed = TRUE])
        /\ faults' \in 0..MaxFaults
  <2>1. CASE /\ pool' = Without(pool, put, {})
             /\ Becomes([step EXCEPT !.stage = "restoring", !.left = back])
             /\ UNCHANGED faults
    <3>1. put \ {} = put /\ {} \in SUBSET put /\ faults' \in 0..MaxFaults
      BY <1>2, <2>1 DEF TypeOK
    <3> QED
      BY <2>1, <3>1
  <2>2. CASE /\ Fault /\ \E f \in put : pool' = Without(pool, put \ {f}, {})
             /\ Becomes([step EXCEPT !.stage = "restoring", !.left = back, !.failed = TRUE])
    <3>1. PICK f \in put : pool' = Without(pool, put \ {f}, {})
      BY <2>2
    <3>2. {f} \in SUBSET put /\ faults' \in 0..MaxFaults
      BY <1>2, <2>2, FaultIsTyped
    <3> QED
      BY <2>2, <3>1, <3>2
  <2> QED
    BY <2>1, <2>2 DEF Undo
<1> DEFINE undone == put \ kept
<1>6. undone \in SUBSET Files /\ undone \in SUBSET step.targets /\ back \in SUBSET step.targets
  BY <1>2, <1>3
<1>7. /\ pool' \in Pools /\ pool'.capacity = pool.capacity
      /\ \A f \in Files : /\ pool'.content[f] = IF f \in undone THEN Absent ELSE pool.content[f]
                          /\ pool'.journal[f] = pool.journal[f]
  <2>1. pool \in Pools /\ pool' = Without(pool, undone, {})
    BY <1>2, <1>5 DEF TypeOK, Pools
  <2> QED
    BY <1>6, <2>1, WithoutFiles
<1>8. PICK next \in Steps :
        /\ Becomes(next) /\ next.stage = "restoring" /\ next.touched = step.touched
        /\ next.left = back /\ next.targets = step.targets
        /\ next.image = step.image /\ next.lost = step.lost /\ next.original = step.original /\ next.kind = step.kind
        /\ ~next.failed => kept = {}
  <2> DEFINE good == [step EXCEPT !.stage = "restoring", !.left = back]
             bad  == [step EXCEPT !.stage = "restoring", !.left = back, !.failed = TRUE]
  <2>1. /\ good \in Steps /\ good.stage = "restoring" /\ good.touched = step.touched
        /\ good.left = back /\ good.targets = step.targets
        /\ good.image = step.image /\ good.lost = step.lost /\ good.original = step.original /\ good.kind = step.kind
    BY <1>2, <1>6 DEF Steps
  <2>2. /\ bad \in Steps /\ bad.stage = "restoring" /\ bad.touched = step.touched
        /\ bad.left = back /\ bad.targets = step.targets /\ bad.failed
        /\ bad.image = step.image /\ bad.lost = step.lost /\ bad.original = step.original /\ bad.kind = step.kind
    BY <1>2, <1>6 DEF Steps
  <2>3. (kept = {} /\ Becomes(good)) \/ Becomes(bad)
    BY <1>5
  <2> HIDE DEF step, back, good, bad
  <2>4. CASE kept = {} /\ Becomes(good)
    BY <2>1, <2>4
  <2>5. CASE Becomes(bad)
    BY <2>2, <2>5
  <2> QED
    BY <2>3, <2>4, <2>5
<1>9. Progress(next)'
  <2>1. next.left \subseteq Originals(next)
    BY <1>2, <1>3, <1>8 DEF Originals
  <2>2. ASSUME ~next.failed, NEW f \in step.targets \ back PROVE pool'.content[f] = step.original[f]
    <3>1. undone = put /\ f \in Files
      BY <1>2, <1>8, <2>2
    <3>2. CASE f \in step.touched
      <4>1. step.original[f] = Absent
        BY <2>2, <3>2
      <4>2. f \in put \/ pool.content[f] = Absent
        BY <3>1, <3>2 DEF Databases
      <4> QED
        BY <1>7, <3>1, <4>1, <4>2
    <3>3. CASE f \notin step.touched
      BY <1>4, <1>7, <2>2, <3>1, <3>3
    <3> QED
      BY <3>2, <3>3
  <2> HIDE DEF step, back
  <2> QED
    BY <1>8, <2>1, <2>2 DEF Progress, Originals
<1> HIDE DEF step, put, back, undone
<1>10. StepOk(next) /\ WholeImage(next) /\ Imaged(next) = Imaged(step)
  BY <1>2, <1>3, <1>6, <1>8 DEF StepOk, Replacing, Imaged, Originals, WholeImage
<1>11. /\ \A f \in Files \ step.targets :
            pool'.content[f] = pool.content[f] /\ pool'.journal[f] = pool.journal[f]
       /\ \A f \in step.targets : pool'.journal[f] = Absent
       /\ Databases' \subseteq Databases
  BY <1>3, <1>6, <1>7 DEF Databases
<1> QED
  BY <1>1, <1>2, <1>3, <1>5, <1>7, <1>8, <1>9, <1>10, <1>11, ReplacementGoesOn DEF step

LEMMA RestoreKeepsInv ==
  ASSUME Inv, Restore PROVE Inv'
<1> DEFINE step == Head(queue)
<1>1. Running("restoring") /\ UNCHANGED <<installed, held, conns, snapshot, acked, lost>>
  BY DEF Restore
<1>2. /\ queue # <<>> /\ step \in Steps /\ step.stage = "restoring" /\ StepOk(step)
      /\ WholeImage(step)
      /\ step.targets \in SUBSET Files /\ TypeOK /\ pool \in Pools /\ Absent # Torn
  BY <1>1, RunningStep
<1>3. /\ Replacing(step) /\ step.kind # "open"
      /\ \A f \in step.targets : pool.journal[f] = Absent /\ f \in Files
      /\ Imaged(step) \subseteq step.targets
      /\ step.left \in SUBSET step.targets /\ step.touched \in SUBSET step.targets
      /\ Progress(step)
  BY <1>1, ReplacingStep
<1>4. /\ step.left \subseteq Originals(step)
      /\ ~step.failed => \A f \in step.targets \ step.left : pool.content[f] = step.original[f]
  BY <1>2, <1>3 DEF Progress
<1>5. PICK f \in step.left :
       \/ /\ pool' = [pool EXCEPT !.content[f] = step.original[f]]
          /\ Becomes([step EXCEPT !.left = @ \ {f}])
          /\ UNCHANGED faults
       \/ /\ (UNCHANGED faults \/ Fault) /\ UNCHANGED pool
          /\ Becomes([step EXCEPT !.left = @ \ {f}, !.failed = TRUE])
  BY DEF Restore
<1>6. /\ f \in step.targets /\ f \in Files /\ f \in Originals(step)
      /\ step.original[f] \in Images /\ pool.content[f] \in Images
  BY <1>2, <1>3, <1>4 DEF Steps, Pools
<1>7. faults' \in 0..MaxFaults
  BY <1>2, <1>5, FaultIsTyped DEF TypeOK
<1>8. PICK image \in Images :
        /\ pool' = [pool EXCEPT !.content[f] = image]
        /\ \/ image = step.original[f] /\ Becomes([step EXCEPT !.left = @ \ {f}])
           \/ Becomes([step EXCEPT !.left = @ \ {f}, !.failed = TRUE])
  <2>1. pool = [pool EXCEPT !.content[f] = pool.content[f]]
    BY <1>2, <1>6 DEF Pools
  <2> QED
    BY <1>5, <1>6, <2>1
<1>9. /\ pool' \in Pools /\ pool'.capacity = pool.capacity
      /\ \A g \in Files : /\ pool'.content[g] = IF g = f THEN image ELSE pool.content[g]
                          /\ pool'.journal[g] = pool.journal[g]
      /\ Databases' \subseteq Databases \cup {f}
  BY <1>6, <1>8, OneFile
<1>10. PICK next \in Steps :
        /\ Becomes(next) /\ next.stage = "restoring" /\ next.touched = step.touched
        /\ next.left = step.left \ {f} /\ next.targets = step.targets
        /\ next.image = step.image /\ next.lost = step.lost /\ next.original = step.original /\ next.kind = step.kind
        /\ ~next.failed => ~step.failed /\ image = step.original[f]
  <2> DEFINE good == [step EXCEPT !.left = @ \ {f}]
             bad  == [step EXCEPT !.left = @ \ {f}, !.failed = TRUE]
  <2>1. /\ good \in Steps /\ good.stage = "restoring" /\ good.touched = step.touched
        /\ good.left = step.left \ {f} /\ good.targets = step.targets
        /\ good.failed = step.failed
        /\ good.image = step.image /\ good.lost = step.lost /\ good.original = step.original /\ good.kind = step.kind
    BY <1>2, <1>6 DEF Steps
  <2>2. /\ bad \in Steps /\ bad.stage = "restoring" /\ bad.touched = step.touched
        /\ bad.left = step.left \ {f} /\ bad.targets = step.targets /\ bad.failed
        /\ bad.image = step.image /\ bad.lost = step.lost /\ bad.original = step.original /\ bad.kind = step.kind
    BY <1>2, <1>6 DEF Steps
  <2>3. (image = step.original[f] /\ Becomes(good)) \/ Becomes(bad)
    BY <1>8
  <2> HIDE DEF step, good, bad
  <2>4. CASE image = step.original[f] /\ Becomes(good)
    BY <2>1, <2>4
  <2>5. CASE Becomes(bad)
    BY <2>2, <2>5
  <2> QED
    BY <2>3, <2>4, <2>5
<1> HIDE DEF step
<1>11. StepOk(next) /\ WholeImage(next) /\ Imaged(next) = Imaged(step) /\ f \in Wanted(step)
  BY <1>2, <1>3, <1>6, <1>10 DEF StepOk, Replacing, Imaged, Originals, Wanted, WholeImage
<1>12. Progress(next)'
  <2>1. next.left \subseteq Originals(next)
    BY <1>4, <1>10 DEF Originals
  <2>2. ASSUME ~next.failed, NEW g \in step.targets \ (step.left \ {f})
        PROVE  pool'.content[g] = step.original[g]
    BY <1>2, <1>4, <1>9, <1>10, <2>2
  <2> QED
    BY <1>10, <2>1, <2>2 DEF Progress, Originals
<1>13. /\ \A g \in Files \ step.targets :
            pool'.content[g] = pool.content[g] /\ pool'.journal[g] = pool.journal[g]
       /\ \A g \in step.targets : pool'.journal[g] = Absent
       /\ Databases' \subseteq Databases \cup Wanted(step)
  BY <1>3, <1>6, <1>9, <1>11
<1> QED
  BY <1>1, <1>2, <1>3, <1>7, <1>9, <1>10, <1>11, <1>12, <1>13, ReplacementGoesOn DEF step

\* A replacement ends, and what it replaced is what was stored last or is lost.
LEMMA ReplacementEnds ==
  ASSUME Inv, queue # <<>>, Replacing(Head(queue)), Head(queue).stage # "unlinking", Ends,
         UNCHANGED <<pool, installed, held, conns, snapshot, faults>>,
         acked' \in [Files -> Images], lost' \subseteq Files,
         \A f \in Files \ Head(queue).targets : acked'[f] = acked[f] /\ (f \in lost => f \in lost'),
         \A f \in Head(queue).targets \ lost' :
           acked'[f] # Torn /\ pool.journal[f] = Absent /\ pool.content[f] = acked'[f]
  PROVE  Inv'
<1>1. TypeOK /\ StepInv /\ Head(queue) \in Steps /\ pool.capacity \in Nat
  BY HeadOfQueue DEF Inv, TypeOK
<1>2. Databases' = Databases /\ Occupied' = Occupied
  BY DEF Databases, Occupied, Journals, Open
<1>3. Load(Databases', Occupied') <= pool'.capacity
  BY <1>1, <1>2, LessIsEnough
<1>4. /\ queue' \in Seq(Steps) /\ BeingReplaced' = {}
      /\ StepInv' /\ ReplacementInv' /\ ExportsAreWhole' /\ RoomInv'
  BY <1>3, IsOver
<1>5. TypeOK'
  BY <1>1, <1>4 DEF TypeOK
<1>6. ConnInv'
  BY DEF Inv, ConnInv, Conn
<1>7. KeptInv'
  <2>1. BeingReplaced \subseteq Head(queue).targets
    BY <1>1 DEF BeingReplaced
  <2>2. ASSUME NEW f \in Files, f \notin lost' PROVE (acked[f] # Torn /\ Kept(f))'
    <3>1. CASE f \in Head(queue).targets
      BY <2>2, <3>1 DEF Kept
    <3>2. CASE f \notin Head(queue).targets
      BY <2>1, <2>2, <3>2 DEF Inv, KeptInv, Kept
    <3> QED
      BY <3>1, <3>2
  <2> QED
    BY <2>2 DEF KeptInv
<1> QED
  BY <1>4, <1>5, <1>6, <1>7 DEF Inv

LEMMA ReplacedKeepsInv ==
  ASSUME Inv, Replaced PROVE Inv'
<1> DEFINE step == Head(queue)
<1>1. /\ Running("importing") /\ step.left = {} /\ Ends
      /\ acked' = [f \in Files |-> IF f \in step.targets THEN step.image[f] ELSE acked[f]]
      /\ lost' = (lost \ step.targets) \cup step.lost
      /\ UNCHANGED <<pool, installed, held, conns, snapshot, faults>>
  BY DEF Replaced
<1>2. /\ queue # <<>> /\ step \in Steps /\ step.stage = "importing"
      /\ WholeImage(step)
      /\ step.targets \in SUBSET Files /\ TypeOK
  BY <1>1, RunningStep
<1>3. /\ Replacing(step) /\ Progress(step)
      /\ \A f \in step.targets : pool.journal[f] = Absent /\ f \in Files
  BY <1>1, ReplacingStep
<1>4. \A f \in step.targets : pool.content[f] = step.image[f]
  BY <1>1, <1>2, <1>3 DEF Progress
<1>5. step.image \in [Files -> Images] /\ acked \in [Files -> Images] /\ lost \subseteq Files
      /\ step.lost \subseteq Files
  BY <1>2 DEF Steps, TypeOK
<1> HIDE DEF step
<1>6. /\ acked' \in [Files -> Images] /\ lost' \subseteq Files
      /\ \A f \in Files \ step.targets : acked'[f] = acked[f] /\ (f \in lost => f \in lost')
      /\ \A f \in step.targets : acked'[f] = step.image[f]
  BY <1>1, <1>3, <1>5
<1>7. \A f \in step.targets \ lost' :
        acked'[f] # Torn /\ pool.journal[f] = Absent /\ pool.content[f] = acked'[f]
  BY <1>1, <1>2, <1>3, <1>4, <1>6 DEF WholeImage
<1> QED
  BY <1>1, <1>2, <1>3, <1>6, <1>7, ReplacementEnds DEF step

LEMMA RolledBackKeepsInv ==
  ASSUME Inv, RolledBack PROVE Inv'
<1> DEFINE step == Head(queue)
<1>1. /\ Running("restoring") /\ step.left = {} /\ Ends
      /\ lost' = IF step.failed THEN lost \cup step.targets ELSE lost
      /\ UNCHANGED <<pool, installed, held, conns, snapshot, acked, faults>>
  BY DEF RolledBack
<1>2. /\ queue # <<>> /\ step \in Steps /\ step.stage = "restoring"
      /\ step.targets \in SUBSET Files /\ TypeOK
  BY <1>1, RunningStep
<1>3. /\ Replacing(step) /\ Progress(step)
      /\ \A f \in step.targets : pool.journal[f] = Absent /\ f \in Files
      /\ \A f \in step.targets \ lost : step.original[f] = acked[f] /\ acked[f] # Torn
  BY <1>1, ReplacingStep
<1>4. ~step.failed => \A f \in step.targets : pool.content[f] = step.original[f]
  BY <1>1, <1>2, <1>3 DEF Progress
<1>5. acked' \in [Files -> Images] /\ lost' \subseteq Files
  BY <1>1, <1>2 DEF TypeOK
<1> HIDE DEF step
<1>6. \A f \in step.targets \ lost' :
        acked'[f] # Torn /\ pool.journal[f] = Absent /\ pool.content[f] = acked'[f]
  BY <1>1, <1>3, <1>4
<1>7. \A f \in Files \ step.targets : acked'[f] = acked[f] /\ (f \in lost => f \in lost')
  BY <1>1
<1> QED
  BY <1>1, <1>2, <1>3, <1>5, <1>6, <1>7, ReplacementEnds DEF step

-----------------------------------------------------------------------------
(***************************************************************************)
(* The theorems.                                                           *)
(***************************************************************************)

LEMMA Starting == Init => Inv
<1> SUFFICES ASSUME Init PROVE Inv
  OBVIOUS
<1>1. TypeOK
  BY StartsTyped
<1>2. /\ \A f \in Files : /\ pool.content[f] = Absent /\ pool.journal[f] = Absent
                          /\ conns[f] = "closed" /\ acked[f] = Absent
      /\ pool.capacity = Initial /\ queue = <<>> /\ snapshot = NoSnapshot
  BY DEF Init
<1>3. Len(queue) = 0 /\ DOMAIN queue = {} /\ Absent # Torn
  BY <1>2 DEF Absent, Torn
<1>4. StepInv /\ ReplacementInv /\ ConnInv /\ KeptInv
  BY <1>2, <1>3 DEF StepInv, ReplacementInv, ConnInv, Conn, KeptInv, Kept
<1>5. ExportsAreWhole
  BY <1>2, <1>3, NoImage DEF ExportsAreWhole
<1>6. RoomInv
  <2>1. Databases = {} /\ Occupied = {}
    BY <1>2 DEF Databases, Occupied, Journals, Open
  <2>2. Load(Databases, Occupied) = 0
    BY <2>1, FS_EmptySet DEF Load
  <2> QED
    BY <1>2, <2>2, SahPoolAssumption DEF RoomInv
<1> QED
  BY <1>1, <1>4, <1>5, <1>6 DEF Inv

LEMMA NextStep == Inv /\ [Next]_vars => Inv'
<1> SUFFICES ASSUME Inv, [Next]_vars PROVE Inv'
  OBVIOUS
<1>1. CASE UNCHANGED vars
  <2>1. TypeOK'
    BY <1>1 DEF Inv, TypeOK, vars
  <2>2. StepInv' /\ ConnInv' /\ KeptInv' /\ ReplacementInv' /\ RoomInv' /\ ExportsAreWhole'
    BY <1>1, NowhereElse, NoTornImage DEF vars
  <2> QED
    BY <2>1, <2>2 DEF Inv
<1>2. CASE Install \/ Installs \/ InstallTimesOut \/ ReleaseHandles \/ Terminate
  BY <1>2, WorkerKeepsInv, TerminateKeepsInv
<1>3. CASE \/ \E f \in Files : BeginWrite(f) \/ CommitWrite(f) \/ RollbackWrite(f)
           \/ \E f \in Files : Reset(f) \/ ResetFails(f)
  BY <1>3, WritesKeepInv, ResetsKeepInv
<1>4. CASE \/ \E p \in Prefixes : CloseStorage(p) \/ ExportSnapshot(p)
           \/ \E p \in Prefixes : DeleteStorage(p) \/ DeletionCutOff(p)
  BY <1>4, CloseKeepsInv, DeleteKeepsInv, ExportKeepsInv
<1>5. CASE \/ \E f \in Files : CallOpen(f)
           \/ \E p, from \in Prefixes : CallRestore(p, from)
           \/ \E p, from \in Prefixes : CallCopy(p, from)
           \/ CallImportPool
  BY <1>5, CallsKeepInv
<1>6. CASE ExportPool \/ Reserve \/ GrowFails \/ OpenRuns \/ OpenFails \/ ReplaceRuns
  BY <1>6, ExportPoolKeepsInv, ReserveKeepsInv, GrowFailsKeepsInv, OpenKeepsInv,
     OpenFailsKeepsInv, ReplaceKeepsInv
<1>7. CASE Unlink \/ Import \/ Replaced \/ Undo \/ Restore \/ RolledBack
  BY <1>7, UnlinkKeepsInv, ImportKeepsInv, ReplacedKeepsInv, UndoKeepsInv, RestoreKeepsInv,
     RolledBackKeepsInv
<1> QED
  BY <1>1, <1>2, <1>3, <1>4, <1>5, <1>6, <1>7 DEF Next

LEMMA Invariance == Spec => []Inv
  BY Starting, NextStep, PTL DEF Spec

\* The state keeps its shape, and the queue runs one step at a time (withHeadroom()): the
\* first, on targets that nobody is connected to while they are replaced.
THEOREM Typing == Spec => [](TypeOK /\ StepInv /\ ReplacementInv)
<1>1. Inv => TypeOK /\ StepInv /\ ReplacementInv
  BY DEF Inv
<1> QED
  BY <1>1, Invariance, PTL

\* Whatever was acknowledged can be read back, through terminated workers, resets that fail
\* after their unlink, deletions cut off between any two unlinks and replacements that fail
\* anywhere and are undone (reset(), deleteAll() and replacePoolFiles()), unless the file is
\* lost: half replaced, or half written when a deletion took its journal only.
THEOREM Acknowledged == Spec => []AcknowledgedIsKept
<1>1. Inv => AcknowledgedIsKept
  <2> SUFFICES ASSUME Inv, NEW f \in Files \ (BeingReplaced \cup lost)
               PROVE  Recovered(pool, {f}).content[f] = acked[f]
    BY DEF AcknowledgedIsKept
  <2>1. Kept(f) /\ pool \in Pools
    BY DEF Inv, KeptInv, TypeOK, Pools
  <2>2. Recovered(pool, {f}).content[f] =
          IF pool.content[f] \notin {Absent, Fresh} /\ pool.journal[f] # Absent
            THEN pool.journal[f] ELSE pool.content[f]
    BY <2>1, RecoveredIs
  <2> QED
    BY <2>1, <2>2 DEF Kept, Torn, Fresh
<1> QED
  BY <1>1, Invariance, PTL

\* No image that leaves the pool holds half a transaction (exportSnapshot(), copyFrom() and
\* exportSqliteWasmPoolSnapshot()), unless its file was lost before it was read.
THEOREM Whole == Spec => []ExportsAreWhole
<1>1. Inv => ExportsAreWhole
  BY DEF Inv
<1> QED
  BY <1>1, Invariance, PTL

\* The pool has a slot for the journal of every open connection, however opens, writes and
\* replacements interleave with the awaits of withHeadroom().
THEOREM Room == Spec => []RoomForJournals
<1>1. Inv => RoomForJournals
  <2> SUFFICES ASSUME Inv PROVE RoomForJournals
    OBVIOUS
  <2> DEFINE still == {f \in Open : f \notin Journals}
  <2>1. /\ IsFiniteSet(Databases) /\ IsFiniteSet(Journals) /\ IsFiniteSet(still)
    BY FilesAreFinite, FS_Subset DEF Databases, Journals, Open
  <2>2. still \cap Journals = {} /\ Occupied = Journals \cup still
    BY DEF Occupied
  <2> HIDE DEF still
  <2>3. PICK d \in Nat, j \in Nat, s \in Nat :
          d = Cardinality(Databases) /\ j = Cardinality(Journals) /\ s = Cardinality(still)
    BY <2>1, FS_CardinalityType
  <2>4. Cardinality(Occupied) = j + s
    <3>1. Cardinality(Journals \cup still) = j + s - Cardinality(Journals \cap still)
      BY <2>1, <2>3, FS_Union
    <3>2. Cardinality(Journals \cap still) = 0
      BY <2>2, FS_EmptySet
    <3> QED
      BY <2>2, <2>3, <3>1, <3>2
  <2>5. pool.capacity \in Nat /\ d + (j + s) <= pool.capacity
    BY <2>3, <2>4 DEF Inv, TypeOK, RoomInv, Load
  <2>6. Used + Cardinality(still) = (d + j) + s
    BY <2>3 DEF Used
  <2> QED
    BY <2>3, <2>5, <2>6 DEF RoomForJournals, still
<1> QED
  BY <1>1, Invariance, PTL


-----------------------------------------------------------------------------
(***************************************************************************)
(* A slot whenever one is taken.                                           *)
(***************************************************************************)

\* A write, an import, an original that is put back and an open that creates its file take
\* a slot of the pool.
SlotWhenNeeded ==
  /\ \A f \in Files : conns[f] = "idle" => HasRoom
  /\ Running("importing") /\ Head(queue).left # {} => HasRoom
  /\ Running("restoring") => \A f \in Head(queue).left : f \in Databases \/ HasRoom
  /\ Running("growing") /\ Head(queue).kind = "open" =>
       \A f \in Head(queue).targets : f \in Databases \/ Used < Head(queue).need

LEMMA OneMoreDatabase ==
  ASSUME NEW D \in SUBSET Files, NEW O \in SUBSET Files, NEW n \in Nat, Load(D, O) <= n,
         Databases \subseteq D, Journals \subseteq O, NEW f \in D, f \notin Databases
  PROVE  Used < n
<1>1. Databases \cup {f} \in SUBSET D /\ Journals \in SUBSET O
  OBVIOUS
<1>2. Load(Databases \cup {f}, Journals) \in Nat /\ Load(Databases \cup {f}, Journals) <= n
  BY <1>1, Fits
<1>3. IsFiniteSet(Databases) /\ IsFiniteSet(Journals)
  BY FilesAreFinite, FS_Subset DEF Databases, Journals
<1>4. PICK d \in Nat, j \in Nat : d = Cardinality(Databases) /\ j = Cardinality(Journals)
  BY <1>3, FS_CardinalityType
<1>5. Cardinality(Databases \cup {f}) = d + 1
  BY <1>3, <1>4, FS_AddElement
<1>6. Used = d + j /\ Load(Databases \cup {f}, Journals) = (d + 1) + j
  BY <1>4, <1>5 DEF Used, Load
<1> QED
  BY <1>2, <1>4, <1>6

LEMMA OneMoreJournal ==
  ASSUME NEW D \in SUBSET Files, NEW O \in SUBSET Files, NEW n \in Nat, Load(D, O) <= n,
         Databases \subseteq D, Journals \subseteq O, NEW f \in O, f \notin Journals
  PROVE  Used < n
<1>1. Databases \in SUBSET D /\ Journals \cup {f} \in SUBSET O
  OBVIOUS
<1>2. Load(Databases, Journals \cup {f}) \in Nat /\ Load(Databases, Journals \cup {f}) <= n
  BY <1>1, Fits
<1>3. IsFiniteSet(Databases) /\ IsFiniteSet(Journals)
  BY FilesAreFinite, FS_Subset DEF Databases, Journals
<1>4. PICK d \in Nat, j \in Nat : d = Cardinality(Databases) /\ j = Cardinality(Journals)
  BY <1>3, FS_CardinalityType
<1>5. Cardinality(Journals \cup {f}) = j + 1
  BY <1>3, <1>4, FS_AddElement
<1>6. Used = d + j /\ Load(Databases, Journals \cup {f}) = d + (j + 1)
  BY <1>4, <1>5 DEF Used, Load
<1> QED
  BY <1>2, <1>4, <1>6

\* Nothing that takes a slot finds the pool full, neither the journals of connections nor
\* the imports and the rollback of a replacement, whatever began, ended or failed since the
\* slots were counted (withHeadroom() and replacePoolFiles()).
THEOREM Headroom == Spec => []SlotWhenNeeded
<1>1. ASSUME Inv PROVE SlotWhenNeeded
  <2>1. /\ Databases \in SUBSET Files /\ Occupied \in SUBSET Files /\ Journals \subseteq Occupied
        /\ Databases \subseteq Databases /\ pool.capacity \in Nat
    BY <1>1 DEF Databases, Occupied, Journals, Open, Inv, TypeOK
  <2>2. ASSUME NEW f \in Files, conns[f] = "idle" PROVE HasRoom
    <3>1. f \in Occupied /\ f \notin Journals
      BY <1>1, <2>2 DEF Occupied, Open, Journals, Inv, ConnInv, Conn
    <3>2. Load(Databases, Occupied) <= pool.capacity
      BY <1>1 DEF Inv, RoomInv
    <3> QED
      BY <2>1, <3>1, <3>2, OneMoreJournal DEF HasRoom
  <2>3. ASSUME NEW stage \in {"importing", "restoring"}, Running(stage),
               NEW f \in Head(queue).left, f \notin Databases
        PROVE  HasRoom
    <3> DEFINE step == Head(queue)
    <3>1. /\ queue # <<>> /\ step \in Steps /\ step.stage = stage /\ Replacing(step)
          /\ Progress(step)
      BY <1>1, <2>3, RunningStep, ReplacingStep
    <3>2. /\ Databases \cup Wanted(step) \in SUBSET Files /\ f \in Databases \cup Wanted(step)
          /\ Databases \subseteq Databases \cup Wanted(step)
      BY <2>1, <2>3, <3>1 DEF Wanted, Joining, Imaged, Originals, Progress, Steps
    <3>3. Load(Databases \cup Wanted(step), Occupied) <= pool.capacity
      BY <1>1, <3>1 DEF Inv, RoomInv
    <3> HIDE DEF step
    <3> QED
      BY <2>1, <2>3, <3>2, <3>3, OneMoreDatabase DEF HasRoom
  <2>4. Running("importing") => Head(queue).left \cap Databases = {}
    BY <1>1, ReplacingStep, RunningStep DEF Progress
  <2>5. ASSUME Running("growing"), Head(queue).kind = "open", NEW f \in Head(queue).targets,
               f \notin Databases
        PROVE  Used < Head(queue).need
    <3> DEFINE step == Head(queue)
    <3>1. queue # <<>> /\ step \in Steps /\ step.stage = "growing"
      BY <1>1, <2>5, RunningStep
    <3>2. /\ Databases \cup Wanted(step) \in SUBSET Files /\ f \in Databases \cup Wanted(step)
          /\ Occupied \cup Joining(step) \in SUBSET Files
          /\ Journals \subseteq Occupied \cup Joining(step)
          /\ Databases \subseteq Databases \cup Wanted(step) /\ step.need \in Nat
      BY <2>1, <2>5, <3>1 DEF Wanted, Joining, Imaged, Originals, Steps
    <3>3. Load(Databases \cup Wanted(step), Occupied \cup Joining(step)) <= step.need
      BY <1>1, <3>1 DEF Inv, RoomInv
    <3> HIDE DEF step
    <3>4. Used < step.need
      BY <2>5, <3>2, <3>3, OneMoreDatabase
    <3> QED
      BY <3>4 DEF step
  <2> QED
    BY <2>2, <2>3, <2>4, <2>5 DEF SlotWhenNeeded
<1> QED
  BY <1>1, Invariance, PTL

=============================================================================
