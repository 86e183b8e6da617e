-------------------------- MODULE ExampleWriter_proofs -------------------------
(***************************************************************************)
(* One dataset per topic, and a lock that always comes free again, for any *)
(* number of users and topics.                                             *)
(***************************************************************************)
EXTENDS ExampleWriter, TLAPS

AboutKnown == \A u \in Users : call[u] # "none" => about[u] \in Names

\* Whoever talks to LangSmith about a dataset holds the lock.
LockHeld == \A u \in Users : call[u] \in {"list", "create"} => lock = u

\* Whoever creates a dataset creates the first of its name.
CreatesFirst == \A u \in Users : call[u] = "create" => datasets[about[u]] = 0

WriterInv ==
    /\ WriterTypeOK
    /\ AboutKnown
    /\ LockHeld
    /\ CreatesFirst
    /\ OneDatasetPerTopic
    /\ NoAbandonedLock

\* The initial states satisfy WriterInv.
LEMMA WriterInvInit == WriterInit => WriterInv
    BY NoneIsNoUser
       DEF WriterInit, WriterInv, WriterTypeOK, CallSteps, AboutKnown, LockHeld,
           CreatesFirst, OneDatasetPerTopic, NoAbandonedLock

\* A user moves from one call to the next alone.
LEMMA GotoTyped ==
    ASSUME NEW u \in Users, NEW step \in CallSteps, WriterTypeOK, AboutKnown,
           Goto(u, step), step # "none" => call[u] # "none"
    PROVE  /\ call' \in [Users -> CallSteps]
           /\ about' \in [Users -> Names \union {None}]
           /\ call'[u] = step
           /\ \A v \in Users : v # u => call'[v] = call[v] /\ about'[v] = about[v]
           /\ step # "none" => about'[u] = about[u]
           /\ AboutKnown'
<1>1. call' = [call EXCEPT ![u] = step]
    BY DEF Goto
<1>2. about' = [about EXCEPT ![u] = IF step = "none" THEN None ELSE @]
    BY DEF Goto
<1> QED
    BY <1>1, <1>2 DEF WriterTypeOK, AboutKnown

\* Starting to write an example keeps WriterInv.
LEMMA WriterInvAddExample ==
    ASSUME NEW u \in Users, NEW name \in Names, WriterInv, AddExample(u, name)
    PROVE  WriterInv'
<1>1. WriterTypeOK' /\ AboutKnown'
    BY DEF WriterInv, WriterTypeOK, CallSteps, AboutKnown, AddExample
<1>2. LockHeld' /\ CreatesFirst' /\ OneDatasetPerTopic' /\ NoAbandonedLock'
    BY DEF WriterInv, WriterTypeOK, LockHeld, CreatesFirst, OneDatasetPerTopic,
           NoAbandonedLock, AddExample
<1> QED
    BY <1>1, <1>2 DEF WriterInv

\* Taking the lock keeps WriterInv, or finds the id and goes on.
LEMMA WriterInvEnsureDataset ==
    ASSUME NEW u \in Users, WriterInv, EnsureDataset(u)
    PROVE  WriterInv'
<1>1. PICK step \in {"example", "list"} : Goto(u, step) /\ (step = "list" => lock' = u)
                                          /\ (step = "example" => lock' = lock)
    BY DEF EnsureDataset
<1>2. lock = None /\ call[u] = "ensure" /\ datasetIds' = datasetIds /\ datasets' = datasets
    BY DEF EnsureDataset
<1>3. /\ call' \in [Users -> CallSteps]
      /\ about' \in [Users -> Names \union {None}]
      /\ call'[u] = step
      /\ \A v \in Users : v # u => call'[v] = call[v] /\ about'[v] = about[v]
      /\ AboutKnown'
    BY <1>1, <1>2, GotoTyped DEF WriterInv, CallSteps
<1>4. WriterTypeOK'
    BY <1>1, <1>2, <1>3 DEF WriterInv, WriterTypeOK
\* The lock was free, so nobody was at LangSmith.
<1>5. \A v \in Users : call[v] \notin {"list", "create"}
    BY <1>2, NoneIsNoUser DEF WriterInv, LockHeld
<1>6. LockHeld' /\ CreatesFirst'
    BY <1>1, <1>3, <1>5 DEF LockHeld, CreatesFirst
<1>7. NoAbandonedLock'
    BY <1>1, <1>2, <1>3, NoneIsNoUser DEF NoAbandonedLock
<1> QED
    BY <1>2, <1>3, <1>4, <1>6, <1>7 DEF WriterInv, OneDatasetPerTopic

\* Whoever leaves the lock leaves it free, and no one else at LangSmith.
LEMMA ReleaseFrees ==
    ASSUME NEW u \in Users, WriterInv, Release(u)
    PROVE  /\ lock' \in Users \union {None}
           /\ \A v \in Users : v # u /\ call[v] \in {"list", "create"} => lock' = v
           /\ call[u] \in {"list", "create"} =>
                 \A v \in Users : v # u => call[v] \notin {"list", "create"}
           /\ \A v \in Users :
                 lock' = v => v # u /\ call[v] \in {"list", "create"}
    BY NoneIsNoUser DEF WriterInv, WriterTypeOK, LockHeld, NoAbandonedLock, Release

\* Who finds no dataset keeps the lock and is the one to create it.
LEMMA WriterInvListDatasets ==
    ASSUME NEW u \in Users, WriterInv, ListDatasets(u)
    PROVE  WriterInv'
<1>1. call[u] = "list" /\ datasets' = datasets /\ about[u] \in Names /\ lock = u
    BY DEF ListDatasets, WriterInv, AboutKnown, LockHeld
<1>2. CASE Goto(u, "example") /\ datasetIds' = datasetIds \union {about[u]} /\ Release(u)
    <2>1. /\ call' \in [Users -> CallSteps]
          /\ about' \in [Users -> Names \union {None}]
          /\ call'[u] = "example"
          /\ \A v \in Users : v # u => call'[v] = call[v] /\ about'[v] = about[v]
          /\ AboutKnown'
        BY <1>1, <1>2, GotoTyped DEF WriterInv, CallSteps
    <2>2. WriterTypeOK'
        BY <1>1, <1>2, <2>1, ReleaseFrees DEF WriterInv, WriterTypeOK
    <2>3. LockHeld' /\ CreatesFirst' /\ NoAbandonedLock'
        BY <1>1, <1>2, <2>1, ReleaseFrees DEF LockHeld, CreatesFirst, NoAbandonedLock
    <2> QED
        BY <1>1, <2>1, <2>2, <2>3 DEF WriterInv, OneDatasetPerTopic
<1>3. CASE datasets[about[u]] = 0 /\ Goto(u, "create") /\ UNCHANGED <<datasetIds, lock>>
    <2>1. /\ call' \in [Users -> CallSteps]
          /\ about' \in [Users -> Names \union {None}]
          /\ call'[u] = "create"
          /\ about'[u] = about[u]
          /\ \A v \in Users : v # u => call'[v] = call[v] /\ about'[v] = about[v]
          /\ AboutKnown'
        BY <1>1, <1>3, GotoTyped DEF WriterInv, CallSteps
    <2>2. WriterTypeOK'
        BY <1>1, <1>3, <2>1 DEF WriterInv, WriterTypeOK
    <2>3. LockHeld' /\ NoAbandonedLock'
        BY <1>1, <1>3, <2>1 DEF WriterInv, LockHeld, NoAbandonedLock
    <2>4. CreatesFirst'
        BY <1>1, <1>3, <2>1 DEF WriterInv, CreatesFirst
    <2> QED
        BY <1>1, <2>1, <2>2, <2>3, <2>4 DEF WriterInv, OneDatasetPerTopic
<1> QED
    BY <1>2, <1>3 DEF ListDatasets

\* Creating the dataset of u, with or without hearing of it, and leaving.
LEMMA WriterInvAfterCreate ==
    ASSUME NEW u \in Users, NEW step \in {"example", "none"}, WriterInv,
           call[u] = "create", Goto(u, step), Release(u), datasetIds' \in SUBSET Names,
           datasets' = [datasets EXCEPT ![about[u]] = @ + 1]
    PROVE  WriterInv'
<1>1. about[u] \in Names /\ datasets[about[u]] = 0
    BY DEF WriterInv, AboutKnown, CreatesFirst
<1>2. /\ call' \in [Users -> CallSteps]
      /\ about' \in [Users -> Names \union {None}]
      /\ call'[u] = step
      /\ \A v \in Users : v # u => call'[v] = call[v] /\ about'[v] = about[v]
      /\ AboutKnown'
    BY GotoTyped DEF WriterInv, CallSteps
<1>3. WriterTypeOK'
    BY <1>1, <1>2, ReleaseFrees DEF WriterInv, WriterTypeOK
<1>4. LockHeld' /\ CreatesFirst' /\ NoAbandonedLock'
    BY <1>2, ReleaseFrees DEF LockHeld, CreatesFirst, NoAbandonedLock
<1>5. OneDatasetPerTopic'
    BY <1>1 DEF WriterInv, WriterTypeOK, OneDatasetPerTopic
<1> QED
    BY <1>2, <1>3, <1>4, <1>5 DEF WriterInv

\* A call that is cut off, with effect or without, keeps WriterInv.
LEMMA WriterInvCutOff ==
    ASSUME NEW u \in Users, WriterInv, CutOff(u)
    PROVE  WriterInv'
<1>1. CASE call[u] = "create" /\ datasets' = [datasets EXCEPT ![about[u]] = @ + 1]
    <2>1. Goto(u, "none") /\ Release(u) /\ datasetIds' \in SUBSET Names
        BY DEF CutOff, WriterInv, WriterTypeOK
    <2> QED
        BY <1>1, <2>1, WriterInvAfterCreate
<1>2. CASE datasets' = datasets
    <2>1. /\ call' \in [Users -> CallSteps]
          /\ about' \in [Users -> Names \union {None}]
          /\ call'[u] = "none"
          /\ \A v \in Users : v # u => call'[v] = call[v] /\ about'[v] = about[v]
          /\ AboutKnown'
        BY GotoTyped DEF CutOff, WriterInv, CallSteps
    <2>2. WriterTypeOK'
        BY <1>2, <2>1, ReleaseFrees DEF CutOff, WriterInv, WriterTypeOK
    <2>3. LockHeld' /\ NoAbandonedLock'
        BY <2>1, ReleaseFrees DEF CutOff, LockHeld, NoAbandonedLock
    <2>4. CreatesFirst'
        BY <1>2, <2>1 DEF WriterInv, CreatesFirst
    <2> QED
        BY <1>2, <2>1, <2>2, <2>3, <2>4 DEF WriterInv, OneDatasetPerTopic
<1> QED
    BY <1>1, <1>2 DEF CutOff

\* Only the one that holds the lock creates, and only what was not there.
LEMMA WriterInvCreateDataset ==
    ASSUME NEW u \in Users, WriterInv, CreateDataset(u)
    PROVE  WriterInv'
<1>1. datasetIds' \in SUBSET Names
    BY DEF CreateDataset, WriterInv, WriterTypeOK, AboutKnown
<1> QED
    BY <1>1, WriterInvAfterCreate DEF CreateDataset

\* Creating the example touches no dataset.
LEMMA WriterInvCreateExample ==
    ASSUME NEW u \in Users, WriterInv, CreateExample(u)
    PROVE  WriterInv'
<1>1. /\ call' \in [Users -> CallSteps]
      /\ about' \in [Users -> Names \union {None}]
      /\ call'[u] = "none"
      /\ \A v \in Users : v # u => call'[v] = call[v] /\ about'[v] = about[v]
      /\ AboutKnown'
    BY GotoTyped DEF CreateExample, WriterInv, CallSteps
<1>2. WriterTypeOK'
    BY <1>1 DEF CreateExample, WriterInv, WriterTypeOK
<1>3. LockHeld' /\ CreatesFirst' /\ NoAbandonedLock'
    BY <1>1 DEF CreateExample, WriterInv, LockHeld, CreatesFirst, NoAbandonedLock
<1> QED
    BY <1>1, <1>2, <1>3 DEF CreateExample, WriterInv, OneDatasetPerTopic

\* Each step keeps WriterInv.
LEMMA WriterInvStep == WriterInv /\ [WriterNext]_writerVars => WriterInv'
<1> SUFFICES ASSUME WriterInv, [WriterNext]_writerVars PROVE WriterInv'
    OBVIOUS
<1>1. CASE UNCHANGED writerVars
    BY <1>1 DEF writerVars, WriterInv, WriterTypeOK, AboutKnown, LockHeld, CreatesFirst,
                OneDatasetPerTopic, NoAbandonedLock
<1>2. ASSUME NEW u \in Users, SyncStep(u) PROVE WriterInv'
    BY <1>2, WriterInvEnsureDataset, WriterInvListDatasets, WriterInvCreateDataset,
       WriterInvCreateExample, WriterInvCutOff DEF SyncStep, SyncFails
<1> QED
    BY <1>1, <1>2, WriterInvAddExample, WriterInvCutOff DEF WriterNext

\* Type correctness.
THEOREM WriterTyped == WriterSpec => []WriterTypeOK
<1>1. WriterInv => WriterTypeOK
    BY DEF WriterInv
<1> QED
    BY <1>1, WriterInvInit, WriterInvStep, PTL DEF WriterSpec

\* No topic gets a second dataset, whatever calls fail, half fail, or are cut off,
\* for any users and topics.
THEOREM NoSecondDataset == WriterSpec => []OneDatasetPerTopic
<1>1. WriterInv => OneDatasetPerTopic
    BY DEF WriterInv
<1> QED
    BY <1>1, WriterInvInit, WriterInvStep, PTL DEF WriterSpec

\* The lock is held only by a user in a call to LangSmith: whatever ends the call,
\* its return, an exception or the user being stopped, gives the lock back.
THEOREM LockComesFree == WriterSpec => []NoAbandonedLock
<1>1. WriterInv => NoAbandonedLock
    BY DEF WriterInv
<1> QED
    BY <1>1, WriterInvInit, WriterInvStep, PTL DEF WriterSpec

===============================================================================
