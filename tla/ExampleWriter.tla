----------------------------- MODULE ExampleWriter ----------------------------
(***************************************************************************)
(* LangSmithExampleWriter: every question an AI user is about to send is   *)
(* added to the LangSmith dataset of its topic, which is created on first  *)
(* use. All users share the writer, its lock is held across two calls to   *)
(* LangSmith, and any call may fail; LangSmith itself is external.         *)
(***************************************************************************)
EXTENDS LoadUsers, Naturals

CONSTANT Names     \* of the datasets, one for each topic

VARIABLES
    call,           \* how far a user's call of add_example is
    about,          \* the dataset it is for, None outside a call
    lock,           \* who holds _lock
    datasetIds,     \* _dataset_ids: the datasets whose id is cached
    datasets        \* how many datasets of each name LangSmith holds

writerVars == <<call, about, lock, datasetIds, datasets>>

\* "ensure": at the lock; "list", "create": in the call to LangSmith, with the
\* lock; "example": in create_example, without it.
CallSteps == {"none", "ensure", "list", "create", "example"}

WriterInit ==
    /\ call = [u \in Users |-> "none"]
    /\ about = [u \in Users |-> None]
    /\ lock = None
    /\ datasetIds = {}
    /\ datasets = [d \in Names |-> 0]

Goto(u, step) ==
    /\ call' = [call EXCEPT ![u] = step]
    /\ about' = [about EXCEPT ![u] = IF step = "none" THEN None ELSE @]

\* Whoever leaves the `with self._lock` block, on whatever way.
Release(u) == lock' = IF lock = u THEN None ELSE lock

\* add_example of a question that is not blank.
AddExample(u, name) ==
    /\ call[u] = "none"
    /\ call' = [call EXCEPT ![u] = "ensure"]
    /\ about' = [about EXCEPT ![u] = name]
    /\ UNCHANGED <<lock, datasetIds, datasets>>

\* Mutant: the lock is taken only to look into the cache.
EnsureDatasetMutant(u) ==
    /\ call[u] = "ensure"
    /\ lock = None
    /\ Goto(u, IF about[u] \in datasetIds THEN "example" ELSE "list")
    /\ UNCHANGED <<lock, datasetIds, datasets>>

\* The lock is free. If the id is cached, it is also free again at once.
EnsureDataset(u) ==
    /\ call[u] = "ensure"
    /\ lock = None
    /\ \/ /\ about[u] \in datasetIds
          /\ Goto(u, "example")
          /\ UNCHANGED lock
       \/ /\ about[u] \notin datasetIds
          /\ Goto(u, "list")
          /\ lock' = u
    /\ UNCHANGED <<datasetIds, datasets>>

\* list_datasets has returned: with a dataset, or with none.
ListDatasets(u) ==
    /\ call[u] = "list"
    /\ \/ /\ datasets[about[u]] > 0
          /\ Goto(u, "example")
          /\ datasetIds' = datasetIds \union {about[u]}
          /\ Release(u)
       \/ /\ datasets[about[u]] = 0
          /\ Goto(u, "create")
          /\ UNCHANGED <<datasetIds, lock>>
    /\ UNCHANGED datasets

\* create_dataset has returned.
CreateDataset(u) ==
    /\ call[u] = "create"
    /\ Goto(u, "example")
    /\ datasets' = [datasets EXCEPT ![about[u]] = @ + 1]
    /\ datasetIds' = datasetIds \union {about[u]}
    /\ Release(u)

\* create_example has returned, or raised, which is only logged.
CreateExample(u) ==
    /\ call[u] = "example"
    /\ Goto(u, "none")
    /\ UNCHANGED <<lock, datasetIds, datasets>>

\* Mutant: acquire() and release() without a `with`, so that a call that is cut
\* off keeps the lock.
CutOffMutant(u) ==
    /\ Goto(u, "none")
    /\ UNCHANGED <<lock, datasetIds>>
    /\ datasets' \in {datasets} \union
          (IF call[u] = "create"
             THEN {[datasets EXCEPT ![about[u]] = @ + 1]} ELSE {})

\* What a call that is cut off leaves behind: LangSmith may already have made
\* the dataset, but its id is not known.
CutOff(u) ==
    /\ Goto(u, "none")
    /\ Release(u)
    /\ datasets' \in {datasets} \union
          (IF call[u] = "create"
             THEN {[datasets EXCEPT ![about[u]] = @ + 1]} ELSE {})
    /\ UNCHANGED datasetIds

\* A call to LangSmith under the lock raises; add_example only logs it.
SyncFails(u) ==
    /\ call[u] \in {"list", "create"}
    /\ CutOff(u)

SyncStep(u) ==
    EnsureDataset(u) \/ ListDatasets(u) \/ CreateDataset(u) \/ CreateExample(u)
        \/ SyncFails(u)

WriterNext ==
    \E u \in Users :
        \/ \E name \in Names : AddExample(u, name)
        \/ SyncStep(u)
        \/ call[u] # "none" /\ CutOff(u)    \* Locust stops the user

WriterSpec == WriterInit /\ [][WriterNext]_writerVars

WriterTypeOK ==
    /\ call \in [Users -> CallSteps]
    /\ about \in [Users -> Names \union {None}]
    /\ lock \in Users \union {None}
    /\ datasetIds \subseteq Names
    /\ datasets \in [Names -> Nat]

\* "One dataset per topic" (tech-report.md:192): however many users meet a new
\* topic at once, and whichever of their calls to LangSmith fail before or
\* after having taken effect, no topic gets a second dataset.
OneDatasetPerTopic == \A name \in Names : datasets[name] <= 1

\* Whoever holds the writer's lock is in a call to LangSmith that ends: neither a
\* call that fails nor a user that Locust stops in one leaves the lock behind,
\* with every other user of every topic waiting at it in next_message.
NoAbandonedLock == \A u \in Users : lock = u => call[u] \in {"list", "create"}

===============================================================================
