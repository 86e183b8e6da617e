---------------------- MODULE CallbackCorrelation_proofs ----------------------
(***************************************************************************)
(* Proofs about CallbackCorrelation, for any number of users, messages,    *)
(* ids and callbacks and any timeouts.  Three inductive invariants, each   *)
(* using the one before: Consistent needs no assumption on the SUT,        *)
(* Reachable needs that it never assigns a correlation id twice, InTime    *)
(* that the registry's expiry age covers a user's timeout and its lateness.*)
(***************************************************************************)
EXTENDS CallbackCorrelation, FiniteSetTheorems, TLAPS

\* A message that has been started has a user.
StartedHasOwner ==
    \A r \in Requests : pc[r] # "new" => owner[r] # None

\* A message that was registered has its correlation id.
RegisteredHasId ==
    \A r \in Requests : pc[r] \in {"waiting", "leaving"} => corr[r] # None

\* A callback that was sent is for a message the SUT has accepted.
CallbackIsForAccepted ==
    \A c \in Callbacks :
        IF cbState[c] = "unsent" THEN cbFor[c] = None
        ELSE cbFor[c] # None /\ corr[cbFor[c]] # None

\* A handler that has looked a PendingRequest up holds one with the id of its
\* callback.
HandlerHoldsMyId ==
    \A c \in Callbacks : cbState[c] = "resolving" =>
        cbRef[c] # None /\ corr[cbRef[c]] = corr[cbFor[c]]

\* A result is one that was sent, and carries the message's id.
ResultWasSent ==
    \A r \in Requests : val[r] # None =>
        cbState[val[r]] # "unsent" /\ corr[cbFor[val[r]]] = corr[r]

Consistent ==
    /\ TypeOK
    /\ StartedHasOwner
    /\ RegisteredHasId
    /\ StoreHoldsOnlyLiveRequests
    /\ CallbackIsForAccepted
    /\ HandlerHoldsMyId
    /\ ResultWasSent

\* No two messages share a correlation id.
IdsDistinct ==
    \A q, r \in Requests : corr[q] # None /\ corr[q] = corr[r] => q = r

Reachable == IdsDistinct /\ BlockedWaiterIsReachable

\* A blocked user is never past its timeout by more than the lateness of a
\* timer, so the cleanup finds only entries whose users are leaving.
InTime ==
    /\ \A r \in Requests : pc[r] = "waiting" => age[r] <= WaitTimeout + Lag
    /\ \A r \in Requests : exc[r] = "expired" => pc[r] \in {"leaving", "done"}
    /\ NoPrematureExpiry

-----------------------------------------------------------------------------
\* The initial states satisfy Consistent.
LEMMA ConsistentInit == Init => Consistent
BY NoneAssumption, TimingAssumption
   DEF Init, Consistent, TypeOK, StartedHasOwner, RegisteredHasId, StoreHoldsOnlyLiveRequests,
       CallbackIsForAccepted, HandlerHoldsMyId, ResultWasSent, PCs, Phases,
       CallbackStates

\* Each action, and a stuttering step, keeps Consistent.
LEMMA ConsistentStep == Consistent /\ [Next]_vars => Consistent'
<1> SUFFICES ASSUME Consistent, [Next]_vars PROVE Consistent'
  OBVIOUS
<1> USE NoneAssumption, TimingAssumption
    DEF Consistent, TypeOK, StartedHasOwner, RegisteredHasId, StoreHoldsOnlyLiveRequests,
        CallbackIsForAccepted, HandlerHoldsMyId, ResultWasSent, PCs, Phases,
        CallbackStates, Kinds, userVars, registryVars, callbackVars, quitVars
<1>1. ASSUME NEW u \in Users, NEW r \in Requests, Submit(u, r) PROVE Consistent'
  BY <1>1 DEF Submit
<1>2. ASSUME NEW u \in Users, Kill(u) PROVE Consistent'
  BY <1>2 DEF Kill, Outcomes, Unregistered, Unmeasured, Failures
<1>3. ASSUME NEW r \in Requests, PostRejected(r) PROVE Consistent'
  BY <1>3 DEF PostRejected, Outcomes, Unmeasured
<1>4. ASSUME NEW r \in Requests, PostRaises(r) PROVE Consistent'
  BY <1>4 DEF PostRaises, Outcomes, Failures
<1>5. ASSUME NEW r \in Requests, PostAccepted(r) PROVE Consistent'
  BY <1>5 DEF PostAccepted, RegisterEntry
<1>6. ASSUME NEW r \in Requests, Wake(r) PROVE Consistent'
  BY <1>6 DEF Wake, VerdictOnWake, Outcomes, Failures
<1>7. ASSUME NEW r \in Requests, TimeoutFires(r) PROVE Consistent'
  BY <1>7 DEF TimeoutFires, Outcomes, Failures
<1>8. ASSUME NEW r \in Requests, Finish(r) PROVE Consistent'
  <2>1. messageCount' \in [Users -> Nat]
    BY <1>8 DEF Finish, CountUp
  <2>2. StoreHoldsOnlyLiveRequests'
    BY <1>8 DEF Finish, RemoveEntry
  <2>3. TypeOK'
    BY <1>8, <2>1 DEF Finish, RemoveEntry
  <2> QED
    BY <1>8, <2>2, <2>3 DEF Finish
<1>9. ASSUME NEW r \in Requests, NEW i \in Ids, SutAccept(r, i) PROVE Consistent'
  BY <1>9 DEF SutAccept
<1>10. ASSUME NEW c \in Callbacks, NEW r \in Requests, NEW k \in Kinds,
              SutCallback(c, r, k)
       PROVE Consistent'
  BY <1>10 DEF SutCallback
<1>11. ASSUME NEW c \in Callbacks, WebhookCallback(c) PROVE Consistent'
  BY <1>11 DEF WebhookCallback, Lookup
<1>12. ASSUME NEW c \in Callbacks, SetResult(c) PROVE Consistent'
  BY <1>12 DEF SetResult
<1>13. CASE CleanupLoop
  BY <1>13 DEF CleanupLoop, Discard
<1>14. CASE BeginQuit
  BY <1>14 DEF BeginQuit
<1>15. CASE DrainEnds
  BY <1>15 DEF DrainEnds
<1>16. CASE Clear
  BY <1>16 DEF Clear, Discard
<1>17. CASE StopServer
  BY <1>17 DEF StopServer
<1>18. CASE Tick
  BY <1>18 DEF Tick
<1>19. CASE UNCHANGED vars
  BY <1>19 DEF vars
<1> QED
  BY <1>1, <1>2, <1>3, <1>4, <1>5, <1>6, <1>7, <1>8, <1>9, <1>10, <1>11, <1>12,
     <1>13, <1>14, <1>15, <1>16, <1>17, <1>18, <1>19 DEF Next, UserStep

\* Every reachable state is consistent, whatever ids the SUT assigns.
THEOREM Consistency == SafeSpec => []Consistent
BY ConsistentInit, ConsistentStep, PTL DEF SafeSpec

\* Type correctness of every reachable state.
THEOREM TypeCorrect == SafeSpec => []TypeOK
BY Consistency, PTL DEF Consistent

\* The registry leaks nothing, whatever ids the SUT assigns: remove() in the
\* finally clause of submit_and_wait runs before an entry's user moves on.
THEOREM NoLeak == SafeSpec => []StoreHoldsOnlyLiveRequests
BY Consistency, PTL DEF Consistent

\* A callback only ever reaches a message that has its correlation id, even
\* when resolve() sets the result of an entry that has meanwhile been removed.
THEOREM AnswersCarryId == SafeSpec => []AnswerCarriesMyId
<1>1. Consistent => AnswerCarriesMyId
  BY DEF Consistent, ResultWasSent, AnswerCarriesMyId
<1> QED
  BY <1>1, Consistency, PTL

-----------------------------------------------------------------------------
(* With unique correlation ids, nobody waits in vain.                      *)

\* IdsDistinct is kept: only the SUT's assignment changes an id.
LEMMA IdsDistinctStep ==
  ASSUME IdsAreUnique, Consistent, IdsDistinct, [Next]_vars
  PROVE  IdsDistinct'
<1>1. CASE UNCHANGED corr
  BY <1>1 DEF IdsDistinct
<1>2. ASSUME NEW r \in Requests, NEW i \in Ids, SutAccept(r, i) PROVE IdsDistinct'
  BY <1>2 DEF SutAccept, IdsDistinct, Consistent, TypeOK
<1>3. UNCHANGED corr \/ \E r \in Requests, i \in Ids : SutAccept(r, i)
  BY DEF Next, vars, userVars, registryVars, UserStep, Submit, Kill, PostRejected,
         PostRaises, PostAccepted, Wake, TimeoutFires, Finish, SutCallback,
         WebhookCallback, SetResult, CleanupLoop, BeginQuit, DrainEnds, Clear,
         StopServer, Tick
<1> QED
  BY <1>1, <1>2, <1>3

\* Whoever takes an entry out of the store either fails its AsyncResult in the
\* same critical section or is the user it belongs to.
LEMMA ReachableStep ==
  ASSUME IdsAreUnique, Consistent, Reachable, [Next]_vars
  PROVE  Reachable'
<1> USE NoneAssumption
    DEF Consistent, TypeOK, Reachable, BlockedWaiterIsReachable, Ready, userVars,
        registryVars, callbackVars, quitVars
<1>0. IdsDistinct'
  BY IdsDistinctStep
<1>1. ASSUME NEW u \in Users, NEW r \in Requests, Submit(u, r) PROVE Reachable'
  BY <1>0, <1>1 DEF Submit
<1>2. ASSUME NEW u \in Users, Kill(u) PROVE Reachable'
  BY <1>0, <1>2 DEF Kill
<1>3. ASSUME NEW r \in Requests, PostRejected(r) \/ PostRaises(r) PROVE Reachable'
  BY <1>0, <1>3 DEF PostRejected, PostRaises
<1>4. ASSUME NEW r \in Requests, PostAccepted(r) PROVE Reachable'
  BY <1>0, <1>4 DEF PostAccepted, RegisterEntry, IdsDistinct
<1>5. ASSUME NEW r \in Requests, Wake(r) \/ TimeoutFires(r) PROVE Reachable'
  BY <1>0, <1>5 DEF Wake, TimeoutFires
<1>6. ASSUME NEW r \in Requests, Finish(r) PROVE Reachable'
  BY <1>0, <1>6 DEF Finish, RemoveEntry, IdsDistinct, RegisteredHasId
<1>7. ASSUME NEW r \in Requests, NEW i \in Ids, SutAccept(r, i) PROVE Reachable'
  BY <1>0, <1>7 DEF SutAccept
<1>8. ASSUME NEW c \in Callbacks, NEW r \in Requests, NEW k \in Kinds,
             SutCallback(c, r, k)
      PROVE Reachable'
  BY <1>0, <1>8 DEF SutCallback
<1>9. ASSUME NEW c \in Callbacks, WebhookCallback(c) PROVE Reachable'
  BY <1>0, <1>9 DEF WebhookCallback
<1>10. ASSUME NEW c \in Callbacks, SetResult(c) PROVE Reachable'
  BY <1>0, <1>10 DEF SetResult
<1>11. CASE CleanupLoop
  BY <1>0, <1>11 DEF CleanupLoop, Discard, Expired, Pending, Outcomes, Failures,
                     RegisteredHasId
<1>12. CASE Clear
  BY <1>0, <1>12 DEF Clear, Discard, Pending, Outcomes, Failures, RegisteredHasId
<1>13. CASE BeginQuit \/ DrainEnds \/ StopServer \/ Tick
  BY <1>0, <1>13 DEF BeginQuit, DrainEnds, StopServer, Tick
<1>14. CASE UNCHANGED vars
  BY <1>0, <1>14 DEF vars
<1> QED
  BY <1>1, <1>2, <1>3, <1>4, <1>5, <1>6, <1>7, <1>8, <1>9, <1>10, <1>11, <1>12,
     <1>13, <1>14 DEF Next, UserStep

\* No lost wake-up: as long as the SUT does not assign an id twice, a user that
\* is blocked has its entry where a callback, the cleanup or clear() finds it.
THEOREM NoLostWakeUp ==
  ASSUME IdsAreUnique
  PROVE  SafeSpec => []BlockedWaiterIsReachable
<1>1. Init => Reachable
  BY DEF Init, Reachable, IdsDistinct, BlockedWaiterIsReachable
<1>2. Consistent /\ Reachable /\ [Next]_vars => Reachable'
  BY ReachableStep
<1>3. Reachable => BlockedWaiterIsReachable
  BY DEF Reachable
<1> QED
  BY <1>1, <1>2, <1>3, Consistency, PTL DEF SafeSpec

\* No cross-talk: with unique ids a message is only ever given the callback
\* that the SUT sent for it.
THEOREM NoMisdelivery ==
  ASSUME IdsAreUnique
  PROVE  SafeSpec => []NoCrossTalk
<1>1. Init => IdsDistinct
  BY DEF Init, IdsDistinct
<1>2. Consistent /\ IdsDistinct /\ [Next]_vars => IdsDistinct'
  BY IdsDistinctStep
<1>3. Consistent /\ IdsDistinct => NoCrossTalk
  BY NoneAssumption DEF Consistent, TypeOK, IdsDistinct, NoCrossTalk, ResultWasSent,
                        CallbackIsForAccepted
<1> QED
  BY <1>1, <1>2, <1>3, Consistency, PTL DEF SafeSpec

\* A callback is never turned away while the user it is meant for is blocked:
\* the handler's lookup would find the entry.
THEOREM NotTurnedAway ==
  ASSUME IdsAreUnique
  PROVE  SafeSpec => NeverTurnedAwayWhileBlocked
<1> DEFINE Step ==
      \A c \in Callbacks :
          /\ cbState[c] = "inflight"
          /\ cbState'[c] = "not_found"
          /\ pc[cbFor[c]] = "waiting"
          => Ready(cbFor[c])
<1>1. ASSUME Consistent, BlockedWaiterIsReachable, [Next]_vars PROVE Step
  <2> SUFFICES ASSUME NEW c \in Callbacks, cbState[c] = "inflight",
                      cbState'[c] = "not_found", pc[cbFor[c]] = "waiting"
               PROVE  Ready(cbFor[c])
    OBVIOUS
  <2>1. PICK d \in Callbacks : WebhookCallback(d)
    <3>1. ~ UNCHANGED cbState
      OBVIOUS
    <3>2. ~ \E d \in Callbacks, r \in Requests, k \in Kinds : SutCallback(d, r, k)
      BY <1>1 DEF SutCallback, Consistent, TypeOK
    <3>3. ~ \E d \in Callbacks : SetResult(d)
      BY <1>1 DEF SetResult, Consistent, TypeOK
    <3> QED
      BY <1>1, <3>1, <3>2, <3>3
         DEF Next, vars, callbackVars, UserStep, Submit, Kill, PostRejected,
             PostRaises, PostAccepted, Wake, TimeoutFires, Finish, SutAccept,
             CleanupLoop, BeginQuit, DrainEnds, Clear, StopServer, Tick
  <2>2. store[corr[cbFor[c]]] = None
    BY <1>1, <2>1 DEF WebhookCallback, Lookup, Consistent, TypeOK
  <2> QED
    BY <1>1, <2>2, NoneAssumption
       DEF BlockedWaiterIsReachable, Consistent, TypeOK, CallbackIsForAccepted
<1>2. Consistent /\ BlockedWaiterIsReachable /\ [Next]_vars => [Step]_vars
  BY <1>1
<1> QED
  BY <1>2, Consistency, NoLostWakeUp, PTL DEF SafeSpec, NeverTurnedAwayWhileBlocked

\* A callback that was acknowledged has set the result of its own message.
ReceivedIsStored ==
    \A c \in Callbacks : cbState[c] = "received" => val[cbFor[c]] # None

\* ReceivedIsStored is kept: a result once set is never unset, and set() hits
\* the message the callback was sent for.
LEMMA ReceivedIsStoredStep ==
  ASSUME Consistent, IdsDistinct, ReceivedIsStored, [Next]_vars
  PROVE  ReceivedIsStored'
<1> USE NoneAssumption
    DEF Consistent, TypeOK, CallbackIsForAccepted, ReceivedIsStored, registryVars,
        callbackVars
<1>1. ASSUME NEW c \in Callbacks, NEW r \in Requests, NEW k \in Kinds,
             SutCallback(c, r, k)
      PROVE ReceivedIsStored'
  BY <1>1 DEF SutCallback
<1>2. ASSUME NEW c \in Callbacks, WebhookCallback(c) PROVE ReceivedIsStored'
  BY <1>2 DEF WebhookCallback
<1>3. ASSUME NEW c \in Callbacks, SetResult(c) PROVE ReceivedIsStored'
  <2>1. cbRef[c] = cbFor[c]
    BY <1>3 DEF SetResult, HandlerHoldsMyId, IdsDistinct
  <2> QED
    BY <1>3, <2>1 DEF SetResult
<1>4. CASE UNCHANGED <<cbState, cbFor, val>>
  BY <1>4
<1> QED
  BY <1>1, <1>2, <1>3, <1>4
     DEF Next, vars, UserStep, Submit, Kill, PostRejected, PostRaises,
         PostAccepted, Wake, TimeoutFires, Finish, SutAccept, CleanupLoop,
         BeginQuit, DrainEnds, Clear, StopServer, Tick

\* A message whose callback was acknowledged before its user woke up never ends
\* as cancelled or expired, however clear() and the cleanup interleave with
\* the handler: the value wins over the exception.
THEOREM AcknowledgedCounts ==
  ASSUME IdsAreUnique
  PROVE  SafeSpec => AcknowledgedIsNotCancelled
<1> DEFINE Step ==
      \A r \in Requests : \A c \in Callbacks :
          /\ outcome[r] = None
          /\ outcome'[r] \in {"expired", "cancelled"}
          /\ cbFor[c] = r
          => cbState[c] # "received"
<1>1. ASSUME Consistent, ReceivedIsStored, [Next]_vars PROVE Step
  <2> SUFFICES ASSUME NEW r \in Requests, NEW c \in Callbacks,
                      outcome[r] = None, outcome'[r] \in {"expired", "cancelled"},
                      cbFor[c] = r, cbState[c] = "received"
               PROVE  FALSE
    OBVIOUS
  <2>1. val[r] # None
    BY <1>1 DEF ReceivedIsStored
  <2>2. ~ UNCHANGED outcome
    BY NoneAssumption DEF Outcomes, Failures
  <2>3. ASSUME NEW q \in Requests, Wake(q) PROVE FALSE
    BY <1>1, <2>1, <2>2, <2>3, NoneAssumption
       DEF Wake, VerdictOnWake, Consistent, TypeOK, Outcomes, Failures
  <2>4. ASSUME NEW q \in Requests, PostRejected(q) \/ PostRaises(q) \/ TimeoutFires(q)
        PROVE FALSE
    BY <1>1, <2>4, NoneAssumption
       DEF PostRejected, PostRaises, TimeoutFires, Consistent, TypeOK, Outcomes,
           Failures
  <2>5. ASSUME NEW u \in Users, Kill(u) PROVE FALSE
    BY <2>5, NoneAssumption DEF Kill, Outcomes, Failures
  <2> QED
    BY <1>1, <2>2, <2>3, <2>4, <2>5
       DEF Next, vars, userVars, UserStep, Submit, PostAccepted, Finish, SutAccept,
           SutCallback, WebhookCallback, SetResult, CleanupLoop, BeginQuit,
           DrainEnds, Clear, StopServer, Tick
<1>2. Init => IdsDistinct /\ ReceivedIsStored
  BY DEF Init, IdsDistinct, ReceivedIsStored
<1>3. Consistent /\ IdsDistinct /\ ReceivedIsStored /\ [Next]_vars
        => IdsDistinct' /\ ReceivedIsStored'
  BY IdsDistinctStep, ReceivedIsStoredStep
<1>4. Consistent /\ ReceivedIsStored /\ [Next]_vars => [Step]_vars
  BY <1>1
<1> QED
  BY <1>2, <1>3, <1>4, Consistency, PTL DEF SafeSpec, AcknowledgedIsNotCancelled

-----------------------------------------------------------------------------
(* The cleanup greenlet against the users' own timeouts.                   *)

\* Each action keeps InTime if twice the registry's timeout covers a user's
\* timeout and the lateness of its timer.
LEMMA InTimeStep ==
  ASSUME WaitTimeout + Lag <= MaxAge, Consistent, InTime, [Next]_vars
  PROVE  InTime'
<1> USE NoneAssumption, TimingAssumption
    DEF Consistent, TypeOK, InTime, NoPrematureExpiry, userVars, registryVars,
        callbackVars, quitVars
<1>1. ASSUME NEW u \in Users, NEW r \in Requests, Submit(u, r) PROVE InTime'
  BY <1>1 DEF Submit
<1>2. ASSUME NEW u \in Users, Kill(u) PROVE InTime'
  BY <1>2 DEF Kill
<1>3. ASSUME NEW r \in Requests, PostRejected(r) \/ PostRaises(r) PROVE InTime'
  BY <1>3 DEF PostRejected, PostRaises
<1>4. ASSUME NEW r \in Requests, PostAccepted(r) PROVE InTime'
  BY <1>4 DEF PostAccepted, RegisterEntry
<1>5. ASSUME NEW r \in Requests, Wake(r) \/ TimeoutFires(r) PROVE InTime'
  BY <1>5 DEF Wake, TimeoutFires, VerdictOnWake
<1>6. ASSUME NEW r \in Requests, Finish(r) PROVE InTime'
  BY <1>6 DEF Finish
<1>7. ASSUME NEW r \in Requests, NEW i \in Ids, SutAccept(r, i) PROVE InTime'
  BY <1>7 DEF SutAccept
<1>8. ASSUME NEW c \in Callbacks, NEW r \in Requests, NEW k \in Kinds,
             SutCallback(c, r, k)
      PROVE InTime'
  BY <1>8 DEF SutCallback
<1>9. ASSUME NEW c \in Callbacks, WebhookCallback(c) \/ SetResult(c) PROVE InTime'
  BY <1>9 DEF WebhookCallback, SetResult
<1>10. CASE CleanupLoop
  BY <1>10 DEF CleanupLoop, Discard, Expired, Pending, MaxAge,
               StoreHoldsOnlyLiveRequests
<1>11. CASE Clear
  BY <1>11 DEF Clear, Discard
<1>12. CASE BeginQuit \/ DrainEnds \/ StopServer
  BY <1>12 DEF BeginQuit, DrainEnds, StopServer
<1>13. CASE Tick
  BY <1>13 DEF Tick, ClockMayAdvance
<1>14. CASE UNCHANGED vars
  BY <1>14 DEF vars
<1> QED
  BY <1>1, <1>2, <1>3, <1>4, <1>5, <1>6, <1>7, <1>8, <1>9, <1>10, <1>11, <1>12,
     <1>13, <1>14 DEF Next, UserStep

\* The cleanup never decides the outcome of a message, whatever ids the SUT
\* assigns, if the expiry age covers the users' timeout and the event loop's
\* lateness. The hypothesis is what a registry built with an older, smaller
\* timeout does not give.
THEOREM CleanupIsHarmless ==
  ASSUME WaitTimeout + Lag <= MaxAge
  PROVE  SafeSpec => []NoPrematureExpiry
<1>1. Init => InTime
  BY NoneAssumption, TimingAssumption
     DEF Init, InTime, NoPrematureExpiry, Outcomes, Failures
<1>2. Consistent /\ InTime /\ [Next]_vars => InTime'
  BY InTimeStep
<1>3. InTime => NoPrematureExpiry
  BY DEF InTime
<1> QED
  BY <1>1, <1>2, <1>3, Consistency, PTL DEF SafeSpec

-----------------------------------------------------------------------------
(* One message at a time, one verdict each, and the count of messages.     *)

Open(r) == pc[r] \in {"posting", "waiting", "leaving"}

\* A user has at most one message open.
OneAtATime ==
    \A q, r \in Requests : Open(q) /\ Open(r) /\ owner[q] = owner[r] => q = r

\* A message has a verdict from the moment it is being cleaned up after, and
\* one that was registered does not have that of one that was not.
HasVerdict ==
    \A r \in Requests :
        /\ outcome[r] # None <=> pc[r] \in {"leaving", "done"}
        /\ pc[r] = "leaving" => outcome[r] \notin Unregistered

\* A message that is open still fits under the limit.
RoomForOpen ==
    \A r \in Requests : Open(r) => messageCount[owner[r]] < MessageLimit

Orderly == OneAtATime /\ HasVerdict /\ RoomForOpen

\* Every action keeps Orderly: submit_and_wait is one greenlet, so a user
\* submits only when its last message is done.
LEMMA OrderlyStep ==
  ASSUME Consistent, Orderly, [Next]_vars
  PROVE  Orderly'
<1> USE NoneAssumption, TimingAssumption
    DEF Consistent, TypeOK, Orderly, OneAtATime, HasVerdict, RoomForOpen, Open,
        userVars, PCs
<1>1. ASSUME NEW u \in Users, NEW r \in Requests, Submit(u, r) PROVE Orderly'
  BY <1>1 DEF Submit
<1>2. ASSUME NEW u \in Users, Kill(u) PROVE Orderly'
  BY <1>2 DEF Kill, Outcomes, Unmeasured, Unregistered
<1>3. ASSUME NEW r \in Requests, PostRejected(r) \/ PostRaises(r) PROVE Orderly'
  BY <1>3 DEF PostRejected, PostRaises, Outcomes, Unmeasured, Failures
<1>4. ASSUME NEW r \in Requests, PostAccepted(r) PROVE Orderly'
  BY <1>4 DEF PostAccepted
<1>5. ASSUME NEW r \in Requests, Wake(r) \/ TimeoutFires(r) PROVE Orderly'
  BY <1>5 DEF Wake, TimeoutFires, VerdictOnWake, Ready, Outcomes, Failures, Unregistered
<1>6. ASSUME NEW r \in Requests, Finish(r) PROVE Orderly'
  BY <1>6 DEF Finish, CountUp, StartedHasOwner
<1>7. CASE UNCHANGED userVars
  BY <1>7
<1> QED
  BY <1>1, <1>2, <1>3, <1>4, <1>5, <1>6, <1>7
     DEF Next, vars, UserStep, SutAccept, SutCallback, WebhookCallback, SetResult,
         CleanupLoop, BeginQuit, DrainEnds, Clear, StopServer, Tick

\* The messages of u that CountsRegisteredMessages counts.
Counted(u) ==
    {r \in Requests : owner[r] = u /\ pc[r] = "done" /\ outcome[r] \notin Unregistered}

\* There may be infinitely many messages to come, but those counted are finite.
FinitelyManyCounted == \A u \in Users : IsFiniteSet(Counted(u))

Tallied == CountsRegisteredMessages /\ FinitelyManyCounted

\* Only Finish, which counts, makes a message one that is counted.
LEMMA CountStep ==
  ASSUME Consistent, Orderly, Tallied, [Next]_vars
  PROVE  Tallied'
<1> USE NoneAssumption, TimingAssumption
    DEF Consistent, TypeOK, HasVerdict, Counted, userVars, PCs
<1>1. ASSUME NEW r \in Requests, Finish(r) PROVE Tallied'
  <2> SUFFICES ASSUME NEW u \in Users
               PROVE  /\ messageCount'[u] = Cardinality(Counted(u)')
                      /\ messageCount'[u] <= MessageLimit
                      /\ IsFiniteSet(Counted(u)')
    BY DEF Tallied, CountsRegisteredMessages, FinitelyManyCounted
  <2>1. /\ messageCount[u] = Cardinality(Counted(u)) /\ messageCount[u] <= MessageLimit
        /\ IsFiniteSet(Counted(u))
    BY DEF Tallied, CountsRegisteredMessages, FinitelyManyCounted
  <2>2. CASE owner[r] = u
    <3>1. Counted(u)' = Counted(u) \union {r} /\ r \notin Counted(u)
      BY <1>1, <2>2 DEF Finish, Orderly
    <3>2. Cardinality(Counted(u)') = Cardinality(Counted(u)) + 1
      <4>1. IsFiniteSet(Counted(u))
        BY <2>1
      <4> QED
        BY <3>1, <4>1, FS_AddElement
    <3>3. IsFiniteSet(Counted(u)')
      <4>1. IsFiniteSet(Counted(u) \union {r})
        BY <2>1, FS_AddElement
      <4> QED
        BY <3>1, <4>1
    <3>4. messageCount'[u] = messageCount[u] + 1
      BY <1>1, <2>2 DEF Finish, CountUp
    <3>5. messageCount[u] < MessageLimit
      BY <1>1, <2>2 DEF Finish, Orderly, RoomForOpen, Open
    <3> QED
      BY <2>1, <3>2, <3>3, <3>4, <3>5
  <2>3. CASE owner[r] # u
    <3>1. Counted(u)' = Counted(u)
      BY <1>1, <2>3 DEF Finish
    <3>2. messageCount'[u] = messageCount[u]
      BY <1>1, <2>3 DEF Finish, CountUp, StartedHasOwner
    <3> QED
      BY <2>1, <3>1, <3>2
  <2> QED
    BY <2>2, <2>3
<1>2. ASSUME UNCHANGED messageCount, \A u \in Users : Counted(u)' = Counted(u)
      PROVE  Tallied'
  BY <1>2 DEF Tallied, CountsRegisteredMessages, FinitelyManyCounted
<1>3. ASSUME NEW u \in Users, NEW r \in Requests, Submit(u, r)
      PROVE  \A v \in Users : Counted(v)' = Counted(v)
  BY <1>3 DEF Submit
<1>4. ASSUME NEW u \in Users, Kill(u)
      PROVE  \A v \in Users : Counted(v)' = Counted(v)
  BY <1>4 DEF Kill, Unregistered
<1>5. ASSUME NEW r \in Requests, PostRejected(r) \/ PostRaises(r)
      PROVE  \A v \in Users : Counted(v)' = Counted(v)
  BY <1>5 DEF PostRejected, PostRaises, Unregistered
<1>6. ASSUME NEW r \in Requests, PostAccepted(r) \/ Wake(r) \/ TimeoutFires(r)
      PROVE  \A v \in Users : Counted(v)' = Counted(v)
  BY <1>6 DEF PostAccepted, Wake, TimeoutFires
<1>7. CASE UNCHANGED userVars
  BY <1>2, <1>7
<1> QED
  BY <1>1, <1>2, <1>3, <1>4, <1>5, <1>6, <1>7
     DEF Next, vars, UserStep, Submit, Kill, PostRejected, PostRaises, PostAccepted,
         Wake, TimeoutFires, SutAccept, SutCallback, WebhookCallback, SetResult,
         CleanupLoop, BeginQuit, DrainEnds, Clear, StopServer, Tick

\* A user is orderly, whatever ids the SUT assigns.
THEOREM UsersAreOrderly == SafeSpec => []Orderly
<1>1. Init => Orderly
  BY DEF Init, Orderly, OneAtATime, HasVerdict, RoomForOpen, Open
<1>2. Consistent /\ Orderly /\ [Next]_vars => Orderly'
  BY OrderlyStep
<1> QED
  BY <1>1, <1>2, Consistency, PTL DEF SafeSpec

\* message_count, which the finally clause increments, is the number of the
\* messages that were registered and are over, and never passes the limit.
THEOREM MessagesAreCounted == SafeSpec => []CountsRegisteredMessages
<1>1. Init => Tallied
  <2> SUFFICES ASSUME Init, NEW u \in Users
               PROVE  /\ messageCount[u] = Cardinality(Counted(u))
                      /\ messageCount[u] <= MessageLimit
                      /\ IsFiniteSet(Counted(u))
    BY DEF Tallied, CountsRegisteredMessages, FinitelyManyCounted, Counted
  <2>1. Counted(u) = {}
    BY DEF Init, Counted
  <2> QED
    BY <2>1, FS_EmptySet, TimingAssumption DEF Init
<1>2. Consistent /\ Orderly /\ Tallied /\ [Next]_vars => Tallied'
  BY CountStep
<1>3. Tallied => CountsRegisteredMessages
  BY DEF Tallied
<1> QED
  BY <1>1, <1>2, <1>3, Consistency, UsersAreOrderly, PTL DEF SafeSpec

-----------------------------------------------------------------------------
(* What the registry holds.                                                *)

\* The registry never has two entries of one user, whatever ids the SUT assigns:
\* an entry is that of a message that is open, and a user has one of these.
THEOREM OneEntryEach == SafeSpec => []OneEntryPerUser
<1>1. Consistent /\ Orderly => OneEntryPerUser
  BY NoneAssumption
     DEF Consistent, TypeOK, StoreHoldsOnlyLiveRequests, Orderly, OneAtATime, Open,
         OneEntryPerUser
<1> QED
  BY <1>1, Consistency, UsersAreOrderly, PTL

\* The ids under which the registry holds an entry.
UsedIds == {i \in Ids : store[i] # None}

\* So the registry holds at most as many entries as there are users, however
\* many messages they have sent, ids there are, and timeouts there were.
THEOREM RegistryIsBounded ==
  ASSUME IsFiniteSet(Users)
  PROVE  SafeSpec => [](IsFiniteSet(UsedIds) /\ Cardinality(UsedIds) <= Cardinality(Users))
<1>1. Consistent /\ OneEntryPerUser
        => IsFiniteSet(UsedIds) /\ Cardinality(UsedIds) <= Cardinality(Users)
  <2> SUFFICES ASSUME Consistent, OneEntryPerUser
               PROVE  IsFiniteSet(UsedIds) /\ Cardinality(UsedIds) <= Cardinality(Users)
    OBVIOUS
  <2> DEFINE f == [i \in UsedIds |-> owner[store[i]]]
  <2>1. \A i \in UsedIds : owner[store[i]] \in Users
    BY NoneAssumption
       DEF UsedIds, Consistent, TypeOK, StoreHoldsOnlyLiveRequests, StartedHasOwner
  <2>2. \A i, j \in UsedIds : f[i] = f[j] => i = j
    BY DEF UsedIds, OneEntryPerUser
  <2>3. f \in Injection(UsedIds, Users)
    BY <2>1, <2>2 DEF Injection, IsInjective
  <2> QED
    BY <2>3, FS_Injection
<1> QED
  BY <1>1, Consistency, OneEntryEach, PTL

\* on_quitting gives up early only when nobody is blocked, since whoever is
\* blocked is counted by unresolved_count().
THEOREM DrainIsPatient ==
  ASSUME IdsAreUnique, IsFiniteSet(Users)
  PROVE  SafeSpec => DrainWaitsForBlockedUsers
<1> DEFINE Step ==
      phase = "draining" /\ phase' = "clearing" =>
          \/ elapsed >= WaitTimeout
          \/ \A r \in Requests : pc[r] = "waiting" => Ready(r)
<1>1. ASSUME Consistent, BlockedWaiterIsReachable, IsFiniteSet(UsedIds), [Next]_vars
      PROVE  Step
  <2> SUFFICES ASSUME phase = "draining", phase' = "clearing",
                      ~(elapsed >= WaitTimeout),
                      NEW r \in Requests, pc[r] = "waiting", ~Ready(r)
               PROVE  FALSE
    OBVIOUS
  <2> DEFINE Unresolved == {i \in Ids : store[i] # None /\ ~Ready(store[i])}
  <2>1. DrainEnds
    BY <1>1 DEF Next, vars, quitVars, UserStep, Submit, Kill, PostRejected,
             PostRaises, PostAccepted, Wake, TimeoutFires, Finish, SutAccept,
             SutCallback, WebhookCallback, SetResult, CleanupLoop, BeginQuit,
             Clear, StopServer, Tick
  <2>2. Cardinality(Unresolved) = 0
    BY <2>1 DEF DrainEnds, UnresolvedCount
  <2>3. Unresolved = {}
    <3>1. IsFiniteSet(Unresolved)
      BY <1>1, FS_Subset DEF UsedIds
    <3> QED
      BY <2>2, <3>1, FS_EmptySet
  <2>4. corr[r] \in Unresolved
    BY <1>1, NoneAssumption
       DEF BlockedWaiterIsReachable, Consistent, TypeOK, RegisteredHasId
  <2> QED
    BY <2>3, <2>4
<1>2. Consistent /\ BlockedWaiterIsReachable /\ IsFiniteSet(UsedIds) /\ [Next]_vars
        => [Step]_vars
  BY <1>1
<1> QED
  BY <1>2, Consistency, NoLostWakeUp, RegistryIsBounded, PTL DEF SafeSpec, DrainWaitsForBlockedUsers

===============================================================================
