-------------------------- MODULE AsyncRequest_proofs --------------------------
(***************************************************************************)
(* CallbackCorrelation implements the safety part of AsyncRequest, for any *)
(* number of users, messages, ids and callbacks and any timeouts.  Without *)
(* an assumption on the ids, a message is answered when its AsyncResult    *)
(* has been given a callback: the invariant says what the state of the     *)
(* machinery has to do with that of the promise, and each action is a step *)
(* of AsyncRequest or leaves its state alone.  If the SUT never assigns an *)
(* id twice, those messages are the ones whose own callback was            *)
(* acknowledged, which makes it the stronger promise.                      *)
(***************************************************************************)
EXTENDS CallbackCorrelation_proofs

\* A handler has found an entry only of a message that has been registered.
FoundIsRegistered ==
    \A c \in Callbacks : cbState[c] = "resolving" =>
        pc[cbRef[c]] \notin {"new", "posting"}

\* Every action keeps FoundIsRegistered: what the lookup finds is live, and a
\* message that is over stays over.
LEMMA FoundStep ==
  ASSUME Consistent, FoundIsRegistered, [Next]_vars
  PROVE  FoundIsRegistered'
<1> USE NoneAssumption
    DEF Consistent, TypeOK, FoundIsRegistered, HandlerHoldsMyId, userVars, callbackVars
<1>1. ASSUME NEW u \in Users, NEW r \in Requests, Submit(u, r)
      PROVE  FoundIsRegistered'
  BY <1>1 DEF Submit
<1>2. ASSUME NEW u \in Users, Kill(u) PROVE FoundIsRegistered'
  BY <1>2 DEF Kill
<1>3. ASSUME NEW r \in Requests, UserStep(r) PROVE FoundIsRegistered'
  BY <1>3 DEF UserStep, PostRejected, PostRaises, PostAccepted, Wake, TimeoutFires, Finish
<1>4. ASSUME NEW c \in Callbacks, NEW r \in Requests, NEW k \in Kinds,
             SutCallback(c, r, k)
      PROVE  FoundIsRegistered'
  BY <1>4 DEF SutCallback
<1>5. ASSUME NEW c \in Callbacks, WebhookCallback(c) PROVE FoundIsRegistered'
  BY <1>5 DEF WebhookCallback, Lookup, StoreHoldsOnlyLiveRequests, CallbackIsForAccepted
<1>6. ASSUME NEW c \in Callbacks, SetResult(c) PROVE FoundIsRegistered'
  BY <1>6 DEF SetResult
<1>7. CASE UNCHANGED <<pc, cbState, cbRef>>
  BY <1>7
<1> QED
  BY <1>1, <1>2, <1>3, <1>4, <1>5, <1>6, <1>7
     DEF Next, vars, SutAccept, CleanupLoop, BeginQuit, DrainEnds, Clear, StopServer, Tick

-----------------------------------------------------------------------------
(* What the refinement mapping makes of a state.                           *)

\* A user's turn is the message it has open, if it has one.
TurnsAgree ==
    \A u \in Users :
        /\ BusyWith(u) = {} => turnBar[u] = None
        /\ \A r \in BusyWith(u) : turnBar[u] = r

\* A message that is being cleaned up after, or done, has its final verdict.
StagesAgree ==
    \A r \in Requests :
        /\ pc[r] = "new" => stageBar[r] = "idle"
        /\ pc[r] = "posting" => stageBar[r] = "submitting"
        /\ pc[r] = "waiting" => stageBar[r] = "pending"
        /\ pc[r] \in {"leaving", "done"} =>
               stageBar[r] = Verdict(r) /\ Verdict(r) \in AnyIds!Verdicts

\* CHOOSE has no choice in a set of one.
LEMMA OnlyChoice ==
  ASSUME NEW S, NEW x \in S, \A y \in S : y = x
  PROVE  (CHOOSE y \in S : TRUE) = x
OBVIOUS

\* One message at a time makes the turn the one message that is open.
LEMMA MappedTurns == Consistent /\ Orderly => TurnsAgree
<1> SUFFICES ASSUME Consistent, Orderly, NEW u \in Users
             PROVE  /\ BusyWith(u) = {} => turnBar[u] = None
                    /\ \A r \in BusyWith(u) : turnBar[u] = r
  BY DEF TurnsAgree
<1>1. BusyWith(u) = {} => turnBar[u] = None
  BY DEF turnBar
<1>2. ASSUME NEW r \in BusyWith(u) PROVE turnBar[u] = r
  <2>1. \A q \in BusyWith(u) : q = r
    BY <1>2 DEF BusyWith, Orderly, OneAtATime, Open
  <2>2. (CHOOSE q \in BusyWith(u) : TRUE) = r
    BY <1>2, <2>1, OnlyChoice
  <2> QED
    BY <1>2, <2>2 DEF turnBar
<1> QED
  BY <1>1, <1>2

\* A message has a verdict exactly when AsyncRequest says that it has one.
LEMMA MappedStages == Consistent /\ Orderly => StagesAgree
BY NoneAssumption
   DEF StagesAgree, stageBar, Consistent, TypeOK, PCs, Orderly, HasVerdict, Verdict,
       AnyIds!Verdicts, Outcomes, Unmeasured, Failures

\* If only the messages of u have moved, only the turn of u has.
LEMMA TurnMoved ==
  ASSUME NEW u \in Users, NEW x, turnBar'[u] = x,
         \A v \in Users \ {u} : BusyWith(v)' = BusyWith(v)
  PROVE  turnBar' = [turnBar EXCEPT ![u] = x]
<1>1. ASSUME NEW v \in Users \ {u} PROVE turnBar'[v] = turnBar[v]
  <2>1. BusyWith(v)' = BusyWith(v)
    OBVIOUS
  <2>2. (IF BusyWith(v)' = {} THEN None ELSE CHOOSE r \in BusyWith(v)' : TRUE)
        = (IF BusyWith(v) = {} THEN None ELSE CHOOSE r \in BusyWith(v) : TRUE)
    BY <2>1
  <2> QED
    BY <2>2 DEF turnBar
<1>2. turnBar = [v \in Users |-> turnBar[v]] /\ turnBar' = [v \in Users |-> turnBar'[v]]
  BY DEF turnBar
<1> QED
  BY <1>1, <1>2

\* If nobody's messages have moved, no turn has.
LEMMA TurnsStay ==
  ASSUME \A u \in Users : BusyWith(u)' = BusyWith(u)
  PROVE  turnBar' = turnBar
<1>1. ASSUME NEW v \in Users PROVE turnBar'[v] = turnBar[v]
  <2>1. BusyWith(v)' = BusyWith(v)
    OBVIOUS
  <2>2. (IF BusyWith(v)' = {} THEN None ELSE CHOOSE r \in BusyWith(v)' : TRUE)
        = (IF BusyWith(v) = {} THEN None ELSE CHOOSE r \in BusyWith(v) : TRUE)
    BY <2>1
  <2> QED
    BY <2>2 DEF turnBar
<1> QED
  BY <1>1 DEF turnBar

\* If only r has moved, only the stage of r has.
LEMMA StageMoved ==
  ASSUME NEW r \in Requests, NEW s, stageBar'[r] = s,
         \A q \in Requests \ {r} : pc'[q] = pc[q] /\ outcome'[q] = outcome[q]
  PROVE  stageBar' = [stageBar EXCEPT ![r] = s]
BY DEF stageBar, Verdict

-----------------------------------------------------------------------------
(* Steps.                                                                  *)

Mapped ==
    /\ Consistent /\ FoundIsRegistered /\ Orderly
    /\ TurnsAgree /\ StagesAgree

\* submit_and_wait begins: the user had no turn.
LEMMA SubmitMaps ==
  ASSUME Mapped, Mapped', NEW u \in Users, NEW r \in Requests, Submit(u, r)
  PROVE  AnyIds!Submit(u, r)
<1> USE NoneAssumption DEF Mapped, Consistent, TypeOK, PCs, Submit
<1>1. turnBar[u] = None /\ stageBar[r] = "idle"
  BY DEF BusyWith, TurnsAgree, StagesAgree
<1>2. turnBar' = [turnBar EXCEPT ![u] = r]
  <2>1. turnBar'[u] = r
    BY DEF BusyWith, TurnsAgree
  <2>2. \A v \in Users \ {u} : BusyWith(v)' = BusyWith(v)
    BY DEF BusyWith
  <2> QED
    BY <2>1, <2>2, TurnMoved
<1>3. stageBar' = [stageBar EXCEPT ![r] = "submitting"]
  <2>1. stageBar'[r] = "submitting"
    BY DEF StagesAgree
  <2> QED
    BY <2>1, StageMoved
<1>4. UNCHANGED resolvedBar
  BY DEF resolvedBar, registryVars
<1> QED
  BY <1>1, <1>2, <1>3, <1>4 DEF AnyIds!Submit

\* A POST that was sent and comes to nothing, whoever ends it, gives the turn
\* back with a verdict other than success.
LEMMA AbandonMaps ==
  ASSUME Mapped, Mapped', NEW r \in Requests, pc[r] = "posting", pc'[r] = "done",
         NEW v, v = Verdict(r)',
         \A q \in Requests \ {r} : pc'[q] = pc[q] /\ outcome'[q] = outcome[q],
         UNCHANGED <<owner, resolvedBar>>
  PROVE  AnyIds!Abandon(owner[r], r, v)
<1> USE NoneAssumption DEF Mapped, Consistent, TypeOK, PCs
<1> DEFINE u == owner[r]
<1>1. u \in Users
  BY DEF StartedHasOwner
<1>2. turnBar[u] = r /\ stageBar[r] = "submitting"
  BY <1>1 DEF BusyWith, TurnsAgree, StagesAgree
<1>3. turnBar' = [turnBar EXCEPT ![u] = None]
  <2>1. BusyWith(u)' = {}
    BY <1>1 DEF BusyWith, Orderly, OneAtATime, Open
  <2>2. turnBar'[u] = None
    BY <1>1, <2>1 DEF TurnsAgree
  <2>3. \A w \in Users \ {u} : BusyWith(w)' = BusyWith(w)
    BY DEF BusyWith
  <2> QED
    BY <1>1, <2>2, <2>3, TurnMoved
<1>4. stageBar' = [stageBar EXCEPT ![r] = v]
  <2>1. stageBar'[r] = v
    BY DEF StagesAgree
  <2> QED
    BY <2>1, StageMoved
<1> QED
  BY <1>2, <1>3, <1>4 DEF AnyIds!Abandon

\* A waiting message gets its verdict, whoever gives it, and success only if
\* its AsyncResult has been given a callback.
LEMMA ReportMaps ==
  ASSUME Mapped, Mapped', NEW r \in Requests, pc[r] = "waiting", pc'[r] = "leaving",
         NEW v, v = Verdict(r)',
         v = "success" => val[r] # None,
         \A q \in Requests \ {r} : pc'[q] = pc[q] /\ outcome'[q] = outcome[q],
         UNCHANGED <<owner, resolvedBar>>
  PROVE  AnyIds!Report(r, v)
<1> USE NoneAssumption DEF Mapped, Consistent, TypeOK, PCs
<1>1. stageBar[r] = "pending"
  BY DEF StagesAgree
<1>2. v = "success" => r \in resolvedBar
  BY DEF resolvedBar
<1>3. stageBar' = [stageBar EXCEPT ![r] = v]
  <2>1. stageBar'[r] = v
    BY DEF StagesAgree
  <2> QED
    BY <2>1, StageMoved
<1>4. UNCHANGED turnBar
  <2>1. \A u \in Users : BusyWith(u)' = BusyWith(u)
    BY DEF BusyWith
  <2> QED
    BY <2>1, TurnsStay
<1> QED
  BY <1>1, <1>2, <1>3, <1>4 DEF AnyIds!Report

\* A message has been registered.
LEMMA AwaitMaps ==
  ASSUME Mapped, Mapped', NEW r \in Requests, PostAccepted(r)
  PROVE  AnyIds!Await(r)
<1> USE NoneAssumption DEF Mapped, Consistent, TypeOK, PCs, PostAccepted
<1>1. stageBar[r] = "submitting"
  BY DEF StagesAgree
<1>2. stageBar' = [stageBar EXCEPT ![r] = "pending"]
  <2>1. stageBar'[r] = "pending"
    BY DEF StagesAgree
  <2> QED
    BY <2>1, StageMoved
<1>3. UNCHANGED turnBar
  <2>1. \A u \in Users : BusyWith(u)' = BusyWith(u)
    BY DEF BusyWith
  <2> QED
    BY <2>1, TurnsStay
<1>4. UNCHANGED resolvedBar
  BY DEF resolvedBar
<1> QED
  BY <1>1, <1>2, <1>3, <1>4 DEF AnyIds!Await

\* The finally clause is over.
LEMMA ReleaseMaps ==
  ASSUME Mapped, Mapped', NEW r \in Requests, Finish(r)
  PROVE  AnyIds!Release(owner[r])
<1> USE NoneAssumption DEF Mapped, Consistent, TypeOK, PCs, Finish
<1> DEFINE u == owner[r]
<1>1. u \in Users
  BY DEF StartedHasOwner
<1>2. turnBar[u] = r /\ stageBar[r] \in AnyIds!Verdicts
  BY <1>1 DEF BusyWith, TurnsAgree, StagesAgree
<1>3. turnBar' = [turnBar EXCEPT ![u] = None]
  <2>1. BusyWith(u)' = {}
    BY <1>1 DEF BusyWith, Orderly, OneAtATime, Open
  <2>2. turnBar'[u] = None
    BY <1>1, <2>1 DEF TurnsAgree
  <2>3. \A w \in Users \ {u} : BusyWith(w)' = BusyWith(w)
    BY DEF BusyWith
  <2> QED
    BY <1>1, <2>2, <2>3, TurnMoved
<1>4. UNCHANGED stageBar
  BY DEF stageBar, Verdict
<1>5. UNCHANGED resolvedBar
  BY DEF resolvedBar
<1> QED
  BY <1>2, <1>3, <1>4, <1>5 DEF AnyIds!Release

\* A result has been set: that of the message the handler had looked up.
LEMMA AnswerMaps ==
  ASSUME Mapped, Mapped', NEW c \in Callbacks, SetResult(c)
  PROVE  AnyIds!Answer(cbRef[c])
<1> USE NoneAssumption DEF Mapped, Consistent, TypeOK, PCs, SetResult
<1>1. cbRef[c] \in Requests
  BY DEF HandlerHoldsMyId
<1>2. stageBar[cbRef[c]] \notin {"idle", "submitting"}
  BY <1>1 DEF FoundIsRegistered, StagesAgree, AnyIds!Verdicts
<1>3. resolvedBar' = resolvedBar \union {cbRef[c]}
  BY <1>1 DEF resolvedBar
<1>4. UNCHANGED turnBar
  <2>1. \A u \in Users : BusyWith(u)' = BusyWith(u)
    BY DEF BusyWith, userVars
  <2> QED
    BY <2>1, TurnsStay
<1>5. UNCHANGED stageBar
  BY DEF stageBar, Verdict, userVars
<1> QED
  BY <1>2, <1>3, <1>4, <1>5 DEF AnyIds!Answer

-----------------------------------------------------------------------------
\* Anything that moves no message, gives no result and leaves the
\* users as they are is a stuttering step of AsyncRequest.
LEMMA StutterMaps ==
  ASSUME UNCHANGED <<pc, owner, outcome, resolvedBar>>
  PROVE  UNCHANGED AnyIds!absVars
<1>1. UNCHANGED turnBar
  <2>1. \A u \in Users : BusyWith(u)' = BusyWith(u)
    BY DEF BusyWith
  <2> QED
    BY <2>1, TurnsStay
<1>2. UNCHANGED stageBar
  BY DEF stageBar, Verdict
<1> QED
  BY <1>1, <1>2 DEF AnyIds!absVars

\* A user that is stopped abandons the message it is sending or gives the one
\* it waits for its verdict; if it is past both, or idle, nothing happens.
LEMMA KillMaps ==
  ASSUME Mapped, Mapped', NEW u \in Users, Kill(u)
  PROVE  [AnyIds!Next]_(AnyIds!absVars)
<1> USE NoneAssumption DEF Mapped, Consistent, TypeOK, PCs
<1>1. UNCHANGED <<owner, resolvedBar>>
  BY DEF Kill, resolvedBar, registryVars
<1>2. ASSUME NEW r \in Requests, owner[r] = u, pc[r] = "posting"
      PROVE  AnyIds!Abandon(owner[r], r, "aborted")
  <2>1. pc'[r] = "done" /\ Verdict(r)' = "aborted"
    BY <1>2 DEF Kill, Verdict, Unmeasured
  <2>2. \A q \in Requests \ {r} : pc'[q] = pc[q] /\ outcome'[q] = outcome[q]
    BY <1>2 DEF Kill, Orderly, OneAtATime, Open
  <2> QED
    BY <1>1, <1>2, <2>1, <2>2, AbandonMaps
<1>3. ASSUME NEW r \in Requests, owner[r] = u, pc[r] = "waiting"
      PROVE  AnyIds!Report(r, "aborted")
  <2>1. pc'[r] = "leaving" /\ Verdict(r)' = "aborted"
    BY <1>3 DEF Kill, Verdict, Unmeasured
  <2>2. \A q \in Requests \ {r} : pc'[q] = pc[q] /\ outcome'[q] = outcome[q]
    BY <1>3 DEF Kill, Orderly, OneAtATime, Open
  <2> QED
    BY <1>1, <1>3, <2>1, <2>2, ReportMaps
<1>4. ASSUME \A r \in Requests : owner[r] = u => pc[r] \notin {"posting", "waiting"}
      PROVE  UNCHANGED AnyIds!absVars
  <2>1. UNCHANGED <<pc, outcome>>
    BY <1>4 DEF Kill
  <2> QED
    BY <1>1, <2>1, StutterMaps
<1> QED
  <2>1. CASE \E r \in Requests : owner[r] = u /\ pc[r] = "posting"
    BY <1>2, <2>1 DEF AnyIds!Next
  <2>2. CASE \E r \in Requests : owner[r] = u /\ pc[r] = "waiting"
    BY <1>3, <2>2 DEF AnyIds!Next, AnyIds!Verdicts
  <2> QED
    BY <1>4, <2>1, <2>2

\* Each step of the machinery is a step of AsyncRequest or a stuttering one.
LEMMA StepMaps ==
  ASSUME Mapped, Mapped', [Next]_vars
  PROVE  [AnyIds!Next]_(AnyIds!absVars)
<1> USE NoneAssumption
<1>1. ASSUME NEW u \in Users, NEW r \in Requests, Submit(u, r)
      PROVE  AnyIds!Next
  BY <1>1, SubmitMaps DEF AnyIds!Next
<1>2. ASSUME NEW u \in Users, Kill(u) PROVE [AnyIds!Next]_(AnyIds!absVars)
  BY <1>2, KillMaps
<1>3. ASSUME NEW r \in Requests, PostRejected(r) \/ PostRaises(r)
      PROVE  AnyIds!Next
  <2> DEFINE v == IF PostRejected(r) THEN "aborted" ELSE "failure"
  <2>1. /\ pc[r] = "posting" /\ pc'[r] = "done" /\ Verdict(r)' = v
        /\ \A q \in Requests \ {r} : pc'[q] = pc[q] /\ outcome'[q] = outcome[q]
    BY <1>3 DEF PostRejected, PostRaises, Verdict, Unmeasured, Failures, Mapped,
                Consistent, TypeOK, PCs
  <2>2. UNCHANGED <<owner, resolvedBar>>
    BY <1>3 DEF PostRejected, PostRaises, resolvedBar, registryVars
  <2>3. AnyIds!Abandon(owner[r], r, v)
    BY <2>1, <2>2, AbandonMaps
  <2>4. owner[r] \in Users
    BY <2>1 DEF Mapped, Consistent, TypeOK, StartedHasOwner
  <2> QED
    BY <2>3, <2>4 DEF AnyIds!Next
<1>4. ASSUME NEW r \in Requests, PostAccepted(r) PROVE AnyIds!Next
  BY <1>4, AwaitMaps DEF AnyIds!Next
<1>5. ASSUME NEW r \in Requests, Wake(r) \/ TimeoutFires(r) PROVE AnyIds!Next
  <2> DEFINE v == Verdict(r)'
  <2>1. /\ pc[r] = "waiting" /\ pc'[r] = "leaving"
        /\ \A q \in Requests \ {r} : pc'[q] = pc[q] /\ outcome'[q] = outcome[q]
    BY <1>5 DEF Wake, TimeoutFires, Mapped, Consistent, TypeOK, PCs
  <2>2. UNCHANGED <<owner, resolvedBar>>
    BY <1>5 DEF Wake, TimeoutFires, resolvedBar, registryVars
  <2>3. v = "success" => val[r] # None
    BY <1>5 DEF Wake, TimeoutFires, VerdictOnWake, Verdict, Unmeasured, Failures,
                Ready, Mapped, Consistent, TypeOK
  <2>4. v \in AnyIds!Verdicts
    BY <2>1 DEF Mapped, StagesAgree
  <2>5. AnyIds!Report(r, v)
    BY <2>1, <2>2, <2>3, ReportMaps
  <2> QED
    BY <2>4, <2>5 DEF AnyIds!Next
<1>6. ASSUME NEW r \in Requests, Finish(r) PROVE AnyIds!Next
  <2>1. owner[r] \in Users
    BY <1>6 DEF Finish, Mapped, Consistent, TypeOK, StartedHasOwner
  <2> QED
    BY <1>6, <2>1, ReleaseMaps DEF AnyIds!Next
<1>7. ASSUME NEW c \in Callbacks, SetResult(c) PROVE AnyIds!Next
  <2>1. cbRef[c] \in Requests
    BY <1>7 DEF SetResult, Mapped, Consistent, TypeOK, HandlerHoldsMyId
  <2> QED
    BY <1>7, <2>1, AnswerMaps DEF AnyIds!Next
<1>8. ASSUME UNCHANGED <<userVars, val>> PROVE UNCHANGED AnyIds!absVars
  <2>1. UNCHANGED resolvedBar
    BY <1>8 DEF resolvedBar
  <2> QED
    BY <1>8, <2>1, StutterMaps DEF userVars
<1> QED
  BY <1>1, <1>2, <1>3, <1>4, <1>5, <1>6, <1>7, <1>8
     DEF Next, vars, registryVars, UserStep, SutAccept, SutCallback, WebhookCallback,
         CleanupLoop, BeginQuit, DrainEnds, Clear, StopServer, Tick

\* The invariants that relate the two states hold of every reachable state.
LEMMA AlwaysMapped == SafeSpec => []Mapped
<1>1. Init => FoundIsRegistered
  BY DEF Init, FoundIsRegistered
<1>2. Consistent /\ FoundIsRegistered /\ [Next]_vars => FoundIsRegistered'
  BY FoundStep
<1>3. Consistent /\ Orderly => TurnsAgree /\ StagesAgree
  BY MappedTurns, MappedStages
<1> QED
  BY <1>1, <1>2, <1>3, Consistency, UsersAreOrderly, PTL DEF SafeSpec, Mapped

\* Whatever ids the SUT assigns: one message at a time per user, one verdict for
\* each, and success only on a callback that was given to the message after it
\* was registered.
THEOREM PromiseWithAnyIds == SafeSpec => KeepsAsyncRequestAnyIds
<1>1. Init => AnyIds!Init
  BY DEF Init, AnyIds!Init, turnBar, stageBar, resolvedBar, BusyWith
<1>2. Mapped /\ Mapped' /\ [Next]_vars => [AnyIds!Next]_(AnyIds!absVars)
  BY StepMaps
<1> QED
  BY <1>1, <1>2, AlwaysMapped, PTL DEF SafeSpec, KeepsAsyncRequestAnyIds, AnyIds!SafeSpec

-----------------------------------------------------------------------------
(* With unique ids the callback is the message's own.                      *)

\* A result is the message's own callback, and has been acknowledged.
ResultIsAcknowledged ==
    \A r \in Requests : val[r] # None =>
        cbState[val[r]] = "received" /\ cbFor[val[r]] = r

\* Every action keeps ResultIsAcknowledged: an entry is looked up by an id that
\* only one message has.
LEMMA AcknowledgedStep ==
  ASSUME Consistent, IdsDistinct, ResultIsAcknowledged, [Next]_vars
  PROVE  ResultIsAcknowledged'
<1> USE NoneAssumption
    DEF Consistent, TypeOK, ResultIsAcknowledged, CallbackIsForAccepted, registryVars,
        callbackVars
<1>1. ASSUME NEW c \in Callbacks, NEW r \in Requests, NEW k \in Kinds,
             SutCallback(c, r, k)
      PROVE  ResultIsAcknowledged'
  BY <1>1 DEF SutCallback
<1>2. ASSUME NEW c \in Callbacks, WebhookCallback(c) PROVE ResultIsAcknowledged'
  BY <1>2 DEF WebhookCallback
<1>3. ASSUME NEW c \in Callbacks, SetResult(c) PROVE ResultIsAcknowledged'
  <2>1. cbRef[c] = cbFor[c]
    BY <1>3 DEF SetResult, HandlerHoldsMyId, IdsDistinct
  <2> QED
    BY <1>3, <2>1 DEF SetResult
<1>4. CASE UNCHANGED <<cbState, cbFor, val>>
  BY <1>4
<1> QED
  BY <1>1, <1>2, <1>3, <1>4
     DEF Next, vars, UserStep, Submit, Kill, PostRejected, PostRaises, PostAccepted,
         Wake, TimeoutFires, Finish, SutAccept, CleanupLoop, BeginQuit, DrainEnds,
         Clear, StopServer, Tick

\* Then the messages that have a result are those whose own callback has been
\* acknowledged.
LEMMA ResolvedIsAnswered ==
  ASSUME Consistent, ReceivedIsStored, ResultIsAcknowledged
  PROVE  resolvedBar = answeredBar
BY NoneAssumption
   DEF Consistent, TypeOK, ReceivedIsStored, ResultIsAcknowledged, resolvedBar, answeredBar

\* So a step of the one abstract machine is a step of the other.
LEMMA SameStep ==
  ASSUME resolvedBar = answeredBar, resolvedBar' = answeredBar',
         [AnyIds!Next]_(AnyIds!absVars)
  PROVE  [Abs!Next]_(Abs!absVars)
BY DEF AnyIds!Next, AnyIds!Submit, AnyIds!Abandon, AnyIds!Await, AnyIds!Answer,
       AnyIds!Report, AnyIds!Release, AnyIds!Verdicts, AnyIds!absVars,
       Abs!Next, Abs!Submit, Abs!Abandon, Abs!Await, Abs!Answer, Abs!Report,
       Abs!Release, Abs!Verdicts, Abs!absVars

\* The registry, the webhook handlers, the cleanup, the drain and the tasks
\* together implement the safety part of AsyncRequest, which is
\* ImplementsAsyncRequest without the fairness: one message at a time per
\* user, one verdict for each, success only on the message's own callback.
THEOREM PromiseIsKept ==
  ASSUME IdsAreUnique
  PROVE  SafeSpec => Abs!SafeSpec
<1>1. Init => /\ Abs!Init
              /\ IdsDistinct /\ ReceivedIsStored /\ ResultIsAcknowledged
  BY DEF Init, Abs!Init, turnBar, stageBar, answeredBar, BusyWith, IdsDistinct,
         ReceivedIsStored, ResultIsAcknowledged
<1>2. Consistent /\ IdsDistinct /\ ReceivedIsStored /\ ResultIsAcknowledged /\ [Next]_vars
        => IdsDistinct' /\ ReceivedIsStored' /\ ResultIsAcknowledged'
  BY IdsDistinctStep, ReceivedIsStoredStep, AcknowledgedStep
<1>3. Consistent /\ ReceivedIsStored /\ ResultIsAcknowledged => resolvedBar = answeredBar
  BY ResolvedIsAnswered
<1>4. Mapped /\ Mapped' /\ [Next]_vars => [AnyIds!Next]_(AnyIds!absVars)
  BY StepMaps
<1>5. (resolvedBar = answeredBar) /\ (resolvedBar = answeredBar)'
        /\ [AnyIds!Next]_(AnyIds!absVars)
        => [Abs!Next]_(Abs!absVars)
  BY SameStep
<1> QED
  BY <1>1, <1>2, <1>3, <1>4, <1>5, Consistency, AlwaysMapped, PTL
     DEF SafeSpec, Abs!SafeSpec

-----------------------------------------------------------------------------
(* What the promise says of the machinery.                                 *)

\* In AsyncRequest nothing takes an answer back, so success stays earned.
LEMMA PromisedSuccessIsAnswered ==
    Abs!SafeSpec => [](\A r \in Requests : stageBar[r] = "success" => r \in answeredBar)
<1> DEFINE Earned == \A r \in Requests : stageBar[r] = "success" => r \in answeredBar
<1>1. Abs!Init => Earned
  BY DEF Abs!Init
<1>2. Earned /\ [Abs!Next]_(Abs!absVars) => Earned'
  <2>1. DOMAIN stageBar = Requests
    BY DEF stageBar
  <2> QED
    BY <2>1 DEF Abs!Next, Abs!Submit, Abs!Abandon, Abs!Await, Abs!Answer, Abs!Report,
                Abs!Release, Abs!Verdicts, Abs!absVars
<1> QED
  BY <1>1, <1>2, PTL DEF Abs!SafeSpec

\* What Locust counts as a success has been answered: a callback of that very
\* message has been received by the webhook.
THEOREM SuccessIsEarned ==
  ASSUME IdsAreUnique
  PROVE  SafeSpec => [](\A r \in Requests : outcome[r] = "success" =>
                           \E c \in Callbacks : cbFor[c] = r /\ cbState[c] = "received")
<1> DEFINE Earned == \A r \in Requests : stageBar[r] = "success" => r \in answeredBar
           Received == \A r \in Requests : outcome[r] = "success" =>
                           \E c \in Callbacks : cbFor[c] = r /\ cbState[c] = "received"
<1>1. ASSUME Mapped, Earned, NEW r \in Requests, outcome[r] = "success"
      PROVE  \E c \in Callbacks : cbFor[c] = r /\ cbState[c] = "received"
  <2>1. pc[r] \in {"leaving", "done"}
    BY <1>1, NoneAssumption DEF Outcomes, Unmeasured, Failures, Mapped, Orderly, HasVerdict
  <2>2. stageBar[r] = "success"
    BY <1>1, <2>1 DEF Mapped, StagesAgree, Verdict, Unmeasured, Failures
  <2> QED
    BY <1>1, <2>2 DEF answeredBar
<1> QED
  <2>1. Mapped /\ Earned => Received
    BY <1>1
  <2> QED
    BY <2>1, PromiseIsKept, PromisedSuccessIsAnswered, AlwaysMapped, PTL

===============================================================================
