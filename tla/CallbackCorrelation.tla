------------------------- MODULE CallbackCorrelation --------------------------
(***************************************************************************)
(* The end-to-end path of one message: SutAsyncUser.submit_and_wait, the   *)
(* CallbackRegistry, the webhook handler, the registry's cleanup greenlet  *)
(* and the drain that on_quitting performs.  The SUT is external: it       *)
(* accepts a message under a correlation id of its choosing and may POST   *)
(* callbacks for it at any time from then on, late, repeatedly, in any     *)
(* order, or never.                                                        *)
(*                                                                         *)
(* Grain of atomicity: a step ends where the code blocks (client.post,     *)
(* AsyncResult.get, sleep) or leaves a `with self._lock' section, which is *)
(* the grain the registry's "thread-safe" contract is about.               *)
(*                                                                         *)
(* Time is counted in ticks.  A timer that is due fires at most Lag ticks  *)
(* late; the time a PendingRequest has spent since register() and the time *)
(* the cleanup loop has slept are relative clocks, so nothing is unbounded.*)
(***************************************************************************)
EXTENDS Integers, FiniteSets

CONSTANTS
    Users,            \* the simulated users (one greenlet each)
    Requests,         \* activations of submit_and_wait, one PendingRequest each
    Ids,              \* the correlation ids the SUT can assign
    Callbacks,        \* the webhook POSTs the SUT can make
    None,             \* Python's None
    IdsAreUnique,     \* TRUE: the SUT never assigns the same id twice
    MessageLimit,     \* message_limit of a user
    WaitTimeout,      \* config.callback_timeout_s as the users and on_quitting read it
    RegistryTimeout,  \* timeout_s the registry was built with
    CleanupInterval,  \* cleanup_interval_s
    Lag               \* how late the event loop may run a timer that is due

ASSUME TimingAssumption ==
    /\ MessageLimit \in Nat
    /\ WaitTimeout \in Nat
    /\ RegistryTimeout \in Nat
    /\ CleanupInterval \in Nat
    /\ Lag \in Nat

ASSUME UniqueAssumption == IdsAreUnique \in BOOLEAN

VARIABLES
    \* submit_and_wait
    alive,            \* the users that have not been stopped
    messageCount,     \* message_count of each user
    pc,               \* where the activation is
    owner,            \* the user that runs it
    outcome,          \* the verdict it has reached
    \* PendingRequest, CallbackRegistry
    corr,             \* the correlation id the SUT assigned
    store,            \* _store: correlation id -> PendingRequest
    val, exc,         \* the AsyncResult: its value and its exception
    age,              \* ticks since start_time
    \* the SUT and the webhook handlers
    cbState,          \* what has become of a callback
    cbFor,            \* the message the SUT sent it for
    cbKind,           \* its content, as far as the handler and the user tell
    cbRef,            \* the PendingRequest its handler has looked up
    \* cleanup greenlet and on_quitting
    phase,            \* progress of on_quitting
    nap,              \* ticks the cleanup loop has slept
    elapsed           \* ticks the drain has lasted

userVars == <<alive, messageCount, pc, owner, outcome>>
registryVars == <<corr, store, val, exc, age>>
callbackVars == <<cbState, cbFor, cbKind, cbRef>>
quitVars == <<phase, nap, elapsed>>
vars == <<userVars, registryVars, callbackVars, quitVars>>

PCs == {"new", "posting", "waiting", "leaving", "done"}

\* How a message can end: before it was registered or after, without an e2e
\* event (Unmeasured), with a failed one or with a successful one.
Unregistered == {"rejected", "abandoned", "post_error"}
Unmeasured == {"rejected", "abandoned", "killed"}
Failures == {"post_error", "timeout", "expired", "cancelled", "unparsable"}
Outcomes == Unmeasured \union Failures \union {"success"}

ASSUME NoneAssumption ==
    /\ None \notin Users \union Requests \union Ids \union Callbacks
    /\ None \notin Outcomes

\* A "reply" passes the handler's filters and CallbackPayload.from_dict; a
\* "broken" one passes the filters only (activeSwitchBoard: null); anything
\* the handler answers 204 or 400 is "noise".
Kinds == {"reply", "broken", "noise"}
CallbackStates ==
    {"unsent", "inflight", "resolving", "received", "not_found", "ignored"}

Phases == {"running", "draining", "clearing", "cleared", "stopped"}

MaxAge == 2 * RegistryTimeout

\* Ages beyond this are not told apart.
AgeCap == 1 + (IF MaxAge > WaitTimeout + Lag THEN MaxAge ELSE WaitTimeout + Lag)

-----------------------------------------------------------------------------
Init ==
    /\ alive = Users
    /\ messageCount = [u \in Users |-> 0]
    /\ pc = [r \in Requests |-> "new"]
    /\ owner = [r \in Requests |-> None]
    /\ outcome = [r \in Requests |-> None]
    /\ corr = [r \in Requests |-> None]
    /\ store = [i \in Ids |-> None]
    /\ val = [r \in Requests |-> None]
    /\ exc = [r \in Requests |-> None]
    /\ age = [r \in Requests |-> 0]
    /\ cbState = [c \in Callbacks |-> "unsent"]
    /\ cbFor = [c \in Callbacks |-> None]
    /\ cbKind = [c \in Callbacks |-> None]
    /\ cbRef = [c \in Callbacks |-> None]
    /\ phase = "running"
    /\ nap = 0
    /\ elapsed = 0

-----------------------------------------------------------------------------
(* AsyncResult and the registry's critical sections.                       *)

\* AsyncResult.ready()
Ready(r) == val[r] # None \/ exc[r] # None

\* Operators named ...Mutant are not part of the specification. Each is a way
\* the operator below it could have been got wrong, and breaks a property.

\* Mutant: the id is stored where the PendingRequest should be.
RegisterEntryMutant(r) ==
    /\ store' = [store EXCEPT ![corr[r]] = corr[r]]
    /\ age' = [age EXCEPT ![r] = 0]

\* register(): an entry under the same id is overwritten.
RegisterEntry(r) ==
    /\ store' = [store EXCEPT ![corr[r]] = r]
    /\ age' = [age EXCEPT ![r] = 0]

\* Mutant: the entry is removed on the successful path only.
RemoveOnSuccessMutant(r) ==
    store' = IF outcome[r] = "success" THEN [store EXCEPT ![corr[r]] = None] ELSE store

\* Mutant: removing an entry that is not there raises KeyError.
RemoveRaisesMutant(r) ==
    /\ store[corr[r]] # None
    /\ store' = [store EXCEPT ![corr[r]] = None]

\* remove(): by id, whichever entry is there, and if one is there.
RemoveEntry(r) ==
    store' = [store EXCEPT ![corr[r]] = None]

Pending(r) == \E i \in Ids : store[i] = r

\* Mutant: the test of ready() is inverted.
UnresolvedCountMutant == Cardinality({i \in Ids : store[i] # None /\ Ready(store[i])})

\* unresolved_count()
UnresolvedCount == Cardinality({i \in Ids : store[i] # None /\ ~Ready(store[i])})

\* Mutant: entries expire after one timeout instead of two.
ExpiredMutant(r) == Pending(r) /\ age[r] > RegistryTimeout

\* The entries that expire_old_entries() takes out.
Expired(r) == Pending(r) /\ age[r] > MaxAge

\* Mutant: entries are taken out without failing their AsyncResult.
DiscardMutant(gone, reason) ==
    /\ store' = [i \in Ids |-> IF store[i] \in gone THEN None ELSE store[i]]
    /\ exc' = exc

\* Takes the entries of `gone' out and fails those whose result is not ready.
Discard(gone, reason) ==
    /\ store' = [i \in Ids |-> IF store[i] \in gone THEN None ELSE store[i]]
    /\ exc' = [r \in Requests |->
                  IF r \in gone /\ ~Ready(r) THEN reason ELSE exc[r]]

-----------------------------------------------------------------------------
(* SutAsyncUser.submit_and_wait                                            *)

\* The early returns leave everything as it is; past them the POST is sent.
Submit(u, r) ==
    /\ u \in alive
    /\ \A q \in Requests : owner[q] = u => pc[q] = "done"
    /\ messageCount[u] < MessageLimit
    /\ pc[r] = "new"
    /\ pc' = [pc EXCEPT ![r] = "posting"]
    /\ owner' = [owner EXCEPT ![r] = u]
    /\ UNCHANGED <<alive, messageCount, outcome, registryVars, callbackVars, quitVars>>

\* A response that is not 2xx, not JSON, or has no correlationID.
PostRejected(r) ==
    /\ pc[r] = "posting"
    /\ pc' = [pc EXCEPT ![r] = "done"]
    /\ outcome' = [outcome EXCEPT ![r] = "rejected"]
    /\ UNCHANGED <<alive, messageCount, owner, registryVars, callbackVars, quitVars>>

\* The POST raises: a failed e2e event under the id "unknown".
PostRaises(r) ==
    /\ pc[r] = "posting"
    /\ pc' = [pc EXCEPT ![r] = "done"]
    /\ outcome' = [outcome EXCEPT ![r] = "post_error"]
    /\ UNCHANGED <<alive, messageCount, owner, registryVars, callbackVars, quitVars>>

\* The response carries the correlation id: register, then block in get().
PostAccepted(r) ==
    /\ pc[r] = "posting"
    /\ corr[r] # None
    /\ RegisterEntry(r)
    /\ pc' = [pc EXCEPT ![r] = "waiting"]
    /\ UNCHANGED <<alive, messageCount, owner, outcome, corr, val, exc,
                   callbackVars, quitVars>>

\* Mutant: an exception in the AsyncResult hides a value set after it.
VerdictMutant(r) ==
    IF exc[r] # None THEN exc[r]
    ELSE IF cbKind[val[r]] = "broken" THEN "unparsable" ELSE "success"

\* Mutant: a result without callback data counts as a success.
NoDataMutant(r) ==
    IF val[r] # None /\ cbKind[val[r]] = "broken" THEN "unparsable" ELSE "success"

\* get() returns the value, which wins over an exception, or raises the
\* exception; CallbackPayload.from_dict raises on a broken payload.
VerdictOnWake(r) ==
    IF val[r] = None THEN exc[r]
    ELSE IF cbKind[val[r]] = "broken" THEN "unparsable" ELSE "success"

\* The AsyncResult is ready and its greenlet runs again.
Wake(r) ==
    /\ pc[r] = "waiting"
    /\ Ready(r)
    /\ pc' = [pc EXCEPT ![r] = "leaving"]
    /\ outcome' = [outcome EXCEPT ![r] = VerdictOnWake(r)]
    /\ UNCHANGED <<alive, messageCount, owner, registryVars, callbackVars, quitVars>>

\* gevent.Timeout. The timer may beat the wake-up of a result that is ready.
TimeoutFires(r) ==
    /\ pc[r] = "waiting"
    /\ age[r] >= WaitTimeout
    /\ pc' = [pc EXCEPT ![r] = "leaving"]
    /\ outcome' = [outcome EXCEPT ![r] = "timeout"]
    /\ UNCHANGED <<alive, messageCount, owner, registryVars, callbackVars, quitVars>>

\* Mutant: message_count is incremented on the successful path only.
CountUpMutant(r) ==
    messageCount' = IF outcome[r] = "success"
                    THEN [messageCount EXCEPT ![owner[r]] = @ + 1] ELSE messageCount

CountUp(r) == messageCount' = [messageCount EXCEPT ![owner[r]] = @ + 1]

\* The finally clause.
Finish(r) ==
    /\ pc[r] = "leaving"
    /\ RemoveEntry(r)
    /\ CountUp(r)
    /\ pc' = [pc EXCEPT ![r] = "done"]
    /\ age' = [age EXCEPT ![r] = 0]
    /\ UNCHANGED <<alive, owner, outcome, corr, val, exc, callbackVars, quitVars>>

\* Locust stops the user: GreenletExit is raised where the greenlet blocks.
\* No handler catches it, but the finally clause of a waiting task still runs.
Kill(u) ==
    /\ u \in alive
    /\ alive' = alive \ {u}
    /\ pc' = [r \in Requests |->
                 IF owner[r] # u THEN pc[r]
                 ELSE IF pc[r] = "posting" THEN "done"
                 ELSE IF pc[r] = "waiting" THEN "leaving"
                 ELSE pc[r]]
    /\ outcome' = [r \in Requests |->
                      IF owner[r] # u THEN outcome[r]
                      ELSE IF pc[r] = "posting" THEN "abandoned"
                      ELSE IF pc[r] = "waiting" THEN "killed"
                      ELSE outcome[r]]
    /\ UNCHANGED <<messageCount, owner, registryVars, callbackVars, quitVars>>

-----------------------------------------------------------------------------
(* The SUT (external) and the network between it and the webhook.          *)

SutAccept(r, i) ==
    /\ pc[r] = "posting"
    /\ corr[r] = None
    /\ IdsAreUnique => \A q \in Requests : corr[q] # i
    /\ corr' = [corr EXCEPT ![r] = i]
    /\ UNCHANGED <<userVars, store, val, exc, age, callbackVars, quitVars>>

\* Delivery is never promised: a callback may stay in flight for ever, which is
\* how a lost one, and one refused by a stopped server, looks from here.
SutCallback(c, r, k) ==
    /\ cbState[c] = "unsent"
    /\ corr[r] # None
    /\ cbState' = [cbState EXCEPT ![c] = "inflight"]
    /\ cbFor' = [cbFor EXCEPT ![c] = r]
    /\ cbKind' = [cbKind EXCEPT ![c] = k]
    /\ UNCHANGED <<userVars, registryVars, cbRef, quitVars>>

-----------------------------------------------------------------------------
(* WebhookServer.webhook_callback                                          *)

\* Mutant: a callback nobody waits for goes to some other pending message.
LookupMutant(c) ==
    IF store[corr[cbFor[c]]] # None \/ \A i \in Ids : store[i] = None
    THEN store[corr[cbFor[c]]]
    ELSE CHOOSE r \in Requests : Pending(r)

\* The lookup by correlation id that resolve() makes under the lock.
Lookup(c) == store[corr[cbFor[c]]]

\* The filters, then the locked part of resolve().
WebhookCallback(c) ==
    /\ cbState[c] = "inflight"
    /\ phase # "stopped"
    /\ LET found == Lookup(c)
       IN  IF cbKind[c] = "noise"
           THEN /\ cbState' = [cbState EXCEPT ![c] = "ignored"]
                /\ UNCHANGED cbRef
           ELSE IF found = None
           THEN /\ cbState' = [cbState EXCEPT ![c] = "not_found"]
                /\ UNCHANGED cbRef
           ELSE /\ cbState' = [cbState EXCEPT ![c] = "resolving"]
                /\ cbRef' = [cbRef EXCEPT ![c] = found]
    /\ UNCHANGED <<userVars, registryVars, cbFor, cbKind, quitVars>>

\* The rest of resolve(), with the lock released: the result is set, or set
\* again, on the PendingRequest looked up before.
SetResult(c) ==
    /\ cbState[c] = "resolving"
    /\ val' = [val EXCEPT ![cbRef[c]] = c]
    /\ cbState' = [cbState EXCEPT ![c] = "received"]
    /\ cbRef' = [cbRef EXCEPT ![c] = None]
    /\ UNCHANGED <<userVars, corr, store, exc, age, cbFor, cbKind, quitVars>>

-----------------------------------------------------------------------------
(* The cleanup greenlet, on_quitting, and time.                            *)

\* One turn of _cleanup_loop: expire_old_entries(), then sleep again.
CleanupLoop ==
    /\ phase = "running"
    /\ nap >= CleanupInterval
    /\ Discard({r \in Requests : Expired(r)}, "expired")
    /\ nap' = 0
    /\ UNCHANGED <<userVars, corr, val, age, callbackVars, phase, elapsed>>

\* on_quitting: stop_cleanup() and the deadline.
BeginQuit ==
    /\ phase = "running"
    /\ phase' = "draining"
    /\ nap' = 0
    /\ UNCHANGED <<userVars, registryVars, callbackVars, elapsed>>

\* Mutant: the drain has no deadline.
DrainEndsMutant ==
    /\ phase = "draining"
    /\ UnresolvedCount = 0
    /\ phase' = "clearing"
    /\ elapsed' = 0
    /\ UNCHANGED <<userVars, registryVars, callbackVars, nap>>

\* The loop ends when nothing is unresolved or the deadline has passed.
DrainEnds ==
    /\ phase = "draining"
    /\ UnresolvedCount = 0 \/ elapsed >= WaitTimeout
    /\ phase' = "clearing"
    /\ elapsed' = 0
    /\ UNCHANGED <<userVars, registryVars, callbackVars, nap>>

\* clear()
Clear ==
    /\ phase = "clearing"
    /\ Discard({r \in Requests : Pending(r)}, "cancelled")
    /\ phase' = "cleared"
    /\ UNCHANGED <<userVars, corr, val, age, callbackVars, nap, elapsed>>

StopServer ==
    /\ phase = "cleared"
    /\ phase' = "stopped"
    /\ UNCHANGED <<userVars, registryVars, callbackVars, nap, elapsed>>

\* No timer is more than Lag late.
ClockMayAdvance ==
    /\ \A r \in Requests : pc[r] = "waiting" => age[r] < WaitTimeout + Lag
    /\ phase = "running" => nap < CleanupInterval + Lag
    /\ phase = "draining" => elapsed < WaitTimeout + Lag

Tick ==
    /\ ClockMayAdvance
    /\ age' = [r \in Requests |->
                  IF pc[r] \in {"waiting", "leaving"} /\ age[r] < AgeCap
                  THEN age[r] + 1 ELSE age[r]]
    /\ nap' = IF phase = "running" THEN nap + 1 ELSE nap
    /\ elapsed' = IF phase = "draining" THEN elapsed + 1 ELSE elapsed
    /\ UNCHANGED <<userVars, corr, store, val, exc, callbackVars, phase>>

-----------------------------------------------------------------------------
UserStep(r) == PostRejected(r) \/ PostRaises(r) \/ PostAccepted(r)
                  \/ Wake(r) \/ TimeoutFires(r) \/ Finish(r)

Next ==
    \/ \E u \in Users, r \in Requests : Submit(u, r)
    \/ \E u \in Users : Kill(u)
    \/ \E r \in Requests : UserStep(r)
    \/ \E r \in Requests, i \in Ids : SutAccept(r, i)
    \/ \E c \in Callbacks, r \in Requests, k \in Kinds : SutCallback(c, r, k)
    \/ \E c \in Callbacks : WebhookCallback(c) \/ SetResult(c)
    \/ CleanupLoop
    \/ BeginQuit
    \/ DrainEnds
    \/ Clear
    \/ StopServer
    \/ Tick

SafeSpec == Init /\ [][Next]_vars

\* Timers fire and runnable greenlets run. Nothing is assumed of the SUT, of
\* the POST (it is sent without a timeout) or of when Locust quits.
Fairness ==
    /\ \A r \in Requests : WF_vars(Wake(r) \/ TimeoutFires(r)) /\ WF_vars(Finish(r))
    /\ \A c \in Callbacks : WF_vars(SetResult(c))
    /\ WF_vars(CleanupLoop)
    /\ WF_vars(DrainEnds) /\ WF_vars(Clear) /\ WF_vars(StopServer)
    /\ WF_vars(Tick)

Spec == SafeSpec /\ Fairness

-----------------------------------------------------------------------------
(* Properties.                                                             *)

\* Type invariant: every variable holds a value of its declared set.
TypeOK ==
    /\ alive \in SUBSET Users
    /\ messageCount \in [Users -> Nat]
    /\ pc \in [Requests -> PCs]
    /\ owner \in [Requests -> Users \union {None}]
    /\ outcome \in [Requests -> Outcomes \union {None}]
    /\ corr \in [Requests -> Ids \union {None}]
    /\ store \in [Ids -> Requests \union {None}]
    /\ val \in [Requests -> Callbacks \union {None}]
    /\ exc \in [Requests -> {"expired", "cancelled", None}]
    /\ age \in [Requests -> Nat]
    /\ cbState \in [Callbacks -> CallbackStates]
    /\ cbFor \in [Callbacks -> Requests \union {None}]
    /\ cbKind \in [Callbacks -> Kinds \union {None}]
    /\ cbRef \in [Callbacks -> Requests \union {None}]
    /\ phase \in Phases
    /\ nap \in Nat
    /\ elapsed \in Nat

\* No cross-talk: an AsyncResult is only ever given a callback the SUT sent
\* for that very message, although resolve() sets it after releasing the lock,
\* when the entry may be gone and its user busy with the next message.
NoCrossTalk ==
    \A r \in Requests : val[r] # None => cbFor[val[r]] = r

\* The same under an SUT that assigns an id twice: the callback at least
\* carries the correlation id under which the message was registered.
AnswerCarriesMyId ==
    \A r \in Requests : val[r] # None => corr[cbFor[val[r]]] = corr[r]

\* No lost wake-up: a user blocked in get() on a result that is not ready has
\* its entry in _store, where a callback, the cleanup or clear() can reach it.
BlockedWaiterIsReachable ==
    \A r \in Requests :
        pc[r] = "waiting" /\ ~Ready(r) => store[corr[r]] = r

\* No leak: an entry in _store belongs to an activation that is still to run
\* its finally clause, whether it ended by callback, timeout, error or kill.
StoreHoldsOnlyLiveRequests ==
    \A i \in Ids : store[i] # None =>
        /\ pc[store[i]] \in {"waiting", "leaving"}
        /\ corr[store[i]] = i

\* The registry is bounded by the users, not by the messages they have sent:
\* two entries never belong to the same user, so a user that moves on has left
\* nothing behind, even when the SUT assigns an id that is still in use.
OneEntryPerUser ==
    \A i, j \in Ids : i # j /\ store[i] # None /\ store[j] # None =>
        owner[store[i]] # owner[store[j]]

\* No premature expiry: the cleanup greenlet never decides the outcome of a
\* message; its user's own timeout always comes first.
NoPrematureExpiry ==
    \A r \in Requests : outcome[r] # "expired"

\* message_count is the number of the user's messages that were registered
\* and have been cleaned up after; a POST that fails does not use the limit up.
CountsRegisteredMessages ==
    \A u \in Users :
        /\ messageCount[u] = Cardinality({r \in Requests :
               owner[r] = u /\ pc[r] = "done" /\ outcome[r] \notin Unregistered})
        /\ messageCount[u] <= MessageLimit

\* A callback that the handler does not filter out is never turned away with
\* "not_found" while the user it is meant for is still blocked.
NeverTurnedAwayWhileBlocked ==
    [][\A c \in Callbacks :
          /\ cbState[c] = "inflight"
          /\ cbState'[c] = "not_found"
          /\ pc[cbFor[c]] = "waiting"
          => Ready(cbFor[c])]_vars

\* on_quitting stops waiting before its deadline only when no user is blocked.
DrainWaitsForBlockedUsers ==
    [][phase = "draining" /\ phase' = "clearing" =>
          \/ elapsed >= WaitTimeout
          \/ \A r \in Requests : pc[r] = "waiting" => Ready(r)]_vars

\* A callback that was acknowledged with "received" before its user woke up is
\* never reported as cancelled or expired, even if clear() or the cleanup came
\* between the handler's lookup and its set().
AcknowledgedIsNotCancelled ==
    [][\A r \in Requests : \A c \in Callbacks :
          /\ outcome[r] = None
          /\ outcome'[r] \in {"expired", "cancelled"}
          /\ cbFor[c] = r
          => cbState[c] # "received"]_vars

\* A registered message always comes to its end, even if every callback is
\* lost: the user is never blocked for good.
EveryRegisteredRequestEnds ==
    \A r \in Requests : pc[r] = "waiting" ~> pc[r] = "done"

\* Once Locust quits, the drain ends and the server is stopped, whatever users
\* go on submitting meanwhile.
QuitCompletes == phase = "draining" ~> phase = "stopped"

\* What tech-report.md:83-84 and the docstring of submit_and_wait say: the
\* message is in the registry before it is POSTed. Then a callback that is
\* turned away would be one whose message is over.
TurnedAwayOnlyWhenOver ==
    \A c \in Callbacks : cbState[c] = "not_found" =>
        \/ pc[cbFor[c]] \in {"leaving", "done"}
        \/ Ready(cbFor[c])

-----------------------------------------------------------------------------
(* Refinement of AsyncRequest.                                             *)

Verdict(r) ==
    IF outcome[r] \in Unmeasured THEN "aborted"
    ELSE IF outcome[r] \in Failures THEN "failure" ELSE outcome[r]

stageBar ==
    [r \in Requests |->
        CASE pc[r] = "new" -> "idle"
          [] pc[r] = "posting" -> "submitting"
          [] pc[r] = "waiting" -> "pending"
          [] OTHER -> Verdict(r)]

BusyWith(u) == {r \in Requests : owner[r] = u /\ pc[r] \in {"posting", "waiting", "leaving"}}

turnBar ==
    [u \in Users |-> IF BusyWith(u) = {} THEN None ELSE CHOOSE r \in BusyWith(u) : TRUE]

answeredBar ==
    {r \in Requests : \E c \in Callbacks : cbFor[c] = r /\ cbState[c] = "received"}

Abs == INSTANCE AsyncRequest
           WITH turn <- turnBar, stage <- stageBar, answered <- answeredBar

\* The messages whose AsyncResult has been given a callback, be it another's.
resolvedBar == {r \in Requests : val[r] # None}

AnyIds == INSTANCE AsyncRequest
              WITH turn <- turnBar, stage <- stageBar, answered <- resolvedBar

\* What is left of the promise when the SUT assigns an id twice: turns and
\* verdicts as before, and success only on a callback that resolve() gave to
\* the message after it was registered, never on an expiry, a cancellation or a
\* timeout.
KeepsAsyncRequestAnyIds == AnyIds!SafeSpec

\* The registry, the handlers and the tasks keep the whole promise of
\* AsyncRequest: one message at a time per user, exactly one verdict for each,
\* success only on the message's own callback, and every pending message gets
\* its verdict in the end and its user is free for the next one.
ImplementsAsyncRequest == Abs!Spec

===============================================================================
