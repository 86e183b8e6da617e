# locust-async-chat in TLA+

A verification project for `locust-async-chat`, a Locust load generator for chat
systems that answer asynchronously: a simulated user POSTs a message, the system
under test (SUT) accepts it with a correlation id, and delivers the answer later
as a webhook callback. Whether the end-to-end latencies mean anything depends on
the machinery that brings callback and user back together, so that machinery is
modelled first and proved about.

Paths below are relative to `src/src/locust_async_chat/` unless they start with
`src/`.

## The system

| Part | State it keeps | Operations | Interacts with |
|---|---|---|---|
| Callback registry (`infrastructure/registry.py`) | `_store`: id -> `PendingRequest` (an `AsyncResult`, start time), under one lock | register, resolve, remove, expire_old_entries, unresolved_count, clear; a cleanup greenlet | users, webhook handlers, `on_quitting` |
| Webhook server (`infrastructure/webhook_server.py`) | server, switchboard filter fixed at start | POST handler, stop | SUT -> `registry.resolve` |
| User task (`users/user.py`, `submit_and_wait`) | message_count, last answer | POST, register, block in `get(timeout)`, verdict, `finally` remove and count | SUT, registry, providers |
| User session (`users/user.py`, `on_start`, `_login`) | conversation, user, source | login with retries | SUT, user pool, config |
| Test lifecycle (`locustfile.py`) | the globals: config, registry, provider, pool, LLM client | on_init, on_test_start, on_quitting | everything |
| Configuration (`config/config.py`) | `LoadTestConfig` | from_env_and_options, validate | lifecycle, users |
| User pool (`users/user_pool.py`) | next index, users | acquire, reset | users, lifecycle |
| AI provider (`providers/ai/`) | context per conversation, topic index | next_message, select_topic | users, LLM client |
| LangSmith provider and writer (`providers/langsmith/`) | examples and index; dataset ids | load, next; ensure_dataset, add_example | users, LangSmith |
| LLM client (`llm/`) | resources, SDK client cache | chat, routing | AI provider |
| Models and parsers (`models/`) | none | to_dict, from_dict, parse | users, webhook server |

What is hard here is the first three rows and `on_quitting`: many greenlets over
one dictionary and one `AsyncResult` each, with timeouts, a cleanup that deletes
entries of its own, a shutdown that cancels them, and an outside party that
answers late, twice, in any order or never. Second comes the conversation an AI
user leads: what it heard is carried from one activation of its task to the next,
across blank messages, failed POSTs and timeouts, into a history that the LLM is
then shown. The hazards are listed in `PROJECT.json`, each at its line, with the
properties that watch it.

What makes each part correct:

- registry, webhook, user task: no cross-talk, no lost wake-up, no leak, one
  verdict per message, no verdict by the cleanup, a drain that neither leaves too
  early nor hangs (all below);
- session: bounded retries that are all used, a full session or no task at all;
- lifecycle and configuration: what users read and what the long-lived parts were
  built with agree after a change in the UI (`TestLifecycle`);
- providers: the history given to the LLM is the conversation that took place,
  topics and examples are handed out evenly, a topic gets one dataset in LangSmith,
  and the copy there never costs a message (`Dialogue`).

## Modules

| Module | Models | Kind |
|---|---|---|
| `AsyncRequest` | what is promised about one message, with no registry, webhook or clock | abstract specification |
| `CallbackCorrelation` | `submit_and_wait`, `CallbackRegistry`, the webhook handler, the cleanup greenlet, `on_quitting`, the SUT as environment, time | specification; refines `AsyncRequest` |
| `CallbackCorrelation_proofs` | theorems about it | TLAPS |
| `AsyncRequest_proofs` | the refinement's safety part, with and without unique ids | TLAPS |
| `UserSession`, `UserSession_proofs` | `on_start`, `_login`, the session checks of `submit_and_wait` | specification, TLAPS |
| `TestLifecycle`, `TestLifecycle_proofs` | `on_init`, `on_test_start`, `on_start`, the globals they set and read, the user pool, the server's greenlet, over any number of test runs | specification, TLAPS |
| `EvenShare` | what serving in turn promises | abstract specification |
| `TopicManager`, `TopicManager_proofs` | `select_topic`; refines `EvenShare` | specification, TLAPS |
| `ExampleProvider`, `ExampleProvider_proofs` | `load`, `next`; refines `EvenShare` | specification, TLAPS |
| `ExampleWriter`, `ExampleWriter_proofs` | `add_example`, `ensure_dataset` and the lock they hold | specification, TLAPS |
| `AIConversation` | `next_message`, the conversation contexts, the generator's fallback | actions that `Dialogue` composes |
| `WebhookPayloads` | the webhook's filters, `CallbackPayload.from_dict`, both ways of a correlation id to the registry | operators |
| `Dialogue`, `Dialogue_proofs` | the users of a test, with the six modules above as parts | specification, TLAPS |
| `LoadUsers` | the users that the parts share | constants |
| `MC...` | instances for TLC | |

Operators whose name ends in `Mutant` are not part of a specification: each is a
plausible mistake in the operator it precedes, and the properties are shown to
notice it.

### CallbackCorrelation

*Grain of atomicity.* A step ends where the code blocks (`client.post`,
`AsyncResult.get`, `sleep`) or leaves a `with self._lock` section. gevent switches
greenlets only at the former; the latter is finer, and is the grain that the
registry's "thread-safe" contract is about. So `resolve()` is two steps,
`WebhookCallback` (lookup under the lock) and `SetResult` (`async_result.set`
after it), and everything may happen in between.

*State.* `pc[r]` is where activation `r` of `submit_and_wait` is: `posting` (in
`client.post`), `waiting` (registered, in `get`), `leaving` (has its verdict, the
`finally` clause is next), `done`. `owner[r]` is its user. `corr[r]` is the
correlation id the SUT assigned, `store` is `_store`, `val[r]`/`exc[r]` are the
two halves of the `AsyncResult` (a value set later wins over an exception, as in
gevent), `age[r]` is the time since `register()`. `cbState`, `cbFor`, `cbKind`,
`cbRef` describe a callback: what became of it, for which message it was sent,
what the handler and the user make of it, and the `PendingRequest` a handler
holds between lookup and set. `phase` is the progress of `on_quitting`, `nap` the
cleanup loop's sleep, `elapsed` the drain's.

*Actions and code.*

| Action | Code |
|---|---|
| `Submit` | `users/user.py:230-356`, the early returns and the POST |
| `PostRejected`, `PostRaises`, `PostAccepted` | `users/user.py:357-437`: status, JSON or id missing; exception; `register` and `get` |
| `Wake`, `TimeoutFires` | `users/user.py:434-471`: the result, its exception, or `gevent.Timeout` |
| `Finish` | `users/user.py:473-475`: `remove` and the count |
| `Kill` | Locust stops the user; `GreenletExit` is caught by no handler but passes the `finally` |
| `WebhookCallback`, `SetResult` | `infrastructure/webhook_server.py:97-168`, `infrastructure/registry.py:148-156` |
| `CleanupLoop` | `infrastructure/registry.py:89-96, 197-220` |
| `BeginQuit`, `DrainEnds`, `Clear`, `StopServer` | `locustfile.py:250-281` |
| `SutAccept`, `SutCallback`, `Tick` | external: the SUT, timers |

*The SUT.* It accepts a message when it likes, before the POST returns, and from
then on may send callbacks for it. A callback is a `reply`, a `broken` one (passes
the webhook's filters, but `from_dict` raises in the user), or `noise` (answered
204 or 400). Nothing obliges it to send or the network to deliver one: loss is a
callback that stays in flight. Duplicates are two callbacks for one message.

*Time.* Ticks. A timer that is due fires at most `Lag` ticks late. Clocks are
relative (since `register`, since the last cleanup, since the drain began) and
capped where nothing tells values apart (`AgeCap`), so the state space is finite
without bounding behaviours. The drain's 0.5 s poll is within the grain of a tick.

*Abstractions.* Texts, headers, statuses and log lines are gone; the early
returns before the POST are one absence of a step; which question is asked is the
providers' business. Callbacks are at most `Callbacks` in number, activations at
most `Requests`.

### UserSession

`stage[u]` is where the user's greenlet is, `attempt[u]` the loop variable of
`_login`, `logins[u]` the POSTs sent, `fields[u]` which of `conversation_id`,
`login_user`, `login_conversation`, `login_source` are set (they are assigned one
after the other, and a response that breaks in between leaves a prefix). A login
response is what the parsers tell apart: JSON or not, with a conversation or not,
and its user, switchboard and source given, missing (`from_dict` has a default)
or null (it raises). The length of the backoff is left out.

### TestLifecycle

*State.* The process (`new`, `up`, `exited`, `quit`) and whether a test runs;
what the UI said last (`ui`); the globals `config`, `provider`, `aiProvider`
(those of `providers/`, which `on_start` reads, not the copies in
`locustfile.py`), `pool`; what is built once in `on_init`: the registry's
`timeoutS`, the webhook's `filter`, the `server`; and what each user took from
the globals: `userConfig`, `source`, `identity`.

| Action | Code |
|---|---|
| `OnInit`, `OnInitExits` | `locustfile.py:148-210`: success, or `sys.exit(1)` |
| `ServerBinds`, `ServerBindFails` | `infrastructure/webhook_server.py:231`: `serve_forever` in a greenlet of its own |
| `OnTestStart` | `locustfile.py:213-247`, with or without a provider that can be re-initialised |
| `OnStart` | `users/user.py:81-100`: config, provider (`get_provider` may replace the global), `validate`, `acquire` |
| `OnQuitting` | `locustfile.py:281-284`, `stop_server`; the drain and `clear` before it are in `CallbackCorrelation` |
| `TestStop`, `UserStops` | external: Locust |

*Abstractions.* Settings are opaque values except for what `validate()` looks at:
whether there is a host, the sign of the timeout, and, as one flag because only the
environment sets them, its four checks on a login that is enabled
(`config/config.py:232-233, 238-243`). The options are what Locust leaves in
`parsed_options`, external; an empty or zero one does not override the environment
(`:157-166`). Left out are settings nothing here depends on: wait times,
question mode, topic strategy, LLM temperature. The LLM deployment is taken to be
one that is offered: one that is not makes `_init_llm_client` raise, and that
path is not modelled. `MaxIndex` bounds the test users acquired from one pool.

### Dialogue and its parts

What the users of one test say and what they make of the answers. The parts are
specifications of their own with their own variables; an action of `Dialogue` is
the conjunction of what `submit_and_wait` does and of one action of each part it
calls.

*Grain of atomicity.* gevent's: a step ends where the user blocks, which is in the
LLM call, at the writer's lock, in each call to LangSmith, in `client.post` and in
`get(timeout)`. `select_topic` and `next` hold their lock for all they do, so they
are one step also for threads.

*State.* `pc[u]` is where the user's greenlet is. Per conversation: `topic`,
`turnCount`, `messages`. A message in the history is known by its role, the turn
it belongs to, who wrote it and whether it is blank; an answer by the turn it
answers, which is the turn of the message whose id the callback carries. An id is
known by the kind of JSON value it is, the user and the turn it was given out for,
so two messages never have the same one here (`CallbackCorrelation` has those that
do). `lastResponse` is what the next call of `next_message` will be told.
`currentIndex`, `examples`, `index` are the managers' own. For the writer: how far
a user's `add_example` is (`call`), for which dataset (`about`), the `lock`, the
cached ids, and how many `datasets` of a name LangSmith has. `chosen`, `asked` and
`heard` are history variables: they count, or remember, and nothing depends on
them.

| Action | Code |
|---|---|
| `AskAI` (`NextMessage`, `SelectTopic`, `SetTopic`, `AddAssistantMessage`) | `users/user.py:230-258`, `providers/ai/ai_provider.py:104-139`, `topic_manager.py:93-109` |
| `Generated` (`AddUserMessage`, `AddExample`) | `ai_provider.py:119-155`; `users/user.py:262-281` for a blank one |
| `Sync` (`EnsureDataset`, `ListDatasets`, `CreateDataset`, `CreateExample`, `SyncFails`) | `locustfile.py:86-119`, `providers/langsmith/writer.py:59-118` |
| `AskLangSmith` (`NextExample`), `LoadDataset` (`Load`) | `users/user.py:282-336`, `providers/langsmith/provider.py:89-169`, `locustfile.py:123-139` |
| `PostFails`, `PostAccepted` | `users/user.py:357-437` |
| `Callback` (`Accepted`, `RequestId`, `Parses`, `KeepResponse`) | `infrastructure/webhook_server.py:107-152`, `models/callback.py:32-121`, `users/user.py:434-475` |
| `NoCallback` | `users/user.py:456-475`: the timeout, or an exception from the registry |
| `Start`, `Kill` | a user is spawned with a conversation of its own; Locust stops it, wherever it is |

*Abstractions.* How a callback, the timeout and the registry interleave is in
`CallbackCorrelation`; here a callback that comes while its user waits is one step,
and everything else that ends a wait is `NoCallback`. A callback may be for any
message that the conversations going on have had so far (`SentIds`), also one of
another user or one that is over; only if its id is the one the waiting message is registered under does
it end the wait (`Resolves`). The handler at `users/user.py:259-261` for a
`next_message` that raises has no disjunct: the generator
(`message_generator.py:61, 98`) and the writer catch every `Exception` of the calls
they make, so nothing reaches it; it would leave `last_assistant_response` as it is. The contexts of users that
are gone stay in the code and are dropped in the model, because a conversation id
never comes back. A call to LangSmith that fails, or in which the user is stopped,
took effect before, or did not; one that takes effect only after a later call is
not modelled (LangSmith's own rule that names are unique would refuse it). An LLM
call gives a text or a blank; a failing one gives the generator's fixed text,
which is a text. Prompts, and which ten messages of the history they quote, are
wording.

## Runs

| Run | Question | Instance |
|---|---|---|
| `correlation` | is the machinery consistent under every interleaving, with unique ids? | 2 users, 2 messages, 2 ids, 2 callbacks, timeout 1, lag 1 |
| `correlation_live` | does every registered message end, does quitting end, is `AsyncRequest` implemented? | 1 user, 2 messages, 2 ids, 1 callback, lag 0 |
| `reused_id` | what is left, of the registry and of `AsyncRequest`, if the SUT assigns an id twice? | as `correlation`, 1 callback, lag 0 |
| `early_callback` | is a message registered before it is POSTed? (violated) | 1 of each |
| `login` | login with any SUT | 2 users, 2 retries |
| `no_login` | can users submit with login disabled? (violated) | 2 users |
| `lifecycle` | do the users of a run have what the UI asked for? | 2 users, 2 values of each setting, timeouts 1, 3 and -1, 3 acquisitions per pool |
| `stale_parts` | do the registry and the webhook have it too? (violated) | the same |
| `dead_server` | is there always a server to call back? (violated) | the same |
| `dialogue` | is the history the conversation that took place, is everything shared out evenly, does the sync stay out of the way? | 2 users at a time and 3 in all, 4 questions, message limit 2, 2 topics, a dataset of 3 examples, 4 configurations |
| `repeated_answer` | is each answer recorded once? (violated) | the same, 1 user |
| `numeric_id` | is an answer found whatever the JSON type of its id? (violated) | the same, 1 user, both types |

*Why the bounds are enough.* Every interference the code allows is between two
activations and what the registry and the shutdown do to them: two users or two
messages of one user, two ids to confuse, two callbacks to duplicate or cross.
With timeout 1 an entry can be younger than, as old as and older than the timeout
and the expiry age of 2; with lag 1 the timer can be late. `Symmetric` is used
only where no liveness property is checked; users, messages, ids and callbacks
are interchangeable there. `correlation_live` gives up the second user and the
second callback for the temporal properties. What two users can do to each other's
end is to overwrite an entry under an id that is assigned twice, and
`TimeoutFires` depends on nothing in the registry, so an overwritten user ends as
a user whose callbacks are lost does. The safety part of the refinement is proved
for any number of users and callbacks and any two timeouts, so that the run need
not be larger for it.
With two messages and a limit of two, the limit in `CountsRegisteredMessages` cannot
be passed in `correlation`, where the property says how the count and the messages
agree; that the limit holds is `MessagesAreCounted`, for any number of messages (and
`dialogue` reaches its limit).

In `lifecycle` the settings of one run can differ from those of the run before in
every respect, the host can be missing and the timeout can be rejected, and the
timeout can be more than twice the environment's; two users and three acquisitions let a user be replaced while the
other stays.

In `dialogue` the four configurations have each value of each of the five settings
(provider, sync, switchboard filter, strategy, question mode) at least once; the
settings of one provider are not looked at by the other, so pairs matter only
within a provider. Four questions among two users let a conversation have a third
message after a blank one or a failed POST, let the topic index wrap twice and let
both users meet a new topic at once; the third user replaces one that was stopped
in the middle of a call. The dataset has a plain example, a list whose first
question is blank, and a blank example, which tell the question modes apart. The
limit of two messages is below the bound on questions, so it is reached.

*Fairness.* Only what gevent's loop gives: greenlets that are ready run, timers
fire, time passes. None for the SUT, for delivery, for when Locust quits or kills,
and none for the POST: the code sends it without a timeout (`users/user.py:350`),
so nothing guarantees that it returns. Hence `EveryRegisteredRequestEnds` speaks
of messages that got as far as the registry. In `UserSession` login steps are
fair because the login POST has a timeout and `sleep` ends. In `Dialogue` the
steps of the sync are fair, since LangSmith's client has timeouts of its own, and
the step that takes the writer's lock strongly so, since gevent wakes those who
wait for a lock in turn while others may take and release it in between. Nothing
else is: `QuestionIsPosted` is about the sync alone.

`CHECK_DEADLOCK` is off where the system really stops: in the `UserSession` runs
once all users are stopped, in the `TestLifecycle` runs once the process has
exited, in the `Dialogue` runs once the bounds on users and questions are used up.
In `CallbackCorrelation` time always passes.

*What the runs show.* With unique ids an answer never reaches another message, a
blocked user is always reachable, a callback in time is never turned away, the
cleanup never decides an outcome, nothing leaks, quitting is patient and ends.
With an id assigned twice, messages can get each other's answers (that is
inherent), and an overwritten user waits for its timeout. What is left is in
`reused_id`: entries do not leak, nobody has two of them (`OneEntryPerUser`), and
`AsyncRequest` is still implemented if "answered" means that `resolve()` gave the
message a callback, and not that the callback was sent for it
(`KeepsAsyncRequestAnyIds`): turns and verdicts are as before, and no expiry,
cancellation or timeout is ever counted as a success.

`dialogue` shows that an answer is recorded right after the message it answers and
never forgotten, whatever blank messages, failed POSTs and timeouts come between;
that an echo of a user's own message is never taken for an answer, with or without
the switchboard filter; that a conversation keeps its topic; that round robin over
topics and over examples leaves nothing out, users coming and going; that LangSmith
never gets two datasets for one topic, whichever call fails or is cut off; and that
a message is posted whatever becomes of its copy there, and the writer's lock is
never left behind (`NoAbandonedLock`). That an answer is recorded only once is not
so (`repeated_answer`); what holds is `RepeatsFollowBlanks`: between two records of
one answer stands a blank message.

## Findings

1. *A callback can be faster than the registration* (`early_callback`).
   `src/tech-report.md:83-84` and the docstring `users/user.py:224-225` say the
   message is registered and then POSTed. The code POSTs first, since the id is in
   the response; a callback in between is answered `not_found` with status 200, is
   not retried, and the message ends in a timeout.
2. *With login disabled no message is ever sent* (`no_login`).
   `users/user.py:244` returns when `login_user` is `None`; the code that would make
   one up, and the comment at line 290 that says so, come after it. That it is no
   message at all, and not just none in the run, is `NobodySubmitsWithoutLogin`.
3. *The registry and the webhook keep the settings of `on_init`* (`stale_parts`).
   `src/tech-report.md:211` calls the configuration the single source of truth at
   runtime, rebuilt with each start from the UI; the timeout that the cleanup
   doubles and the switchboard filter are not. If the UI more than doubles the
   timeout, the cleanup expires entries of users that wait: the hypothesis of
   `CleanupIsHarmless` below is there to exclude it.
4. *Tests run without a webhook* (`dead_server`). The handler at
   `locustfile.py:208-210` is meant to exit when the server cannot be started, but
   the port is bound later, in a greenlet whose exception reaches nobody.
5. *An answer is recorded again after a blank message* (`repeated_answer`).
   `last_assistant_response` is cleared at `users/user.py:281`, after the return for
   a blank message (`:262-267`); by then `next_message` has recorded the answer, and
   the next call records it once more, after a message that was never sent. It
   happens in no other way (`RepeatsAreRetries`).
6. *A numeric correlation id is never found* (`numeric_id`). The message is
   registered under `str()` of the id (`models/parsers.py:27`), the callback is
   looked up under the id as it is in the JSON
   (`infrastructure/webhook_server.py:145, 152`). `src/tests/test_parsers.py:10-12`
   says that such ids are meant to work. Ids that are strings are always found
   (`StringIdsAreFound`).

Also noticed, and not runs: `src/tech-report.md:167` calls the order of the
examples deterministic, while `load` shuffles without a seed; the comment at `src/tests/test_config_ui_flow.py:40`
describes a pool that is reset between runs; `on_test_start` now makes a new one,
and nothing calls `UserPool.reset`.

## Proofs

Every safety invariant, every action property and every safety refinement that a
passing run checks is proved for all values of the constants, and of
`ImplementsAsyncRequest` all but the liveness. For some findings a theorem also says
under what condition the property holds, or in what way alone it fails.

`CallbackCorrelation_proofs` and `AsyncRequest_proofs` prove, for any sets of
users, messages, ids and callbacks and any natural timeouts:

| Theorem | Property | Assumes beyond the module's ASSUMEs |
|---|---|---|
| `TypeCorrect` | `TypeOK` | |
| `NoLeak` | `StoreHoldsOnlyLiveRequests` | |
| `AnswersCarryId` | `AnswerCarriesMyId` | |
| `OneEntryEach` | `OneEntryPerUser` | |
| `RegistryIsBounded` | at most as many entries as users | finitely many users |
| `MessagesAreCounted` | `CountsRegisteredMessages` | |
| `PromiseWithAnyIds` | `KeepsAsyncRequestAnyIds` | |
| `NoLostWakeUp` | `BlockedWaiterIsReachable` | `IdsAreUnique` |
| `NoMisdelivery` | `NoCrossTalk` | `IdsAreUnique` |
| `NotTurnedAway` | `NeverTurnedAwayWhileBlocked` | `IdsAreUnique` |
| `AcknowledgedCounts` | `AcknowledgedIsNotCancelled` | `IdsAreUnique` |
| `PromiseIsKept` | `Abs!SafeSpec`, the safety part of `ImplementsAsyncRequest` | `IdsAreUnique` |
| `SuccessIsEarned` | a success has had its own callback received | `IdsAreUnique` |
| `DrainIsPatient` | `DrainWaitsForBlockedUsers` | `IdsAreUnique`, finitely many users |
| `CleanupIsHarmless` | `NoPrematureExpiry` | `WaitTimeout + Lag <= MaxAge` |

The argument has layers, each an inductive invariant over the one before.

- `Consistent` needs nothing of the SUT. `StoreHoldsOnlyLiveRequests` is not
  inductive alone: that `Finish` removes the right entry needs `RegisteredHasId`;
  that a result carries the right id needs `HandlerHoldsMyId` for the window
  between lookup and set, and `CallbackIsForAccepted` for the callback itself.
- `Reachable` adds `IdsDistinct`. Without it the theorem is false: `register()`
  overwrites, and `remove()` deletes whatever entry has the id. From it follow the
  theorems on lookups and on the drain, which are action properties: one step is
  examined in a state where the invariants hold. `ReceivedIsStored` adds what
  `AcknowledgedCounts` needs.
- `InTime` adds the clocks: a blocked user is never older than
  `WaitTimeout + Lag`, so an entry older than `MaxAge` belongs to a user that is
  already leaving. The hypothesis of `CleanupIsHarmless` is exactly what a
  registry built with a smaller timeout than the users now read
  (`locustfile.py:182` against `:220`) does not give.
- `Orderly` is about the users: one open message each, a verdict exactly from the
  `finally` clause on, and room under the limit for what is open. With `Consistent`
  it gives `OneEntryPerUser`, since an entry belongs to an open message; an
  injection from ids in use to their users is then the bound on the registry, which
  has no limit of its own in the code. `DrainIsPatient` needs it, because a count
  that is zero says nothing of a set that is not finite.
- `Tallied` is the count: it is kept because only `Finish` adds to the set that is
  counted, one message that was not in it, and at any time that set is finite, so
  nothing need be assumed of the number of messages. `RoomForOpen` (in `Orderly`) is
  needed for the limit: it is looked at before the POST and used up after the wait.
- `Mapped` is the refinement. It adds to the layers above that a handler has found
  an entry only for a message that was registered (`FoundIsRegistered`), and what
  the mapping makes of a state (`TurnsAgree`, `StagesAgree`; one open message per
  user makes the `CHOOSE` in the mapping no choice). Each action is one step of
  `AsyncRequest` (`SubmitMaps`, `AbandonMaps`, `AwaitMaps`, `AnswerMaps`,
  `ReportMaps`, `ReleaseMaps`; a kill one of two of them, depending on where it
  strikes) or none (`StutterMaps`). None of this needs unique ids if the messages
  answered are those whose `AsyncResult` has a value.
- With unique ids those are the messages whose own callback has been received
  (`ResultIsAcknowledged` one way, `ReceivedIsStored` the other), so the same steps
  are steps of the stronger `AsyncRequest` (`SameStep`). `SuccessIsEarned` carries an
  invariant of `AsyncRequest` back.

`TestLifecycle_proofs` proves, for any users, settings and number of test runs:

| Theorem | Property |
|---|---|
| `LifecycleTyped` | `TypeOK` |
| `UsersAreConfigured` | `UsersFollowTheUI` |
| `IdentitiesAreCurrent` | `IdentityFollowsConfig` |
| `IdentitiesAreDistinct` | `DistinctIdentities` |
| `SourcesAreCurrent` | `AsksConfiguredSource` |

None of the properties but `AsksConfiguredSource` is inductive. `UsersFollowTheUI`
needs that the users of one run are gone before the next applies its options
(`NobodyRunsBetween`) and that the globals are those of the UI (`Initialised`);
`DistinctIdentities` needs that the pool is ahead of every identity it gave out
(`UsersAreOfThisRun`). The assumption `NoneIsNoRecord` says that Python's `None` is not one of the records.

`UserSession_proofs` proves, for any users and any `login_retry_max`:

| Theorem | Property | Assumes |
|---|---|---|
| `SessionTyped` | `TypeOK` | |
| `RetriesAreUsed` | `NoEarlyGiveUp` | |
| `LoginIsBounded` | `LoginAdvances` | |
| `SessionIsComplete` | `ReadyUserCanSubmit` | login enabled |
| `NobodySubmitsWithoutLogin` | no user ever sends a message | login disabled |

The first three need `LoginsFollowAttempts`, which ties the POSTs sent to the loop
variable. `LoginIsBounded` is the part of `LoginEnds` that needs no fairness: what
is left of a login (`LoginStepsLeft`) is a natural number, at most
`2 * login_retry_max + 1` while it runs, and each answer and each end of a backoff
makes it smaller; that those come is fairness, and TLC's. For `SessionIsComplete`,
`AssignedBound` says that all four parts can be made from a response, or the
parsing stops and the user with it.

The parts of `Dialogue` are proved about on their own, and for any topics, any
finite dataset, any users:

| Theorem | Property | Along |
|---|---|---|
| `TopicManager_proofs!TopicsAreShared` | `TopicsShared`, a refinement of `EvenShare` | `InRounds`: after n rounds, the topics before the index have been handed out n + 1 times, the others n times |
| `ExampleProvider_proofs!ExamplesAreShared` | `ExamplesShared`, likewise | `Loaded` and `PassesDone`: the examples are the questions in some order, each once, and the index divides them in the same way |
| `ExampleWriter_proofs!NoSecondDataset` | `OneDatasetPerTopic` | `LockHeld`: who is in a call under the lock has it; `CreatesFirst`: who is about to create has found nothing, and nobody else can have created since |
| `ExampleWriter_proofs!LockComesFree` | `NoAbandonedLock` | `WriterInv`: a call that fails, or is cut off, gives the lock back with the step that ends it |

`Dialogue_proofs` carries these over: each step of `Dialogue` is a step of a part
or leaves its variables alone, so `SafeSpec` implements `TopicSpec`, `ProviderSpec`
and `WriterSpec`, and `DialogueSharesTopics`, `DialogueSharesExamples`,
`DialogueKeepsDatasets` and `DialogueFreesTheLock` follow. Its own theorems are
`DialogueTyped`, `AnswersStayInPlace` (`AnswersInPlace`), `EchoesAreFiltered` (`NoEcho`),
`AnswersAreRemembered` (`NoAnswerForgotten`), `RepeatsAreRetries`
(`RepeatsFollowBlanks`) and `TopicsAreKept` (`TopicIsKept`), from the invariant
`DialogueInv`, which has four parts for each conversation:
`Turns` (the last message of the user in the history has the current turn),
`History` (an answer that is kept has nothing after its message that was said to
the SUT, so recording it now puts it in place), `Hearing` (what was heard is
recorded, or is kept and the user is idle, so that the next call records it first)
and `Repeats` (the answer to the message that is out is not in the history yet, and
an answer that is kept although it is recorded has a blank message after it).
A user waits under the id the SUT gave its message, which has that message's turn
(`WaitsUnderId`, part of `DialogueInv`); so a callback that ends a wait answers the
current turn, whatever else is delivered (`ResolvesOwnTurn`), and `History` needs
that. `StringIdsAreFound` is about the registry's side: a string is found under
itself. They are
assumption-free but for those on the constants: a finite dataset, a
natural limit, `None` being no topic and no answer, and `NoId` no id. What an append
does to such a history is shown once, for sequences (`AssistantAppended`,
`UserAppended`, `AnswerRepeats`, `MessageRepeats`).

Only model-checked, because fairness and ENABLED are beyond the prover: the
liveness properties `EveryRegisteredRequestEnds`, `QuitCompletes`, `LoginEnds`,
`QuestionIsPosted`, and the liveness part of `ImplementsAsyncRequest`. (What they
rest on and needs no fairness is proved: `NoLostWakeUp`, `LoginIsBounded`,
`DialogueFreesTheLock`, `PromiseIsKept`.) `TurnedAwayOnlyWhenOver`,
`NoTestWithoutServer`, `EachAnswerRecordedOnce` and the rest of the findings are
refuted by TLC, and there is nothing to prove of them but the conditions above.

## Not modelled, and why

- The plotting tool, CLI declarations, environment reading, prompt wording and
  JSON layout: I/O and formatting with no state.
- `get`, `pending_count`, `get_elapsed_time`, the GET routes: they only read.
  `wait_for_callback` is called by tests only.
- Operations that no code of the program calls: `add_topic`, `get_topic_by_name`,
  `next`, `clear_context` and the like of the AI provider, `random`, `get_by_index`
  and `reset_index` of the LangSmith provider, `UserPool.reset`.
- LLM routing and the cache of SDK clients: an `LLMClient` keeps one deployment for
  its life, so it always uses the same resource and caches one client at most.
- A deployment that is not offered: the command line and the form have `choices`
  (`config/config.py:350-360`).
- Webhook signatures: the program never passes an `auth_secret`.
- The internals of gevent, Locust, Flask and the SDKs: external.

## Plan

1. (done) `AsyncRequest`, `CallbackCorrelation`, `UserSession`, with their proofs.
2. (done) `TestLifecycle` with its proofs.
3. (done) `AIConversation`, `TopicManager`, `ExampleProvider`, `ExampleWriter`,
   `WebhookPayloads`, composed in `Dialogue`, with their proofs.
4. (done) The safety part of the refinement of `AsyncRequest`, with unique ids and
   without, and the count.
5. (done) What holds where a finding says that something does not: the conditions
   under which each is avoided, proved.
6. Left: the early callback inside `Dialogue`, where an answer that is turned away
   costs the LLM its reply; the two timeouts as variables that `TestLifecycle` sets
   and `CallbackCorrelation` reads, where both are constants now.
