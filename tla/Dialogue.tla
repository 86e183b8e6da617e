------------------------------- MODULE Dialogue -------------------------------
(***************************************************************************)
(* What the users of one test say, and what they make of the answers: the  *)
(* question that submit_and_wait takes from its provider, the sync with    *)
(* LangSmith on the way, the message that is posted, and the callback that *)
(* is awaited.  AIConversation, TopicManager, ExampleProvider,             *)
(* ExampleWriter and WebhookPayloads are composed here; how callbacks,     *)
(* timeouts and the registry interleave is in CallbackCorrelation, and a   *)
(* callback that finds its message waiting is one step here.               *)
(***************************************************************************)
EXTENDS AIConversation, ExampleProvider, ExampleWriter, WebhookPayloads

CONSTANTS
    Configs,        \* the configurations to look at
    MaxUsers,       \* bound: users spawned in a test
    MaxQuestions,   \* bound: questions taken from the providers
    MessageLimit    \* self.message_limit (1000 in the code)

VARIABLES
    kind,           \* config.message_provider
    syncOn,         \* config.ai_sync_to_langsmith
    filtered,       \* a switchboard name is configured
    pc,             \* where a user is in its task
    lastResponse,   \* last_assistant_response
    messageCount,   \* message_count
    id,             \* the correlation id of the message a user waits for
    spawned, taken, \* what the bounds count
    heard           \* history: the turns whose answer reached the user

configVars == <<kind, syncOn, filtered>>
userVars == <<pc, lastResponse, messageCount, id, heard>>
vars == <<topicVars, contextVars, providerVars, writerVars, configVars, userVars,
          spawned, taken>>

\* "off": no such user now; "generating": in the call of the LLM; "syncing": in
\* on_message_generated; "posting": in client.post; "waiting": in get(timeout).
PCs == {"off", "idle", "generating", "syncing", "posting", "waiting"}

FullDatasetName(t) == [base |-> "ai", topic |-> t]

ASSUME DialogueAssumption ==
    /\ Names = {FullDatasetName(t) : t \in Topics}
    /\ None \notin Topics \union Answers
    /\ NoId \notin [kind : IdKinds, n : Users, turn : Nat]
    /\ MessageLimit \in Nat
    /\ Configs \subseteq {"ai", "langsmith"} \X BOOLEAN \X BOOLEAN
                            \X {"random", "round_robin"} \X Modes

Init ==
    /\ TopicInit /\ ContextInit /\ ProviderInit /\ WriterInit
    /\ kind \in {"ai", "langsmith"} /\ syncOn \in BOOLEAN /\ filtered \in BOOLEAN
    /\ <<kind, syncOn, filtered, strategy, questionMode>> \in Configs
    /\ pc = [u \in Users |-> "off"]
    /\ lastResponse = [u \in Users |-> None]
    /\ messageCount = [u \in Users |-> 0]
    /\ id = [u \in Users |-> NoId]
    /\ heard = [u \in Users |-> {}]
    /\ spawned = 0
    /\ taken = 0

MoveTo(u, where) == pc' = [pc EXCEPT ![u] = where]

\* A user is spawned, with a conversation of its own.
Start(u) ==
    /\ pc[u] = "off"
    /\ spawned < MaxUsers
    /\ spawned' = spawned + 1
    /\ MoveTo(u, "idle")
    /\ UNCHANGED <<topicVars, contextVars, providerVars, writerVars, configVars,
                   lastResponse, messageCount, id, heard, taken>>

\* The provider of the test loads its dataset; that may fail, and users may
\* run all the same, with a provider that is not loaded.
LoadDataset ==
    /\ kind = "langsmith"
    /\ Load
    /\ UNCHANGED <<topicVars, contextVars, writerVars, configVars, userVars, spawned, taken>>

-----------------------------------------------------------------------------
\* submit_and_wait up to the question.
MayAsk(u) ==
    /\ pc[u] = "idle"
    /\ messageCount[u] < MessageLimit
    /\ taken < MaxQuestions
    /\ taken' = taken + 1

\* An AI user calls next_message with the answer it heard last.
AskAI(u) ==
    /\ kind = "ai"
    /\ MayAsk(u)
    /\ NextMessage(u, lastResponse[u])
    /\ MoveTo(u, "generating")
    /\ UNCHANGED <<providerVars, writerVars, configVars,
                   lastResponse, messageCount, id, heard, spawned>>

\* A LangSmith user takes the next example and posts its question.
AskLangSmith(u) ==
    /\ kind = "langsmith"
    /\ MayAsk(u)
    /\ NextExample
    /\ MoveTo(u, "posting")
    /\ UNCHANGED <<topicVars, contextVars, writerVars, configVars,
                   lastResponse, messageCount, id, heard, spawned>>

\* Mutant: the answer is kept until the next one replaces it.
PostQuestionMutant(u) ==
    /\ MoveTo(u, "posting")
    /\ UNCHANGED lastResponse

\* next_message has returned a question that is not blank: the answer it was
\* told is done with.
PostQuestion(u) ==
    /\ MoveTo(u, "posting")
    /\ lastResponse' = [lastResponse EXCEPT ![u] = None]

\* The message is generated and recorded. A blank one is skipped; another goes
\* to LangSmith first, if that is configured. next_message does not raise here:
\* the generator and the writer catch every Exception of the calls they make, so
\* the handler at user.py:259-261 has nothing to catch and has no disjunct.
Generated(u, isBlank) ==
    /\ pc[u] = "generating"
    /\ AddUserMessage(u, isBlank)
    /\ \/ /\ isBlank
          /\ MoveTo(u, "idle")
          /\ UNCHANGED <<lastResponse, writerVars>>
       \/ /\ ~isBlank /\ syncOn
          /\ AddExample(u, FullDatasetName(topic[u]))
          /\ MoveTo(u, "syncing")
          /\ UNCHANGED lastResponse
       \/ /\ ~isBlank /\ ~syncOn
          /\ PostQuestion(u)
          /\ UNCHANGED writerVars
    /\ UNCHANGED <<topicVars, providerVars, configVars, messageCount, id, heard,
                   spawned, taken>>

\* Mutant: an exception in the writer is an exception of next_message.
SyncMutant(u) ==
    /\ pc[u] = "syncing"
    /\ SyncStep(u)
    /\ IF call'[u] # "none" THEN UNCHANGED <<pc, lastResponse>>
       ELSE IF call[u] = "example" THEN PostQuestion(u)
       ELSE MoveTo(u, "idle") /\ UNCHANGED lastResponse
    /\ UNCHANGED <<topicVars, contextVars, providerVars, configVars, messageCount, id,
                   heard, spawned, taken>>

\* A step of the sync; with its last one, however it ended, next_message returns.
Sync(u) ==
    /\ pc[u] = "syncing"
    /\ SyncStep(u)
    /\ IF call'[u] = "none" THEN PostQuestion(u) ELSE UNCHANGED <<pc, lastResponse>>
    /\ UNCHANGED <<topicVars, contextVars, providerVars, configVars, messageCount, id,
                   heard, spawned, taken>>

-----------------------------------------------------------------------------
\* The POST fails, or its response is unusable.
PostFails(u) ==
    /\ pc[u] = "posting"
    /\ MoveTo(u, "idle")
    /\ UNCHANGED <<topicVars, contextVars, providerVars, writerVars, configVars,
                   lastResponse, messageCount, id, heard, spawned, taken>>

\* The SUT's ids: one for each message, known by the user and its turn. (A
\* LangSmith user has no turns and keeps no answers: its ids look the same.)
RawIds == [kind : IdKinds, n : Users, turn : Nat]

\* The ids the SUT may give to the message that u posts now.
OwnIds(u) == [kind : IdKinds, n : {u}, turn : {turnCount[u]}]

\* The ids it may have given so far, those of earlier messages included.
SentIds == UNION {[kind : IdKinds, n : {u}, turn : 0..turnCount[u]] : u \in Users}

\* The SUT accepts the message, with an id of its own.
PostAccepted(u, rawId) ==
    /\ pc[u] = "posting"
    /\ MoveTo(u, "waiting")
    /\ id' = [id EXCEPT ![u] = rawId]
    /\ UNCHANGED <<topicVars, contextVars, providerVars, writerVars, configVars,
                   lastResponse, messageCount, heard, spawned, taken>>

\* Mutant: any callback is taken for the one that is awaited, such as the late
\* answer to an earlier message.
ResolvesMutant(u, p) == Accepted(p, filtered)

\* The payload reaches the message that u waits for.
Resolves(u, p) == Accepted(p, filtered) /\ RequestId(p.id) = ParseCorrelationId(id[u])

\* The finally clause.
Leave(u) ==
    /\ MoveTo(u, "idle")
    /\ messageCount' = [messageCount EXCEPT ![u] = @ + 1]
    /\ id' = [id EXCEPT ![u] = NoId]
    /\ UNCHANGED <<topicVars, contextVars, providerVars, writerVars, configVars,
                   spawned, taken>>

\* The answer's text is what the next call of next_message is told: the answer to
\* the message whose id the callback carries.
KeepResponse(u, p) ==
    lastResponse' = [lastResponse EXCEPT ![u] = [turn |-> p.id.turn, author |-> p.author]]

\* The callback that ends the wait. If it cannot be parsed or has no text, the
\* user has heard nothing.
Callback(u, p) ==
    /\ pc[u] = "waiting"
    /\ Resolves(u, p)
    /\ IF kind = "ai" /\ Parses(p) /\ p.text = "words"
         THEN /\ KeepResponse(u, p)
              /\ heard' = [heard EXCEPT ![u] = @ \union {p.id.turn}]
         ELSE UNCHANGED <<lastResponse, heard>>
    /\ Leave(u)

\* The timeout, or the registry giving the message up.
NoCallback(u) ==
    /\ pc[u] = "waiting"
    /\ Leave(u)
    /\ UNCHANGED <<lastResponse, heard>>

\* Locust stops the user, wherever it is. What it knew goes with it; its
\* conversation is not looked up again.
Kill(u) ==
    /\ pc[u] # "off"
    /\ MoveTo(u, "off")
    /\ IF call[u] = "none" THEN UNCHANGED writerVars ELSE CutOff(u)
    /\ CreateContext(u)
    /\ lastResponse' = [lastResponse EXCEPT ![u] = None]
    /\ messageCount' = [messageCount EXCEPT ![u] = 0]
    /\ id' = [id EXCEPT ![u] = NoId]
    /\ heard' = [heard EXCEPT ![u] = {}]
    /\ UNCHANGED <<topicVars, providerVars, configVars, spawned, taken>>

\* A callback is for any message sent so far, by whichever user, or for none.
Next ==
    \/ LoadDataset
    \/ \E u \in Users :
        \/ Start(u) \/ AskAI(u) \/ AskLangSmith(u) \/ Sync(u)
        \/ \E isBlank \in BOOLEAN : Generated(u, isBlank)
        \/ PostFails(u)
        \/ \E rawId \in OwnIds(u) : PostAccepted(u, rawId)
        \/ pc[u] = "waiting" /\ \E p \in Payloads(SentIds) : Callback(u, p)
        \/ NoCallback(u) \/ Kill(u)

SafeSpec == Init /\ [][Next]_vars

\* LangSmith's client has timeouts, so a step of the sync is taken; a waiting
\* user gets the lock in its turn (SF, since others may take it meanwhile).
Spec ==
    /\ SafeSpec
    /\ \A u \in Users :
        /\ WF_vars(Sync(u) /\ call[u] # "ensure")
        /\ SF_vars(Sync(u) /\ call[u] = "ensure")

-----------------------------------------------------------------------------
(* Properties.                                                             *)

\* Type invariant.
TypeOK ==
    /\ TopicTypeOK /\ ProviderTypeOK /\ WriterTypeOK
    /\ topic \in [Users -> Topics \union {None}]
    /\ turnCount \in [Users -> Nat]
    /\ messages \in [Users -> Seq(Message)]
    /\ kind \in {"ai", "langsmith"} /\ syncOn \in BOOLEAN /\ filtered \in BOOLEAN
    /\ pc \in [Users -> PCs]
    /\ lastResponse \in [Users -> Answers \union {None}]
    /\ messageCount \in [Users -> 0..MessageLimit]
    /\ id \in [Users -> RawIds \union {NoId}]
    /\ heard \in [Users -> SUBSET Nat]
    /\ \A u \in Users : (call[u] # "none") <=> pc[u] = "syncing"

\* Every answer a user has heard is in the history when its next message is
\* generated, blank messages and failed POSTs in between or not: "the AI
\* provider feeds the response back to the LLM" (tech-report.md:188).
NoAnswerForgotten ==
    \A u \in Users : \A n \in heard[u] : \A k \in DOMAIN messages[u] :
        (IsUser(messages[u][k]) /\ messages[u][k].turn > n) =>
            \E j \in 1..(k - 1) : ~IsUser(messages[u][j]) /\ messages[u][j].turn = n

\* A message that is not blank is posted, whatever LangSmith does with its
\* copy: fails, is slow, or keeps other users busy with the writer's lock.
QuestionIsPosted ==
    \A u \in Users : pc[u] = "syncing" ~> pc[u] \in {"posting", "off"}

\* A text answer from the business, on the right switchboard, that carries the id
\* the SUT gave to a message, reaches the user that waits for it, whatever the
\* JSON type of the id: tests/test_parsers.py:10 and models/callback.py:138
\* turn an id that is not a string into one.
AnswerIsFound ==
    \A u \in Users : pc[u] = "waiting" => \A p \in Payloads({id[u]}) :
        (/\ p.type = "message" /\ p.null = "nothing" /\ p.board = "own"
         /\ p.content = "text" /\ p.author = "business" /\ p.id = id[u]) => Resolves(u, p)

===============================================================================
