---------------------------- MODULE AIConversation ----------------------------
(***************************************************************************)
(* AIMessageProvider.next_message and the conversation contexts: a topic   *)
(* for a first message, the recorded answer for a follow-up, a call to the *)
(* LLM, and the generated message recorded.  A user has one conversation   *)
(* of its own.  Texts are blank or not; a message is known by its turn, an *)
(* answer by the message it answers and by who wrote it.                   *)
(***************************************************************************)
EXTENDS LoadUsers, TopicManager, Sequences

VARIABLES
    topic,          \* context.topic
    turnCount,      \* context.turn_count
    messages        \* context.messages

contextVars == <<topic, turnCount, messages>>

Roles == {"user", "assistant"}
Authors == {"user", "business"}
Answers == [turn : Nat, author : Authors]
Message == [role : Roles, turn : Nat, author : Authors, blank : BOOLEAN]

UserMessage(n, isBlank) ==
    [role |-> "user", turn |-> n, author |-> "user", blank |-> isBlank]

AssistantMessage(answer) ==
    [role |-> "assistant", turn |-> answer.turn, author |-> answer.author, blank |-> FALSE]

ContextInit ==
    /\ topic = [u \in Users |-> None]
    /\ turnCount = [u \in Users |-> 0]
    /\ messages = [u \in Users |-> <<>>]

\* get_or_create_context, for the conversation of a user that has just been
\* spawned. (The contexts of users that are gone stay, and are not looked up.)
CreateContext(u) ==
    /\ topic' = [topic EXCEPT ![u] = None]
    /\ turnCount' = [turnCount EXCEPT ![u] = 0]
    /\ messages' = [messages EXCEPT ![u] = <<>>]

\* Mutant: a conversation without a usable message starts over.
IsFirstMessageMutant(u) == \A i \in DOMAIN messages[u] : messages[u][i].blank

\* Mutant: off by one, the second message is a first one too.
IsFirstMessageLateMutant(u) == turnCount[u] <= 1

IsFirstMessage(u) == turnCount[u] = 0

SetTopic(u, t) == topic' = [topic EXCEPT ![u] = t]

AddAssistantMessage(u, answer) ==
    messages' = [messages EXCEPT ![u] = Append(@, AssistantMessage(answer))]

\* next_message up to the call of the LLM.
NextMessage(u, answer) ==
    /\ \/ /\ IsFirstMessage(u)
          /\ \E t \in Topics : SelectTopic(t) /\ SetTopic(u, t)
          /\ UNCHANGED messages
       \/ /\ ~IsFirstMessage(u)
          /\ IF answer = None THEN UNCHANGED messages ELSE AddAssistantMessage(u, answer)
          /\ UNCHANGED <<topic, topicVars>>
    /\ UNCHANGED turnCount

\* The LLM has answered, with text or with none, or has failed and the
\* generator falls back on a fixed text.
AddUserMessage(u, isBlank) ==
    /\ turnCount' = [turnCount EXCEPT ![u] = @ + 1]
    /\ messages' = [messages EXCEPT ![u] = Append(@, UserMessage(turnCount[u] + 1, isBlank))]
    /\ UNCHANGED topic

-----------------------------------------------------------------------------
(* Properties.                                                             *)

IsUser(m) == m.role = "user"

\* An answer is recorded where it was given: after the message it answers, with
\* nothing in between that was said to the SUT (blank messages are recorded,
\* but never sent). A late answer, or one kept from an earlier turn, would tell
\* the LLM a conversation that did not take place.
AnswersInPlace ==
    \A u \in Users : \A j \in DOMAIN messages[u] : messages[u][j].role = "assistant" =>
        \E i \in 1..(j - 1) :
            /\ IsUser(messages[u][i])
            /\ messages[u][i].turn = messages[u][j].turn
            /\ \A k \in (i + 1)..(j - 1) : IsUser(messages[u][k]) => messages[u][k].blank

\* The SUT's answers are the only thing recorded as such: never a user's own
\* message that the SUT echoes to the webhook under the same correlation id.
NoEcho ==
    \A u \in Users : \A i \in DOMAIN messages[u] :
        messages[u][i].role = "assistant" => messages[u][i].author = "business"

\* "Stores user and assistant messages" (providers/ai/README.md:54), and "stores
\* message history per conversation" (tech-report.md:180): an answer that was
\* given once is in the history once.
EachAnswerRecordedOnce ==
    \A u \in Users : \A i, j \in DOMAIN messages[u] :
        (/\ ~IsUser(messages[u][i])
         /\ ~IsUser(messages[u][j])
         /\ messages[u][i].turn = messages[u][j].turn) => i = j

\* What is left of EachAnswerRecordedOnce: an answer is recorded again only when
\* the message generated from it came out blank, and once for each of these.
RepeatsFollowBlanks ==
    \A u \in Users : \A i, j \in DOMAIN messages[u] :
        (/\ i < j
         /\ ~IsUser(messages[u][i])
         /\ ~IsUser(messages[u][j])
         /\ messages[u][i].turn = messages[u][j].turn) =>
            \E k \in (i + 1)..(j - 1) : IsUser(messages[u][k]) /\ messages[u][k].blank

\* A conversation keeps its topic, whatever the LLM makes of it: the dataset its
\* questions go to, and the description in every prompt, are those of the topic
\* it began with.
TopicIsKept ==
    [][\A u \in Users : (topic[u] # None /\ messages'[u] # <<>>) => topic'[u] = topic[u]]_contextVars

===============================================================================
