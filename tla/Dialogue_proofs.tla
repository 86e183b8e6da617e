---------------------------- MODULE Dialogue_proofs ----------------------------
(***************************************************************************)
(* Theorems about Dialogue, for any users, topics, datasets, names and     *)
(* configurations.  What holds of a conversation is first shown of a       *)
(* sequence of messages to which one is appended, then of the users' steps.*)
(***************************************************************************)
EXTENDS Dialogue, TopicManager_proofs, ExampleProvider_proofs, ExampleWriter_proofs

-----------------------------------------------------------------------------
(* Sequences of messages.                                                  *)

\* The message of turn n is the last of the user's in ms.
EndsWithTurn(ms, n) ==
    \E i \in DOMAIN ms :
        /\ IsUser(ms[i])
        /\ ms[i].turn = n
        /\ \A k \in DOMAIN ms : k > i => ~IsUser(ms[k])

\* Since the message of turn n nothing was said to the SUT.
OpenSince(ms, n) ==
    \E i \in DOMAIN ms :
        /\ IsUser(ms[i])
        /\ ms[i].turn = n
        /\ \A k \in DOMAIN ms : k > i /\ IsUser(ms[k]) => ms[k].blank

InPlace(ms) ==
    \A j \in DOMAIN ms : ms[j].role = "assistant" =>
        \E i \in 1..(j - 1) :
            /\ IsUser(ms[i])
            /\ ms[i].turn = ms[j].turn
            /\ \A k \in (i + 1)..(j - 1) : IsUser(ms[k]) => ms[k].blank

Recorded(ms, n) == \E j \in DOMAIN ms : ~IsUser(ms[j]) /\ ms[j].turn = n

Remembered(ms, n) ==
    \A k \in DOMAIN ms : (IsUser(ms[k]) /\ ms[k].turn > n) =>
        \E j \in 1..(k - 1) : ~IsUser(ms[j]) /\ ms[j].turn = n

FromBusiness(ms) == \A i \in DOMAIN ms : ms[i].role = "assistant" => ms[i].author = "business"

NoTurnAfter(ms, n) == \A i \in DOMAIN ms : IsUser(ms[i]) => ms[i].turn <= n

NoAnswerAfter(ms, n) == \A i \in DOMAIN ms : ~IsUser(ms[i]) => ms[i].turn <= n

RepeatsAfterBlanks(ms) ==
    \A i, j \in DOMAIN ms :
        (i < j /\ ~IsUser(ms[i]) /\ ~IsUser(ms[j]) /\ ms[i].turn = ms[j].turn) =>
            \E k \in (i + 1)..(j - 1) : IsUser(ms[k]) /\ ms[k].blank

\* Since the answer to turn n was recorded, if it was, a message came out blank.
BlankSince(ms, n) ==
    \A i \in DOMAIN ms : (~IsUser(ms[i]) /\ ms[i].turn = n) =>
        \E k \in DOMAIN ms : k > i /\ IsUser(ms[k]) /\ ms[k].blank

\* What appending a message makes of a history, index by index.
LEMMA AppendFacts ==
    ASSUME NEW ms \in Seq(Message), NEW m \in Message
    PROVE  /\ Append(ms, m) \in Seq(Message)
           /\ Len(ms) \in Nat
           /\ DOMAIN ms = 1..Len(ms)
           /\ DOMAIN Append(ms, m) = 1..(Len(ms) + 1)
           /\ Append(ms, m)[Len(ms) + 1] = m
           /\ \A i \in 1..Len(ms) : Append(ms, m)[i] = ms[i]
    OBVIOUS

\* add_user_message() makes a message of the user's turn.
LEMMA UserMessageMade ==
    ASSUME NEW n \in Nat, NEW b \in BOOLEAN
    PROVE  /\ UserMessage(n, b) \in Message
           /\ UserMessage(n, b).role = "user"
           /\ UserMessage(n, b).turn = n
           /\ UserMessage(n, b).blank = b
    BY DEF UserMessage, Message, Roles, Authors

\* add_assistant_message() makes a message of the turn that was answered.
LEMMA AssistantMessageMade ==
    ASSUME NEW a \in Answers
    PROVE  /\ AssistantMessage(a) \in Message
           /\ AssistantMessage(a).role = "assistant"
           /\ AssistantMessage(a).turn = a.turn
           /\ AssistantMessage(a).author = a.author
    BY DEF AssistantMessage, Message, Answers, Roles, Authors

\* What an answer that is recorded does to a history.
LEMMA AssistantAppended ==
    ASSUME NEW ms \in Seq(Message), NEW m \in Message, m.role = "assistant", NEW n \in Nat
    PROVE  /\ EndsWithTurn(ms, n) => EndsWithTurn(Append(ms, m), n)
           /\ OpenSince(ms, n) => OpenSince(Append(ms, m), n)
           /\ InPlace(ms) /\ OpenSince(ms, m.turn) => InPlace(Append(ms, m))
           /\ Recorded(ms, n) => Recorded(Append(ms, m), n)
           /\ Recorded(Append(ms, m), m.turn)
           /\ Remembered(ms, n) => Remembered(Append(ms, m), n)
           /\ FromBusiness(ms) /\ m.author = "business" => FromBusiness(Append(ms, m))
           /\ NoTurnAfter(ms, n) => NoTurnAfter(Append(ms, m), n)
<1> DEFINE l == Len(ms)  ns == Append(ms, m)
<1>1. /\ l \in Nat /\ DOMAIN ms = 1..l /\ DOMAIN ns = 1..(l + 1)
      /\ ns[l + 1] = m /\ \A i \in 1..l : ns[i] = ms[i]
    BY AppendFacts
<1>2. ~IsUser(m)
    BY DEF IsUser
<1> HIDE DEF l, ns
<1>3. EndsWithTurn(ms, n) => EndsWithTurn(ns, n)
    BY <1>1, <1>2 DEF EndsWithTurn
<1>4. OpenSince(ms, n) => OpenSince(ns, n)
    BY <1>1, <1>2 DEF OpenSince
<1>5. ASSUME InPlace(ms), OpenSince(ms, m.turn) PROVE InPlace(ns)
    <2> SUFFICES ASSUME NEW j \in 1..(l + 1), ns[j].role = "assistant"
                 PROVE  \E i \in 1..(j - 1) :
                            /\ IsUser(ns[i])
                            /\ ns[i].turn = ns[j].turn
                            /\ \A k \in (i + 1)..(j - 1) : IsUser(ns[k]) => ns[k].blank
        BY <1>1 DEF InPlace
    <2>1. CASE j = l + 1
        <3>1. PICK i \in 1..l : /\ IsUser(ms[i]) /\ ms[i].turn = m.turn
                                /\ \A k \in 1..l : k > i /\ IsUser(ms[k]) => ms[k].blank
            BY <1>1, <1>5 DEF OpenSince
        <3>2. ns[i] = ms[i] /\ ns[j] = m /\ i \in 1..(j - 1)
            BY <1>1, <2>1
        <3>3. \A k \in (i + 1)..(j - 1) : k \in 1..l /\ k > i /\ ns[k] = ms[k]
            BY <1>1, <2>1
        <3> QED
            BY <3>1, <3>2, <3>3
    <2>2. CASE j \in 1..l
        <3>1. ns[j] = ms[j] /\ \A k \in 1..(j - 1) : ns[k] = ms[k]
            BY <1>1, <2>2
        <3>2. PICK i \in 1..(j - 1) :
                  /\ IsUser(ms[i]) /\ ms[i].turn = ms[j].turn
                  /\ \A k \in (i + 1)..(j - 1) : IsUser(ms[k]) => ms[k].blank
            BY <1>1, <1>5, <2>2, <3>1 DEF InPlace
        <3>3. \A k \in (i + 1)..(j - 1) : k \in 1..(j - 1)
            BY <2>2, <1>1
        <3> QED
            BY <3>1, <3>2, <3>3
    <2> QED
        BY <1>1, <2>1, <2>2
<1>6. Recorded(ms, n) => Recorded(ns, n)
    BY <1>1 DEF Recorded
<1>7. Recorded(ns, m.turn)
    BY <1>1, <1>2 DEF Recorded
<1>8. Remembered(ms, n) => Remembered(ns, n)
    BY <1>1, <1>2 DEF Remembered
<1>9. FromBusiness(ms) /\ m.author = "business" => FromBusiness(ns)
    BY <1>1 DEF FromBusiness
<1>10. NoTurnAfter(ms, n) => NoTurnAfter(ns, n)
    BY <1>1, <1>2 DEF NoTurnAfter
<1> QED
    BY <1>3, <1>4, <1>5, <1>6, <1>7, <1>8, <1>9, <1>10 DEF ns

\* What a message of the user that is recorded does to a history.
LEMMA UserAppended ==
    ASSUME NEW ms \in Seq(Message), NEW m \in Message, m.role = "user", NEW n \in Nat
    PROVE  /\ EndsWithTurn(Append(ms, m), m.turn)
           /\ OpenSince(ms, n) /\ m.blank => OpenSince(Append(ms, m), n)
           /\ InPlace(ms) => InPlace(Append(ms, m))
           /\ Recorded(ms, n) => Recorded(Append(ms, m), n)
           /\ Remembered(ms, n) /\ Recorded(ms, n) => Remembered(Append(ms, m), n)
           /\ FromBusiness(ms) => FromBusiness(Append(ms, m))
           /\ NoTurnAfter(ms, n) /\ n < m.turn => NoTurnAfter(Append(ms, m), m.turn)
<1> DEFINE l == Len(ms)  ns == Append(ms, m)
<1>1. /\ l \in Nat /\ DOMAIN ms = 1..l /\ DOMAIN ns = 1..(l + 1)
      /\ ns[l + 1] = m /\ \A i \in 1..l : ns[i] = ms[i]
    BY AppendFacts
<1>2. IsUser(m) /\ m.role # "assistant"
    BY DEF IsUser
<1>3. m.turn \in Nat /\ \A i \in 1..l : ms[i].turn \in Nat
    <2>1. \A i \in 1..l : ms[i] \in Message
        BY <1>1
    <2> QED
        BY <2>1 DEF Message
<1> HIDE DEF l, ns
<1>4. EndsWithTurn(ns, m.turn)
    BY <1>1, <1>2 DEF EndsWithTurn
<1>5. ASSUME OpenSince(ms, n), m.blank PROVE OpenSince(ns, n)
    BY <1>1, <1>5 DEF OpenSince
<1>6. ASSUME InPlace(ms) PROVE InPlace(ns)
    <2> SUFFICES ASSUME NEW j \in 1..l, ns[j].role = "assistant"
                 PROVE  \E i \in 1..(j - 1) :
                            /\ IsUser(ns[i])
                            /\ ns[i].turn = ns[j].turn
                            /\ \A k \in (i + 1)..(j - 1) : IsUser(ns[k]) => ns[k].blank
        BY <1>1, <1>2 DEF InPlace
    <2>1. ns[j] = ms[j] /\ \A k \in 1..(j - 1) : ns[k] = ms[k]
        BY <1>1
    <2>2. PICK i \in 1..(j - 1) :
              /\ IsUser(ms[i]) /\ ms[i].turn = ms[j].turn
              /\ \A k \in (i + 1)..(j - 1) : IsUser(ms[k]) => ms[k].blank
        BY <1>1, <1>6, <2>1 DEF InPlace
    <2>3. \A k \in (i + 1)..(j - 1) : k \in 1..(j - 1)
        BY <1>1
    <2> QED
        BY <2>1, <2>2, <2>3
<1>7. Recorded(ms, n) => Recorded(ns, n)
    BY <1>1 DEF Recorded
<1>8. ASSUME Remembered(ms, n), Recorded(ms, n) PROVE Remembered(ns, n)
    BY <1>1, <1>8 DEF Remembered, Recorded
<1>9. FromBusiness(ms) => FromBusiness(ns)
    BY <1>1, <1>2 DEF FromBusiness
<1>10. ASSUME NoTurnAfter(ms, n), n < m.turn PROVE NoTurnAfter(ns, m.turn)
    BY <1>1, <1>3, <1>10 DEF NoTurnAfter
<1> QED
    BY <1>4, <1>5, <1>6, <1>7, <1>8, <1>9, <1>10 DEF ns

\* What an answer that is recorded does to the repeats in a history.
LEMMA AnswerRepeats ==
    ASSUME NEW ms \in Seq(Message), NEW m \in Message, m.role = "assistant", NEW n \in Nat
    PROVE  /\ RepeatsAfterBlanks(ms) /\ BlankSince(ms, m.turn)
                 => RepeatsAfterBlanks(Append(ms, m))
           /\ NoAnswerAfter(ms, n) /\ m.turn <= n => NoAnswerAfter(Append(ms, m), n)
<1> DEFINE l == Len(ms)  ns == Append(ms, m)
<1>1. /\ l \in Nat /\ DOMAIN ms = 1..l /\ DOMAIN ns = 1..(l + 1)
      /\ ns[l + 1] = m /\ \A i \in 1..l : ns[i] = ms[i]
    BY AppendFacts
<1> HIDE DEF l, ns
<1>2. ASSUME RepeatsAfterBlanks(ms), BlankSince(ms, m.turn)
      PROVE  RepeatsAfterBlanks(ns)
    <2> SUFFICES ASSUME NEW i \in 1..(l + 1), NEW j \in 1..(l + 1), i < j,
                        ~IsUser(ns[i]), ~IsUser(ns[j]), ns[i].turn = ns[j].turn
                 PROVE  \E k \in (i + 1)..(j - 1) : IsUser(ns[k]) /\ ns[k].blank
        BY <1>1 DEF RepeatsAfterBlanks
    <2>1. i \in 1..l /\ ns[i] = ms[i]
        BY <1>1
    <2>2. CASE j = l + 1
        <3>1. PICK k \in 1..l : k > i /\ IsUser(ms[k]) /\ ms[k].blank
            BY <1>1, <1>2, <2>1, <2>2 DEF BlankSince
        <3>2. k \in (i + 1)..(j - 1) /\ ns[k] = ms[k]
            BY <1>1, <2>1, <2>2, <3>1
        <3> QED
            BY <3>1, <3>2
    <2>3. CASE j \in 1..l
        <3>1. ns[j] = ms[j]
            BY <1>1, <2>3
        <3>2. PICK k \in (i + 1)..(j - 1) : IsUser(ms[k]) /\ ms[k].blank
            BY <1>1, <1>2, <2>1, <2>3, <3>1 DEF RepeatsAfterBlanks
        <3>3. ns[k] = ms[k]
            BY <1>1, <2>1, <2>3
        <3> QED
            BY <3>2, <3>3
    <2> QED
        BY <1>1, <2>2, <2>3
<1>3. NoAnswerAfter(ms, n) /\ m.turn <= n => NoAnswerAfter(ns, n)
    BY <1>1 DEF NoAnswerAfter
<1> QED
    BY <1>2, <1>3 DEF ns

\* What a message of the user that is recorded does to them.
LEMMA MessageRepeats ==
    ASSUME NEW ms \in Seq(Message), NEW m \in Message, m.role = "user", NEW n \in Nat
    PROVE  /\ RepeatsAfterBlanks(ms) => RepeatsAfterBlanks(Append(ms, m))
           /\ m.blank => BlankSince(Append(ms, m), n)
           /\ NoAnswerAfter(ms, n) => NoAnswerAfter(Append(ms, m), n)
           /\ Recorded(Append(ms, m), n) => Recorded(ms, n)
<1> DEFINE l == Len(ms)  ns == Append(ms, m)
<1>1. /\ l \in Nat /\ DOMAIN ms = 1..l /\ DOMAIN ns = 1..(l + 1)
      /\ ns[l + 1] = m /\ \A i \in 1..l : ns[i] = ms[i]
    BY AppendFacts
<1>2. IsUser(m)
    BY DEF IsUser
<1> HIDE DEF l, ns
<1>3. ASSUME RepeatsAfterBlanks(ms) PROVE RepeatsAfterBlanks(ns)
    <2> SUFFICES ASSUME NEW i \in 1..l, NEW j \in 1..l, i < j,
                        ~IsUser(ns[i]), ~IsUser(ns[j]), ns[i].turn = ns[j].turn
                 PROVE  \E k \in (i + 1)..(j - 1) : IsUser(ns[k]) /\ ns[k].blank
        BY <1>1, <1>2 DEF RepeatsAfterBlanks
    <2>1. PICK k \in (i + 1)..(j - 1) : IsUser(ms[k]) /\ ms[k].blank
        BY <1>1, <1>3 DEF RepeatsAfterBlanks
    <2>2. ns[k] = ms[k]
        BY <1>1
    <2> QED
        BY <2>1, <2>2
<1>4. m.blank => BlankSince(ns, n)
    BY <1>1, <1>2 DEF BlankSince
<1>5. NoAnswerAfter(ms, n) => NoAnswerAfter(ns, n)
    BY <1>1, <1>2 DEF NoAnswerAfter
<1>6. Recorded(ns, n) => Recorded(ms, n)
    BY <1>1, <1>2 DEF Recorded
<1> QED
    BY <1>3, <1>4, <1>5, <1>6 DEF ns

-----------------------------------------------------------------------------
(* Types.                                                                  *)

\* What Dialogue adds to its parts. A user in a message is below its limit.
OwnTypeOK ==
    /\ topic \in [Users -> Topics \union {None}]
    /\ turnCount \in [Users -> Nat]
    /\ messages \in [Users -> Seq(Message)]
    /\ kind \in {"ai", "langsmith"} /\ syncOn \in BOOLEAN /\ filtered \in BOOLEAN
    /\ pc \in [Users -> PCs]
    /\ lastResponse \in [Users -> Answers \union {None}]
    /\ messageCount \in [Users -> 0..MessageLimit]
    /\ id \in [Users -> RawIds \union {NoId}]
    /\ heard \in [Users -> SUBSET Nat]
    /\ \A u \in Users : pc[u] \notin {"off", "idle"} => messageCount[u] < MessageLimit

\* The variables that Dialogue adds are well typed at first.
LEMMA OwnTypeInit == Init => OwnTypeOK
<1> SUFFICES ASSUME Init PROVE OwnTypeOK
    OBVIOUS
<1>1. messages \in [Users -> Seq(Message)]
    BY DEF Init, ContextInit
<1>2. messageCount \in [Users -> 0..MessageLimit]
    BY DialogueAssumption DEF Init
<1> QED
    BY <1>1, <1>2 DEF Init, ContextInit, OwnTypeOK, PCs

\* The step of a user, in the cases of Next.
UserStep(u) ==
    \/ Start(u) \/ AskAI(u) \/ AskLangSmith(u) \/ Sync(u)
    \/ \E isBlank \in BOOLEAN : Generated(u, isBlank)
    \/ PostFails(u)
    \/ \E rawId \in OwnIds(u) : PostAccepted(u, rawId)
    \/ pc[u] = "waiting" /\ \E p \in Payloads(SentIds) : Callback(u, p)
    \/ NoCallback(u) \/ Kill(u)

\* A step is the loading of the dataset or one user's.
LEMMA NextCases == Next <=> (LoadDataset \/ \E u \in Users : UserStep(u))
    BY DEF Next, UserStep

\* The ids of messages, and the callbacks for them, are well formed.
LEMMA IdsTyped ==
    ASSUME OwnTypeOK
    PROVE  /\ \A u \in Users : \A rawId \in OwnIds(u) : rawId \in RawIds
           /\ \A p \in Payloads(SentIds) : p \in Payloads(RawIds)
<1>1. ASSUME NEW u \in Users, NEW rawId \in OwnIds(u) PROVE rawId \in RawIds
    BY DEF OwnIds, RawIds, OwnTypeOK
<1>2. ASSUME NEW u \in Users, NEW i \in [kind : IdKinds, n : {u}, turn : 0..turnCount[u]]
      PROVE  i \in RawIds
    BY DEF RawIds, OwnTypeOK
<1>3. SentIds \subseteq RawIds
    BY <1>2 DEF SentIds
<1>4. \A p \in Payloads(SentIds) : p \in Payloads(RawIds)
    BY <1>3 DEF Payloads
<1> QED
    BY <1>1, <1>4

\* next_message() leaves a well-typed context behind.
LEMMA TypeNextMessage ==
    ASSUME NEW u \in Users, OwnTypeOK, NextMessage(u, lastResponse[u])
    PROVE  /\ topic' \in [Users -> Topics \union {None}]
           /\ turnCount' = turnCount
           /\ messages' \in [Users -> Seq(Message)]
<1>1. CASE IsFirstMessage(u)
    BY <1>1 DEF NextMessage, SetTopic, OwnTypeOK
<1>2. CASE ~IsFirstMessage(u) /\ lastResponse[u] = None
    BY <1>2 DEF NextMessage, OwnTypeOK
<1>3. CASE ~IsFirstMessage(u) /\ lastResponse[u] # None
    <2>1. AssistantMessage(lastResponse[u]) \in Message
        BY <1>3, AssistantMessageMade DEF OwnTypeOK
    <2>2. messages' = [messages EXCEPT ![u] = Append(@, AssistantMessage(lastResponse[u]))]
        BY <1>3 DEF NextMessage, AddAssistantMessage
    <2>3. messages' \in [Users -> Seq(Message)]
        BY <2>1, <2>2, AppendFacts DEF OwnTypeOK
    <2> QED
        BY <1>3, <2>3 DEF NextMessage, OwnTypeOK
<1> QED
    BY <1>1, <1>2, <1>3

\* So does the message that the LLM has generated.
LEMMA TypeAddUserMessage ==
    ASSUME NEW u \in Users, NEW isBlank \in BOOLEAN, OwnTypeOK, AddUserMessage(u, isBlank)
    PROVE  /\ topic' = topic
           /\ turnCount' \in [Users -> Nat]
           /\ messages' \in [Users -> Seq(Message)]
<1>1. UserMessage(turnCount[u] + 1, isBlank) \in Message
    BY UserMessageMade DEF OwnTypeOK
<1>2. messages' \in [Users -> Seq(Message)]
    BY <1>1, AppendFacts DEF AddUserMessage, OwnTypeOK
<1> QED
    BY <1>2 DEF AddUserMessage, OwnTypeOK

\* What is kept of a callback is a text answer.
LEMMA TypeCallback ==
    ASSUME NEW u \in Users, NEW p \in Payloads(RawIds), OwnTypeOK, Callback(u, p)
    PROVE  /\ lastResponse' \in [Users -> Answers \union {None}]
           /\ heard' \in [Users -> SUBSET Nat]
<1>1. p.author \in Authors
    BY DEF Payloads, Authors
<1>2. p.id.turn \in Nat /\ [turn |-> p.id.turn, author |-> p.author] \in Answers
    BY <1>1 DEF Answers, Callback, Resolves, Accepted, Payloads, RawIds
<1>3. CASE KeepResponse(u, p) /\ heard' = [heard EXCEPT ![u] = @ \union {p.id.turn}]
    BY <1>2, <1>3 DEF KeepResponse, OwnTypeOK
<1>4. CASE UNCHANGED <<lastResponse, heard>>
    BY <1>4 DEF OwnTypeOK
<1> QED
    BY <1>3, <1>4 DEF Callback

\* Each step of a user keeps the types.
LEMMA OwnTypeUserStep ==
    ASSUME NEW u \in Users, OwnTypeOK, UserStep(u)
    PROVE  OwnTypeOK'
<1>1. CASE Start(u)
    BY <1>1 DEF Start, MoveTo, OwnTypeOK, contextVars, configVars, PCs
<1>2. CASE AskAI(u)
    <2>1. /\ topic' \in [Users -> Topics \union {None}]
          /\ turnCount' = turnCount
          /\ messages' \in [Users -> Seq(Message)]
        BY <1>2, TypeNextMessage DEF AskAI
    <2> QED
        BY <1>2, <2>1 DEF AskAI, MayAsk, MoveTo, OwnTypeOK, configVars, PCs
<1>3. CASE AskLangSmith(u)
    BY <1>3 DEF AskLangSmith, MayAsk, MoveTo, OwnTypeOK, contextVars, configVars, PCs
<1>4. ASSUME NEW isBlank \in BOOLEAN, Generated(u, isBlank) PROVE OwnTypeOK'
    <2>1. /\ topic' = topic
          /\ turnCount' \in [Users -> Nat]
          /\ messages' \in [Users -> Seq(Message)]
        BY <1>4, TypeAddUserMessage DEF Generated
    <2>2. lastResponse' \in [Users -> Answers \union {None}]
        BY <1>4 DEF Generated, PostQuestion, OwnTypeOK
    <2>3. PICK where \in {"idle", "syncing", "posting"} : MoveTo(u, where)
        BY <1>4 DEF Generated, PostQuestion
    <2> QED
        BY <1>4, <2>1, <2>2, <2>3 DEF Generated, MoveTo, OwnTypeOK, configVars, PCs
<1>5. CASE Sync(u)
    BY <1>5 DEF Sync, PostQuestion, MoveTo, OwnTypeOK, contextVars, configVars, PCs
<1>6. CASE PostFails(u)
    BY <1>6 DEF PostFails, MoveTo, OwnTypeOK, contextVars, configVars, PCs
<1>7. ASSUME NEW rawId \in RawIds, PostAccepted(u, rawId) PROVE OwnTypeOK'
    BY <1>7 DEF PostAccepted, MoveTo, OwnTypeOK, contextVars, configVars, PCs
<1>8. ASSUME Leave(u), pc[u] = "waiting"
      PROVE  /\ messageCount' \in [Users -> 0..MessageLimit]
             /\ pc' \in [Users -> PCs]
             /\ id' \in [Users -> RawIds \union {NoId}]
             /\ \A v \in Users :
                   pc'[v] \notin {"off", "idle"} => messageCount'[v] < MessageLimit
    <2>1. messageCount[u] \in Nat /\ messageCount[u] < MessageLimit
        <3>1. messageCount[u] \in 0..MessageLimit
            BY DEF OwnTypeOK
        <3>2. pc[u] \notin {"off", "idle"}
            BY <1>8
        <3> QED
            BY <3>1, <3>2 DEF OwnTypeOK
    <2>2. messageCount[u] + 1 \in 0..MessageLimit
        BY <2>1, DialogueAssumption
    <2>3. messageCount' \in [Users -> 0..MessageLimit]
        BY <1>8, <2>2 DEF Leave, OwnTypeOK
    <2>4. pc' \in [Users -> PCs] /\ id' \in [Users -> RawIds \union {NoId}]
        BY <1>8 DEF Leave, MoveTo, OwnTypeOK, PCs
    <2>5. ASSUME NEW v \in Users, pc'[v] \notin {"off", "idle"}
          PROVE  messageCount'[v] < MessageLimit
        <3>1. v # u
            BY <1>8, <2>5 DEF Leave, MoveTo, OwnTypeOK
        <3>2. pc'[v] = pc[v] /\ messageCount'[v] = messageCount[v]
            BY <1>8, <3>1 DEF Leave, MoveTo, OwnTypeOK
        <3> QED
            BY <2>5, <3>2 DEF OwnTypeOK
    <2> QED
        BY <2>3, <2>4, <2>5
<1>9. ASSUME NEW p \in Payloads(RawIds), Callback(u, p) PROVE OwnTypeOK'
    BY <1>8, <1>9, TypeCallback DEF Callback, Leave, OwnTypeOK, contextVars, configVars
<1>10. CASE NoCallback(u)
    BY <1>8, <1>10 DEF NoCallback, Leave, OwnTypeOK, contextVars, configVars
<1>11. CASE Kill(u)
    <2>1. messages' \in [Users -> Seq(Message)]
        BY <1>11 DEF Kill, CreateContext, OwnTypeOK
    <2>2. messageCount' \in [Users -> 0..MessageLimit]
        BY <1>11, DialogueAssumption DEF Kill, OwnTypeOK
    <2> QED
        BY <1>11, <2>1, <2>2 DEF Kill, CreateContext, MoveTo, OwnTypeOK, configVars, PCs
<1> QED
    BY <1>1, <1>2, <1>3, <1>4, <1>5, <1>6, <1>7, <1>9, <1>10, <1>11, IdsTyped DEF UserStep

-----------------------------------------------------------------------------
(* Conversations.                                                          *)

Turns(u) ==
    /\ turnCount[u] = 0 => messages[u] = <<>>
    /\ turnCount[u] > 0 => EndsWithTurn(messages[u], turnCount[u])
    /\ NoTurnAfter(messages[u], turnCount[u])
    /\ turnCount[u] > 0 \/ pc[u] = "generating" => topic[u] \in Topics
    /\ kind = "ai" /\ pc[u] \in {"syncing", "posting", "waiting"} => turnCount[u] > 0

\* An answer that is kept may still be recorded. (While the next message is
\* synced it is kept, but next_message is not called.)
History(u) ==
    /\ InPlace(messages[u])
    /\ FromBusiness(messages[u])
    /\ lastResponse[u] # None => lastResponse[u].author = "business"
    /\ lastResponse[u] # None /\ pc[u] # "syncing" =>
          OpenSince(messages[u], lastResponse[u].turn)

\* What was heard is recorded, or is kept for the message that comes next.
Hearing(u) ==
    /\ kind # "ai" => heard[u] = {}
    /\ \A n \in heard[u] :
          /\ n \in 1..turnCount[u]
          /\ Remembered(messages[u], n)
          /\ \/ Recorded(messages[u], n)
             \/ pc[u] = "idle" /\ lastResponse[u] # None /\ lastResponse[u].turn = n
                   /\ n = turnCount[u]

\* The answer to the message that is out is not in the history yet, and one that
\* is kept can be recorded again only after a blank message.
Repeats(u) ==
    /\ RepeatsAfterBlanks(messages[u])
    /\ NoAnswerAfter(messages[u], turnCount[u])
    /\ lastResponse[u] # None => lastResponse[u].turn <= turnCount[u]
    /\ lastResponse[u] # None /\ pc[u] \notin {"generating", "syncing"} =>
          BlankSince(messages[u], lastResponse[u].turn)
    /\ kind = "ai" /\ pc[u] \in {"syncing", "posting", "waiting"} =>
          ~Recorded(messages[u], turnCount[u])

Conversation(u) == Turns(u) /\ History(u) /\ Hearing(u) /\ Repeats(u)

\* A step that leaves the conversation of v alone.
Same(v) ==
    /\ topic'[v] = topic[v] /\ turnCount'[v] = turnCount[v] /\ messages'[v] = messages[v]
    /\ lastResponse'[v] = lastResponse[v] /\ heard'[v] = heard[v]
    /\ pc'[v] = pc[v] /\ kind' = kind

\* A user whose conversation is untouched keeps its invariant.
LEMMA SameConversation ==
    ASSUME NEW v \in Users, Conversation(v), Same(v)
    PROVE  Conversation(v)'
<1>1. Turns(v)'
    BY DEF Conversation, Same, Turns
<1>2. History(v)'
    BY DEF Conversation, Same, History
<1>3. Hearing(v)'
    BY DEF Conversation, Same, Hearing
<1>4. Repeats(v)'
    BY DEF Conversation, Same, Repeats
<1> QED
    BY <1>1, <1>2, <1>3, <1>4 DEF Conversation

\* A history that is empty has nothing out of place.
LEMMA EmptyConversation ==
    ASSUME NEW n \in Nat
    PROVE  /\ InPlace(<<>>) /\ FromBusiness(<<>>) /\ NoTurnAfter(<<>>, n)
           /\ RepeatsAfterBlanks(<<>>) /\ NoAnswerAfter(<<>>, n) /\ ~Recorded(<<>>, n)
<1>1. DOMAIN <<>> = {}
    OBVIOUS
<1> QED
    BY <1>1 DEF InPlace, FromBusiness, NoTurnAfter, RepeatsAfterBlanks, NoAnswerAfter,
                Recorded

\* The user moves on, and nothing was said or heard.
LEMMA MovesOn ==
    ASSUME NEW u \in Users, NEW where \in {"idle", "posting", "waiting"},
           OwnTypeOK, Conversation(u), UNCHANGED <<contextVars, lastResponse, heard, kind>>,
           MoveTo(u, where), pc[u] \notin {"generating", "syncing"},
           kind = "ai" /\ where # "idle" => pc[u] \in {"posting", "waiting"}
    PROVE  Conversation(u)'
<1>1. pc'[u] = where
    BY DEF MoveTo, OwnTypeOK
<1>2. Turns(u)'
    BY <1>1 DEF Conversation, Turns, contextVars
<1>3. History(u)'
    BY <1>1 DEF Conversation, History, contextVars
<1>4. Hearing(u)'
    <2>1. CASE kind # "ai"
        BY <2>1 DEF Conversation, Hearing
    <2>2. CASE where = "idle"
        BY <1>1, <2>2 DEF Conversation, Hearing, contextVars
    <2>3. CASE pc[u] \in {"posting", "waiting"}
        BY <2>3 DEF Conversation, Hearing, contextVars
    <2> QED
        BY <2>1, <2>2, <2>3
<1>5. Repeats(u)'
    BY <1>1 DEF Conversation, Repeats, contextVars
<1> QED
    BY <1>2, <1>3, <1>4, <1>5 DEF Conversation

\* Recording the last answer, and asking the LLM, keep the conversation.
LEMMA ConversationAskAI ==
    ASSUME NEW u \in Users, OwnTypeOK, Conversation(u), AskAI(u)
    PROVE  Conversation(u)'
<1>1. /\ pc[u] = "idle" /\ pc'[u] = "generating" /\ kind = "ai" /\ kind' = "ai"
      /\ lastResponse' = lastResponse /\ heard' = heard /\ turnCount' = turnCount
    BY DEF AskAI, MayAsk, MoveTo, OwnTypeOK, configVars, NextMessage
<1>2. turnCount[u] \in Nat /\ messages[u] \in Seq(Message)
    BY DEF OwnTypeOK
<1>3. CASE turnCount[u] = 0
    <2>1. PICK t \in Topics : SetTopic(u, t)
        BY <1>3 DEF AskAI, NextMessage, IsFirstMessage
    <2>2. topic'[u] \in Topics /\ messages' = messages
        BY <1>3, <2>1 DEF AskAI, NextMessage, IsFirstMessage, SetTopic, OwnTypeOK
    <2>3. Turns(u)'
        BY <1>1, <1>2, <1>3, <2>2 DEF Conversation, Turns
    <2>4. History(u)'
        BY <1>1, <2>2 DEF Conversation, History
    <2>5. heard[u] = {}
        BY <1>3 DEF Conversation, Hearing
    <2>6. Hearing(u)'
        BY <1>1, <2>5 DEF Hearing
    <2>7. Repeats(u)'
        BY <1>1, <2>2 DEF Conversation, Repeats
    <2> QED
        BY <2>3, <2>4, <2>6, <2>7 DEF Conversation
<1>4. CASE turnCount[u] # 0 /\ lastResponse[u] = None
    <2>1. topic' = topic /\ messages' = messages
        BY <1>4 DEF AskAI, NextMessage, IsFirstMessage
    <2>2. Turns(u)'
        BY <1>1, <1>2, <1>4, <2>1 DEF Conversation, Turns
    <2>3. History(u)'
        BY <1>1, <1>4, <2>1 DEF Conversation, History
    <2>4. Hearing(u)'
        BY <1>1, <1>4, <2>1 DEF Conversation, Hearing
    <2>5. Repeats(u)'
        BY <1>1, <2>1 DEF Conversation, Repeats
    <2> QED
        BY <2>2, <2>3, <2>4, <2>5 DEF Conversation
<1>5. CASE turnCount[u] # 0 /\ lastResponse[u] # None
    <2>1. PICK m \in Message : m = AssistantMessage(lastResponse[u])
        BY <1>5, AssistantMessageMade DEF OwnTypeOK
    <2>2. /\ m.role = "assistant" /\ m.turn = lastResponse[u].turn
          /\ m.author = lastResponse[u].author
        BY <1>5, <2>1, AssistantMessageMade DEF OwnTypeOK
    <2>3. topic' = topic /\ messages'[u] = Append(messages[u], m)
        BY <1>5, <2>1 DEF AskAI, NextMessage, IsFirstMessage, AddAssistantMessage, OwnTypeOK
    <2>4. lastResponse[u].turn \in Nat
        BY <1>5 DEF OwnTypeOK, Answers
    <2>5. Turns(u)'
        BY <1>1, <1>2, <1>5, <2>2, <2>3, AssistantAppended DEF Conversation, Turns
    <2>6. History(u)'
        BY <1>1, <1>2, <1>5, <2>2, <2>3, <2>4, AssistantAppended DEF Conversation, History
    <2>7. ASSUME NEW n \in heard[u]
          PROVE  /\ n \in 1..turnCount[u]
                 /\ Remembered(messages'[u], n)
                 /\ Recorded(messages'[u], n)
        <3>1. n \in 1..turnCount[u] /\ n \in Nat
            BY <1>2 DEF Conversation, Hearing
        <3>2. Remembered(messages[u], n) /\ (Recorded(messages[u], n) \/ m.turn = n)
            BY <2>2 DEF Conversation, Hearing
        <3> QED
            BY <1>2, <2>2, <2>3, <3>1, <3>2, AssistantAppended
    <2>8. Hearing(u)'
        BY <1>1, <2>7 DEF Hearing
    <2>9. Repeats(u)'
        <3>1. m.turn <= turnCount[u] /\ BlankSince(messages[u], m.turn)
            BY <1>1, <1>5, <2>2 DEF Conversation, Repeats
        <3>2. RepeatsAfterBlanks(messages'[u]) /\ NoAnswerAfter(messages'[u], turnCount[u])
            BY <1>2, <2>2, <2>3, <3>1, AnswerRepeats DEF Conversation, Repeats
        <3> QED
            BY <1>1, <3>2 DEF Conversation, Repeats
    <2> QED
        BY <2>5, <2>6, <2>8, <2>9 DEF Conversation
<1> QED
    BY <1>3, <1>4, <1>5

\* So does the message the LLM gives, blank or not.
LEMMA ConversationGenerated ==
    ASSUME NEW u \in Users, NEW isBlank \in BOOLEAN, OwnTypeOK, Conversation(u),
           Generated(u, isBlank)
    PROVE  Conversation(u)'
<1>1. turnCount[u] \in Nat /\ messages[u] \in Seq(Message)
    BY DEF OwnTypeOK
<1>2. PICK m \in Message : m = UserMessage(turnCount[u] + 1, isBlank)
    <2>1. turnCount[u] + 1 \in Nat
        BY <1>1
    <2> QED
        BY <2>1, UserMessageMade
<1>3. m.role = "user" /\ m.turn = turnCount[u] + 1 /\ m.blank = isBlank
    BY <1>1, <1>2, UserMessageMade
<1>4. /\ messages'[u] = Append(messages[u], m)
      /\ turnCount'[u] = turnCount[u] + 1
      /\ topic' = topic
    BY <1>2 DEF Generated, AddUserMessage, OwnTypeOK
<1>5. pc[u] = "generating" /\ kind' = kind /\ heard' = heard
    BY DEF Generated, configVars
<1>6. turnCount'[u] > 0 /\ turnCount'[u] # 0 /\ turnCount[u] < turnCount'[u]
    BY <1>1, <1>4
<1>7. Turns(u)'
    <2>1. topic'[u] \in Topics
        BY <1>4, <1>5 DEF Conversation, Turns
    <2>2. EndsWithTurn(messages'[u], turnCount'[u])
        BY <1>1, <1>3, <1>4, UserAppended
    <2>3. NoTurnAfter(messages'[u], turnCount'[u])
        BY <1>1, <1>3, <1>4, <1>6, UserAppended DEF Conversation, Turns
    <2> QED
        BY <1>6, <2>1, <2>2, <2>3 DEF Turns
<1>8. History(u)'
    <2>1. InPlace(messages'[u]) /\ FromBusiness(messages'[u])
        BY <1>1, <1>3, <1>4, UserAppended DEF Conversation, History
    <2>2. CASE isBlank
        <3>1. lastResponse' = lastResponse
            BY <2>2 DEF Generated
        <3>2. lastResponse[u] # None => lastResponse[u].turn \in Nat
            BY DEF OwnTypeOK, Answers
        <3>3. lastResponse[u] # None => OpenSince(messages'[u], lastResponse[u].turn)
            BY <1>1, <1>3, <1>4, <1>5, <2>2, <3>2, UserAppended DEF Conversation, History
        <3> QED
            BY <2>1, <3>1, <3>3 DEF Conversation, History
    <2>3. CASE ~isBlank /\ syncOn
        <3>1. lastResponse' = lastResponse /\ pc'[u] = "syncing"
            BY <2>3 DEF Generated, MoveTo, OwnTypeOK
        <3> QED
            BY <2>1, <3>1 DEF Conversation, History
    <2>4. CASE ~isBlank /\ ~syncOn
        <3>1. lastResponse'[u] = None
            BY <2>4 DEF Generated, PostQuestion, OwnTypeOK
        <3> QED
            BY <2>1, <3>1 DEF History
    <2> QED
        BY <2>2, <2>3, <2>4
<1>9. Hearing(u)'
    <2>1. ASSUME NEW n \in heard[u]
          PROVE  /\ n \in 1..turnCount'[u]
                 /\ Remembered(messages'[u], n)
                 /\ Recorded(messages'[u], n)
        <3>1. n \in 1..turnCount[u] /\ n \in Nat
            BY <1>1 DEF Conversation, Hearing
        <3>2. Remembered(messages[u], n) /\ Recorded(messages[u], n)
            BY <1>5 DEF Conversation, Hearing
        <3>3. n \in 1..turnCount'[u]
            BY <1>1, <1>4, <3>1
        <3> QED
            BY <1>1, <1>3, <1>4, <3>1, <3>2, <3>3, UserAppended
    <2> QED
        BY <1>5, <2>1 DEF Conversation, Hearing
<1>10. Repeats(u)'
    <2>1. \A i \in DOMAIN messages[u] : messages[u][i].turn \in Nat
        <3>1. \A i \in DOMAIN messages[u] : messages[u][i] \in Message
            BY <1>1
        <3> QED
            BY <3>1 DEF Message
    <2>2. /\ NoAnswerAfter(messages[u], turnCount'[u])
          /\ ~Recorded(messages[u], turnCount'[u])
        BY <1>1, <1>4, <2>1 DEF Conversation, Repeats, NoAnswerAfter, Recorded
    <2>3. turnCount'[u] \in Nat
        BY <1>1, <1>4
    <2>4. /\ RepeatsAfterBlanks(messages'[u])
          /\ NoAnswerAfter(messages'[u], turnCount'[u])
          /\ ~Recorded(messages'[u], turnCount'[u])
        BY <1>1, <1>3, <1>4, <2>2, <2>3, MessageRepeats DEF Conversation, Repeats
    <2>5. CASE isBlank
        <3>1. lastResponse' = lastResponse /\ pc'[u] = "idle"
            BY <2>5 DEF Generated, MoveTo, OwnTypeOK
        <3>2. lastResponse[u] # None =>
                  lastResponse[u].turn \in Nat /\ lastResponse[u].turn <= turnCount[u]
            BY DEF OwnTypeOK, Answers, Conversation, Repeats
        <3>3. lastResponse[u] # None => BlankSince(messages'[u], lastResponse[u].turn)
            BY <1>1, <1>3, <1>4, <2>5, <3>2, MessageRepeats
        <3> QED
            BY <1>1, <1>4, <2>4, <3>1, <3>2, <3>3 DEF Repeats
    <2>6. CASE ~isBlank /\ syncOn
        <3>1. lastResponse' = lastResponse /\ pc'[u] = "syncing"
            BY <2>6 DEF Generated, MoveTo, OwnTypeOK
        <3>2. lastResponse[u] # None =>
                  lastResponse[u].turn \in Nat /\ lastResponse[u].turn <= turnCount[u]
            BY DEF OwnTypeOK, Answers, Conversation, Repeats
        <3> QED
            BY <1>1, <1>4, <2>4, <3>1, <3>2 DEF Repeats
    <2>7. CASE ~isBlank /\ ~syncOn
        <3>1. lastResponse'[u] = None
            BY <2>7 DEF Generated, PostQuestion, OwnTypeOK
        <3> QED
            BY <2>4, <3>1 DEF Repeats
    <2> QED
        BY <2>5, <2>6, <2>7
<1> QED
    BY <1>7, <1>8, <1>9, <1>10 DEF Conversation

\* The sync does not touch the conversation.
LEMMA ConversationSync ==
    ASSUME NEW u \in Users, OwnTypeOK, Conversation(u), Sync(u)
    PROVE  Conversation(u)'
<1>1. /\ pc[u] = "syncing" /\ UNCHANGED <<topic, turnCount, messages, heard, kind>>
    BY DEF Sync, contextVars, configVars
<1>2. CASE UNCHANGED <<pc, lastResponse>>
    BY <1>1, <1>2, SameConversation DEF Same
<1>3. CASE PostQuestion(u)
    <2>1. pc'[u] = "posting" /\ lastResponse'[u] = None
        BY <1>3 DEF PostQuestion, MoveTo, OwnTypeOK
    <2>2. Turns(u)'
        BY <1>1, <2>1 DEF Conversation, Turns
    <2>3. History(u)'
        BY <1>1, <2>1 DEF Conversation, History
    <2>4. Hearing(u)'
        BY <1>1, <2>1 DEF Conversation, Hearing
    <2>5. Repeats(u)'
        BY <1>1, <2>1 DEF Conversation, Repeats
    <2> QED
        BY <2>2, <2>3, <2>4, <2>5 DEF Conversation
<1> QED
    BY <1>2, <1>3 DEF Sync

\* A user waits under the id the SUT gave to the message of this turn.
WaitsUnderId ==
    \A u \in Users : pc[u] = "waiting" => id[u] \in RawIds /\ id[u].turn = turnCount[u]

\* What wakes a user answers the message of this turn, not an earlier one.
LEMMA ResolvesOwnTurn ==
    ASSUME NEW u \in Users, NEW p \in Payloads(RawIds), WaitsUnderId,
           pc[u] = "waiting", Resolves(u, p)
    PROVE  p.id.turn = turnCount[u]
<1>1. id[u] \in RawIds /\ id[u].turn = turnCount[u]
    BY DEF WaitsUnderId
<1>2. p.id = Str(id[u])
    BY DEF Resolves, RequestId, ParseCorrelationId
<1> QED
    BY <1>1, <1>2 DEF Str, RawIds

\* Each step keeps WaitsUnderId: only the response to the POST makes a user wait.
LEMMA WaitsUnderIdStep ==
    ASSUME OwnTypeOK, WaitsUnderId, [Next]_vars
    PROVE  WaitsUnderId'
<1>1. CASE UNCHANGED vars \/ LoadDataset
    BY <1>1 DEF vars, LoadDataset, contextVars, userVars, WaitsUnderId
<1>2. ASSUME NEW u \in Users, NEW where \in PCs \ {"waiting"}, MoveTo(u, where),
             \A v \in Users : v # u => id'[v] = id[v] /\ turnCount'[v] = turnCount[v]
      PROVE  WaitsUnderId'
    BY <1>2 DEF MoveTo, WaitsUnderId, OwnTypeOK
<1>3. ASSUME NEW u \in Users, NEW rawId \in OwnIds(u), PostAccepted(u, rawId)
      PROVE  WaitsUnderId'
    <2>1. rawId \in RawIds /\ rawId.turn = turnCount[u]
        BY <1>3, IdsTyped DEF OwnIds
    <2>2. turnCount' = turnCount
        BY <1>3 DEF PostAccepted, contextVars
    <2> QED
        BY <1>3, <2>1, <2>2 DEF PostAccepted, MoveTo, WaitsUnderId, OwnTypeOK
<1>4. ASSUME NEW u \in Users,
             Start(u) \/ AskAI(u) \/ AskLangSmith(u) \/ PostFails(u) \/ Kill(u)
      PROVE  WaitsUnderId'
    <2>1. PICK where \in PCs \ {"waiting"} : MoveTo(u, where)
        BY <1>4 DEF Start, AskAI, AskLangSmith, PostFails, Kill, PCs
    <2>2. \A v \in Users : v # u => id'[v] = id[v] /\ turnCount'[v] = turnCount[v]
        BY <1>4 DEF Start, AskAI, NextMessage, AskLangSmith, PostFails, Kill, CreateContext,
                    OwnTypeOK, contextVars
    <2> QED
        BY <1>2, <2>1, <2>2
<1>5. ASSUME NEW u \in Users, Leave(u) PROVE WaitsUnderId'
    <2>1. /\ MoveTo(u, "idle")
          /\ \A v \in Users : v # u => id'[v] = id[v] /\ turnCount'[v] = turnCount[v]
        BY <1>5 DEF Leave, OwnTypeOK, contextVars
    <2> QED
        BY <1>2, <2>1 DEF PCs
<1>6. ASSUME NEW u \in Users, NEW isBlank \in BOOLEAN, Generated(u, isBlank)
      PROVE  WaitsUnderId'
    <2>1. id' = id /\ \E where \in PCs \ {"waiting"} : MoveTo(u, where)
        BY <1>6 DEF Generated, PostQuestion, PCs
    <2>2. \A v \in Users : v # u => turnCount'[v] = turnCount[v]
        BY <1>6 DEF Generated, AddUserMessage, OwnTypeOK
    <2> QED
        BY <1>2, <2>1, <2>2
<1>7. ASSUME NEW u \in Users, Sync(u) PROVE WaitsUnderId'
    <2>1. CASE UNCHANGED <<pc, id, turnCount>>
        BY <2>1 DEF WaitsUnderId
    <2>2. CASE MoveTo(u, "posting") /\ UNCHANGED <<id, turnCount>>
        BY <1>2, <2>2 DEF PCs
    <2> QED
        BY <1>7, <2>1, <2>2 DEF Sync, PostQuestion, contextVars
<1> QED
    BY <1>1, <1>3, <1>4, <1>5, <1>6, <1>7, NextCases DEF UserStep, Callback, NoCallback

\* An answer heard is for the message that was open.
LEMMA ConversationCallback ==
    ASSUME NEW u \in Users, NEW p \in Payloads(RawIds), OwnTypeOK, Conversation(u),
           WaitsUnderId, Callback(u, p)
    PROVE  Conversation(u)'
<1>1. /\ pc[u] = "waiting" /\ MoveTo(u, "idle") /\ pc'[u] = "idle"
      /\ UNCHANGED <<topic, turnCount, messages, kind>>
    BY DEF Callback, Leave, MoveTo, OwnTypeOK, contextVars, configVars
<1>2. CASE UNCHANGED <<lastResponse, heard>>
    BY <1>1, <1>2, MovesOn DEF contextVars
<1>3. CASE /\ kind = "ai"
           /\ KeepResponse(u, p)
           /\ heard' = [heard EXCEPT ![u] = @ \union {p.id.turn}]
    <2>1. p.author = "business" /\ p.id.turn = turnCount[u]
        <3>1. p.author = "business"
            BY DEF Callback, Resolves, Accepted, Payloads
        <3> QED
            BY <1>1, <3>1, ResolvesOwnTurn DEF Callback
    <2>2. lastResponse'[u] = [turn |-> turnCount[u], author |-> "business"]
        BY <1>3, <2>1 DEF KeepResponse, OwnTypeOK
    <2>3. turnCount[u] \in Nat /\ turnCount[u] > 0
        BY <1>1, <1>3 DEF OwnTypeOK, Conversation, Turns
    <2>4. EndsWithTurn(messages[u], turnCount[u]) /\ NoTurnAfter(messages[u], turnCount[u])
        BY <2>3 DEF Conversation, Turns
    <2>5. lastResponse'[u] # None
        BY <2>2, <2>3, DialogueAssumption DEF Answers, Authors
    <2>6. Turns(u)'
        BY <1>1, <2>3, <2>4 DEF Conversation, Turns
    <2>7. OpenSince(messages[u], turnCount[u])
        BY <2>4 DEF EndsWithTurn, OpenSince
    <2>8. History(u)'
        BY <1>1, <2>2, <2>7 DEF Conversation, History
    <2>9. Remembered(messages[u], turnCount[u])
        <3>1. messages[u] \in Seq(Message)
            BY DEF OwnTypeOK
        <3>2. \A i \in DOMAIN messages[u] : messages[u][i] \in Message
            BY <3>1
        <3>3. \A i \in DOMAIN messages[u] : messages[u][i].turn \in Nat
            BY <3>2 DEF Message
        <3> QED
            BY <2>3, <2>4, <3>3 DEF NoTurnAfter, Remembered
    <2>10. ASSUME NEW n \in heard[u]
           PROVE  /\ n \in 1..turnCount[u]
                  /\ Remembered(messages[u], n)
                  /\ Recorded(messages[u], n)
        BY <1>1 DEF Conversation, Hearing
    <2>11. heard'[u] = heard[u] \union {turnCount[u]}
        BY <1>3, <2>1 DEF OwnTypeOK
    <2>12. turnCount[u] \in 1..turnCount[u]
        BY <2>3
    <2>13. Hearing(u)'
        BY <1>1, <1>3, <2>2, <2>5, <2>9, <2>10, <2>11, <2>12 DEF Hearing
    <2>14. Repeats(u)'
        <3>1. ~Recorded(messages[u], turnCount[u])
            BY <1>1, <1>3 DEF Conversation, Repeats
        <3>2. BlankSince(messages[u], turnCount[u])
            BY <3>1 DEF Recorded, BlankSince
        <3> QED
            BY <1>1, <2>2, <2>3, <3>2 DEF Conversation, Repeats
    <2> QED
        BY <2>6, <2>8, <2>13, <2>14 DEF Conversation
<1> QED
    BY <1>2, <1>3 DEF Callback

\* A user that is replaced begins again with nothing.
LEMMA ConversationKill ==
    ASSUME NEW u \in Users, OwnTypeOK, Conversation(u), Kill(u)
    PROVE  Conversation(u)'
<1>1. /\ pc'[u] = "off" /\ turnCount'[u] = 0 /\ messages'[u] = <<>>
      /\ lastResponse'[u] = None /\ heard'[u] = {}
    BY DEF Kill, CreateContext, MoveTo, OwnTypeOK
<1>2. Turns(u)'
    BY <1>1, EmptyConversation DEF Turns
<1>3. History(u)'
    BY <1>1, EmptyConversation DEF History
<1>4. Hearing(u)'
    BY <1>1 DEF Hearing
<1>5. Repeats(u)'
    BY <1>1, EmptyConversation DEF Repeats
<1> QED
    BY <1>2, <1>3, <1>4, <1>5 DEF Conversation

-----------------------------------------------------------------------------
(* The parts: what a step of Dialogue is to each of them.                  *)

\* A step of Dialogue is one of the topic manager, or leaves it alone.
LEMMA TopicMoves ==
    ASSUME [Next]_vars
    PROVE  [\E t \in Topics : SelectTopic(t)]_topicVars
<1>1. CASE UNCHANGED vars
    BY <1>1 DEF vars
<1>2. CASE LoadDataset
    BY <1>2 DEF LoadDataset
<1>3. ASSUME NEW u \in Users, UserStep(u)
      PROVE  (\E t \in Topics : SelectTopic(t)) \/ UNCHANGED topicVars
    BY <1>3 DEF UserStep, Start, AskAI, NextMessage, AskLangSmith, Sync, Generated, PostFails,
                PostAccepted, Callback, NoCallback, Leave, Kill
<1> QED
    BY <1>1, <1>2, <1>3, NextCases

\* A step of Dialogue is one of the example provider, or leaves it alone.
LEMMA ProviderMoves ==
    ASSUME [Next]_vars
    PROVE  [Load \/ NextExample]_providerVars
<1>1. CASE UNCHANGED vars
    BY <1>1 DEF vars
<1>2. CASE LoadDataset
    BY <1>2 DEF LoadDataset
<1>3. ASSUME NEW u \in Users, UserStep(u)
      PROVE  NextExample \/ UNCHANGED providerVars
    BY <1>3 DEF UserStep, Start, AskAI, AskLangSmith, Sync, Generated, PostFails,
                PostAccepted, Callback, NoCallback, Leave, Kill
<1> QED
    BY <1>1, <1>2, <1>3, NextCases

\* A step of Dialogue is one of the writer, or leaves it alone.
LEMMA WriterMoves ==
    ASSUME OwnTypeOK, \A u \in Users : Conversation(u), [Next]_vars
    PROVE  [WriterNext]_writerVars
<1>1. CASE UNCHANGED vars
    BY <1>1 DEF vars
<1>2. CASE LoadDataset
    BY <1>2 DEF LoadDataset
<1>3. ASSUME NEW u \in Users, NEW isBlank \in BOOLEAN, Generated(u, isBlank)
      PROVE  WriterNext \/ UNCHANGED writerVars
    <2>1. topic[u] \in Topics
        BY <1>3 DEF Generated, Conversation, Turns
    <2>2. FullDatasetName(topic[u]) \in Names
        BY <2>1, DialogueAssumption
    <2>3. AddExample(u, FullDatasetName(topic[u])) \/ UNCHANGED writerVars
        BY <1>3 DEF Generated
    <2> QED
        BY <2>2, <2>3 DEF WriterNext
<1>4. ASSUME NEW u \in Users, Sync(u) PROVE WriterNext
    BY <1>4 DEF Sync, WriterNext
<1>5. ASSUME NEW u \in Users, Kill(u) PROVE WriterNext \/ UNCHANGED writerVars
    BY <1>5 DEF Kill, WriterNext
<1>6. ASSUME NEW u \in Users, UserStep(u) PROVE WriterNext \/ UNCHANGED writerVars
    BY <1>3, <1>4, <1>5, <1>6
       DEF UserStep, Start, AskAI, AskLangSmith, PostFails, PostAccepted, Callback,
           NoCallback, Leave
<1> QED
    BY <1>1, <1>2, <1>6, NextCases

-----------------------------------------------------------------------------
(* The invariant.                                                          *)

SyncingCalls == \A u \in Users : (call[u] # "none") <=> pc[u] = "syncing"

DialogueInv ==
    OwnTypeOK /\ WriterInv /\ SyncingCalls /\ WaitsUnderId /\ (\A u \in Users : Conversation(u))

\* The initial states satisfy DialogueInv.
LEMMA DialogueInvInit == Init => DialogueInv
<1> SUFFICES ASSUME Init PROVE DialogueInv
    OBVIOUS
<1>1. OwnTypeOK /\ WriterInv
    BY OwnTypeInit, WriterInvInit DEF Init
<1>2. SyncingCalls /\ WaitsUnderId
    BY DEF Init, WriterInit, SyncingCalls, WaitsUnderId
<1>3. ASSUME NEW u \in Users PROVE Conversation(u)
    <2>1. /\ pc[u] = "off" /\ turnCount[u] = 0 /\ messages[u] = <<>>
          /\ lastResponse[u] = None /\ heard[u] = {}
        BY DEF Init, ContextInit
    <2>2. Turns(u)
        BY <2>1, EmptyConversation DEF Turns
    <2>3. History(u)
        BY <2>1, EmptyConversation DEF History
    <2>4. Hearing(u)
        BY <2>1 DEF Hearing
    <2>5. Repeats(u)
        BY <2>1, EmptyConversation DEF Repeats
    <2> QED
        BY <2>2, <2>3, <2>4, <2>5 DEF Conversation
<1> QED
    BY <1>1, <1>2, <1>3 DEF DialogueInv

\* A step of one user leaves the conversations of the others alone.
LEMMA OthersKeep ==
    ASSUME NEW u \in Users, NEW v \in Users, v # u, OwnTypeOK, UserStep(u)
    PROVE  Same(v)
<1>1. CASE AskAI(u)
    <2>1. topic'[v] = topic[v] /\ messages'[v] = messages[v] /\ turnCount' = turnCount
        BY <1>1 DEF AskAI, NextMessage, SetTopic, AddAssistantMessage, OwnTypeOK
    <2> QED
        BY <1>1, <2>1 DEF AskAI, MoveTo, Same, OwnTypeOK, configVars
<1>2. ASSUME NEW isBlank \in BOOLEAN, Generated(u, isBlank) PROVE Same(v)
    <2>1. topic' = topic /\ messages'[v] = messages[v] /\ turnCount'[v] = turnCount[v]
        BY <1>2 DEF Generated, AddUserMessage, OwnTypeOK
    <2>2. pc'[v] = pc[v] /\ lastResponse'[v] = lastResponse[v]
        BY <1>2 DEF Generated, PostQuestion, MoveTo, OwnTypeOK
    <2> QED
        BY <1>2, <2>1, <2>2 DEF Generated, Same, configVars
<1>3. CASE Sync(u)
    BY <1>3 DEF Sync, PostQuestion, MoveTo, Same, OwnTypeOK, contextVars, configVars
<1>4. ASSUME NEW p \in Payloads(RawIds), Callback(u, p) PROVE Same(v)
    <2>1. lastResponse'[v] = lastResponse[v] /\ heard'[v] = heard[v]
        BY <1>4 DEF Callback, KeepResponse, OwnTypeOK
    <2> QED
        BY <1>4, <2>1 DEF Callback, Leave, MoveTo, Same, OwnTypeOK, contextVars, configVars
<1>5. CASE Kill(u)
    BY <1>5 DEF Kill, CreateContext, MoveTo, Same, OwnTypeOK, configVars
<1>6. CASE Start(u) \/ AskLangSmith(u) \/ PostFails(u) \/ NoCallback(u)
    BY <1>6 DEF Start, AskLangSmith, PostFails, NoCallback, Leave, MoveTo, Same, OwnTypeOK,
                contextVars, configVars
<1>7. ASSUME NEW rawId \in RawIds, PostAccepted(u, rawId) PROVE Same(v)
    BY <1>7 DEF PostAccepted, MoveTo, Same, OwnTypeOK, contextVars, configVars
<1> QED
    BY <1>1, <1>2, <1>3, <1>4, <1>5, <1>6, <1>7, IdsTyped DEF UserStep

\* A user's step keeps its own conversation.
LEMMA OwnConversation ==
    ASSUME NEW u \in Users, OwnTypeOK, Conversation(u), WaitsUnderId, UserStep(u)
    PROVE  Conversation(u)'
<1>1. CASE Start(u)
    <2>1. MoveTo(u, "idle") /\ pc[u] = "off"
          /\ UNCHANGED <<contextVars, lastResponse, heard, kind>>
        BY <1>1 DEF Start, configVars
    <2> QED
        BY <2>1, MovesOn
<1>2. CASE AskLangSmith(u)
    <2>1. MoveTo(u, "posting") /\ pc[u] = "idle" /\ kind # "ai"
          /\ UNCHANGED <<contextVars, lastResponse, heard, kind>>
        BY <1>2 DEF AskLangSmith, MayAsk, configVars
    <2> QED
        BY <2>1, MovesOn
<1>3. CASE PostFails(u)
    <2>1. MoveTo(u, "idle") /\ pc[u] = "posting"
          /\ UNCHANGED <<contextVars, lastResponse, heard, kind>>
        BY <1>3 DEF PostFails, configVars
    <2> QED
        BY <2>1, MovesOn
<1>4. ASSUME NEW rawId \in RawIds, PostAccepted(u, rawId) PROVE Conversation(u)'
    <2>1. MoveTo(u, "waiting") /\ pc[u] = "posting"
          /\ UNCHANGED <<contextVars, lastResponse, heard, kind>>
        BY <1>4 DEF PostAccepted, configVars
    <2> QED
        BY <2>1, MovesOn
<1>5. CASE NoCallback(u)
    <2>1. MoveTo(u, "idle") /\ pc[u] = "waiting"
          /\ UNCHANGED <<contextVars, lastResponse, heard, kind>>
        BY <1>5 DEF NoCallback, Leave, configVars
    <2> QED
        BY <2>1, MovesOn
<1> QED
    BY <1>1, <1>2, <1>3, <1>4, <1>5, ConversationAskAI, ConversationGenerated,
       ConversationSync, ConversationCallback, ConversationKill, IdsTyped DEF UserStep

\* A call to LangSmith is one user's.
LEMMA SyncStepMoves ==
    ASSUME NEW u \in Users, WriterTypeOK, SyncStep(u)
    PROVE  \A v \in Users : v # u => call'[v] = call[v]
BY DEF SyncStep, EnsureDataset, ListDatasets, CreateDataset, CreateExample, SyncFails,
       CutOff, Goto, WriterTypeOK

\* Who is in a call to LangSmith is syncing, and the other way round.
LEMMA SyncingCallsStep ==
    ASSUME NEW u \in Users, OwnTypeOK, WriterTypeOK, SyncingCalls, UserStep(u)
    PROVE  SyncingCalls'
<1>1. ASSUME NEW where \in PCs \ {"syncing"}, MoveTo(u, where), pc[u] # "syncing",
             UNCHANGED writerVars
      PROVE  SyncingCalls'
    BY <1>1 DEF MoveTo, SyncingCalls, OwnTypeOK, writerVars
<1>2. CASE Start(u)
    BY <1>1, <1>2 DEF Start, PCs
<1>3. CASE AskAI(u)
    BY <1>1, <1>3 DEF AskAI, MayAsk, PCs
<1>4. CASE AskLangSmith(u)
    BY <1>1, <1>4 DEF AskLangSmith, MayAsk, PCs
<1>5. CASE PostFails(u)
    BY <1>1, <1>5 DEF PostFails, PCs
<1>6. ASSUME NEW rawId \in RawIds, PostAccepted(u, rawId) PROVE SyncingCalls'
    BY <1>1, <1>6 DEF PostAccepted, PCs
<1>7. ASSUME NEW p \in Payloads(RawIds), Callback(u, p) PROVE SyncingCalls'
    BY <1>1, <1>7 DEF Callback, Leave, PCs
<1>8. CASE NoCallback(u)
    BY <1>1, <1>8 DEF NoCallback, Leave, PCs
<1>9. ASSUME NEW isBlank \in BOOLEAN, Generated(u, isBlank) PROVE SyncingCalls'
    <2>1. CASE isBlank \/ ~syncOn
        <3>1. PICK where \in {"idle", "posting"} : MoveTo(u, where)
            BY <1>9, <2>1 DEF Generated, PostQuestion
        <3> QED
            BY <1>1, <1>9, <2>1, <3>1 DEF Generated, PCs
    <2>2. CASE ~isBlank /\ syncOn
        BY <1>9, <2>2 DEF Generated, AddExample, MoveTo, SyncingCalls, OwnTypeOK, WriterTypeOK
    <2> QED
        BY <2>1, <2>2
<1>10. CASE Sync(u)
    <2>1. pc[u] = "syncing" /\ \A v \in Users : v # u => call'[v] = call[v]
        BY <1>10, SyncStepMoves DEF Sync
    <2>2. CASE call'[u] = "none"
        BY <1>10, <2>1, <2>2 DEF Sync, PostQuestion, MoveTo, SyncingCalls, OwnTypeOK
    <2>3. CASE call'[u] # "none"
        BY <1>10, <2>1, <2>3 DEF Sync, SyncingCalls
    <2> QED
        BY <2>2, <2>3
<1>11. CASE Kill(u)
    <2>1. call'[u] = "none" /\ \A v \in Users : v # u => call'[v] = call[v]
        BY <1>11 DEF Kill, CutOff, Goto, WriterTypeOK, writerVars
    <2> QED
        BY <1>11, <2>1 DEF Kill, MoveTo, SyncingCalls, OwnTypeOK
<1> QED
    BY <1>2, <1>3, <1>4, <1>5, <1>6, <1>7, <1>8, <1>9, <1>10, <1>11, IdsTyped DEF UserStep

\* Each step keeps DialogueInv.
LEMMA DialogueInvStep == DialogueInv /\ [Next]_vars => DialogueInv'
<1> SUFFICES ASSUME DialogueInv, [Next]_vars PROVE DialogueInv'
    OBVIOUS
<1>1. WriterInv' /\ WaitsUnderId'
    BY WriterMoves, WriterInvStep, WaitsUnderIdStep DEF DialogueInv
<1>2. CASE UNCHANGED vars
    <2>1. OwnTypeOK'
        BY <1>2 DEF DialogueInv, OwnTypeOK, vars, contextVars, configVars, userVars
    <2>2. SyncingCalls'
        BY <1>2 DEF DialogueInv, SyncingCalls, vars, writerVars, userVars
    <2>3. \A v \in Users : Same(v)
        BY <1>2 DEF Same, vars, contextVars, configVars, userVars
    <2> QED
        BY <1>1, <2>1, <2>2, <2>3, SameConversation DEF DialogueInv
<1>3. CASE LoadDataset
    <2>1. OwnTypeOK'
        BY <1>3 DEF DialogueInv, LoadDataset, OwnTypeOK, contextVars, configVars, userVars
    <2>2. SyncingCalls'
        BY <1>3 DEF DialogueInv, LoadDataset, SyncingCalls, writerVars, userVars
    <2>3. \A v \in Users : Same(v)
        BY <1>3 DEF LoadDataset, Same, contextVars, configVars, userVars
    <2> QED
        BY <1>1, <2>1, <2>2, <2>3, SameConversation DEF DialogueInv
<1>4. ASSUME NEW u \in Users, UserStep(u) PROVE DialogueInv'
    <2>1. OwnTypeOK'
        BY <1>4, OwnTypeUserStep DEF DialogueInv
    <2>2. SyncingCalls'
        BY <1>4, SyncingCallsStep DEF DialogueInv, WriterInv
    <2>3. ASSUME NEW v \in Users PROVE Conversation(v)'
        <3>1. CASE v = u
            BY <1>4, <3>1, OwnConversation DEF DialogueInv
        <3>2. CASE v # u
            BY <1>4, <3>2, OthersKeep, SameConversation DEF DialogueInv
        <3> QED
            BY <3>1, <3>2
    <2> QED
        BY <1>1, <2>1, <2>2, <2>3 DEF DialogueInv
<1> QED
    BY <1>2, <1>3, <1>4, NextCases

\* Every reachable state satisfies DialogueInv.
LEMMA Invariance == SafeSpec => []DialogueInv
    BY DialogueInvInit, DialogueInvStep, PTL DEF SafeSpec

-----------------------------------------------------------------------------
(* Theorems: the parts keep their promises in the composition.             *)

\* To the topic manager, a test is a behaviour of its own specification.
LEMMA TopicPart == SafeSpec => TopicSpec
<1>1. Init => TopicInit
    BY DEF Init
<1>2. [Next]_vars => [\E t \in Topics : SelectTopic(t)]_topicVars
    BY TopicMoves
<1> QED
    BY <1>1, <1>2, PTL DEF SafeSpec, TopicSpec

\* To the provider likewise.
LEMMA ProviderPart == SafeSpec => ProviderSpec
<1>1. Init => ProviderInit
    BY DEF Init
<1>2. [Next]_vars => [Load \/ NextExample]_providerVars
    BY ProviderMoves
<1> QED
    BY <1>1, <1>2, PTL DEF SafeSpec, ProviderSpec

\* To the writer it is one because only known topics reach it.
LEMMA WriterPart == SafeSpec => WriterSpec
<1>1. Init => WriterInit
    BY DEF Init
<1>2. DialogueInv /\ [Next]_vars => [WriterNext]_writerVars
    BY WriterMoves DEF DialogueInv
<1> QED
    BY <1>1, <1>2, Invariance, PTL DEF SafeSpec, WriterSpec

\* With "round_robin" the topics of a test are shared out evenly over all users.
THEOREM DialogueSharesTopics == SafeSpec => TopicsShared
    BY TopicPart, TopicsAreShared

\* So are the questions of its dataset.
THEOREM DialogueSharesExamples == SafeSpec => ExamplesShared
    BY ProviderPart, ExamplesAreShared

\* However users, failures and stops interleave, a topic has one dataset.
THEOREM DialogueKeepsDatasets == SafeSpec => []OneDatasetPerTopic
    BY WriterPart, NoSecondDataset, PTL

\* Nor is a lock left behind, although users are stopped wherever they are.
THEOREM DialogueFreesTheLock == SafeSpec => []NoAbandonedLock
    BY WriterPart, LockComesFree, PTL

-----------------------------------------------------------------------------
(* Theorems: what the LLM is told is the conversation.                     *)

\* Type correctness.
THEOREM DialogueTyped == SafeSpec => []TypeOK
<1>1. DialogueInv /\ TopicTypeOK /\ ProviderTypeOK => TypeOK
    BY DEF DialogueInv, OwnTypeOK, WriterInv, SyncingCalls, TypeOK
<1> QED
    BY <1>1, Invariance, TopicPart, TopicsTyped, ProviderPart, ProviderTyped, PTL

\* An answer stands after the message it answers.
THEOREM AnswersStayInPlace == SafeSpec => []AnswersInPlace
<1>1. DialogueInv => AnswersInPlace
    <2>1. DialogueInv => \A u \in Users : InPlace(messages[u])
        BY DEF DialogueInv, Conversation, History
    <2> QED
        BY <2>1 DEF InPlace, AnswersInPlace
<1> QED
    BY <1>1, Invariance, PTL

\* An answer is recorded again only after a message that came out blank.
THEOREM RepeatsAreRetries == SafeSpec => []RepeatsFollowBlanks
<1>1. DialogueInv => RepeatsFollowBlanks
    <2>1. DialogueInv => \A u \in Users : RepeatsAfterBlanks(messages[u])
        BY DEF DialogueInv, Conversation, Repeats
    <2> QED
        BY <2>1 DEF RepeatsAfterBlanks, RepeatsFollowBlanks
<1> QED
    BY <1>1, Invariance, PTL

\* A user's own message is never recorded as an answer.
THEOREM EchoesAreFiltered == SafeSpec => []NoEcho
<1>1. DialogueInv => NoEcho
    <2>1. DialogueInv => \A u \in Users : FromBusiness(messages[u])
        BY DEF DialogueInv, Conversation, History
    <2> QED
        BY <2>1 DEF FromBusiness, NoEcho
<1> QED
    BY <1>1, Invariance, PTL

\* Nothing a user has heard is missing when its next message is generated.
THEOREM AnswersAreRemembered == SafeSpec => []NoAnswerForgotten
<1>1. DialogueInv => NoAnswerForgotten
    <2>1. DialogueInv => \A u \in Users : \A n \in heard[u] : Remembered(messages[u], n)
        BY DEF DialogueInv, Conversation, Hearing
    <2> QED
        BY <2>1 DEF Remembered, NoAnswerForgotten
<1> QED
    BY <1>1, Invariance, PTL

\* Only a conversation that has said nothing is given a topic.
LEMMA TopicStays ==
    ASSUME DialogueInv, [Next]_vars
    PROVE  [\A v \in Users : (topic[v] # None /\ messages'[v] # <<>>)
                                => topic'[v] = topic[v]]_contextVars
<1> SUFFICES ASSUME NEW v \in Users, messages'[v] # <<>>,
                    ~UNCHANGED contextVars
             PROVE  topic'[v] = topic[v]
    OBVIOUS
<1>1. OwnTypeOK /\ Conversation(v)
    BY DEF DialogueInv
<1>2. CASE UNCHANGED vars \/ LoadDataset
    BY <1>2 DEF vars, LoadDataset, contextVars
<1>3. ASSUME NEW u \in Users, UserStep(u) PROVE topic'[v] = topic[v]
    <2>1. CASE u # v
        BY <1>1, <1>3, <2>1, OthersKeep DEF Same
    <2>2. CASE u = v
        <3>1. CASE AskAI(v)
            BY <1>1, <3>1 DEF AskAI, NextMessage, IsFirstMessage, Conversation, Turns
        <3>2. CASE Kill(v)
            BY <1>1, <3>2 DEF Kill, CreateContext, OwnTypeOK
        <3>3. ASSUME NEW isBlank \in BOOLEAN, Generated(v, isBlank)
              PROVE  topic'[v] = topic[v]
            BY <3>3 DEF Generated, AddUserMessage
        <3> QED
            BY <1>3, <2>2, <3>1, <3>2, <3>3
               DEF UserStep, Start, AskLangSmith, Sync, PostFails, PostAccepted, Callback,
                   NoCallback, Leave, contextVars
    <2> QED
        BY <2>1, <2>2
<1> QED
    BY <1>2, <1>3, NextCases

\* A conversation keeps the topic it began with.
THEOREM TopicsAreKept == SafeSpec => TopicIsKept
<1> DEFINE Step ==
        \A u \in Users : (topic[u] # None /\ messages'[u] # <<>>) => topic'[u] = topic[u]
<1>1. DialogueInv /\ [Next]_vars => [Step]_contextVars
    BY TopicStays
<1>2. TopicIsKept <=> [][Step]_contextVars
    BY DEF TopicIsKept
<1> HIDE DEF Step
<1> QED
    BY <1>1, <1>2, Invariance, PTL DEF SafeSpec

-----------------------------------------------------------------------------
(* Theorem: answers find their users if ids are strings.                   *)

\* If the ids that the SUT assigns are strings, an answer reaches
\* the user that waits for it, whatever the filter: the type of the id is the only
\* thing that makes AnswerIsFound fail.
THEOREM StringIdsAreFound ==
    ASSUME IdKinds = {"string"}
    PROVE  SafeSpec => []AnswerIsFound
<1>1. DialogueInv => WaitsUnderId
    BY DEF DialogueInv
<1>2. WaitsUnderId => AnswerIsFound
    <2> SUFFICES ASSUME WaitsUnderId, NEW u \in Users, pc[u] = "waiting",
                        NEW p \in Payloads({id[u]}),
                        p.type = "message", p.null = "nothing", p.board = "own",
                        p.content = "text", p.author = "business", p.id = id[u]
                 PROVE  Resolves(u, p)
        BY DEF AnswerIsFound
    <2>1. id[u] \in RawIds /\ id[u] # NoId
        BY DialogueAssumption DEF WaitsUnderId, RawIds
    <2>2. Str(id[u]) = id[u]
        BY <2>1 DEF Str, RawIds
    <2> QED
        BY <2>1, <2>2 DEF Resolves, Accepted, RequestId, ParseCorrelationId
<1> QED
    BY <1>1, <1>2, Invariance, PTL

===============================================================================
