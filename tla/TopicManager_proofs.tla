-------------------------- MODULE TopicManager_proofs --------------------------
(***************************************************************************)
(* Topics are handed out evenly, for any number of topics.                 *)
(***************************************************************************)
EXTENDS TopicManager, TLAPS

\* The index of round robin, without the modulus.
LEMMA NextTopicIndexWraps ==
    ASSUME NEW i \in Topics
    PROVE  /\ i + 1 < NumTopics => NextTopicIndex(i) = i + 1
           /\ i + 1 = NumTopics => NextTopicIndex(i) = 0
           /\ NextTopicIndex(i) \in Topics
    BY TopicAssumption DEF Topics, NextTopicIndex

\* The initial states are well typed.
LEMMA TopicInitTyped == TopicInit => TopicTypeOK
    BY TopicAssumption DEF TopicInit, TopicTypeOK, Topics

\* select_topic() keeps the types, with either strategy.
LEMMA TopicTypeStep ==
    ASSUME TopicTypeOK, [\E t \in Topics : SelectTopic(t)]_topicVars
    PROVE  TopicTypeOK'
<1>1. CASE UNCHANGED topicVars
    BY <1>1 DEF TopicTypeOK, topicVars
<1>2. ASSUME NEW t \in Topics, SelectTopic(t) PROVE TopicTypeOK'
    <2>1. currentIndex' \in Topics
        BY <1>2, NextTopicIndexWraps DEF TopicTypeOK, SelectTopic
    <2>2. chosen' \in [Topics -> Nat]
        BY <1>2 DEF TopicTypeOK, SelectTopic
    <2> QED
        BY <1>2, <2>1, <2>2 DEF TopicTypeOK, SelectTopic
<1> QED
    BY <1>1, <1>2

\* After n rounds the topics before the index have been chosen once more.
RoundsDone(n) ==
    \A t \in Topics : chosen[t] = IF t < currentIndex THEN n + 1 ELSE n

\* The invariant behind the even share.
InRounds == strategy = "round_robin" => \E n \in Nat : RoundsDone(n)

TopicInv == TopicTypeOK /\ InRounds

\* Round robin begins with no round done.
LEMMA TopicInvInit == TopicInit => TopicInv
<1> SUFFICES ASSUME TopicInit PROVE TopicInv
    OBVIOUS
<1>1. RoundsDone(0)
    BY DEF TopicInit, RoundsDone, Topics
<1> QED
    BY <1>1, TopicInitTyped DEF TopicInv, InRounds

\* select_topic() goes on with the round, or begins another.
LEMMA TopicInvStep ==
    ASSUME TopicInv, [\E t \in Topics : SelectTopic(t)]_topicVars
    PROVE  TopicInv'
<1>1. TopicTypeOK'
    BY TopicTypeStep DEF TopicInv
<1>2. CASE UNCHANGED topicVars
    BY <1>1, <1>2 DEF TopicInv, InRounds, RoundsDone, topicVars
<1>3. ASSUME NEW s \in Topics, SelectTopic(s) PROVE InRounds'
    <2> SUFFICES ASSUME strategy' = "round_robin" PROVE \E n \in Nat : RoundsDone(n)'
        BY DEF InRounds
    <2>1. strategy = "round_robin"
        BY <1>3 DEF SelectTopic
    <2>2. PICK n \in Nat : RoundsDone(n)
        BY <2>1 DEF TopicInv, InRounds
    <2>3. s = currentIndex /\ currentIndex' = NextTopicIndex(s)
        BY <1>3, <2>1 DEF SelectTopic
    <2>4. ASSUME NEW t \in Topics
          PROVE  chosen'[t] = IF t = s THEN chosen[t] + 1 ELSE chosen[t]
        BY <1>3 DEF TopicInv, TopicTypeOK, SelectTopic
    <2>5. ASSUME NEW t \in Topics
          PROVE  chosen'[t] = IF t <= s THEN n + 1 ELSE n
        <3>1. chosen[t] = IF t < s THEN n + 1 ELSE n
            BY <2>2, <2>3 DEF RoundsDone
        <3> QED
            BY <2>4, <3>1 DEF Topics
    <2>6. CASE s + 1 < NumTopics
        <3>1. currentIndex' = s + 1
            BY <2>3, <2>6, NextTopicIndexWraps
        <3> QED
            BY <2>5, <3>1 DEF RoundsDone, Topics
    <2>7. CASE s + 1 = NumTopics
        <3>1. currentIndex' = 0
            BY <2>3, <2>7, NextTopicIndexWraps
        <3>2. RoundsDone(n + 1)'
            BY <2>5, <2>7, <3>1, TopicAssumption DEF RoundsDone, Topics
        <3> QED
            BY <3>2
    <2> QED
        BY <2>6, <2>7, TopicAssumption DEF Topics
<1> QED
    BY <1>1, <1>2, <1>3 DEF TopicInv

\* What EvenShare sees of the topics.
Served == IF strategy = "round_robin" THEN chosen ELSE [t \in Topics |-> 0]

\* Each step hands out a topic that is not ahead of any other.
LEMMA ServesInTurn ==
    ASSUME TopicInv, [\E t \in Topics : SelectTopic(t)]_topicVars
    PROVE  [TopicShare!Next]_Served
<1>1. CASE UNCHANGED topicVars
    BY <1>1 DEF topicVars, Served
<1>2. ASSUME NEW s \in Topics, SelectTopic(s), strategy = "round_robin"
      PROVE  TopicShare!Next
    <2>1. Served = chosen /\ Served' = chosen' /\ DOMAIN chosen = Topics
        BY <1>2 DEF Served, SelectTopic, TopicInv, TopicTypeOK
    <2>2. PICK n \in Nat : RoundsDone(n)
        BY <1>2 DEF TopicInv, InRounds
    <2>3. \A y \in Topics : chosen[s] <= chosen[y]
        BY <1>2, <2>2 DEF RoundsDone, SelectTopic, Topics
    <2>4. chosen' = [chosen EXCEPT ![s] = @ + 1]
        BY <1>2 DEF SelectTopic
    <2>5. TopicShare!Serve(s)
        BY <2>1, <2>3, <2>4 DEF TopicShare!Serve, Served
    <2> QED
        BY <2>1, <2>5 DEF TopicShare!Next, Served
<1>3. ASSUME NEW s \in Topics, SelectTopic(s), strategy # "round_robin"
      PROVE  UNCHANGED Served
    BY <1>3 DEF SelectTopic, Served
<1> QED
    BY <1>1, <1>2, <1>3

\* Type correctness; the index is one of a topic.
THEOREM TopicsTyped == TopicSpec => []TopicTypeOK
<1>1. TopicTypeOK /\ [\E t \in Topics : SelectTopic(t)]_topicVars => TopicTypeOK'
    BY TopicTypeStep
<1> QED
    BY <1>1, TopicInitTyped, PTL DEF TopicSpec

\* With "round_robin", no topic is chosen again before every other has been
\* chosen as often, for any number of topics.
THEOREM TopicsAreShared == TopicSpec => TopicsShared
<1>1. TopicInit => TopicShare!Init
    BY DEF TopicInit, TopicShare!Init
<1>2. TopicInv /\ [\E t \in Topics : SelectTopic(t)]_topicVars => TopicInv'
    BY TopicInvStep
<1>3. TopicInv /\ [\E t \in Topics : SelectTopic(t)]_topicVars => [TopicShare!Next]_Served
    BY ServesInTurn
<1> QED
    BY <1>1, <1>2, <1>3, TopicInvInit, PTL
        DEF TopicSpec, TopicsShared, TopicShare!Spec, Served

===============================================================================
