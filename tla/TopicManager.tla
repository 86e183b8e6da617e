----------------------------- MODULE TopicManager -----------------------------
(***************************************************************************)
(* The choice of a topic for a new conversation. The lock of select_topic  *)
(* makes it one step; without it, the topics are those of the class.       *)
(***************************************************************************)
EXTENDS Naturals

CONSTANT NumTopics

ASSUME TopicAssumption == NumTopics \in Nat \ {0}

VARIABLES strategy,     \* the configured selection strategy
          currentIndex,
          chosen        \* history: how often each topic has been selected

topicVars == <<strategy, currentIndex, chosen>>

Topics == 0..(NumTopics - 1)

TopicInit ==
    /\ strategy \in {"random", "round_robin"}
    /\ currentIndex = 0
    /\ chosen = [t \in Topics |-> 0]

\* Mutant: the index starts again one too late.
NextTopicIndexMutant(i) == IF i = NumTopics THEN 0 ELSE i + 1

\* Mutant: the last topic is never reached.
NextTopicIndexShortMutant(i) == (i + 1) % (NumTopics - 1)

NextTopicIndex(i) == (i + 1) % NumTopics

SelectTopic(t) ==
    /\ t \in Topics
    /\ \/ /\ strategy = "round_robin"
          /\ t = currentIndex
          /\ currentIndex' = NextTopicIndex(currentIndex)
       \/ /\ strategy = "random"
          /\ UNCHANGED currentIndex
    /\ chosen' = [chosen EXCEPT ![t] = @ + 1]
    /\ UNCHANGED strategy

TopicSpec == TopicInit /\ [][\E t \in Topics : SelectTopic(t)]_topicVars

TopicTypeOK ==
    /\ strategy \in {"random", "round_robin"}
    /\ currentIndex \in Topics
    /\ chosen \in [Topics -> Nat]

\* With the strategy "round_robin" a topic is not selected again before every
\* other has been selected as often (EvenShare). "random" promises nothing.
TopicShare == INSTANCE EvenShare WITH
    served <- IF strategy = "round_robin" THEN chosen ELSE [t \in Topics |-> 0]
TopicsShared == TopicShare!Spec

===============================================================================
