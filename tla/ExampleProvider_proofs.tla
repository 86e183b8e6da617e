------------------------- MODULE ExampleProvider_proofs ------------------------
(***************************************************************************)
(* Questions are handed out evenly, for any finite dataset.                *)
(***************************************************************************)
EXTENDS ExampleProvider, FiniteSetTheorems, TLAPS

\* A finite dataset has finitely many questions, in either mode.
LEMMA QuestionsAreFinite == IsFiniteSet(Questions) /\ Cardinality(Questions) \in Nat
<1>1. Questions \subseteq Places
    BY DEF Questions, QuestionsOf, Places
<1>2. IsFiniteSet(Questions)
    BY <1>1, DatasetAssumption, FS_Subset
<1> QED
    BY <1>2, FS_CardinalityType

\* A provider that is loaded: its examples are in some order, each once, and
\* the index is within.
Loaded(n) ==
    /\ n \in Nat \ {0}
    /\ examples \in Bijection(1..n, Questions)
    /\ index \in 0..(n - 1)
    /\ asked \in [Questions -> Nat]

\* After k rounds those before the index have been handed out once more.
PassesDone(k) ==
    \A i \in DOMAIN examples : asked[examples[i]] = IF i <= index THEN k + 1 ELSE k

ProviderInv ==
    /\ questionMode \in Modes
    /\ \/ /\ examples = <<>>
          /\ index = 0
          /\ DOMAIN asked = {}
       \/ /\ \E n \in Nat \ {0} : Loaded(n)
          /\ \E k \in Nat : PassesDone(k)

\* A provider that is not loaded satisfies ProviderInv.
LEMMA ProviderInvInit == ProviderInit => ProviderInv
    BY DEF ProviderInit, ProviderInv

\* ProviderInv implies type correctness.
LEMMA InvTyped == ProviderInv => ProviderTypeOK
<1> SUFFICES ASSUME ProviderInv PROVE ProviderTypeOK
    OBVIOUS
<1>1. CASE examples = <<>> /\ index = 0 /\ DOMAIN asked = {}
    <2>1. Range(examples) = {}
        BY <1>1 DEF Range
    <2>2. examples \in Seq(Questions)
        BY <1>1
    <2> QED
        BY <1>1, <2>1, <2>2 DEF ProviderInv, ProviderTypeOK
<1>2. ASSUME NEW n \in Nat \ {0}, Loaded(n) PROVE ProviderTypeOK
    <2>1. examples \in [1..n -> Questions]
        BY <1>2 DEF Loaded, Bijection, Injection
    <2>2. examples \in Seq(Questions) /\ Len(examples) = n
        BY <1>2, <2>1 DEF Loaded
    <2>3. Range(examples) = Questions
        BY <1>2, <2>1 DEF Loaded, Bijection, Surjection, Range
    <2> QED
        BY <1>2, <2>2, <2>3 DEF Loaded, ProviderInv, ProviderTypeOK
<1> QED
    BY <1>1, <1>2 DEF ProviderInv

\* load() shuffles the questions and begins a first round.
LEMMA LoadStep == ASSUME ProviderInv, Load PROVE ProviderInv'
<1>1. PICK n \in Nat \ {0} : n = Cardinality(Questions)
    <2>1. Cardinality(Questions) \in Nat
        BY QuestionsAreFinite
    <2>2. Questions # {}
        BY DEF Load
    <2> QED
        BY <2>1, <2>2, QuestionsAreFinite, FS_EmptySet
<1>2. Questions' = Questions
    BY DEF Load, Questions, QuestionsOf
<1>3. examples' \in Bijection(1..n, Questions)
    BY <1>1 DEF Load
<1>4. asked' = [q \in Questions |-> 0] /\ index' = 0
    BY DEF Load
<1>5. Loaded(n)'
    BY <1>1, <1>2, <1>3, <1>4 DEF Loaded
<1>6. PassesDone(0)'
    <2>1. examples' \in [1..n -> Questions]
        BY <1>3 DEF Bijection, Injection
    <2> QED
        BY <1>1, <1>4, <2>1 DEF PassesDone
<1>7. questionMode' \in Modes
    BY DEF Load, ProviderInv
<1>8. \E k \in Nat : PassesDone(k)'
    BY <1>6
<1> QED
    BY <1>5, <1>7, <1>8 DEF ProviderInv

\* next() goes on with the round, or begins another.
LEMMA NextStep == ASSUME ProviderInv, NextExample PROVE ProviderInv'
<1>1. PICK n \in Nat \ {0} : Loaded(n)
    BY DEF NextExample, ProviderInv
<1>2. PICK k \in Nat : PassesDone(k)
    BY DEF NextExample, ProviderInv
<1>3. examples' = examples /\ questionMode' = questionMode /\ Questions' = Questions
    BY DEF NextExample, Questions, QuestionsOf
<1>4. examples \in [1..n -> Questions] /\ Len(examples) = n
    BY <1>1 DEF Loaded, Bijection, Injection
<1>5. index' = (index + 1) % n
    BY <1>4 DEF NextExample, NextIndex
<1>6. asked' = [asked EXCEPT ![examples[index + 1]] = @ + 1]
    BY DEF NextExample
<1>7. index \in 0..(n - 1) /\ index + 1 \in 1..n
    BY <1>1 DEF Loaded
<1>8. \/ index + 1 < n /\ index' = index + 1
      \/ index + 1 = n /\ index' = 0
    BY <1>1, <1>5, <1>7
<1>9. Loaded(n)'
    <2>1. asked' \in [Questions -> Nat]
        BY <1>1, <1>4, <1>6, <1>7 DEF Loaded
    <2>2. index' \in 0..(n - 1)
        BY <1>1, <1>7, <1>8
    <2> QED
        BY <1>1, <1>3, <2>1, <2>2 DEF Loaded
<1>10. ASSUME NEW i \in 1..n
       PROVE  asked'[examples[i]] = IF i <= index + 1 THEN k + 1 ELSE k
    <2>1. asked[examples[i]] = IF i <= index THEN k + 1 ELSE k
        BY <1>2, <1>4 DEF PassesDone
    <2>2. CASE i = index + 1
        <3>1. asked'[examples[i]] = asked[examples[i]] + 1
            BY <1>1, <1>4, <1>6, <2>2 DEF Loaded
        <3> QED
            BY <1>7, <2>1, <2>2, <3>1
    <2>3. CASE i # index + 1
        <3>1. examples[i] # examples[index + 1]
            BY <1>1, <1>4, <1>7, <2>3 DEF Loaded, Bijection, Injection, IsInjective
        <3>2. asked'[examples[i]] = asked[examples[i]]
            BY <1>1, <1>4, <1>6, <3>1 DEF Loaded
        <3> QED
            BY <1>7, <2>1, <2>3, <3>2
    <2> QED
        BY <2>2, <2>3
<1>11. \E m \in Nat : PassesDone(m)'
    <2>1. CASE index + 1 < n /\ index' = index + 1
        <3>1. PassesDone(k)'
            BY <1>3, <1>4, <1>10, <2>1 DEF PassesDone
        <3> QED
            BY <3>1
    <2>2. CASE index + 1 = n /\ index' = 0
        <3>1. PassesDone(k + 1)'
            BY <1>3, <1>4, <1>10, <2>2 DEF PassesDone
        <3> QED
            BY <3>1
    <2> QED
        BY <1>8, <2>1, <2>2
<1> QED
    BY <1>1, <1>3, <1>9, <1>11 DEF ProviderInv

\* Each step keeps ProviderInv.
LEMMA ProviderInvStep ==
    ASSUME ProviderInv, [Load \/ NextExample]_providerVars
    PROVE  ProviderInv'
<1>1. CASE UNCHANGED providerVars
    <2>1. Questions' = Questions
        BY <1>1 DEF providerVars, Questions, QuestionsOf
    <2> QED
        BY <1>1, <2>1 DEF providerVars, ProviderInv, Loaded, PassesDone
<1> QED
    BY <1>1, LoadStep, NextStep

\* Each step hands out a question that is not ahead of any other.
LEMMA AsksInTurn ==
    ASSUME ProviderInv, [Load \/ NextExample]_providerVars
    PROVE  [ExampleShare!Next]_asked
<1>1. CASE Load
    <2>1. DOMAIN asked = {}
        BY <1>1 DEF Load, ProviderInv, Loaded, Bijection, Injection
    <2>2. ExampleShare!Offer
        BY <1>1, <2>1 DEF Load, ExampleShare!Offer
    <2> QED
        BY <2>2 DEF ExampleShare!Next
<1>2. CASE NextExample
    <2>1. PICK n \in Nat \ {0} : Loaded(n)
        BY <1>2 DEF NextExample, ProviderInv
    <2>2. PICK k \in Nat : PassesDone(k)
        BY <1>2 DEF NextExample, ProviderInv
    <2>3. examples \in [1..n -> Questions] /\ index + 1 \in 1..n /\ DOMAIN asked = Questions
        BY <2>1 DEF Loaded, Bijection, Injection
    <2>4. asked[examples[index + 1]] = k
        BY <2>1, <2>2, <2>3 DEF PassesDone, Loaded
    <2>5. ASSUME NEW y \in Questions PROVE asked[examples[index + 1]] <= asked[y]
        <3>1. PICK i \in 1..n : examples[i] = y
            BY <2>1 DEF Loaded, Bijection, Surjection
        <3>2. asked[y] = k \/ asked[y] = k + 1
            BY <2>2, <2>3, <3>1 DEF PassesDone
        <3> QED
            BY <2>4, <3>2
    <2>6. ExampleShare!Serve(examples[index + 1])
        BY <1>2, <2>3, <2>5 DEF NextExample, ExampleShare!Serve
    <2> QED
        BY <2>3, <2>6 DEF ExampleShare!Next
<1>3. CASE UNCHANGED providerVars
    BY <1>3 DEF providerVars
<1> QED
    BY <1>1, <1>2, <1>3

\* Type correctness; the index stays within the examples.
THEOREM ProviderTyped == ProviderSpec => []ProviderTypeOK
<1>1. ProviderInv /\ [Load \/ NextExample]_providerVars => ProviderInv'
    BY ProviderInvStep
<1> QED
    BY <1>1, ProviderInvInit, InvTyped, PTL DEF ProviderSpec

\* No question is asked again before all others of the dataset have been asked
\* as often, for any finite dataset in any order.
THEOREM ExamplesAreShared == ProviderSpec => ExamplesShared
<1>1. ProviderInit => ExampleShare!Init
    BY DEF ProviderInit, ExampleShare!Init
<1>2. ProviderInv /\ [Load \/ NextExample]_providerVars => ProviderInv'
    BY ProviderInvStep
<1>3. ProviderInv /\ [Load \/ NextExample]_providerVars => [ExampleShare!Next]_asked
    BY AsksInTurn
<1> QED
    BY <1>1, <1>2, <1>3, ProviderInvInit, PTL
        DEF ProviderSpec, ExamplesShared, ExampleShare!Spec

===============================================================================
