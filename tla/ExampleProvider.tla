---------------------------- MODULE ExampleProvider ---------------------------
(***************************************************************************)
(* LangSmithExampleProvider: the questions of a dataset, loaded once before *)
(* the provider is published and then handed to all users in turn. The     *)
(* lock of next() makes that one step.                                     *)
(***************************************************************************)
EXTENDS Naturals, Sequences, FiniteSets, Functions

CONSTANTS
    Dataset,        \* LangSmith's examples, in sequence: [list : BOOLEAN,
                    \* blank : Seq(BOOLEAN)], the questions of each
    Modes           \* the values of question_mode to look at

\* Where a question may stand: <<example, place in its list>>.
Places == UNION {{e} \X DOMAIN Dataset[e].blank : e \in DOMAIN Dataset}

ASSUME DatasetAssumption ==
    /\ Modes \subseteq {"first", "all"}
    /\ IsFiniteSet(Places)
    /\ \A e \in DOMAIN Dataset : Dataset[e].list \/ Len(Dataset[e].blank) = 1

VARIABLES questionMode,
          examples,     \* _examples, a sequence of <<example, question>>
          index,        \* _index
          asked         \* history: how often each question has been handed out

providerVars == <<questionMode, examples, index, asked>>

\* The questions load() takes from an example: of a list either all that are
\* not blank, or the first, blank or not; otherwise the one, if not blank.
QuestionsOf(raw) ==
    LET positions == DOMAIN raw.blank
        worded == {p \in positions : ~raw.blank[p]}
    IN  IF raw.list /\ questionMode = "first" THEN positions \intersect {1} ELSE worded

Questions ==
    UNION {{e} \X QuestionsOf(Dataset[e]) : e \in DOMAIN Dataset}

ProviderInit ==
    /\ questionMode \in Modes
    /\ examples = <<>>
    /\ index = 0
    /\ asked = [q \in {} |-> 0]

\* load(), with a shuffle that has no seed.
Load ==
    /\ examples = <<>>
    /\ Questions # {}
    /\ \E order \in Bijection(1..Cardinality(Questions), Questions) : examples' = order
    /\ index' = 0
    /\ asked' = [q \in Questions |-> 0]
    /\ UNCHANGED questionMode

\* Mutant: the index starts again one too early.
NextIndexMutant(i) == IF i + 2 >= Len(examples) THEN 0 ELSE i + 1

NextIndex(i) == (i + 1) % Len(examples)

\* next(). It raises when nothing is loaded, and nothing changes.
NextExample ==
    /\ examples # <<>>
    /\ asked' = [asked EXCEPT ![examples[index + 1]] = @ + 1]
    /\ index' = NextIndex(index)
    /\ UNCHANGED <<questionMode, examples>>

ProviderSpec == ProviderInit /\ [][Load \/ NextExample]_providerVars

ProviderTypeOK ==
    /\ questionMode \in Modes
    /\ examples \in Seq(Questions)
    /\ index \in Nat
    /\ examples # <<>> => index < Len(examples)
    /\ DOMAIN asked = Range(examples)

\* No question is asked again before all others have been asked as often, by
\* however many users, and none that load() took is left out.
ExampleShare == INSTANCE EvenShare WITH served <- asked
ExamplesShared == ExampleShare!Spec

===============================================================================
