------------------------------ MODULE MCDialogue ------------------------------
EXTENDS Dialogue

MCNames == [base : {"ai"}, topic : 0..1]

\* A question, a list of two with the first blank, and a blank question.
MCDataset == <<[list |-> FALSE, blank |-> <<FALSE>>],
               [list |-> TRUE, blank |-> <<TRUE, FALSE>>],
               [list |-> FALSE, blank |-> <<TRUE>>]>>
\* Provider, sync, switchboard filter, topic strategy, question mode.
MCConfigs == {<<"ai", FALSE, TRUE, "round_robin", "first">>,
              <<"ai", TRUE, FALSE, "random", "all">>,
              <<"langsmith", FALSE, TRUE, "random", "first">>,
              <<"langsmith", FALSE, FALSE, "round_robin", "all">>}
MCModes == {"first", "all"}

===============================================================================
