--------------------------- MODULE MCTestLifecycle ----------------------------
EXTENDS TestLifecycle

CONSTANTS h1, b1, b2, d1, d2, n1, n2

\* The environment, which has no submit URL. The UI can empty the Host, enter a
\* timeout that is rejected, one that is not taken, and one that is more than
\* twice the environment's.
MCEnv == [login |-> TRUE, host |-> None, timeout |-> 1, board |-> b1,
          provider |-> "langsmith", dataset |-> d1, names |-> n1]
MCTimeouts == {-1, 0, 3}
MCHosts == {h1}
MCBoards == {b2}
MCDatasets == {d2}
MCNames == {n2}

===============================================================================
