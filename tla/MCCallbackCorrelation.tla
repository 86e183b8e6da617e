------------------------ MODULE MCCallbackCorrelation -------------------------
EXTENDS CallbackCorrelation, TLC

\* Users, activations and callbacks are interchangeable; used by the runs
\* that check no liveness property.
Symmetric == Permutations(Users) \union Permutations(Requests)
                \union Permutations(Ids) \union Permutations(Callbacks)

===============================================================================
