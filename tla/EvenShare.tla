------------------------------ MODULE EvenShare -------------------------------
(***************************************************************************)
(* What serving in turn promises, whatever index or lock is behind it:     *)
(* nothing is served again before everything else has been served as often.*)
(***************************************************************************)
EXTENDS Naturals

VARIABLE served     \* how often each thing on offer has been served

Init == served = [x \in DOMAIN served |-> 0]

\* Things are put on offer, once.
Offer ==
    /\ DOMAIN served = {}
    /\ served' = [x \in DOMAIN served' |-> 0]

Serve(x) ==
    /\ \A y \in DOMAIN served : served[x] <= served[y]
    /\ served' = [served EXCEPT ![x] = @ + 1]

Next == Offer \/ \E x \in DOMAIN served : Serve(x)

Spec == Init /\ [][Next]_served

===============================================================================
