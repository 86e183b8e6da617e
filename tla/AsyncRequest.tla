----------------------------- MODULE AsyncRequest -----------------------------
(***************************************************************************)
(* What the load generator promises about one message, whatever the       *)
(* correlation machinery between a simulated user and the webhook does:    *)
(* a user has at most one message outstanding, a message that was          *)
(* submitted ends with exactly one verdict, and the verdict "success" is   *)
(* given only to a message whose own callback has been accepted.           *)
(***************************************************************************)
CONSTANTS Users, Requests, None

VARIABLES turn,      \* turn[u]: the message user u is busy with, or None
          stage,     \* stage[r]: how far message r has come
          answered   \* the messages whose own callback has been accepted

absVars == <<turn, stage, answered>>

Verdicts == {"success", "failure", "aborted"}

Init ==
    /\ turn = [u \in Users |-> None]
    /\ stage = [r \in Requests |-> "idle"]
    /\ answered = {}

\* An idle user starts sending a new message.
Submit(u, r) ==
    /\ turn[u] = None
    /\ stage[r] = "idle"
    /\ turn' = [turn EXCEPT ![u] = r]
    /\ stage' = [stage EXCEPT ![r] = "submitting"]
    /\ UNCHANGED answered

\* The message was not accepted (or its user was stopped before it was).
Abandon(u, r, verdict) ==
    /\ turn[u] = r
    /\ stage[r] = "submitting"
    /\ turn' = [turn EXCEPT ![u] = None]
    /\ stage' = [stage EXCEPT ![r] = verdict]
    /\ UNCHANGED answered

\* The message was accepted: its callback is awaited from now on.
Await(r) ==
    /\ stage[r] = "submitting"
    /\ stage' = [stage EXCEPT ![r] = "pending"]
    /\ UNCHANGED <<turn, answered>>

\* A callback for message r is accepted. It may come late, or twice, but not
\* before the message is pending.
Answer(r) ==
    /\ stage[r] \notin {"idle", "submitting"}
    /\ answered' = answered \union {r}
    /\ UNCHANGED <<turn, stage>>

\* The pending message gets its one verdict.
Report(r, verdict) ==
    /\ stage[r] = "pending"
    /\ verdict = "success" => r \in answered
    /\ stage' = [stage EXCEPT ![r] = verdict]
    /\ UNCHANGED <<turn, answered>>

\* The user lets go of a message that has its verdict.
Release(u) ==
    /\ turn[u] # None
    /\ stage[turn[u]] \in Verdicts
    /\ turn' = [turn EXCEPT ![u] = None]
    /\ UNCHANGED <<stage, answered>>

Next ==
    \/ \E u \in Users, r \in Requests : Submit(u, r)
    \/ \E u \in Users, r \in Requests, v \in {"failure", "aborted"} : Abandon(u, r, v)
    \/ \E r \in Requests : Await(r) \/ Answer(r)
    \/ \E r \in Requests, v \in Verdicts : Report(r, v)
    \/ \E u \in Users : Release(u)

Fairness ==
    /\ \A r \in Requests : WF_absVars(\E v \in Verdicts : Report(r, v))
    /\ \A u \in Users : WF_absVars(Release(u))

SafeSpec == Init /\ [][Next]_absVars

Spec == SafeSpec /\ Fairness

===============================================================================
