----------------------------- MODULE UserSession ------------------------------
(***************************************************************************)
(* How a simulated user gets its session: SutAsyncUser.on_start, the login *)
(* with its retries, and the checks submit_and_wait makes before it sends  *)
(* a message.  The SUT's login endpoint is external and may answer         *)
(* anything; the request has a timeout, so it does answer or fail.         *)
(***************************************************************************)
EXTENDS Integers

CONSTANTS
    Users,
    LoginEnabled,   \* config.login_enabled
    RetryMax        \* config.login_retry_max, which validate() keeps >= 0

ASSUME SessionAssumption == LoginEnabled \in BOOLEAN /\ RetryMax \in Nat

VARIABLES
    stage,          \* where the user's greenlet is
    attempt,        \* the loop variable of _login
    logins,         \* login POSTs sent so far
    fields,         \* the session attributes that are not None
    why             \* why the user was stopped

vars == <<stage, attempt, logins, fields, why>>

\* "ready": in its task, with no message sent yet; "active": with one sent.
Stages == {"new", "login", "backoff", "ready", "active", "stopped"}

\* In the order in which _login assigns them.
SessionFields == <<"conversation_id", "login_user", "login_conversation", "login_source">>
FirstFields(n) == {SessionFields[i] : i \in 1..n}
AllFields == FirstFields(4)

Reasons == {"", "invalid_config", "rate_limited", "refused", "bad_response", "killed"}

Init ==
    /\ stage = [u \in Users |-> "new"]
    /\ attempt = [u \in Users |-> 0]
    /\ logins = [u \in Users |-> 0]
    /\ fields = [u \in Users |-> {}]
    /\ why = [u \in Users |-> ""]

-----------------------------------------------------------------------------
\* on_start: without login the user only invents a conversation id.
OnStart(u) ==
    /\ stage[u] = "new"
    /\ stage' = [stage EXCEPT ![u] = IF LoginEnabled THEN "login" ELSE "ready"]
    /\ logins' = [logins EXCEPT ![u] = IF LoginEnabled THEN 1 ELSE 0]
    /\ fields' = [fields EXCEPT ![u] = IF LoginEnabled THEN {} ELSE FirstFields(1)]
    /\ UNCHANGED <<attempt, why>>

StopUser(u, reason) ==
    /\ stage' = [stage EXCEPT ![u] = "stopped"]
    /\ why' = [why EXCEPT ![u] = reason]

\* The config is rebuilt from the UI without being validated; on_start does
\* that for each user and raises ValueError.
OnStartInvalid(u) ==
    /\ stage[u] = "new"
    /\ StopUser(u, "invalid_config")
    /\ UNCHANGED <<attempt, logins, fields>>

\* What the parsers tell apart in a 200 or 201 response. A part may be given,
\* missing, or null: from_dict has a default for what is missing, and raises
\* when it looks into null.
Parts == {"given", "missing", "null"}
LoginResponses ==
    [json : BOOLEAN, conversation : BOOLEAN, user : Parts, board : Parts, source : Parts]

\* Whether each of SessionFields can be made from the response.
Readable(resp) ==
    <<resp.json /\ resp.conversation, resp.user # "null",
      resp.board # "null", resp.source # "null">>

\* How many are assigned before one that cannot stops the parsing.
Assigned(resp) ==
    CHOOSE n \in 0..4 :
        /\ \A i \in 1..n : Readable(resp)[i]
        /\ n = 4 \/ ~Readable(resp)[n + 1]

\* Mutant: an exception while parsing the response is only logged.
LoginAnsweredMutant(u, resp) ==
    /\ stage[u] = "login"
    /\ fields' = [fields EXCEPT ![u] = FirstFields(Assigned(resp))]
    /\ stage' = [stage EXCEPT ![u] = "ready"]
    /\ UNCHANGED <<attempt, logins, why>>

\* 200 or 201: the user is ready with the full session, or the fields assigned
\* so far stay, and it is stopped.
LoginAnswered(u, resp) ==
    /\ stage[u] = "login"
    /\ fields' = [fields EXCEPT ![u] = FirstFields(Assigned(resp))]
    /\ \/ /\ Assigned(resp) = 4
          /\ stage' = [stage EXCEPT ![u] = "ready"]
          /\ UNCHANGED why
       \/ /\ Assigned(resp) < 4
          /\ StopUser(u, "bad_response")
    /\ UNCHANGED <<attempt, logins>>

\* Mutant: off by one, the last attempt is not made.
RetriesLeftShortMutant(u) == attempt[u] + 1 < RetryMax

\* Mutant: off by one, the loop variable runs past the last attempt.
RetriesLeftLongMutant(u) == attempt[u] <= RetryMax

\* attempt < max_attempts - 1
RetriesLeft(u) == attempt[u] < RetryMax

\* 429 or 503 with attempts left.
LoginRateLimited(u) ==
    /\ stage[u] = "login"
    /\ RetriesLeft(u)
    /\ stage' = [stage EXCEPT ![u] = "backoff"]
    /\ UNCHANGED <<attempt, logins, fields, why>>

\* Mutant: the retry leaves the attempt where it was.
BackoffEndsMutant(u) ==
    /\ stage[u] = "backoff"
    /\ stage' = [stage EXCEPT ![u] = "login"]
    /\ logins' = [logins EXCEPT ![u] = IF @ > RetryMax THEN @ ELSE @ + 1]
    /\ UNCHANGED <<attempt, fields, why>>

\* After the sleep the next attempt is sent.
BackoffEnds(u) ==
    /\ stage[u] = "backoff"
    /\ stage' = [stage EXCEPT ![u] = "login"]
    /\ attempt' = [attempt EXCEPT ![u] = @ + 1]
    /\ logins' = [logins EXCEPT ![u] = @ + 1]
    /\ UNCHANGED <<fields, why>>

\* 429 or 503 on the last attempt.
LoginGivenUp(u) ==
    /\ stage[u] = "login"
    /\ ~RetriesLeft(u)
    /\ StopUser(u, "rate_limited")
    /\ UNCHANGED <<attempt, logins, fields>>

\* Any other status, or the request raises (among others, on its timeout).
LoginFails(u) ==
    /\ stage[u] = "login"
    /\ StopUser(u, "refused")
    /\ UNCHANGED <<attempt, logins, fields>>

-----------------------------------------------------------------------------
\* The two checks of submit_and_wait: the id and the user are there, and the
\* conversation and the source are, or login is disabled.
CanSubmit(u) ==
    /\ {"conversation_id", "login_user"} \subseteq fields[u]
    /\ LoginEnabled => fields[u] = AllFields

\* submit_and_wait up to its first POST. With login disabled, what is missing
\* of the session is made up here.
Submit(u) ==
    /\ stage[u] = "ready"
    /\ CanSubmit(u)
    /\ stage' = [stage EXCEPT ![u] = "active"]
    /\ fields' = [fields EXCEPT ![u] = AllFields]
    /\ UNCHANGED <<attempt, logins, why>>

\* Locust stops the user, wherever it is.
Kill(u) ==
    /\ stage[u] # "stopped"
    /\ StopUser(u, "killed")
    /\ UNCHANGED <<attempt, logins, fields>>

LoginStep(u) ==
    \/ \E resp \in LoginResponses : LoginAnswered(u, resp)
    \/ LoginRateLimited(u)
    \/ LoginGivenUp(u)
    \/ LoginFails(u)

Next == \E u \in Users :
    OnStart(u) \/ OnStartInvalid(u) \/ LoginStep(u) \/ BackoffEnds(u)
        \/ Submit(u) \/ Kill(u)

SafeSpec == Init /\ [][Next]_vars

\* Login requests have a timeout and sleeps end.
Spec == SafeSpec /\ \A u \in Users : WF_vars(LoginStep(u)) /\ WF_vars(BackoffEnds(u))

-----------------------------------------------------------------------------
(* Properties.                                                             *)

\* Type invariant; it bounds the login POSTs of a user by 1 + login_retry_max.
TypeOK ==
    /\ stage \in [Users -> Stages]
    /\ attempt \in [Users -> 0..RetryMax]
    /\ logins \in [Users -> 0..(RetryMax + 1)]
    /\ fields \in [Users -> SUBSET AllFields]
    /\ why \in [Users -> Reasons]

\* A user is given up for rate limiting only after its first login and all the
\* login_retry_max retries have been sent.
NoEarlyGiveUp ==
    \A u \in Users : why[u] = "rate_limited" => logins[u] = RetryMax + 1

\* A user that gets as far as its task can submit: whatever way its login went,
\* it never idles for ever on "User not logged in" (user.py:245) or "Login
\* conversation or source not initialized" (user.py:328). With login disabled this is what the comment at
\* user.py:290 says ("so we can still submit messages").
ReadyUserCanSubmit ==
    \A u \in Users : stage[u] = "ready" => CanSubmit(u)

\* At most how many steps of its greenlet a user is from the end of its login: a
\* POST and a sleep for each retry it has left, and the POST that is out.
LoginStepsLeft(u) ==
    CASE stage[u] = "new" -> 2 * RetryMax + 2
      [] stage[u] = "login" -> 2 * (RetryMax - attempt[u]) + 1
      [] stage[u] = "backoff" -> 2 * (RetryMax - attempt[u])
      [] OTHER -> 0

\* A step does not take u further from the end, and if u takes it during its
\* login, brings it closer.
Advances(u) ==
    /\ LoginStepsLeft(u)' <= LoginStepsLeft(u)
    /\ stage[u] \in {"login", "backoff"} /\ stage'[u] # stage[u] =>
           LoginStepsLeft(u)' < LoginStepsLeft(u)

\* Every answer to a login POST and every end of a backoff brings the user
\* closer to the end of its login, and nothing that any user does takes it
\* back: a login is over after at most 2 * login_retry_max + 1 of them.
LoginAdvances == [][\A u \in Users : Advances(u)]_vars

\* A login comes to an end, however often the SUT answers 429 or 503.
LoginEnds ==
    \A u \in Users : stage[u] = "login" ~> stage[u] \notin {"login", "backoff"}

===============================================================================
