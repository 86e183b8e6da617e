-------------------------- MODULE UserSession_proofs --------------------------
(***************************************************************************)
(* Proofs about UserSession, for any users, any number of retries and any  *)
(* answer of the SUT.                                                      *)
(***************************************************************************)
EXTENDS UserSession, TLAPS

\* What the parsing of a response can leave behind.
LEMMA AssignedBound ==
    ASSUME NEW resp \in LoginResponses
    PROVE  /\ Assigned(resp) \in 0..4
           /\ FirstFields(Assigned(resp)) \in SUBSET AllFields
           /\ Assigned(resp) = 4 => FirstFields(Assigned(resp)) = AllFields
<1> DEFINE ok == Readable(resp)
           P(n) == (\A i \in 1..n : ok[i]) /\ (n = 4 \/ ~ok[n + 1])
<1>1. \E n \in 0..4 : P(n)
  <2>1. CASE ~ok[1]
    <3>1. P(0)  BY <2>1
    <3> QED  BY <3>1
  <2>2. CASE ok[1] /\ ~ok[2]
    <3>1. P(1)  BY <2>2
    <3> QED  BY <3>1
  <2>3. CASE ok[1] /\ ok[2] /\ ~ok[3]
    <3>1. P(2)  BY <2>3
    <3> QED  BY <3>1
  <2>4. CASE ok[1] /\ ok[2] /\ ok[3] /\ ~ok[4]
    <3>1. P(3)  BY <2>4
    <3> QED  BY <3>1
  <2>5. CASE ok[1] /\ ok[2] /\ ok[3] /\ ok[4]
    <3>1. P(4)  BY <2>5
    <3> QED  BY <3>1
  <2> QED  BY <2>1, <2>2, <2>3, <2>4, <2>5
<1>2. Assigned(resp) \in 0..4
  BY <1>1 DEF Assigned
<1>3. \A n \in 0..4 : FirstFields(n) \in SUBSET AllFields
  BY DEF FirstFields, AllFields, SessionFields
<1> QED  BY <1>2, <1>3 DEF AllFields

\* login_retry_max is a natural number.
LEMMA RetryMaxNat == RetryMax \in Nat
BY SessionAssumption

-----------------------------------------------------------------------------
\* A login POST is out, or has just been answered, for each attempt so far.
LoginsFollowAttempts ==
    \A u \in Users :
        /\ stage[u] = "new" => attempt[u] = 0 /\ logins[u] = 0
        /\ stage[u] = "login" => logins[u] = attempt[u] + 1
        /\ stage[u] = "backoff" => logins[u] = attempt[u] + 1 /\ attempt[u] < RetryMax
        /\ stage[u] # "stopped" => why[u] = ""

IInv == TypeOK /\ LoginsFollowAttempts /\ NoEarlyGiveUp

\* The initial states satisfy IInv.
LEMMA InitInv == Init => IInv
<1>1. {} \in SUBSET AllFields
  OBVIOUS
<1>2. Init => TypeOK
  <2> SUFFICES ASSUME Init PROVE TypeOK
    OBVIOUS
  <2>1. attempt = [u \in Users |-> 0] /\ logins = [u \in Users |-> 0]
    BY DEF Init
  <2>2. attempt \in [Users -> 0..RetryMax] /\ logins \in [Users -> 0..(RetryMax + 1)]
    BY <2>1, RetryMaxNat
  <2> QED  BY <1>1, <2>2 DEF Init, TypeOK, Stages, Reasons
<1>3. Init => LoginsFollowAttempts /\ NoEarlyGiveUp
  BY DEF Init, LoginsFollowAttempts, NoEarlyGiveUp
<1> QED
  BY <1>2, <1>3 DEF IInv

\* What a step that leaves the counters alone, or counts one retry, does to
\* their types.
LEMMA CountersTyped ==
    ASSUME TypeOK, NEW u \in Users, NEW a \in 0..RetryMax, NEW n \in 0..(RetryMax + 1)
    PROVE  /\ [attempt EXCEPT ![u] = a] \in [Users -> 0..RetryMax]
           /\ [logins EXCEPT ![u] = n] \in [Users -> 0..(RetryMax + 1)]
           /\ attempt[u] \in 0..RetryMax
           /\ logins[u] \in 0..(RetryMax + 1)
BY DEF TypeOK

\* Each step keeps the types; the number of POSTs follows the attempts.
LEMMA TypeStep == TypeOK /\ LoginsFollowAttempts /\ [Next]_vars => TypeOK'
<1> SUFFICES ASSUME TypeOK, LoginsFollowAttempts, [Next]_vars PROVE TypeOK'
  OBVIOUS
<1>0. AllFields' = AllFields
  BY DEF AllFields, FirstFields, SessionFields
<1>1. CASE UNCHANGED vars
  BY <1>0, <1>1 DEF vars, TypeOK
<1>2. ASSUME NEW u \in Users, OnStart(u) PROVE TypeOK'
  <2>1. FirstFields(1) \in SUBSET AllFields
    BY DEF FirstFields, AllFields, SessionFields
  <2>2. 0 \in 0..(RetryMax + 1) /\ 1 \in 0..(RetryMax + 1)
    BY RetryMaxNat
  <2>3. PICK n \in 0..(RetryMax + 1) : logins' = [logins EXCEPT ![u] = n]
    BY <1>2, <2>2 DEF OnStart
  <2>4. 0 \in 0..RetryMax
    BY RetryMaxNat
  <2>5. logins' \in [Users -> 0..(RetryMax + 1)]
    BY <2>3, <2>4, CountersTyped
  <2> QED  BY <1>0, <1>2, <2>1, <2>5 DEF OnStart, TypeOK, Stages
<1>3. ASSUME NEW u \in Users, OnStartInvalid(u) PROVE TypeOK'
  BY <1>0, <1>3 DEF OnStartInvalid, StopUser, TypeOK, Stages, Reasons
<1>4. ASSUME NEW u \in Users, LoginStep(u) PROVE TypeOK'
  <2>1. ASSUME NEW resp \in LoginResponses, LoginAnswered(u, resp) PROVE TypeOK'
    BY <1>0, <2>1, AssignedBound DEF LoginAnswered, StopUser, TypeOK, Stages, Reasons
  <2>2. CASE LoginRateLimited(u) \/ LoginGivenUp(u) \/ LoginFails(u)
    BY <1>0, <2>2 DEF LoginRateLimited, LoginGivenUp, LoginFails, StopUser, TypeOK,
       Stages, Reasons
  <2> QED  BY <1>4, <2>1, <2>2 DEF LoginStep
<1>5. ASSUME NEW u \in Users, BackoffEnds(u) PROVE TypeOK'
  <2>1. 0 \in 0..RetryMax /\ 0 \in 0..(RetryMax + 1)
    BY RetryMaxNat
  <2>2. /\ attempt[u] \in 0..RetryMax /\ attempt[u] < RetryMax
        /\ logins[u] = attempt[u] + 1
    BY <1>5, <2>1, CountersTyped DEF BackoffEnds, LoginsFollowAttempts
  <2>3. attempt[u] + 1 \in 0..RetryMax /\ logins[u] + 1 \in 0..(RetryMax + 1)
    BY <2>2, RetryMaxNat
  <2>4. /\ attempt' \in [Users -> 0..RetryMax]
        /\ logins' \in [Users -> 0..(RetryMax + 1)]
    BY <1>5, <2>3, CountersTyped DEF BackoffEnds
  <2> QED  BY <1>0, <1>5, <2>4 DEF BackoffEnds, TypeOK, Stages
<1>6. ASSUME NEW u \in Users, Submit(u) PROVE TypeOK'
  BY <1>0, <1>6 DEF Submit, TypeOK, Stages
<1>7. ASSUME NEW u \in Users, Kill(u) PROVE TypeOK'
  BY <1>0, <1>7 DEF Kill, StopUser, TypeOK, Stages, Reasons
<1> QED  BY <1>1, <1>2, <1>3, <1>4, <1>5, <1>6, <1>7 DEF Next

\* Each step keeps IInv.
LEMMA StepInv == IInv /\ [Next]_vars => IInv'
<1> SUFFICES ASSUME IInv, [Next]_vars PROVE IInv'
  OBVIOUS
<1>1. TypeOK'
  BY TypeStep DEF IInv
<1> DEFINE
    Good(s, a, n, w) ==
        /\ s = "new" => a = 0 /\ n = 0
        /\ s = "login" => n = a + 1
        /\ s = "backoff" => n = a + 1 /\ a < RetryMax
        /\ s # "stopped" => w = ""
        /\ w = "rate_limited" => n = RetryMax + 1
    AllGood == \A v \in Users : Good(stage[v], attempt[v], logins[v], why[v])
<1>2. \A v \in Users :
        /\ Good(stage[v], attempt[v], logins[v], why[v])
        /\ attempt[v] \in Int /\ logins[v] \in Int
  <2>1. AllGood
    BY DEF IInv, LoginsFollowAttempts, NoEarlyGiveUp
  <2>2. attempt \in [Users -> 0..RetryMax] /\ logins \in [Users -> 0..(RetryMax + 1)]
    BY DEF IInv, TypeOK
  <2>3. \A v \in Users : attempt[v] \in Int /\ logins[v] \in Int
    BY <2>2, RetryMaxNat
  <2> QED  BY <2>1, <2>3
<1>3. SUFFICES AllGood'
  BY <1>1 DEF IInv, LoginsFollowAttempts, NoEarlyGiveUp
<1>4. DOMAIN stage = Users /\ DOMAIN attempt = Users /\ DOMAIN logins = Users /\ DOMAIN why = Users
  BY DEF IInv, TypeOK
<1>5. CASE UNCHANGED vars
  BY <1>2, <1>5 DEF vars
<1>6. ASSUME NEW u \in Users, OnStart(u) PROVE AllGood'
  <2>1. stage[u] = "new" /\ attempt' = attempt /\ why' = why
    BY <1>6 DEF OnStart
  <2>2. attempt[u] = 0 /\ why[u] = ""
    BY <1>2, <2>1
  <2>3. ASSUME NEW v \in Users
        PROVE  Good(stage[v], attempt[v], logins[v], why[v])'
    <3>1. CASE v # u
      BY <1>2, <1>4, <1>6, <3>1 DEF OnStart
    <3>2. CASE v = u
      <4>1. \/ stage'[u] = "login" /\ logins'[u] = 1
            \/ stage'[u] = "ready"
        BY <1>4, <1>6 DEF OnStart
      <4>2. attempt'[v] = 0 /\ why'[v] = ""
        BY <2>1, <2>2, <3>2
      <4>3. CASE stage'[u] = "login" /\ logins'[u] = 1
        <5>1. logins'[v] = attempt'[v] + 1
          <6>1. logins'[v] = 1
            BY <3>2, <4>3
          <6>2. attempt'[v] = 0
            BY <4>2
          <6> QED  BY <6>1, <6>2
        <5> QED  BY <3>2, <4>2, <4>3, <5>1
      <4>4. CASE stage'[u] = "ready"
        BY <3>2, <4>2, <4>4
      <4> QED  BY <4>1, <4>3, <4>4
    <3> QED  BY <3>1, <3>2
  <2> QED  BY <2>3
<1>7. ASSUME NEW u \in Users, OnStartInvalid(u) PROVE AllGood'
  BY <1>2, <1>4, <1>7 DEF OnStartInvalid, StopUser
<1>8. ASSUME NEW u \in Users, LoginStep(u) PROVE AllGood'
  <2>1. CASE LoginGivenUp(u)
    <3>1. attempt[u] \in 0..RetryMax /\ ~(attempt[u] < RetryMax)
      BY <2>1 DEF LoginGivenUp, RetriesLeft, IInv, TypeOK
    <3>2. attempt[u] = RetryMax
      BY <3>1, RetryMaxNat
    <3> QED  BY <1>2, <1>4, <2>1, <3>2 DEF LoginGivenUp, StopUser
  <2>2. CASE LoginRateLimited(u)
    BY <1>2, <1>4, <2>2 DEF LoginRateLimited, RetriesLeft
  <2>3. CASE LoginFails(u)
    BY <1>2, <1>4, <2>3 DEF LoginFails, StopUser
  <2>4. ASSUME NEW resp \in LoginResponses, LoginAnswered(u, resp) PROVE AllGood'
    BY <1>2, <1>4, <2>4 DEF LoginAnswered, StopUser
  <2> QED  BY <1>8, <2>1, <2>2, <2>3, <2>4 DEF LoginStep
<1>9. ASSUME NEW u \in Users, BackoffEnds(u) PROVE AllGood'
  BY <1>2, <1>4, <1>9 DEF BackoffEnds
<1>10. ASSUME NEW u \in Users, Submit(u) \/ Kill(u) PROVE AllGood'
  BY <1>2, <1>4, <1>10 DEF Submit, Kill, StopUser
<1> QED  BY <1>5, <1>6, <1>8, <1>9, <1>10, <1>7 DEF Next

\* TypeOK: in particular, no user ever sends more than 1 + login_retry_max
\* login POSTs.
THEOREM SessionTyped == SafeSpec => []TypeOK
<1>1. IInv => TypeOK  BY DEF IInv
<1> QED  BY InitInv, StepInv, <1>1, PTL DEF SafeSpec

\* _login gives up for rate limiting only when every retry has been used,
\* for any login_retry_max, 0 included.
THEOREM RetriesAreUsed == SafeSpec => []NoEarlyGiveUp
<1>1. IInv => NoEarlyGiveUp  BY DEF IInv
<1> QED  BY InitInv, StepInv, <1>1, PTL DEF SafeSpec

\* With login enabled, a user that comes out of _login, whatever the SUT
\* answered and however the parsing of it went, passes the checks of
\* submit_and_wait.
THEOREM SessionIsComplete ==
    ASSUME LoginEnabled
    PROVE  SafeSpec => []ReadyUserCanSubmit
<1> DEFINE Full == \A u \in Users : stage[u] = "ready" => fields[u] = AllFields
           Inv == IInv /\ Full
<1>1. Init => Full
  BY DEF Init
<1>2. Inv /\ [Next]_vars => Full'
  <2> SUFFICES ASSUME IInv, Full, [Next]_vars PROVE Full'
    OBVIOUS
  <2> USE DEF IInv, TypeOK, Stages
  <2>1. ASSUME NEW u \in Users, NEW resp \in LoginResponses, LoginAnswered(u, resp)
        PROVE  Full'
    BY <2>1, AssignedBound DEF LoginAnswered, StopUser
  <2>2. ASSUME NEW u \in Users,
               \/ OnStart(u) \/ OnStartInvalid(u) \/ LoginRateLimited(u)
               \/ LoginGivenUp(u) \/ LoginFails(u)
               \/ BackoffEnds(u) \/ Submit(u) \/ Kill(u)
        PROVE  Full'
    BY <2>2, LoginEnabled DEF OnStart, OnStartInvalid, LoginRateLimited, LoginGivenUp,
       LoginFails, BackoffEnds, Submit, Kill, StopUser
  <2>3. CASE UNCHANGED vars
    BY <2>3 DEF vars
  <2> QED  BY <2>1, <2>2, <2>3 DEF Next, LoginStep
<1>3. Full => ReadyUserCanSubmit
  BY DEF ReadyUserCanSubmit, CanSubmit, AllFields, FirstFields, SessionFields
<1> QED  BY InitInv, StepInv, <1>1, <1>2, <1>3, PTL DEF SafeSpec

-----------------------------------------------------------------------------
(* How long a login takes.                                                 *)

\* A login is at most 2 * login_retry_max + 1 steps long, and its end is not
\* reached before it is over.
StepsLeftBounded ==
    \A u \in Users :
        /\ LoginStepsLeft(u) \in 0..(2 * RetryMax + 2)
        /\ stage[u] \in {"login", "backoff"} =>
               LoginStepsLeft(u) \in 1..(2 * RetryMax + 1)

\* It follows from the range of the loop variable.
LEMMA LoopIsBounded == IInv => StepsLeftBounded
<1> SUFFICES ASSUME IInv, NEW u \in Users
             PROVE  /\ LoginStepsLeft(u) \in 0..(2 * RetryMax + 2)
                    /\ stage[u] \in {"login", "backoff"} =>
                           LoginStepsLeft(u) \in 1..(2 * RetryMax + 1)
  BY DEF StepsLeftBounded
<1>1. attempt[u] \in 0..RetryMax /\ RetryMax \in Nat
  BY RetryMaxNat DEF IInv, TypeOK
<1>2. stage[u] = "backoff" => attempt[u] < RetryMax
  BY DEF IInv, LoginsFollowAttempts
<1> QED
  BY <1>1, <1>2 DEF LoginStepsLeft

\* A step that only u takes leaves what the others have left as it was.
LEMMA OthersKeepTheirs ==
    ASSUME NEW v \in Users, stage'[v] = stage[v], attempt'[v] = attempt[v]
    PROVE  LoginStepsLeft(v)' = LoginStepsLeft(v)
BY DEF LoginStepsLeft

\* Answers and backoffs only ever bring a user closer to the end of its login,
\* which is at most 2 * login_retry_max + 1 of them away.
THEOREM LoginIsBounded == SafeSpec => LoginAdvances /\ []StepsLeftBounded
<1>1. ASSUME IInv, StepsLeftBounded, StepsLeftBounded', Next, NEW v \in Users
      PROVE  Advances(v)
  <2> USE DEF Advances
  <2>1. /\ LoginStepsLeft(v) \in Nat /\ LoginStepsLeft(v)' \in Nat
        /\ stage[v] \in {"login", "backoff"} => LoginStepsLeft(v) > 0
    BY <1>1, RetryMaxNat DEF StepsLeftBounded
  <2>2. /\ attempt[v] \in 0..RetryMax /\ RetryMax \in Nat
        /\ DOMAIN stage = Users /\ DOMAIN attempt = Users
        /\ stage[v] = "backoff" => attempt[v] < RetryMax
        /\ stage[v] = "new" => attempt[v] = 0
    BY <1>1, RetryMaxNat DEF IInv, TypeOK, LoginsFollowAttempts
  <2>3. ASSUME stage'[v] = stage[v], attempt'[v] = attempt[v] PROVE Advances(v)
    BY <2>1, <2>3, OthersKeepTheirs
  <2>4. ASSUME stage'[v] \in {"ready", "active", "stopped"} PROVE Advances(v)
    <3>1. LoginStepsLeft(v)' = 0
      BY <2>4 DEF LoginStepsLeft
    <3> QED
      BY <2>1, <3>1
  <2>5. CASE OnStart(v)
    <3>1. CASE stage'[v] = "login"
      BY <2>2, <2>5, <3>1 DEF OnStart, LoginStepsLeft
    <3>2. CASE stage'[v] = "ready"
      BY <2>4, <3>2
    <3> QED
      BY <2>2, <2>5, <3>1, <3>2 DEF OnStart
  <2>6. CASE LoginRateLimited(v)
    BY <2>2, <2>6 DEF LoginRateLimited, RetriesLeft, LoginStepsLeft
  <2>7. CASE BackoffEnds(v)
    BY <2>2, <2>7 DEF BackoffEnds, LoginStepsLeft
  <2>8. CASE OnStartInvalid(v) \/ LoginGivenUp(v) \/ LoginFails(v) \/ Submit(v) \/ Kill(v)
    BY <2>2, <2>4, <2>8
       DEF OnStartInvalid, LoginGivenUp, LoginFails, Submit, Kill, StopUser
  <2>9. ASSUME NEW resp \in LoginResponses, LoginAnswered(v, resp) PROVE Advances(v)
    BY <2>2, <2>4, <2>9 DEF LoginAnswered, StopUser
  <2>10. ASSUME NEW u \in Users \ {v},
                \/ OnStart(u) \/ OnStartInvalid(u) \/ LoginStep(u) \/ BackoffEnds(u)
                \/ Submit(u) \/ Kill(u)
         PROVE  stage'[v] = stage[v] /\ attempt'[v] = attempt[v]
    BY <2>2, <2>10
       DEF OnStart, OnStartInvalid, LoginStep, LoginAnswered, LoginRateLimited,
           LoginGivenUp, LoginFails, BackoffEnds, Submit, Kill, StopUser
  <2> QED
    BY <1>1, <2>3, <2>5, <2>6, <2>7, <2>8, <2>9, <2>10 DEF Next, LoginStep
<1> DEFINE Step == \A u \in Users : Advances(u)
<1>2. IInv /\ StepsLeftBounded /\ StepsLeftBounded' /\ [Next]_vars => [Step]_vars
  BY <1>1
<1>3. SafeSpec => []IInv
  BY InitInv, StepInv, PTL DEF SafeSpec
<1>4. SafeSpec => []StepsLeftBounded
  BY <1>3, LoopIsBounded, PTL
<1>5. SafeSpec => [][Step]_vars
  BY <1>2, <1>3, <1>4, PTL DEF SafeSpec
<1> QED
  BY <1>4, <1>5 DEF LoginAdvances

-----------------------------------------------------------------------------
\* With login disabled no user ever sends a message: the check of login_user at
\* user.py:244 comes before the code at user.py:290 that would make one up.
THEOREM NobodySubmitsWithoutLogin ==
    ASSUME ~LoginEnabled
    PROVE  SafeSpec => [](\A u \in Users : stage[u] # "active")
<1> DEFINE Idle == \A u \in Users :
               /\ stage[u] \in {"new", "ready", "stopped"}
               /\ "login_user" \notin fields[u]
<1>1. Init => Idle
  BY DEF Init
<1>2. IInv /\ Idle /\ [Next]_vars => Idle'
  <2> SUFFICES ASSUME IInv, Idle, [Next]_vars PROVE Idle'
    OBVIOUS
  <2>1. "login_user" \notin FirstFields(1)
    BY DEF FirstFields, SessionFields
  <2>2. ASSUME NEW u \in Users, OnStart(u) PROVE Idle'
    BY <2>1, <2>2, ~LoginEnabled DEF OnStart, IInv, TypeOK
  <2>3. ASSUME NEW u \in Users, OnStartInvalid(u) \/ Kill(u) PROVE Idle'
    BY <2>3 DEF OnStartInvalid, Kill, StopUser, IInv, TypeOK
  <2>4. ASSUME NEW u \in Users PROVE ~(LoginStep(u) \/ BackoffEnds(u) \/ Submit(u))
    BY DEF LoginStep, LoginAnswered, LoginRateLimited, LoginGivenUp, LoginFails,
           BackoffEnds, Submit, CanSubmit
  <2>5. CASE UNCHANGED vars
    BY <2>5 DEF vars
  <2> QED
    BY <2>2, <2>3, <2>4, <2>5 DEF Next
<1>3. Idle => \A u \in Users : stage[u] # "active"
  OBVIOUS
<1> QED
  BY InitInv, StepInv, <1>1, <1>2, <1>3, PTL DEF SafeSpec

===============================================================================
