------------------------- MODULE TestLifecycle_proofs -------------------------
(***************************************************************************)
(* Proofs about TestLifecycle for any users, settings and number of tests. *)
(* The inductive invariant says that a test only runs in a process that    *)
(* has been initialised, that running users have what the globals had when *)
(* they started, and that the pool is ahead of every identity it gave out. *)
(***************************************************************************)
EXTENDS TestLifecycle, TLAPS

\* Once the process is up, the globals are there, the configuration is the
\* UI's, and the pool is named after it.
Initialised ==
    process \in {"up", "quit"} =>
        /\ ui \in Options
        /\ config = FromEnvAndOptions(ui)
        /\ pool # None
        /\ pool.names = config.names

\* Before that, nobody runs.
NobodyRunsBefore ==
    process \in {"new", "exited"} => \A u \in Users : state[u] = "absent"

\* Users are about only while a test runs.
NobodyRunsBetween ==
    test = "stopped" => \A u \in Users : state[u] = "absent"

\* A running user has the configuration and an identity of the pool, which will
\* not be given out again.
UsersAreOfThisRun ==
    \A u \in Users : Running(u) =>
        /\ userConfig[u] = config
        /\ identity[u] # None
        /\ identity[u].names = pool.names
        /\ identity[u].index < pool.next

IInv ==
    /\ TypeOK
    /\ Initialised
    /\ NobodyRunsBefore
    /\ NobodyRunsBetween
    /\ UsersAreOfThisRun
    /\ DistinctIdentities
    /\ AsksConfiguredSource

-----------------------------------------------------------------------------
\* What the UI or the command line can hold makes a well-formed configuration.
LEMMA ConfigTyped ==
  ASSUME NEW o \in Options
  PROVE  FromEnvAndOptions(o) \in Configs
BY DEF Options, Configs, FromEnvAndOptions, Override, Providers

\* A new pool is well formed and carries the names of its configuration.
LEMMA NewPoolTyped ==
  ASSUME NEW c \in Configs
  PROVE  /\ NewPool(c) \in Pools
         /\ NewPool(c).names = c.names
BY DEF Configs, NewPool, AllNames, Pools

\* A provider of a configured dataset is one of the sources.
LEMMA ExamplesTyped ==
  ASSUME NEW c \in Configs, NEW l \in BOOLEAN
  PROVE  /\ Examples(c.dataset, l) \in Sources
         /\ Examples(c.dataset, l).dataset = c.dataset
         /\ Examples(c.dataset, l).kind = "langsmith"
BY DEF Configs, Sources, Examples

\* Whatever the global provider, a user is given one of the dataset it asks for.
LEMMA ProviderTyped ==
  ASSUME NEW c \in Configs, provider \in Sources \union {None}
  PROVE  /\ GetProvider(c.dataset) \in Sources
         /\ GetProvider(c.dataset).dataset = c.dataset
         /\ GetProvider(c.dataset).kind = "langsmith"
<1>1. CASE provider = None \/ provider.dataset # c.dataset
  <2>1. GetProvider(c.dataset) = Examples(c.dataset, FALSE)
    BY <1>1 DEF GetProvider
  <2> QED
    BY <2>1, ExamplesTyped
<1>2. CASE provider # None /\ provider.dataset = c.dataset
  <2>1. GetProvider(c.dataset) = provider
    BY <1>2 DEF GetProvider
  <2>2. provider.kind = "langsmith"
    BY <1>2 DEF Sources, Examples
  <2> QED
    BY <1>2, <2>1, <2>2
<1> QED
  BY <1>1, <1>2

\* The initial states satisfy the invariant.
LEMMA InitIInv == Init => IInv
BY DEF Init, IInv, TypeOK, Initialised, NobodyRunsBefore, NobodyRunsBetween,
       UsersAreOfThisRun, DistinctIdentities, AsksConfiguredSource, Running

\* Each action, and a stuttering step, keeps the invariant.
LEMMA StepIInv ==
  ASSUME IInv, [Next]_vars
  PROVE  IInv'
<1> USE DEF IInv, TypeOK, Initialised, NobodyRunsBefore, NobodyRunsBetween,
            UsersAreOfThisRun, DistinctIdentities, AsksConfiguredSource, Running,
            longLived, userVars
<1>1. ASSUME NEW o \in Options, OnInit(o) PROVE IInv'
  <2> DEFINE c == FromEnvAndOptions(o)
  <2>1. /\ c \in Configs /\ NewPool(c) \in Pools /\ NewPool(c).names = c.names
        /\ Examples(c.dataset, TRUE) \in Sources
    BY ConfigTyped, NewPoolTyped, ExamplesTyped
  <2>2. c.timeout \in Timeouts \union {Env.timeout} /\ c.board \in Boards \union {Env.board}
    BY <2>1 DEF Configs
  <2>3. TypeOK'
    BY <1>1, <2>1, <2>2 DEF OnInit, InitProvider
  <2>4. Initialised'
    BY <1>1, <2>1, NoneIsNoRecord DEF OnInit
  <2>5. \A u \in Users : state'[u] = "absent"
    BY <1>1 DEF OnInit
  <2> QED
    BY <2>3, <2>4, <2>5
<1>2. ASSUME NEW o \in Options, OnInitExits(o) PROVE IInv'
  BY <1>2 DEF OnInitExits
<1>3. ASSUME NEW o \in Options, OnTestStart(o) PROVE IInv'
  <2> DEFINE c == FromEnvAndOptions(o)
  <2>1. /\ c \in Configs /\ NewPool(c) \in Pools /\ NewPool(c).names = c.names
        /\ Examples(c.dataset, TRUE) \in Sources
    BY ConfigTyped, NewPoolTyped, ExamplesTyped
  <2>2. TypeOK'
    BY <1>3, <2>1 DEF OnTestStart, InitProvider, InitProviderFails
  <2>3. Initialised'
    BY <1>3, <2>1, NoneIsNoRecord DEF OnTestStart
  <2>4. \A u \in Users : state'[u] = "absent"
    BY <1>3 DEF OnTestStart
  <2> QED
    BY <2>2, <2>3, <2>4
<1>4. CASE ServerBinds
  BY <1>4 DEF ServerBinds
<1>5. CASE ServerBindFails
  BY <1>5 DEF ServerBindFails
<1>6. CASE TestStop
  BY <1>6 DEF TestStop
<1>7. CASE OnQuitting
  BY <1>7 DEF OnQuitting
<1>8. ASSUME NEW u \in Users, OnStart(u) PROVE IInv'
  <2>1. config \in Configs /\ pool \in Pools /\ pool.names = config.names
    BY <1>8, ConfigTyped DEF OnStart
  <2>2. /\ GetProvider(config.dataset) \in Sources
        /\ GetProvider(config.dataset).dataset = config.dataset
        /\ GetProvider(config.dataset).kind = "langsmith"
    BY <1>8, <2>1, ProviderTyped
  <2>3. /\ Acquire(pool) \in Pools
        /\ Acquire(pool).names = pool.names
        /\ Acquire(pool).next = pool.next + 1
    BY <2>1 DEF Acquire, Pools
  <2> DEFINE id == [names |-> pool.names, index |-> pool.next]
  <2>4. id \in Identities /\ id.names = pool.names /\ id.index = pool.next
    BY <2>1 DEF Identities, Pools
  <2>5. config.provider \in Providers
    BY <2>1 DEF Configs
  <2>6. TypeOK'
    BY <1>8, <2>1, <2>2, <2>3, <2>4 DEF OnStart
  <2>7. Initialised' /\ NobodyRunsBefore' /\ NobodyRunsBetween'
    BY <1>8, <2>1, <2>3, NoneIsNoRecord DEF OnStart
  <2>8. UsersAreOfThisRun'
    BY <1>8, <2>1, <2>3, <2>4, NoneIsNoRecord DEF OnStart, Pools, Identities
  <2>9. DistinctIdentities'
    BY <1>8, <2>1, <2>4 DEF OnStart, Pools, Identities
  <2>10. AsksConfiguredSource'
    BY <1>8, <2>1, <2>2, <2>5 DEF OnStart, Providers, AI
  <2> QED
    BY <2>6, <2>7, <2>8, <2>9, <2>10
<1>9. ASSUME NEW u \in Users, UserStops(u) PROVE IInv'
  BY <1>9 DEF UserStops
<1>10. CASE UNCHANGED vars
  BY <1>10 DEF vars
<1> QED
  BY <1>1, <1>2, <1>3, <1>4, <1>5, <1>6, <1>7, <1>8, <1>9, <1>10 DEF Next

\* The invariant holds in every reachable state.
THEOREM Invariance == Spec => []IInv
BY InitIInv, StepIInv, PTL DEF Spec

\* Every reachable state is well typed.
THEOREM LifecycleTyped == Spec => []TypeOK
<1>1. IInv => TypeOK
  BY DEF IInv
<1> QED
  BY <1>1, Invariance, PTL

\* What the users run on is what the UI said last.
THEOREM UsersAreConfigured == Spec => []UsersFollowTheUI
<1>1. IInv => UsersFollowTheUI
  BY DEF IInv, TypeOK, UsersAreOfThisRun, NobodyRunsBefore, Initialised,
         UsersFollowTheUI, Running
<1> QED
  BY <1>1, Invariance, PTL

\* Test users carry the names of the configuration in force.
THEOREM IdentitiesAreCurrent == Spec => []IdentityFollowsConfig
<1>1. IInv => IdentityFollowsConfig
  BY DEF IInv, TypeOK, UsersAreOfThisRun, NobodyRunsBefore, Initialised,
         IdentityFollowsConfig, Running
<1> QED
  BY <1>1, Invariance, PTL

\* No two running users are the same test user, however many are spawned and
\* stopped in however many tests.
THEOREM IdentitiesAreDistinct == Spec => []DistinctIdentities
<1>1. IInv => DistinctIdentities
  BY DEF IInv
<1> QED
  BY <1>1, Invariance, PTL

\* A user never asks a source that its configuration does not name.
THEOREM SourcesAreCurrent == Spec => []AsksConfiguredSource
<1>1. IInv => AsksConfiguredSource
  BY DEF IInv
<1> QED
  BY <1>1, Invariance, PTL

===============================================================================
