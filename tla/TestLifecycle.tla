---------------------------- MODULE TestLifecycle -----------------------------
(***************************************************************************)
(* The Locust process from on_init to on_quitting, with any number of test *)
(* runs started from the web UI in between: what each start rebuilds (the  *)
(* configuration, the message provider, the user pool), what lives on from *)
(* on_init (the registry, the webhook server), and what the users of a run *)
(* pick up in on_start. Settings are opaque except for the timeout, and for *)
(* what validate() says of those that only the environment gives.          *)
(*                                                                         *)
(* Left out: settings that nothing here depends on (wait times, question   *)
(* mode, strategy, LLM temperature), and reading the environment. The LLM  *)
(* deployment is taken to be one that is offered.                          *)
(***************************************************************************)
EXTENDS Integers

CONSTANTS
    Users,           \* the slots for simulated users
    None,            \* Python's None, and any option that is empty
    Env,             \* the settings the environment gives, a Config
    Timeouts, Hosts, Boards, Datasets, Names,   \* what can be entered in the UI
    MaxIndex         \* bound on the test users acquired from one pool

Providers == {"langsmith", "ai"}

\* LoadTestConfig, as far as anything below depends on it.
Configs ==
    [login : {Env.login},                          \* the settings of the login pass
     host : Hosts \union {Env.host},               \* sut_submit_url
     timeout : Timeouts \union {Env.timeout},      \* callback_timeout_s
     board : Boards \union {Env.board},            \* sut_switchboard_name
     provider : Providers,                         \* message_provider
     dataset : Datasets \union {Env.dataset},      \* langsmith_dataset_name
     names : Names \union {Env.names}]             \* user_given_name and the like

\* parsed_options: what the command line or the UI form holds.
Options ==
    [host : Hosts \union {None},
     timeout : Timeouts \union {None},
     board : Boards \union {None},
     provider : Providers,
     dataset : Datasets \union {None},
     names : Names \union {None}]

\* LangSmithExampleProvider and AIMessageProvider, as a user holds them.
Examples(d, l) == [kind |-> "langsmith", dataset |-> d, loaded |-> l]
AI == [kind |-> "ai", dataset |-> None, loaded |-> TRUE]
Sources == {Examples(d, l) : d \in Datasets \union {Env.dataset}, l \in BOOLEAN}

\* UserPool and TestUser.
AllNames == Names \union {Env.names}
Pools == [names : AllNames, next : Nat \ {0}]
Identities == [names : AllNames, index : Nat \ {0}]

ASSUME SettingsAssumption ==
    /\ Env.login \in BOOLEAN
    /\ Env.timeout \in Int /\ Timeouts \subseteq Int
    /\ None \notin Hosts
    /\ MaxIndex \in Nat

ASSUME NoneIsNoRecord ==
    /\ None \notin Configs
    /\ None \notin Sources \union {AI}
    /\ None \notin Pools
    /\ None \notin Identities

VARIABLES
    process,     \* "new", "up", "exited" or "quit"
    test,        \* "stopped" or "running"
    ui,          \* the options last applied
    config,      \* the global LoadTestConfig
    timeoutS,    \* timeout_s of the registry
    filter,      \* switchboard_name of the webhook server
    server,      \* what has become of the server's greenlet
    provider,    \* the global LangSmithExampleProvider
    llm,         \* whether the environment configures an LLM deployment
    aiProvider,  \* whether a global AIMessageProvider is set
    pool,        \* the global UserPool
    state,       \* state of each user
    userConfig,  \* self.config
    source,      \* self.provider or self.ai_provider
    identity     \* self.test_user

longLived == <<llm, timeoutS, filter, server>>
userVars == <<state, userConfig, source, identity>>
vars == <<process, test, ui, config, longLived, provider, aiProvider, pool, userVars>>

Init ==
    /\ process = "new"
    /\ test = "stopped"
    /\ ui = None
    /\ config = None
    /\ timeoutS = None
    /\ filter = None
    /\ server = "none"
    /\ provider = None
    /\ llm \in BOOLEAN
    /\ aiProvider = FALSE
    /\ pool = None
    /\ state = [u \in Users |-> "absent"]
    /\ userConfig = [u \in Users |-> None]
    /\ source = [u \in Users |-> None]
    /\ identity = [u \in Users |-> None]

-----------------------------------------------------------------------------
(* LoadTestConfig                                                          *)

\* An option that is set overrides the environment; one that is falsy in Python,
\* an empty text or a timeout of 0, cannot.
Override(option, env) == IF option \in {None, 0} THEN env ELSE option

FromEnvAndOptions(o) ==
    [login |-> Env.login,
     host |-> Override(o.host, Env.host),
     timeout |-> Override(o.timeout, Env.timeout),
     board |-> Override(o.board, Env.board),
     provider |-> o.provider,
     dataset |-> Override(o.dataset, Env.dataset),
     names |-> Override(o.names, Env.names)]

\* validate() reports nothing. The four checks of the login's settings have the
\* same result at every start, since no option changes these; a Host that is
\* emptied is missed if the environment has no submit URL.
Valid(c) ==
    /\ c.login
    /\ c.host # None
    /\ c.timeout > 0

-----------------------------------------------------------------------------
(* Message providers and the user pool.                                    *)

\* _init_message_provider. The provider that is not chosen stays as it was.
InitProvider(c) ==
    IF c.provider = "ai"
    THEN llm /\ aiProvider' = TRUE /\ UNCHANGED provider
    ELSE /\ provider' = Examples(c.dataset, TRUE)
         /\ UNCHANGED aiProvider

\* It raises without an LLM client, or when load() does.
InitProviderFails(c) ==
    /\ c.provider = "ai" => ~llm
    /\ UNCHANGED <<provider, aiProvider>>

\* Mutant: a global provider is handed out whatever its dataset is.
GetProviderMutant(dataset) ==
    IF provider = None THEN Examples(dataset, FALSE) ELSE provider

\* get_provider: a dataset that is not the global provider's gets a new
\* provider, which nobody has loaded.
GetProvider(dataset) ==
    IF provider = None \/ provider.dataset # dataset
    THEN Examples(dataset, FALSE) ELSE provider

\* Mutant: the old pool is reset and keeps the old configuration.
NewPoolMutant(c) ==
    [names |-> IF pool = None THEN c.names ELSE pool.names, next |-> 1]

\* Mutant: test users are numbered from zero.
NewPoolZeroMutant(c) == [names |-> c.names, next |-> 0]

\* A new pool for the configuration, numbering from one.
NewPool(c) == [names |-> c.names, next |-> 1]

\* Mutant: acquire() does not move on to the next index.
AcquireMutant(p) == p

\* acquire(), under the pool's lock.
Acquire(p) == [p EXCEPT !.next = @ + 1]

-----------------------------------------------------------------------------
(* on_init, on_test_start, on_quitting and the server's greenlet.          *)

OnInit(o) ==
    LET c == FromEnvAndOptions(o)
    IN  /\ process = "new"
        /\ Valid(c)
        /\ InitProvider(c)
        /\ process' = "up"
        /\ ui' = o
        /\ config' = c
        /\ pool' = NewPool(c)
        /\ timeoutS' = c.timeout
        /\ filter' = c.board
        /\ server' = "starting"
        /\ UNCHANGED <<test, llm, userVars>>

\* sys.exit(1): an invalid configuration, or no provider.
OnInitExits(o) ==
    LET c == FromEnvAndOptions(o)
    IN  /\ process = "new"
        /\ Valid(c) => InitProviderFails(c)
        /\ process' = "exited"
        /\ UNCHANGED <<test, ui, config, longLived, provider, aiProvider, pool, userVars>>

\* start() only spawns serve_forever(); the port is bound in that greenlet.
ServerBinds ==
    /\ server = "starting"
    /\ server' = "listening"
    /\ UNCHANGED <<process, test, ui, config, llm, timeoutS, filter, provider, aiProvider,
                   pool, userVars>>

\* The port is taken: the exception ends the greenlet and nothing else.
ServerBindFails ==
    /\ server = "starting"
    /\ server' = "failed"
    /\ UNCHANGED <<process, test, ui, config, llm, timeoutS, filter, provider, aiProvider,
                   pool, userVars>>

\* Mutant: what raises keeps the configuration from being applied.
OnTestStartMutant(o) ==
    LET c == FromEnvAndOptions(o)
    IN  /\ process = "up" /\ test = "stopped"
        /\ test' = "running"
        /\ ui' = o
        /\ \/ InitProvider(c) /\ config' = c
           \/ InitProviderFails(c) /\ UNCHANGED config
        /\ pool' = NewPool(config')
        /\ UNCHANGED <<process, longLived, userVars>>

\* A start from the UI. The configuration is not validated, and a provider that
\* cannot be re-initialised is only warned about.
OnTestStart(o) ==
    LET c == FromEnvAndOptions(o)
    IN  /\ process = "up" /\ test = "stopped"
        /\ test' = "running"
        /\ ui' = o
        /\ config' = c
        /\ InitProvider(c) \/ InitProviderFails(c)
        /\ pool' = NewPool(c)
        /\ UNCHANGED <<process, longLived, userVars>>

\* Locust stops all users.
TestStop ==
    /\ process = "up" /\ test = "running"
    /\ test' = "stopped"
    /\ state' = [u \in Users |-> "absent"]
    /\ userConfig' = [u \in Users |-> None]
    /\ source' = [u \in Users |-> None]
    /\ identity' = [u \in Users |-> None]
    /\ UNCHANGED <<process, ui, config, longLived, provider, aiProvider, pool>>

\* The server is stopped. (The drain and the clear() before it are in
\* CallbackCorrelation.)
OnQuitting ==
    /\ process = "up"
    /\ process' = "quit"
    /\ server' = "stopped"
    /\ UNCHANGED <<test, ui, config, llm, timeoutS, filter, provider, aiProvider, pool, userVars>>

-----------------------------------------------------------------------------
(* SutAsyncUser.on_start, up to the login.                                 *)

OnStart(u) ==
    /\ process = "up" /\ test = "running"
    /\ state[u] = "absent"
    /\ pool.next <= MaxIndex
    /\ userConfig' = [userConfig EXCEPT ![u] = config]
    /\ IF config.provider = "ai"
       THEN /\ source' = [source EXCEPT ![u] = IF aiProvider THEN AI ELSE None]
            /\ UNCHANGED provider
       ELSE /\ provider' = GetProvider(config.dataset)
            /\ source' = [source EXCEPT ![u] = GetProvider(config.dataset)]
    /\ IF Valid(config)
       THEN /\ state' = [state EXCEPT ![u] = "running"]
            /\ identity' = [identity EXCEPT ![u] = [names |-> pool.names, index |-> pool.next]]
            /\ pool' = Acquire(pool)
       ELSE /\ state' = [state EXCEPT ![u] = "failed"]
            /\ UNCHANGED <<identity, pool>>
    /\ UNCHANGED <<process, test, ui, config, longLived, aiProvider>>

\* Locust stops one user, and may spawn another in its place.
UserStops(u) ==
    /\ process = "up"
    /\ state[u] # "absent"
    /\ state' = [state EXCEPT ![u] = "absent"]
    /\ userConfig' = [userConfig EXCEPT ![u] = None]
    /\ source' = [source EXCEPT ![u] = None]
    /\ identity' = [identity EXCEPT ![u] = None]
    /\ UNCHANGED <<process, test, ui, config, longLived, provider, aiProvider, pool>>

Next ==
    \/ \E o \in Options : OnInit(o) \/ OnInitExits(o) \/ OnTestStart(o)
    \/ ServerBinds \/ ServerBindFails
    \/ TestStop \/ OnQuitting
    \/ \E u \in Users : OnStart(u) \/ UserStops(u)

Spec == Init /\ [][Next]_vars

-----------------------------------------------------------------------------
(* Properties.                                                             *)

Running(u) == state[u] = "running"

\* Type invariant.
TypeOK ==
    /\ process \in {"new", "up", "exited", "quit"}
    /\ test \in {"stopped", "running"}
    /\ ui \in Options \union {None}
    /\ config \in Configs \union {None}
    /\ timeoutS \in Timeouts \union {Env.timeout, None}
    /\ filter \in Boards \union {Env.board, None}
    /\ server \in {"none", "starting", "listening", "failed", "stopped"}
    /\ provider \in Sources \union {None}
    /\ llm \in BOOLEAN
    /\ aiProvider \in BOOLEAN
    /\ pool \in Pools \union {None}
    /\ state \in [Users -> {"absent", "running", "failed"}]
    /\ userConfig \in [Users -> Configs \union {None}]
    /\ source \in [Users -> Sources \union {AI, None}]
    /\ identity \in [Users -> Identities \union {None}]

\* What the UI said last is what the running users have, even if their provider
\* could not be re-initialised.
UsersFollowTheUI ==
    \A u \in Users : Running(u) => userConfig[u] = FromEnvAndOptions(ui)

\* Test users carry the names of the configuration they run with, not those of
\* an earlier run.
IdentityFollowsConfig ==
    \A u \in Users : Running(u) => identity[u].names = userConfig[u].names

\* No two users that run at the same time log in as the same test user, however
\* users come and go.
DistinctIdentities ==
    \A u, v \in Users : Running(u) /\ Running(v) /\ u # v => identity[u] # identity[v]

\* A user never asks another source than the one it is configured for: after a
\* failed re-initialisation it may have nothing to ask, but it does not go on
\* with the questions of an earlier run's dataset.
AsksConfiguredSource ==
    \A u \in Users : Running(u) /\ source[u] # None =>
        /\ source[u].kind = userConfig[u].provider
        /\ source[u].kind = "langsmith" => source[u].dataset = userConfig[u].dataset

\* tech-report.md:211 calls the configuration "the single source of truth at
\* runtime", "rebuilt [...] each time a test starts from the UI", and line 133
\* has the cleanup expire entries after "2x the configured timeout".
LongLivedPartsFollowConfig ==
    test = "running" => timeoutS = config.timeout /\ filter = config.board

\* on_init means to exit when the server cannot be started (locustfile.py:208-210),
\* so that no test runs without a webhook to call back.
NoTestWithoutServer ==
    process = "up" /\ test = "running" => server # "failed"

===============================================================================
