------------------------------ MODULE Gateway -------------------------------
(***************************************************************************)
(* The gateway process (cmd/picoclaw/internal/gateway/helpers.go): a main  *)
(* loop that waits for a signal or for a new configuration, the watcher    *)
(* that polls the configuration file, and the reload that stops every      *)
(* service, replaces provider and registry, and starts the services again. *)
(*                                                                         *)
(* A version of the file is a number.  What it holds is one of             *)
(*   "ok"       it loads, validates, and a provider can be made of it      *)
(*   "invalid"  LoadConfig or ValidateModelList refuses it                 *)
(*   "refused"  it validates but CreateProvider fails                      *)
(***************************************************************************)
EXTENDS Naturals

CONSTANTS
    MaxVersions,    \* bound on versions of the file; 1 is the one at startup
    MayFail         \* whether the swap and the start of a service can fail

ConstantsAssumption == MaxVersions \in Nat \ {0} /\ MayFail \in BOOLEAN

Versions == 1..MaxVersions

\* In the order restartServices starts them.
Services == <<"cron", "heartbeat", "media", "channels", "devices">>
AllServices == {Services[i] : i \in DOMAIN Services}

\* The services that run under the context they are started with.
UnderContext == {"channels", "devices"}

\* The services whose failure to start ends restartServices with an error.
Essential == {"cron", "heartbeat", "channels"}

VARIABLES
    file, content,      \* newest version, and what each version holds
    lastModTime,        \* the version the watcher takes as known
    seen, watch,        \* the version of this tick, "tick" or "debounce"
    configChan,         \* the version in the channel, or 0
    main,               \* what the main loop does
    newCfg,             \* the version being applied
    cfg,                \* the version agents and services use
    started,            \* services started and not stopped
    dead,               \* started services whose context is cancelled
    next,               \* position in Services during a restart
    signal,             \* sigChan holds a signal
    skipped, rejected   \* history: versions not sent, and refused by a reload

watchVars == <<lastModTime, seen, watch, configChan, skipped>>
mainVars == <<main, newCfg, cfg, started, dead, next, rejected>>
vars == <<file, content, watchVars, mainVars, signal>>

TypeOK ==
    /\ file \in Versions
    /\ content \in [Versions -> {"ok", "invalid", "refused"}]
    /\ lastModTime \in 1..file /\ seen \in 1..file
    /\ watch \in {"tick", "debounce"}
    /\ configChan \in 0..file
    /\ main \in {"loop", "stop", "create", "swap", "restart", "exited"}
    /\ newCfg \in 1..file /\ cfg \in 1..file
    /\ started \subseteq AllServices /\ dead \subseteq started
    /\ next \in 1..6
    /\ signal \in BOOLEAN
    /\ skipped \subseteq Versions /\ rejected \subseteq Versions

\* gatewayCmd up to its loop: setupAndStartServices uses context.Background()
Init ==
    /\ file = 1 /\ content = [v \in Versions |-> "ok"]
    /\ lastModTime = 1 /\ seen = 1 /\ watch = "tick" /\ configChan = 0
    /\ main = "loop" /\ newCfg = 1 /\ cfg = 1
    /\ started = AllServices /\ dead = {}
    /\ next = 1 /\ signal = FALSE
    /\ skipped = {} /\ rejected = {}

-----------------------------------------------------------------------------
(* The outside                                                             *)

Edit(c) ==
    /\ file < MaxVersions
    /\ file' = file + 1
    /\ content' = [content EXCEPT ![file'] = c]
    /\ UNCHANGED <<watchVars, mainVars, signal>>

Interrupt ==
    /\ main # "exited" /\ ~signal
    /\ signal' = TRUE
    /\ UNCHANGED <<file, content, watchVars, mainVars>>

-----------------------------------------------------------------------------
(* setupConfigWatcherPolling                                               *)

Tick ==
    /\ main # "exited" /\ watch = "tick" /\ lastModTime # file
    /\ seen' = file
    /\ watch' = "debounce"
    /\ UNCHANGED <<file, content, lastModTime, configChan, skipped, mainVars, signal>>

\* The file is read after the debounce; a bad one is tried again next tick.
LoadInvalid ==
    /\ watch = "debounce"
    /\ content[file] = "invalid"
    /\ watch' = "tick"
    /\ UNCHANGED <<file, content, lastModTime, seen, configChan, skipped, mainVars, signal>>

\* Mutant: the version that was read is taken as known, and waits for a slot
LoadAfterwards ==
    /\ watch = "debounce"
    /\ content[file] # "invalid"
    /\ watch' = "tick"
    /\ lastModTime' = file
    /\ configChan' = IF configChan = 0 THEN seen ELSE configChan
    /\ skipped' = IF configChan = 0 THEN skipped ELSE skipped \cup {file}
    /\ UNCHANGED <<file, content, seen, mainVars, signal>>

\* A good one is sent if the channel has room; in any case the version seen
\* before the debounce counts as known.
LoadValid ==
    /\ watch = "debounce"
    /\ content[file] # "invalid"
    /\ watch' = "tick"
    /\ lastModTime' = seen
    /\ configChan' = IF configChan = 0 THEN file ELSE configChan
    /\ skipped' = IF configChan = 0 THEN skipped ELSE skipped \cup {file}
    /\ UNCHANGED <<file, content, seen, mainVars, signal>>

-----------------------------------------------------------------------------
(* The main loop and handleConfigReload                                    *)

TakeConfig ==
    /\ main = "loop" /\ configChan # 0
    /\ newCfg' = configChan
    /\ configChan' = 0
    /\ main' = "stop"
    /\ UNCHANGED <<file, content, lastModTime, seen, watch, skipped, cfg, started, dead,
                   next, rejected, signal>>

\* Every service is stopped, the old configuration's and the last reload's.
stopAndCleanupServices ==
    /\ main = "stop"
    /\ started' = {} /\ dead' = {}
    /\ main' = "create"
    /\ UNCHANGED <<file, content, watchVars, newCfg, cfg, next, rejected, signal>>

\* Mutant: the error is logged and the reload goes on
CreateProviderAnyway ==
    /\ main = "create"
    /\ main' = "swap"
    /\ next' = 1
    /\ UNCHANGED <<file, content, watchVars, newCfg, cfg, started, dead, rejected, signal>>

\* Without a provider the services are started again with the old configuration.
CreateProvider ==
    /\ main = "create"
    /\ next' = 1
    /\ IF content[newCfg] = "refused"
       THEN main' = "restart" /\ rejected' = rejected \cup {newCfg}
       ELSE main' = "swap" /\ rejected' = rejected
    /\ UNCHANGED <<file, content, watchVars, newCfg, cfg, started, dead, signal>>

\* ReloadProviderAndConfig
Swap(ok) ==
    /\ main = "swap"
    /\ ok \/ MayFail
    /\ cfg' = IF ok THEN newCfg ELSE cfg
    /\ rejected' = IF ok THEN rejected ELSE rejected \cup {newCfg}
    /\ main' = "restart"
    /\ UNCHANGED <<file, content, watchVars, newCfg, started, dead, next, signal>>

\* restartServices: one service after the other
StartService(ok) ==
    /\ main = "restart" /\ next \in DOMAIN Services
    /\ ok \/ (MayFail /\ Services[next] # "media")
    /\ started' = IF ok THEN started \cup {Services[next]} ELSE started
    /\ next' = IF ok \/ Services[next] \notin Essential THEN next + 1 ELSE 6
    /\ UNCHANGED <<file, content, watchVars, main, newCfg, cfg, dead, rejected, signal>>

\* restartServices returns, and its deferred cancel ends the context.
RestartReturns ==
    /\ main = "restart" /\ next = 6
    /\ dead' = started \cap UnderContext
    /\ main' = "loop"
    /\ UNCHANGED <<file, content, watchVars, newCfg, cfg, started, next, rejected, signal>>

shutdownGateway ==
    /\ main = "loop" /\ signal
    /\ started' = {} /\ dead' = {}
    /\ main' = "exited"
    /\ UNCHANGED <<file, content, watchVars, newCfg, cfg, next, rejected, signal>>

-----------------------------------------------------------------------------

Watcher == Tick \/ LoadInvalid \/ LoadValid

Reload ==
    \/ stopAndCleanupServices
    \/ CreateProvider
    \/ \E ok \in BOOLEAN : Swap(ok)
    \/ \E ok \in BOOLEAN : StartService(ok)
    \/ RestartReturns

Next ==
    \/ \E c \in {"ok", "invalid", "refused"} : Edit(c)
    \/ Interrupt
    \/ Tick
    \/ LoadInvalid
    \/ LoadValid
    \/ TakeConfig
    \/ Reload
    \/ shutdownGateway

Spec == Init /\ [][Next]_vars

\* The ticker ticks, each step of a reload has a timeout, and Go's select is
\* fair to two ready channels.
Fairness ==
    /\ WF_vars(Watcher) /\ WF_vars(Reload)
    /\ WF_vars(TakeConfig) /\ SF_vars(shutdownGateway)

FairSpec == Spec /\ Fairness

-----------------------------------------------------------------------------

\* "Using previous valid config" (helpers.go:551): whatever is written to the
\* file, and whenever it is read, agents and services run with a version that
\* validates and that a provider could be made of.
ConfigInForceIsGood == content[cfg] = "ok"

\* Reloads apply versions in the order they were written.
NeverOlder == [][cfg' >= cfg]_vars

\* A good version that stays in the file comes into force, unless the watcher
\* skipped it, a reload that failed refused it, or the process is stopped.
ComesIntoForce ==
    \A v \in Versions :
        (file = v /\ content[v] = "ok") ~>
            (cfg = v \/ file # v \/ v \in skipped \cup rejected \/ signal)

\* The same of every good version: what the watcher is there for.
EveryEditComesIntoForce ==
    \A v \in Versions :
        (file = v /\ content[v] = "ok") ~> (cfg = v \/ file # v \/ v \in rejected \/ signal)

\* A reload, whether it succeeds or fails, ends with every service started.
ServicesComeBack == (main = "stop") ~> (main \in {"loop", "exited"} /\ started = AllServices)

\* An interrupt ends the process, in the middle of a reload too.
InterruptEnds == signal ~> (main = "exited")

\* "Provider, configuration, and services reloaded successfully": when the main
\* loop waits again, every service that was started still runs.
ServicesAreAlive == main = "loop" => dead = {}

=============================================================================
