------------------------------ MODULE MCAgents ------------------------------
(***************************************************************************)
(* What an agent's turn stands on: routing, the loop, the sessions with    *)
(* their store, the registry of tools, MCP servers and the model fallback. *)
(*                                                                         *)
(* The components share no variable (what one takes from another is said   *)
(* in the head of its module), so the steps of one of them, chosen at the  *)
(* start, tell all there is: `part` names it, the others stay where they   *)
(* began.                                                                  *)
(***************************************************************************)
EXTENDS FallbackChain, TLC

CONSTANTS
    p1, p2, MainAgent, ProviderFails, BusCap, LoopMaxMsgs, LoopMaxCalls,
    MaxTasks, LoopMaxGen, ToolNames, MainTurn, TTL, MaxResults,
    ToolsMaxIterations, NoEngine, MCPServers, MCPCallers, MCPMaxCalls,
    StoreMaxMsgs, Summaries, NoSummary, Keys, BootMaxMsgs, WritesFail,
    RenamesFail, TurnMaxMsgs, TurnMaxIterations, MaxToolCalls, Threshold,
    MaxSummarizationMessages, CascadeConfigs, CascadeInputs, SessionConfigs,
    SessionInputs, MaxRouted, Names, Lower

\* The fallback chain: the kinds of errors its classifier tells apart, and two
\* candidates of two providers.
Err(kind, image, status, says) == [kind |-> kind, image |-> image, status |-> status, says |-> says]

MCErrors ==
    { Err("other", FALSE, 402, {}),            \* billing
      Err("other", FALSE, 429, {"rate_limit"}),
      Err("other", TRUE, 500, {}),             \* an image that is too large
      Err("other", FALSE, 0, {}) }             \* unclassified

Mixed == <<p1, p2>>

\* The tables of the cooldowns agree with the formulas in the code.
LOCAL Least(a, b) == IF a < b THEN a ELSE b
ASSUME FormulasAssumption ==
    \A n \in 1..8 :
        /\ calculateStandardCooldown(n) = Least(60, 5 ^ Least(n - 1, 3))
        /\ calculateBillingCooldown(n) = Least(1440, 300 * 2 ^ Least(n - 1, 10))

\* Routing: what configurations and messages are made of.
Lowered ==
    [s \in {"Alpha", "Bot", "Ann"} |->
        CASE s = "Alpha" -> "alpha" [] s = "Bot" -> "bot" [] s = "Ann" -> "ann"]
Texts ==
    {"", "*", "agent", "main", "default", "direct", "group", "channel", "qq", "irc", "Bot", "bot", "x", "y",
     "g", "t", "Alpha", "alpha", "beta", "ghost", "Ann", "ann"}
Nobody == << >>
Dm(id) == [kind |-> "direct", id |-> id]
Group(id) == [kind |-> "group", id |-> id]
Agent(id, d) == [id |-> id, default |-> d]

NoBinding == [channel |-> "qq", account |-> "", peer |-> Nobody, guild |-> "", team |-> "", agent |-> ""]

\* The cascade: every pair of bindings, to agents that tell them apart; the
\* second may be for another channel.
Bindings(channels, a) ==
    [channel : channels, account : {"", "*", "Bot"}, peer : {Nobody, Dm(<<"x">>)},
     guild : {"", "g"}, team : {"", "t"}, agent : {a}]
Pairs == {<<a, b>> : a \in Bindings({"qq"}, "Alpha"), b \in Bindings({"qq", "irc"}, "beta")}
TwoAgents == <<Agent("main", FALSE), Agent("alpha", FALSE), Agent("beta", FALSE)>>
MCCascadeConfigs ==
    [agents : {TwoAgents}, bindings : Pairs, dmScope : {"main"}, links : {[n \in {} |-> {}]}]
MCCascadeInputs ==
    [channel : {"qq"}, account : {"", "bot"}, peer : {Nobody, Dm(<<"x">>), Group(<<"x">>)},
     parent : {Nobody, Dm(<<"x">>)}, guild : {"", "g"}, team : {"", "t"}]

\* Sessions: every scope, links with and without the platform, unknown agents.
SessionBindings ==
    {<<>>, <<[NoBinding EXCEPT !.agent = "ghost"]>>, <<[NoBinding EXCEPT !.agent = "beta", !.peer = Dm(<<"x">>)]>>}
SessionLinks ==
    {[n \in {} |-> {}], [n \in {"ann"} |-> {<<"x">>, <<"irc", "y">>}]}
MCSessionConfigs ==
    [agents : {TwoAgents, <<Agent("Alpha", FALSE), Agent("beta", TRUE)>>}, bindings : SessionBindings,
     dmScope : {"main", "per-peer", "per-channel-peer", "per-account-channel-peer"}, links : SessionLinks]
    \cup [agents : {<<>>}, bindings : {<<>>}, dmScope : {"main"}, links : SessionLinks]
MCSessionInputs ==
    [channel : {"qq", "irc"}, account : {"", "bot"},
     peer : {Nobody, Dm(<<"x">>), Dm(<<"irc", "x">>), Dm(<<"y">>), Group(<<"x">>),
             [kind |-> "channel", id |-> <<"x">>]},
     parent : {Nobody}, guild : {""}, team : {""}]

VARIABLES
    part,    \* the component whose steps are taken, chosen at the start
    \* AgentLoop
    inbound, arrived, gen, closing, loopClosed, sentInRound, loopPc, msg,
    tool, loopCalls, sideDone, loopTask, toldByTool, answered, ended, jobTold,
    taskTold, running, cancelled,
    \* ToolDiscovery
    kind, ttl, version, engine, cacheVersion, toolsPc, toolsIteration,
    offered, pending, found, promised, unlocked, missed,
    \* MCPManager
    init, discovery, conn, servers, open, manager, mcpClosed, wg, mcpCall,
    mcpCalls, closer, early,
    \* Routing
    cfg, routed, routeTask, reported,
    \* JSONLStore
    storeLines, storeTorn, storeSkip, storeCount, storeSummary, storePc,
    storeArg, storeBefore, storeAdded, storeAcked, storeRevived,
    \* JSONLStore
    tornLines, tornTorn, tornSkip, tornCount, tornSummary, tornPc, tornArg,
    tornBefore, tornAdded, tornAcked, tornRevived,
    \* SessionStartup
    legacy, jsonl, meta, mem, backend, todo, step, msgs, bootAcked, migrated,
    damaged,
    \* AgentSession
    hist, turnSummary, stored, turnPc, user, turnIteration, retry, turnCall,
    done, newHistory, summ, covers, newSummary, appended, clearedAt

\* Messages for one agent that may spawn a task, reloads in the middle of their rounds.
Loop == INSTANCE AgentLoop WITH
    Agents <- {MainAgent}, DefaultAgent <- MainAgent, Targets <- {"own"},
    SideKinds <- {}, ProviderFails <- ProviderFails, BusCap <- BusCap,
    MaxMsgs <- LoopMaxMsgs, MaxCalls <- LoopMaxCalls, MaxTasks <- MaxTasks,
    MaxGen <- LoopMaxGen, closed <- loopClosed, pc <- loopPc,
    calls <- loopCalls, task <- loopTask

\* Any tools and TTL, one turn.
Discovery == INSTANCE ToolDiscovery WITH
    Names <- ToolNames, Turns <- {MainTurn}, TTL <- TTL,
    MaxResults <- MaxResults, MaxIterations <- ToolsMaxIterations,
    NoEngine <- NoEngine, pc <- toolsPc, iteration <- toolsIteration

\* Any servers and callers.
MCP == INSTANCE MCPManager WITH
    Servers <- MCPServers, Callers <- MCPCallers, MaxCalls <- MCPMaxCalls,
    closed <- mcpClosed, call <- mcpCall, calls <- mcpCalls

\* Any configurations, one message.
Cascade == INSTANCE Routing WITH
    Configs <- CascadeConfigs, Inputs <- CascadeInputs, MaxMessages <- 1,
    task <- routeTask

\* Any configurations that tell names apart, any messages.
Scopes == INSTANCE Routing WITH
    Configs <- SessionConfigs, Inputs <- SessionInputs, MaxMessages <- MaxRouted,
    task <- routeTask

\* The store of the sessions, when an append is whole or not at all.
Store == INSTANCE JSONLStore WITH
    MaxMsgs <- StoreMaxMsgs, Summaries <- Summaries, NoSummary <- NoSummary,
    TornWrites <- FALSE, lines <- storeLines, torn <- storeTorn,
    skip <- storeSkip, count <- storeCount, summary <- storeSummary,
    pc <- storePc, arg <- storeArg, before <- storeBefore,
    added <- storeAdded, acked <- storeAcked, revived <- storeRevived

\* The store when a crash or a full disk may cut an append short.
Torn == INSTANCE JSONLStore WITH
    MaxMsgs <- StoreMaxMsgs, Summaries <- Summaries, NoSummary <- NoSummary,
    TornWrites <- TRUE, lines <- tornLines, torn <- tornTorn,
    skip <- tornSkip, count <- tornCount, summary <- tornSummary,
    pc <- tornPc, arg <- tornArg, before <- tornBefore, added <- tornAdded,
    acked <- tornAcked, revived <- tornRevived

\* Any sessions, writes and renames that may fail.
Startup == INSTANCE SessionStartup WITH
    Keys <- Keys, MaxMsgs <- BootMaxMsgs, WritesFail <- WritesFail,
    RenamesFail <- RenamesFail, acked <- bootAcked

\* Any number of stored messages: summaries, compression, /clear, crashes.
Turns == INSTANCE AgentSession WITH
    MaxMsgs <- TurnMaxMsgs, MaxIterations <- TurnMaxIterations,
    summary <- turnSummary, pc <- turnPc, iteration <- turnIteration,
    call <- turnCall

ASSUME InstancesAssumption ==
    /\ Loop!ConstantsAssumption
    /\ Discovery!ConstantsAssumption
    /\ MCP!ConstantsAssumption
    /\ Cascade!ConstantsAssumption
    /\ Scopes!ConstantsAssumption /\ Scopes!NamesAssumption
    /\ Store!ConstantsAssumption
    /\ Torn!ConstantsAssumption
    /\ Startup!ConstantsAssumption
    /\ Turns!ConstantsAssumption

loopVars ==
    <<inbound, arrived, gen, closing, loopClosed, sentInRound, loopPc, msg,
      tool, loopCalls, sideDone, loopTask, toldByTool, answered, ended,
      jobTold, taskTold, running, cancelled>>

toolsVars ==
    <<kind, ttl, version, engine, cacheVersion, toolsPc, toolsIteration,
      offered, pending, found, promised, unlocked, missed>>

mcpVars ==
    <<init, discovery, conn, servers, open, manager, mcpClosed, wg, mcpCall,
      mcpCalls, closer, early>>

routeVars ==
    <<cfg, routed, routeTask, reported>>

storeVars ==
    <<storeLines, storeTorn, storeSkip, storeCount, storeSummary, storePc,
      storeArg, storeBefore, storeAdded, storeAcked, storeRevived>>

tornVars ==
    <<tornLines, tornTorn, tornSkip, tornCount, tornSummary, tornPc, tornArg,
      tornBefore, tornAdded, tornAcked, tornRevived>>

bootVars ==
    <<legacy, jsonl, meta, mem, backend, todo, step, msgs, bootAcked,
      migrated, damaged>>

turnVars ==
    <<hist, turnSummary, stored, turnPc, user, turnIteration, retry, turnCall,
      done, newHistory, summ, covers, newSummary, appended, clearedAt>>

Parts == {"fallback", "loop", "discovery", "mcp", "cascade", "scopes", "store", "torn", "startup", "turns"}

allVars == <<part, vars, loopVars, toolsVars, mcpVars, routeVars, storeVars, tornVars, bootVars, turnVars>>

MCInit ==
    /\ part \in Parts
    /\ Init
    /\ Loop!Init
    /\ Discovery!Init
    /\ MCP!Init
    /\ IF part = "scopes" THEN Scopes!Init ELSE Cascade!Init
    /\ Store!Init
    /\ Torn!Init
    /\ Startup!Init
    /\ Turns!Init
    /\ part # "mcp" => ~discovery   \* the others start in one state
    /\ part \notin {"cascade", "scopes"} => cfg = CHOOSE c \in CascadeConfigs : TRUE
    /\ part # "startup" => \A k \in DOMAIN legacy : legacy[k] = Startup!NoFile

FallbackRuns ==
    part = "fallback" /\ Next /\ UNCHANGED <<part, loopVars, toolsVars, mcpVars, routeVars, storeVars, tornVars, bootVars, turnVars>>

LoopRuns ==
    part = "loop" /\ Loop!Next /\ UNCHANGED <<part, vars, toolsVars, mcpVars, routeVars, storeVars, tornVars, bootVars, turnVars>>

DiscoveryRuns ==
    part = "discovery" /\ Discovery!Next /\ UNCHANGED <<part, vars, loopVars, mcpVars, routeVars, storeVars, tornVars, bootVars, turnVars>>

McpRuns ==
    part = "mcp" /\ MCP!Next /\ UNCHANGED <<part, vars, loopVars, toolsVars, routeVars, storeVars, tornVars, bootVars, turnVars>>

CascadeRuns ==
    part = "cascade" /\ Cascade!Next /\ UNCHANGED <<part, vars, loopVars, toolsVars, mcpVars, storeVars, tornVars, bootVars, turnVars>>

ScopesRuns ==
    part = "scopes" /\ Scopes!Next /\ UNCHANGED <<part, vars, loopVars, toolsVars, mcpVars, storeVars, tornVars, bootVars, turnVars>>

StoreRuns ==
    part = "store" /\ Store!Next /\ UNCHANGED <<part, vars, loopVars, toolsVars, mcpVars, routeVars, tornVars, bootVars, turnVars>>

TornRuns ==
    part = "torn" /\ Torn!Next /\ UNCHANGED <<part, vars, loopVars, toolsVars, mcpVars, routeVars, storeVars, bootVars, turnVars>>

StartupRuns ==
    part = "startup" /\ Startup!Next /\ UNCHANGED <<part, vars, loopVars, toolsVars, mcpVars, routeVars, storeVars, tornVars, turnVars>>

TurnsRuns ==
    part = "turns" /\ Turns!Next /\ UNCHANGED <<part, vars, loopVars, toolsVars, mcpVars, routeVars, storeVars, tornVars, bootVars>>

MCNext == FallbackRuns \/ LoopRuns \/ DiscoveryRuns \/ McpRuns \/ CascadeRuns \/ ScopesRuns \/ StoreRuns \/ TornRuns \/ StartupRuns \/ TurnsRuns

MCSpec == MCInit /\ [][MCNext]_allVars

\* Members of these sets differ in nothing but their names.
MCSymmetry == Permutations(Callers)

-----------------------------------------------------------------------------
\* Every user is told something, reloads or not, and until the first reload
\* exactly once: by the message tool or by the answer (NotLost, AnsweredOnce).
LoopInv == part = "loop" => Loop!TypeOK /\ Loop!NotLost /\ (gen = 1 => Loop!AnsweredOnce)

\* A tool the model is offered can be called, and the search engine knows the
\* tools of the registry, although both are cached and unlocked tools expire.
\* Closing the MCP servers takes no session from a call in flight and leaves none
\* open.
ToolsInv ==
    /\ part = "discovery" => /\ Discovery!TypeOK
                             /\ Discovery!OfferedIsCallable
                             /\ Discovery!EngineIsCurrent
    /\ part = "mcp" => MCP!TypeOK /\ MCP!CloseIsOrderly

\* The agent of a message is that of its best binding, first of those in file
\* order; one conversation, one session, served by the agent it is named for.
RoutingInv ==
    /\ part = "cascade" => Cascade!TypeOK /\ Cascade!CascadeFollowed
    /\ part = "scopes" => Scopes!TypeOK /\ Scopes!SessionsApart /\ Scopes!ServedByItsAgent

\* The offset of the store stays inside the file, with whole and with torn
\* appends (SkipWithinFile).
StoreInv ==
    /\ part = "store" => Store!TypeOK /\ Store!SkipWithinFile
    /\ part = "torn" => Torn!TypeOK /\ Torn!SkipWithinFile

\* With whole appends the store implements the abstract one (SessionStore).
ImplementsStore == Store!ImplementsStore

\* A running agent sees every session as it was stored, through crashes,
\* interrupted migrations and restarts.
StartupInv == part = "startup" => Startup!TypeOK /\ Startup!HistoryKept

\* The provider only sees well-formed histories, whatever summarizer,
\* compression, /clear and crashes left of them.
TurnsInv == part = "turns" => Turns!TypeOK /\ Turns!ProviderSeesWellFormed

\* History is given up on purpose only: also with torn appends nothing but
\* TruncateHistory and SetHistory removes what a reader could get, and the
\* summarizer forgets unsummarized messages only in exchange for those that came
\* while it waited for the model.
GivenUpOnPurpose == Torn!OnlyRemovalRemoves /\ Turns!UnsummarizedBounded

=============================================================================
