--------------------------- MODULE ToolDiscovery ----------------------------
(***************************************************************************)
(* The tool registry of an agent (pkg/tools/registry.go), the search tools *)
(* that unlock hidden tools for a while (search_tool.go), and the turns    *)
(* that use them (runLLMIteration): one registry, several turns when jobs  *)
(* or heartbeats run beside the chat.  The search tools themselves are     *)
(* core tools and not among Names.                                         *)
(***************************************************************************)
EXTENDS Naturals, FiniteSets

CONSTANTS
    Names,          \* tools other than the search tools
    Turns,          \* turns that may run at the same time
    TTL,            \* tools.mcp.discovery.ttl
    MaxResults,     \* maxSearchResults
    MaxIterations,
    NoEngine

Searches == {"regex", "bm25"}

ConstantsAssumption ==
    /\ {TTL, MaxResults, MaxIterations} \subseteq Nat \ {0}
    /\ IsFiniteSet(Names) /\ Names \cap Searches = {}

VARIABLES
    kind,           \* [Names -> {"none", "core", "hidden"}]
    ttl,            \* [Names -> 0..TTL]
    version,
    engine,         \* cachedEngine: the tools it was built from, or NoEngine
    cacheVersion,
    pc,             \* [Turns -> {"idle", "request", "llm", "exec"}]
    iteration,
    offered,        \* tools in the definitions of the current request
    pending,        \* calls not yet executed
    found,          \* [Turns -> [Searches -> results not yet promoted]]
    promised,       \* tools the results of this iteration call unlocked
    unlocked,       \* tools unlocked so far in this turn
    missed          \* calls of offered tools that were not found

registryVars == <<kind, ttl, version>>
cacheVars == <<engine, cacheVersion>>
turnVars == <<pc, iteration, offered, pending, found, promised, unlocked, missed>>
vars == <<registryVars, cacheVars, turnVars>>

TypeOK ==
    /\ kind \in [Names -> {"none", "core", "hidden"}]
    /\ ttl \in [Names -> 0..TTL]
    /\ version \in 0..Cardinality(Names)
    /\ engine \in ((SUBSET Names) \ {{}}) \cup {NoEngine}
    /\ cacheVersion \in 0..version
    /\ pc \in [Turns -> {"idle", "request", "llm", "exec"}]
    /\ iteration \in [Turns -> 0..MaxIterations]
    /\ offered \in [Turns -> SUBSET Names]
    /\ pending \in [Turns -> SUBSET (Names \cup Searches)]
    /\ found \in [Turns -> [Searches -> SUBSET Names]]
    /\ promised \in [Turns -> SUBSET Names]
    /\ unlocked \in [Turns -> SUBSET Names]
    /\ missed \subseteq Names

Init ==
    /\ kind = [n \in Names |-> "none"]
    /\ ttl = [n \in Names |-> 0]
    /\ version = 0
    /\ engine = NoEngine
    /\ cacheVersion = 0
    /\ pc = [t \in Turns |-> "idle"]
    /\ iteration = [t \in Turns |-> 0]
    /\ offered = [t \in Turns |-> {}]
    /\ pending = [t \in Turns |-> {}]
    /\ found = [t \in Turns |-> [q \in Searches |-> {}]]
    /\ promised = [t \in Turns |-> {}]
    /\ unlocked = [t \in Turns |-> {}]
    /\ missed = {}

Hidden == {n \in Names : kind[n] = "hidden"}

Visible == {n \in Names : kind[n] = "core" \/ (kind[n] = "hidden" /\ ttl[n] > 0)}

-----------------------------------------------------------------------------
(* Registry                                                                *)

\* Register and RegisterHidden, for new names.
Register(n, k) ==
    /\ kind[n] = "none"
    /\ kind' = [kind EXCEPT ![n] = k]
    /\ ttl' = [ttl EXCEPT ![n] = 0]
    /\ version' = version + 1
    /\ UNCHANGED <<cacheVars, turnVars>>

PromoteTools(S) ==
    ttl' = [n \in Names |-> IF n \in S \cap Hidden THEN TTL ELSE ttl[n]]

TickTTL ==
    ttl' = [n \in Names |-> IF kind[n] = "hidden" /\ ttl[n] > 0 THEN ttl[n] - 1 ELSE ttl[n]]

-----------------------------------------------------------------------------
(* A turn                                                                  *)

BeginTurn(t) ==
    /\ pc[t] = "idle"
    /\ pc' = [pc EXCEPT ![t] = "request"]
    /\ iteration' = [iteration EXCEPT ![t] = 1]
    /\ promised' = [promised EXCEPT ![t] = {}]
    /\ unlocked' = [unlocked EXCEPT ![t] = {}]
    /\ UNCHANGED <<registryVars, cacheVars, offered, pending, found, missed>>

\* ToProviderDefs
Request(t) ==
    /\ pc[t] = "request"
    /\ offered' = [offered EXCEPT ![t] = Visible]
    /\ promised' = [promised EXCEPT ![t] = {}]
    /\ pc' = [pc EXCEPT ![t] = "llm"]
    /\ UNCHANGED <<registryVars, cacheVars, iteration, pending, found, unlocked, missed>>

\* Mutant: the tick comes before the calls
RespondTicks(t, calls) ==
    /\ pc[t] = "llm"
    /\ calls \subseteq offered[t] \cup Searches
    /\ calls # {}
    /\ TickTTL
    /\ pending' = [pending EXCEPT ![t] = calls]
    /\ pc' = [pc EXCEPT ![t] = "exec"]
    /\ UNCHANGED <<kind, version, cacheVars, iteration, offered, found, promised, unlocked, missed>>

\* The model calls tools it was offered, or searches.
Respond(t, calls) ==
    /\ pc[t] = "llm"
    /\ calls \subseteq offered[t] \cup Searches
    /\ calls # {}
    /\ pending' = [pending EXCEPT ![t] = calls]
    /\ pc' = [pc EXCEPT ![t] = "exec"]
    /\ UNCHANGED <<registryVars, cacheVars, iteration, offered, found, promised, unlocked, missed>>

\* The answer, or an error, ends the turn.
Answer(t) ==
    /\ pc[t] = "llm"
    /\ pc' = [pc EXCEPT ![t] = "idle"]
    /\ offered' = [offered EXCEPT ![t] = {}]
    /\ UNCHANGED <<registryVars, cacheVars, iteration, pending, found, promised, unlocked, missed>>

\* ExecuteWithContext: Get
Execute(t, n) ==
    /\ pc[t] = "exec"
    /\ n \in pending[t] \cap Names
    /\ pending' = [pending EXCEPT ![t] = @ \ {n}]
    /\ missed' = IF n \in Visible THEN missed ELSE missed \cup {n}
    /\ UNCHANGED <<registryVars, cacheVars, pc, iteration, offered, found, promised, unlocked>>

\* SearchRegex, under the registry's lock: R is what the pattern matches.
SearchRegex(t, R) ==
    /\ pc[t] = "exec"
    /\ "regex" \in pending[t]
    /\ R \subseteq Hidden
    /\ Cardinality(R) <= MaxResults
    /\ pending' = [pending EXCEPT ![t] = @ \ {"regex"}]
    /\ found' = [found EXCEPT ![t]["regex"] = R]
    /\ UNCHANGED <<registryVars, cacheVars, pc, iteration, offered, promised, unlocked, missed>>

\* getOrBuildEngine
Current == IF engine # NoEngine /\ cacheVersion = version THEN engine
           ELSE IF Hidden = {} THEN NoEngine ELSE Hidden

\* The search runs on the engine's documents: R is what the query matches.
SearchBM25(t, R) ==
    /\ pc[t] = "exec"
    /\ "bm25" \in pending[t]
    /\ R \subseteq (IF Current = NoEngine THEN {} ELSE Current)
    /\ Cardinality(R) <= MaxResults
    /\ engine' = Current
    /\ cacheVersion' = version
    /\ pending' = [pending EXCEPT ![t] = @ \ {"bm25"}]
    /\ found' = [found EXCEPT ![t]["bm25"] = R]
    /\ UNCHANGED <<registryVars, pc, iteration, offered, promised, unlocked, missed>>

\* formatDiscoveryResponse
Promote(t, q) ==
    /\ found[t][q] # {}
    /\ PromoteTools(found[t][q])
    /\ promised' = [promised EXCEPT ![t] = @ \cup found[t][q]]
    /\ unlocked' = [unlocked EXCEPT ![t] = @ \cup found[t][q]]
    /\ found' = [found EXCEPT ![t][q] = {}]
    /\ UNCHANGED <<kind, version, cacheVars, pc, iteration, offered, pending, missed>>

\* All calls are done: TickTTL, and the next iteration if there is one.
Tick(t) ==
    /\ pc[t] = "exec"
    /\ pending[t] = {}
    /\ \A q \in Searches : found[t][q] = {}
    /\ TickTTL
    /\ IF iteration[t] = MaxIterations
       THEN /\ pc' = [pc EXCEPT ![t] = "idle"]
            /\ UNCHANGED iteration
       ELSE /\ pc' = [pc EXCEPT ![t] = "request"]
            /\ iteration' = [iteration EXCEPT ![t] = @ + 1]
    /\ offered' = [offered EXCEPT ![t] = {}]
    /\ UNCHANGED <<kind, version, cacheVars, pending, found, promised, unlocked, missed>>

Next ==
    \/ \E n \in Names, k \in {"core", "hidden"} : Register(n, k)
    \/ \E t \in Turns : BeginTurn(t)
    \/ \E t \in Turns : Request(t)
    \/ \E t \in Turns, calls \in SUBSET (Names \cup Searches) : Respond(t, calls)
    \/ \E t \in Turns : Answer(t)
    \/ \E t \in Turns, n \in Names : Execute(t, n)
    \/ \E t \in Turns, R \in SUBSET Names : SearchRegex(t, R)
    \/ \E t \in Turns, R \in SUBSET Names : SearchBM25(t, R)
    \/ \E t \in Turns, q \in Searches : Promote(t, q)
    \/ \E t \in Turns : Tick(t)

Spec == Init /\ [][Next]_vars

-----------------------------------------------------------------------------
(* Properties                                                              *)

\* The comment on TickTTL: "This is safe because processMessage is sequential per
\* agent."  A tool in the definitions sent to the model is found when it calls it.
OfferedIsCallable == missed = {}

\* The reply of a search: "In your next response, you can call them directly".  The
\* next request offers what the search unlocked, and the tick in between does not
\* lock it again.
PromiseKept ==
    [][ \A t \in Turns : pc[t] = "request" /\ pc'[t] = "llm" => promised[t] \subseteq offered'[t] ]_vars

\* The cached engine is used only for the tools it was built from: no tool
\* registered since is missing from a search.
EngineIsCurrent == Hidden # {} => Current = Hidden

\* docs/tools_configuration.md: ttl is the "Number of conversational turns a
\* discovered tool remains unlocked": it does at least to the end of its turn.
UnlockedForTheTurn ==
    \A t \in Turns : pc[t] \in {"request", "llm"} => unlocked[t] \subseteq Visible

=============================================================================
