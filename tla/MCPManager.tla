----------------------------- MODULE MCPManager -----------------------------
(***************************************************************************)
(* pkg/mcp/manager.go and pkg/agent/loop_mcp.go: the MCP servers are       *)
(* connected once, in parallel; tool calls run on their sessions; Close    *)
(* waits for the calls in flight on a WaitGroup and closes the sessions.   *)
(***************************************************************************)
EXTENDS Naturals, FiniteSets

CONSTANTS
    Servers,    \* enabled servers of the configuration
    Callers,    \* goroutines that call tools
    MaxCalls    \* bound on calls

ConstantsAssumption == IsFiniteSet(Callers) /\ MaxCalls \in Nat

VARIABLES
    init,       \* mcpRuntime.initOnce: "no", "loading", "registered", "done"
    discovery,  \* whether the tool discovery configuration is usable
    conn,       \* ConnectServer of each server: "todo", "ok", "failed"
    servers,    \* Manager.servers
    open,       \* servers whose session is open
    manager,    \* mcpRuntime.manager is set
    closed,     \* Manager.closed
    wg,         \* Manager.wg
    call,       \* what each caller is doing
    calls,      \* number of calls so far
    closer,     \* the goroutine in Close: AgentLoop.Close, or the failed init
    early       \* history: callers in flight when closed was set

vars == <<init, discovery, conn, servers, open, manager, closed, wg, call, calls, closer, early>>
loadVars == <<init, discovery, conn>>

InFlight == {c \in Callers : call[c] = "calling"}

TypeOK ==
    /\ init \in {"no", "loading", "registered", "done"}
    /\ discovery \in BOOLEAN
    /\ conn \in [Servers -> {"todo", "ok", "failed"}]
    /\ servers \subseteq open /\ open \subseteq Servers
    /\ manager \in BOOLEAN
    /\ closed \in BOOLEAN
    /\ wg = Cardinality(InFlight)
    /\ call \in [Callers -> {"idle", "checked", "locked", "calling"}]
    /\ calls \in 0..MaxCalls
    /\ closer \in {"none", "begin", "wait", "woken", "close", "done", "panicked"}
    /\ early \subseteq Callers

Init ==
    /\ init = "no"
    /\ discovery \in BOOLEAN
    /\ conn = [s \in Servers |-> "todo"]
    /\ servers = {}
    /\ open = {}
    /\ manager = FALSE
    /\ closed = FALSE
    /\ wg = 0
    /\ call = [c \in Callers |-> "idle"]
    /\ calls = 0
    /\ closer = "none"
    /\ early = {}

-----------------------------------------------------------------------------
(* ensureMCPInitialized                                                    *)

\* initOnce: LoadFromMCPConfig starts one goroutine per server.
BeginLoad ==
    /\ init = "no"
    /\ init' = "loading"
    /\ UNCHANGED <<discovery, conn, servers, open, manager, closed, wg, call, calls, closer, early>>

\* Nobody holds the read lock.
Unlocked == \A c \in Callers : call[c] # "locked"

\* A connection that fails leaves no trace in the manager ...
ConnectFails(s) ==
    /\ init = "loading"
    /\ conn[s] = "todo"
    /\ conn' = [conn EXCEPT ![s] = "failed"]
    /\ UNCHANGED <<init, discovery, servers, open, manager, closed, wg, call, calls, closer, early>>

\* ... and one that succeeds is stored under the lock.
ConnectServer(s) ==
    /\ init = "loading"
    /\ conn[s] = "todo"
    /\ Unlocked
    /\ conn' = [conn EXCEPT ![s] = "ok"]
    /\ servers' = servers \cup {s}
    /\ open' = open \cup {s}
    /\ UNCHANGED <<init, discovery, manager, closed, wg, call, calls, closer, early>>

\* Every server failed: the new manager is closed and none is set.
LoadFails ==
    /\ init = "loading"
    /\ \A s \in Servers : conn[s] = "failed"
    /\ init' = "done"
    /\ closer' = "begin"
    /\ UNCHANGED <<discovery, conn, servers, open, manager, closed, wg, call, calls, early>>

\* Some server is connected: the tools of all of them are registered.
RegisterTools ==
    /\ init = "loading"
    /\ servers # {}
    /\ \A s \in Servers : conn[s] # "todo"
    /\ init' = "registered"
    /\ UNCHANGED <<discovery, conn, servers, open, manager, closed, wg, call, calls, closer, early>>

\* setManager, or setInitErr and Close when discovery has no search method
EndLoad ==
    /\ init = "registered"
    /\ init' = "done"
    /\ IF discovery
       THEN manager' = TRUE /\ UNCHANGED closer
       ELSE closer' = "begin" /\ UNCHANGED manager
    /\ UNCHANGED <<discovery, conn, servers, open, closed, wg, call, calls, early>>

-----------------------------------------------------------------------------
(* CallTool                                                                *)

Moves(c, from, to) == call[c] = from /\ call' = [call EXCEPT ![c] = to]

\* An agent has the tools of the connected servers.  First check of closed,
\* without the lock.
CallTool(c) ==
    /\ init = "done" /\ discovery /\ \E s \in Servers : conn[s] = "ok"
    /\ calls < MaxCalls
    /\ ~closed
    /\ Moves(c, "idle", "checked")
    /\ calls' = calls + 1
    /\ UNCHANGED <<loadVars, servers, open, manager, closed, wg, closer, early>>

\* second check, under the read lock
CallCheck(c) ==
    /\ Moves(c, "checked", IF closed THEN "idle" ELSE "locked")
    /\ UNCHANGED <<loadVars, servers, open, manager, closed, wg, calls, closer, early>>

\* look the server up, add to the WaitGroup if it is there, unlock
CallLookup(c) ==
    /\ \E s \in Servers :
        IF s \in servers
        THEN Moves(c, "locked", "calling") /\ wg' = wg + 1
        ELSE Moves(c, "locked", "idle") /\ UNCHANGED wg
    /\ UNCHANGED <<loadVars, servers, open, manager, closed, calls, closer, early>>

\* The session answers or fails; the deferred Done wakes a waiting Close.
CallReturns(c) ==
    /\ Moves(c, "calling", "idle")
    /\ wg' = wg - 1
    /\ early' = early \ {c}
    /\ closer' = IF closer = "wait" /\ wg = 1 THEN "woken" ELSE closer
    /\ UNCHANGED <<loadVars, servers, open, manager, closed, calls>>

-----------------------------------------------------------------------------
(* Close                                                                   *)

\* AgentLoop.Close: takeManager, then Close if there was one
AgentClose ==
    /\ manager
    /\ closer = "none"
    /\ manager' = FALSE
    /\ closer' = "begin"
    /\ UNCHANGED <<loadVars, servers, open, closed, wg, call, calls, early>>

\* Mutant: the WaitGroup is not waited for
CloseBeginsNoWait ==
    /\ closer = "begin"
    /\ closed' = TRUE
    /\ early' = InFlight
    /\ closer' = "close"
    /\ UNCHANGED <<loadVars, servers, open, manager, wg, call, calls>>

\* closed.Swap(true); wg.Wait returns at once when the counter is 0
CloseBegins ==
    /\ closer = "begin"
    /\ closed' = TRUE
    /\ early' = InFlight
    /\ closer' = IF wg = 0 THEN "close" ELSE "wait"
    /\ UNCHANGED <<loadVars, servers, open, manager, wg, call, calls>>

\* Wait resumes; sync.WaitGroup panics if it has been added to meanwhile.
CloseWakes ==
    /\ closer = "woken"
    /\ closer' = IF wg = 0 THEN "close" ELSE "panicked"
    /\ UNCHANGED <<loadVars, servers, open, manager, closed, wg, call, calls, early>>

\* The sessions are closed and forgotten under the lock.
CloseSessions ==
    /\ closer = "close"
    /\ Unlocked
    /\ open' = open \ servers
    /\ servers' = {}
    /\ closer' = "done"
    /\ UNCHANGED <<loadVars, manager, closed, wg, call, calls, early>>

CloseStep == CloseBegins \/ CloseWakes \/ CloseSessions

Next ==
    \/ BeginLoad \/ LoadFails \/ RegisterTools \/ EndLoad
    \/ \E s \in Servers : ConnectFails(s) \/ ConnectServer(s)
    \/ \E c \in Callers :
        CallTool(c) \/ CallCheck(c) \/ CallLookup(c) \/ CallReturns(c)
    \/ AgentClose \/ CloseBegins \/ CloseWakes \/ CloseSessions

Spec == Init /\ [][Next]_vars

\* A goroutine that can run runs, and a session answers or fails in the end.
Fairness ==
    /\ WF_vars(CloseStep)
    /\ \A c \in Callers : WF_vars(CallCheck(c) \/ CallLookup(c) \/ CallReturns(c))

FairSpec == Spec /\ Fairness

-----------------------------------------------------------------------------
(* Properties                                                              *)

\* Close never takes the session away from a call that was in flight when
\* Close began, and then leaves no session open.
CloseIsOrderly == closer = "done" => early = {} /\ open = {}

\* Close ends, whatever the callers do (the panic of a reused WaitGroup is an
\* end too).
CloseReturns == closer = "begin" ~> closer \in {"done", "panicked"}

\* The comment in Close, "Wait for all in-flight CallTool calls to finish before
\* closing sessions; After closed=true is set, no new CallTool can start".
NoCallAfterClose == [][ \A c \in Callers : closed => ~ (call[c] # "calling" /\ call'[c] = "calling") ]_vars

\* The comment in Close on Swap, "This prevents TOCTOU race with CallTool's
\* closed check": the race never makes Wait panic.
CloseNeverPanics == closer # "panicked"

=============================================================================
