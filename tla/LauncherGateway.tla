-------------------------- MODULE LauncherGateway --------------------------
(***************************************************************************)
(* The web launcher and the gateway process it manages                     *)
(* (web/backend/api/gateway.go, events.go).  HTTP handlers start, stop and *)
(* restart the process and ask for its status; for every process started   *)
(* one goroutine waits for its exit and one probes its health.  All share  *)
(* the record gateway under gateway.mu, which is not held while a restart  *)
(* waits for the old process or while a health probe is on its way.        *)
(*                                                                         *)
(* A process is the number of its start.  An exited process is "exited"    *)
(* until its waiter has reaped it: until then signals still reach it.      *)
(***************************************************************************)
EXTENDS Naturals

CONSTANTS
    Users,          \* handlers of start, stop and restart requests
    Polls,          \* handlers of status requests
    MaxProcs,       \* bound on processes
    MaxRestarts     \* bound on restart requests

ConstantsAssumption == MaxProcs \in Nat /\ MaxRestarts \in Nat

Procs == 1..MaxProcs

VARIABLES
    proc,           \* [Procs -> "none", "up", "serving", "exited", "reaped"]
    signaled,       \* processes that were sent SIGTERM; "killed": SIGKILL
    killed,
    cmd, runtimeStatus,
    expired,        \* startupDeadline is past
    waiter, prober, \* [Procs -> where its two goroutines are]
    user, previousCmd,      \* restart requests
    restarts,
    poll,           \* [Polls -> where a status request is]
    lastEvent       \* the last event broadcast

gatewayVars == <<cmd, runtimeStatus, expired>>
procVars == <<proc, signaled, killed>>
userVars == <<user, previousCmd, restarts>>
vars == <<procVars, gatewayVars, waiter, prober, userVars, poll, lastEvent>>

Statuses == {"stopped", "starting", "restarting", "running", "error"}

TypeOK ==
    /\ proc \in [Procs -> {"none", "up", "serving", "exited", "reaped"}]
    /\ signaled \subseteq Procs /\ killed \subseteq Procs
    /\ cmd \in 0..MaxProcs /\ (cmd # 0 => proc[cmd] # "none")
    /\ runtimeStatus \in Statuses /\ expired \in BOOLEAN
    /\ expired => runtimeStatus \in {"starting", "restarting"}
    /\ waiter \in [Procs -> {"none", "wait", "clean", "tell", "done"}]
    /\ prober \in [Procs -> {"none", "probe", "healthy", "tell", "done"}]
    /\ user \in [Users -> {"idle", "stop", "term", "kill", "fail", "start"}]
    /\ previousCmd \in [Users -> 0..MaxProcs] /\ restarts \in 0..MaxRestarts
    /\ poll \in [Polls -> {"idle", "dead", "probe", "ok", "bad", "unreached"}]
    /\ lastEvent \in Statuses

Init ==
    /\ proc = [p \in Procs |-> "none"] /\ signaled = {} /\ killed = {}
    /\ cmd = 0 /\ runtimeStatus = "stopped" /\ expired = FALSE
    /\ waiter = [p \in Procs |-> "none"] /\ prober = [p \in Procs |-> "none"]
    /\ user = [u \in Users |-> "idle"] /\ previousCmd = [u \in Users |-> 0]
    /\ restarts = 0
    /\ poll = [q \in Polls |-> "idle"]
    /\ lastEvent = "stopped"

\* isCmdProcessAliveLocked: Signal(0) also reaches a process not yet reaped.
Alive(p) == p # 0 /\ proc[p] \in {"up", "serving", "exited"}

Running == {p \in Procs : proc[p] \in {"up", "serving"}}

\* setGatewayRuntimeStatusLocked
SetStatus(s) ==
    /\ runtimeStatus' = s
    /\ expired' = FALSE

Unstarted(p) == p \in Procs /\ proc[p] = "none" /\ \A r \in Procs : r < p => proc[r] # "none"

\* startGatewayLocked: the process, its waiter and its prober
startGateway(p, s) ==
    /\ Unstarted(p)
    /\ proc' = [proc EXCEPT ![p] = "up"]
    /\ cmd' = p
    /\ SetStatus(s)
    /\ lastEvent' = s
    /\ waiter' = [waiter EXCEPT ![p] = "wait"]
    /\ prober' = [prober EXCEPT ![p] = "probe"]

-----------------------------------------------------------------------------
(* Start, stop and restart requests                                        *)

\* Mutant: a duplicate start is not prevented
StartAnyway(u, p) ==
    /\ user[u] = "idle"
    /\ startGateway(p, "starting")
    /\ UNCHANGED <<signaled, killed, userVars, poll>>

\* handleGatewayStart, and TryAutoStartGateway
handleGatewayStart(u, p) ==
    /\ user[u] = "idle" /\ ~Alive(cmd)
    /\ startGateway(p, "starting")
    /\ UNCHANGED <<signaled, killed, userVars, poll>>

\* A start that is refused or fails has dropped the record of a dead process.
StartFails(u) ==
    /\ user[u] = "idle" /\ cmd # 0 /\ ~Alive(cmd)
    /\ cmd' = 0 /\ SetStatus("stopped")
    /\ UNCHANGED <<procVars, waiter, prober, userVars, poll, lastEvent>>

\* handleGatewayStop; a process that was reaped cannot be signaled
handleGatewayStop(u) ==
    /\ user[u] = "idle" /\ Alive(cmd)
    /\ signaled' = signaled \cup {cmd}
    /\ UNCHANGED <<proc, killed, gatewayVars, waiter, prober, userVars, poll, lastEvent>>

\* handleGatewayRestart, up to the unlock
RestartBegins(u) ==
    /\ user[u] = "idle" /\ restarts < MaxRestarts
    /\ restarts' = restarts + 1
    /\ previousCmd' = [previousCmd EXCEPT ![u] = cmd]
    /\ SetStatus("restarting")
    /\ lastEvent' = "restarting"
    /\ user' = [user EXCEPT ![u] = "stop"]
    /\ UNCHANGED <<procVars, cmd, waiter, prober, poll>>

\* stopGatewayProcessForRestart: the old process has exited
RestartSeesExit(u) ==
    /\ user[u] \in {"stop", "term", "kill"} /\ ~Alive(previousCmd[u])
    /\ user' = [user EXCEPT ![u] = "start"]
    /\ UNCHANGED <<procVars, gatewayVars, waiter, prober, previousCmd, restarts, poll, lastEvent>>

\* SIGTERM; after the grace period SIGKILL; after the last window an error.
RestartSignals(u) ==
    /\ Alive(previousCmd[u])
    /\ \/ /\ user[u] = "stop"
          /\ signaled' = signaled \cup {previousCmd[u]} /\ UNCHANGED killed
          /\ user' = [user EXCEPT ![u] = "term"]
       \/ /\ user[u] = "term"
          /\ killed' = killed \cup {previousCmd[u]} /\ UNCHANGED signaled
          /\ user' = [user EXCEPT ![u] = "kill"]
       \/ /\ user[u] = "kill"
          /\ UNCHANGED <<signaled, killed>>
          /\ user' = [user EXCEPT ![u] = "fail"]
    /\ UNCHANGED <<proc, gatewayVars, waiter, prober, previousCmd, restarts, poll, lastEvent>>

RestartFails(u) ==
    /\ user[u] = "fail"
    /\ user' = [user EXCEPT ![u] = "idle"]
    /\ \/ cmd # previousCmd[u] /\ UNCHANGED gatewayVars
       \/ cmd = previousCmd[u] /\ Alive(cmd) /\ SetStatus("running") /\ UNCHANGED cmd
       \/ cmd = previousCmd[u] /\ ~Alive(cmd) /\ SetStatus("error") /\ cmd' = 0
    /\ UNCHANGED <<procVars, waiter, prober, previousCmd, restarts, poll, lastEvent>>

\* The new process is started, whatever gateway.cmd is by now ...
RestartStarts(u, p) ==
    /\ user[u] = "start"
    /\ startGateway(p, "restarting")
    /\ user' = [user EXCEPT ![u] = "idle"]
    /\ UNCHANGED <<signaled, killed, previousCmd, restarts, poll>>

\* ... or cannot be started.
RestartCannotStart(u) ==
    /\ user[u] = "start"
    /\ cmd' = 0 /\ SetStatus("error")
    /\ user' = [user EXCEPT ![u] = "idle"]
    /\ UNCHANGED <<procVars, waiter, prober, previousCmd, restarts, poll, lastEvent>>

-----------------------------------------------------------------------------
(* Processes and their goroutines                                          *)

\* The gateway listens; only one process can have the port.
Serve(p) ==
    /\ proc[p] = "up" /\ \A r \in Procs : proc[r] # "serving"
    /\ proc' = [proc EXCEPT ![p] = "serving"]
    /\ UNCHANGED <<signaled, killed, gatewayVars, waiter, prober, userVars, poll, lastEvent>>

\* It exits, signaled or not.
Exit(p) ==
    /\ p \in Running
    /\ proc' = [proc EXCEPT ![p] = "exited"]
    /\ UNCHANGED <<signaled, killed, gatewayVars, waiter, prober, userVars, poll, lastEvent>>

\* cmd.Wait
Reap(p) ==
    /\ proc[p] = "exited" /\ waiter[p] = "wait"
    /\ proc' = [proc EXCEPT ![p] = "reaped"]
    /\ waiter' = [waiter EXCEPT ![p] = "clean"]
    /\ UNCHANGED <<signaled, killed, gatewayVars, prober, userVars, poll, lastEvent>>

\* The waiter, under the lock
WaiterCleans(p) ==
    /\ waiter[p] = "clean"
    /\ IF cmd = p
       THEN /\ cmd' = 0
            /\ IF runtimeStatus # "restarting"
               THEN SetStatus("stopped") /\ waiter' = [waiter EXCEPT ![p] = "tell"]
               ELSE UNCHANGED <<runtimeStatus, expired>> /\ waiter' = [waiter EXCEPT ![p] = "done"]
       ELSE UNCHANGED gatewayVars /\ waiter' = [waiter EXCEPT ![p] = "done"]
    /\ UNCHANGED <<procVars, prober, userVars, poll, lastEvent>>

WaiterTells(p) ==
    /\ waiter[p] = "tell"
    /\ lastEvent' = "stopped"
    /\ waiter' = [waiter EXCEPT ![p] = "done"]
    /\ UNCHANGED <<procVars, gatewayVars, prober, userVars, poll>>

\* The prober finds its process replaced, or gives up after 15 seconds; or
\* the port answers its request, whoever listens there.
Probe(p) ==
    /\ prober[p] = "probe"
    /\ \/ prober' = [prober EXCEPT ![p] = "done"]
       \/ /\ cmd = p /\ \E r \in Procs : proc[r] = "serving"
          /\ prober' = [prober EXCEPT ![p] = "healthy"]
    /\ UNCHANGED <<procVars, gatewayVars, waiter, userVars, poll, lastEvent>>

ProberSets(p) ==
    /\ prober[p] = "healthy"
    /\ IF cmd = p THEN SetStatus("running") ELSE UNCHANGED <<runtimeStatus, expired>>
    /\ prober' = [prober EXCEPT ![p] = "tell"]
    /\ UNCHANGED <<procVars, cmd, waiter, userVars, poll, lastEvent>>

ProberTells(p) ==
    /\ prober[p] = "tell"
    /\ lastEvent' = "running"
    /\ prober' = [prober EXCEPT ![p] = "done"]
    /\ UNCHANGED <<procVars, gatewayVars, waiter, userVars, poll>>

\* The startup window ends.
Expire ==
    /\ runtimeStatus \in {"starting", "restarting"} /\ ~expired
    /\ expired' = TRUE
    /\ UNCHANGED <<procVars, cmd, runtimeStatus, waiter, prober, userVars, poll, lastEvent>>

-----------------------------------------------------------------------------
(* gatewayStatusData                                                       *)

PollBegins(q) ==
    /\ poll[q] = "idle"
    /\ poll' = [poll EXCEPT ![q] = IF Alive(cmd) THEN "probe" ELSE "dead"]
    /\ UNCHANGED <<procVars, gatewayVars, waiter, prober, userVars, lastEvent>>

\* The health request: answered well or badly, or not at all
PollProbes(q) ==
    /\ poll[q] = "probe"
    /\ \/ poll' = [poll EXCEPT ![q] = "unreached"]
       \/ /\ \E r \in Procs : proc[r] = "serving"
          /\ \E a \in {"ok", "bad"} : poll' = [poll EXCEPT ![q] = a]
    /\ UNCHANGED <<procVars, gatewayVars, waiter, prober, userVars, lastEvent>>

\* What the answer says is stored, whatever happened since the probe.
PollEnds(q) ==
    /\ poll[q] \in {"dead", "ok", "bad", "unreached"}
    /\ CASE poll[q] = "ok" -> SetStatus("running")
         [] poll[q] = "bad" -> SetStatus("error")
         [] OTHER -> UNCHANGED <<runtimeStatus, expired>>
    /\ poll' = [poll EXCEPT ![q] = "idle"]
    /\ UNCHANGED <<procVars, cmd, waiter, prober, userVars, lastEvent>>

-----------------------------------------------------------------------------

UserStep(u) ==
    \/ \E p \in Procs : handleGatewayStart(u, p)
    \/ StartFails(u)
    \/ handleGatewayStop(u)
    \/ RestartBegins(u)

RestartStep(u) ==
    \/ RestartSeesExit(u)
    \/ RestartSignals(u)
    \/ RestartFails(u)
    \/ \E p \in Procs : RestartStarts(u, p)
    \/ RestartCannotStart(u)

ProcStep(p) ==
    \/ Serve(p)
    \/ Exit(p)
    \/ Reap(p)
    \/ WaiterCleans(p)
    \/ WaiterTells(p)
    \/ Probe(p)
    \/ ProberSets(p)
    \/ ProberTells(p)

PollStep(q) ==
    \/ PollBegins(q)
    \/ PollProbes(q)
    \/ PollEnds(q)

Next ==
    \/ \E u \in Users : UserStep(u)
    \/ \E u \in Users : RestartStep(u)
    \/ \E p \in Procs : ProcStep(p)
    \/ Expire
    \/ \E q \in Polls : PollStep(q)

Spec == Init /\ [][Next]_vars

\* Handlers and goroutines run on; a killed process exits.
FairSpec ==
    /\ Spec
    /\ \A u \in Users : WF_vars(RestartStep(u))
    /\ \A p \in Procs : /\ WF_vars(p \in killed /\ Exit(p))
                        /\ WF_vars(Reap(p)) /\ WF_vars(WaiterCleans(p)) /\ WF_vars(WaiterTells(p))

-----------------------------------------------------------------------------

\* Every gateway that runs is the one the launcher knows, which Stop reaches:
\* "Prevent duplicate starts" (gateway.go:392), and a restart "stops the gateway
\* (if running) and starts a new instance" (gateway.go:478).
NoOrphan == \A p \in Running : p = cmd

\* While a restart waits for the old process and has not started the new one,
\* the status is restarting, whether or not the old one is gone already
\* (TestGatewayStatusReturnsRestartingDuringRestartGap).
RestartingInGap ==
    \A u \in Users : user[u] = "start" => runtimeStatus = "restarting"

\* A gateway that was seen running is not called anything else while it runs
\* and nobody restarts it, unless it says itself that it is unwell
\* (TestGatewayStatusKeepsRunningWhenHealthProbeFailsAfterRunning).
StaysRunning ==
    [][runtimeStatus = "running" /\ cmd \in Running /\ runtimeStatus' # "running" =>
        \/ \E u \in Users : user[u] = "idle" /\ user'[u] = "stop"
        \/ \E u \in Users : user[u] = "start" /\ user'[u] = "idle"
        \/ \E q \in Polls : poll[q] = "bad" /\ poll'[q] = "idle"]_vars

\* The exit of the gateway is noticed, whoever caused it.
ExitNoticed == \A p \in Procs : (proc[p] = "exited") ~> (cmd # p)

\* A restart request is answered, even when the old process does not obey.
RestartAnswered == \A u \in Users : (user[u] # "idle") ~> (user[u] = "idle")

\* Events tell clients the state "so clients can reflect it without polling":
\* when all is over, the last event does not call a dead gateway running.
LastEventTrue ==
    (\A p \in Procs : waiter[p] \in {"none", "done"} /\ prober[p] \in {"none", "done"})
        => (lastEvent = "running" => Running # {})
=============================================================================
