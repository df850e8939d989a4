----------------------------- MODULE AgentLoop ------------------------------
(***************************************************************************)
(* The agent loop (pkg/agent/loop.go): Run takes one message at a time     *)
(* from the bus, routes it to an agent, lets a turn run and publishes the  *)
(* response, unless the message tool (pkg/tools/message.go) has written to *)
(* the user in this round.  Turns of jobs and heartbeats run beside it in  *)
(* goroutines of their own; a reload replaces the registry and with it     *)
(* every agent and tool.  A turn may spawn subagents                       *)
(* (pkg/tools/subagent.go, spawn.go), whose results come back as "system"  *)
(* messages on the inbound queue.                                          *)
(*                                                                         *)
(* A round is known by its number and stands for its own chat.  Whether an *)
(* outbound message is delivered is the subject of MessageBus and          *)
(* ChannelManager: published is taken as told here.                        *)
(***************************************************************************)
EXTENDS Naturals, Sequences

CONSTANTS
    Agents, DefaultAgent,
    Targets,        \* where the message tool is pointed: {"own"} or with "other"
    SideKinds,      \* turns beside Run: a subset of {"job", "heartbeat"}
    ProviderFails,  \* whether an LLM call can fail
    BusCap,         \* capacity of the inbound queue (defaultBusBufferSize)
    MaxMsgs,        \* bound on user messages
    MaxCalls,       \* bound on tool calls in a turn (max_tool_iterations)
    MaxTasks,       \* bound on spawned subagents
    MaxGen          \* bound on registries: reloads + 1

ConstantsAssumption ==
    /\ DefaultAgent \in Agents
    /\ Targets \subseteq {"own", "other"} /\ SideKinds \subseteq {"job", "heartbeat"}
    /\ ProviderFails \in BOOLEAN
    /\ {BusCap, MaxCalls, MaxGen} \subseteq Nat \ {0} /\ {MaxMsgs, MaxTasks} \subseteq Nat

Users == 1..MaxMsgs
Tasks == 1..MaxTasks
Gens == 1..MaxGen
Procs == {"run"} \cup SideKinds

\* An inbound message, or the request of a turn beside Run.  internal says
\* that its chat is on a channel no user reads (cli, system, subagent).
Msgs == [kind : {"user", "system", "job", "heartbeat"},
         id : 0..MaxMsgs \cup Tasks, agent : Agents, internal : BOOLEAN]

VARIABLES
    inbound,        \* the inbound queue
    arrived,        \* user messages published so far
    gen,            \* the current registry
    closing,        \* ReloadProviderAndConfig has swapped and not yet closed
    closed,         \* registries whose provider was closed
    sentInRound,    \* message tools, <<registry, agent>>, that have the flag set
    pc, msg, tool, calls,   \* of each turn; tool is the message tool of its agent
    sideDone,       \* turns beside Run that are over
    task,           \* subagents
    toldByTool,     \* user messages in whose round the tool wrote to their chat
    answered,       \* user messages whose response Run published
    ended,          \* user messages whose round is over
    jobTold,        \* the job's chat was told something
    taskTold,       \* tasks whose origin chat was told something
    running, cancelled      \* al.running, and Run's context

busVars == <<inbound, arrived>>
reloadVars == <<gen, closing, closed>>
turnVars == <<pc, msg, tool, calls, sideDone>>
toldVars == <<toldByTool, answered, ended, jobTold, taskTold>>
stopVars == <<running, cancelled>>
vars == <<busVars, reloadVars, sentInRound, turnVars, task, toldVars, stopVars>>

NoMsg == [kind |-> "user", id |-> 0, agent |-> DefaultAgent, internal |-> FALSE]
NoTask == [pc |-> "none", by |-> "run", internal |-> FALSE, gen |-> 1]

TypeOK ==
    /\ inbound \in Seq(Msgs) /\ Len(inbound) <= BusCap
    /\ arrived \in 0..MaxMsgs
    /\ gen \in Gens /\ closing \in BOOLEAN /\ closed \subseteq 1..gen
    /\ sentInRound \subseteq (1..gen) \X Agents
    /\ pc \in [Procs -> {"idle", "consume", "start", "llm", "respond", "exited"}]
    /\ msg \in [Procs -> Msgs]
    /\ tool \in [Procs -> (1..gen) \X Agents]
    /\ calls \in [Procs -> 0..MaxCalls]
    /\ sideDone \subseteq SideKinds
    /\ task \in [Tasks ->
            [pc : {"none", "spawned", "running", "ok", "failed", "publish",
                   "reported", "dropped", "canceled"},
             by : Procs, internal : BOOLEAN, gen : 1..gen]]
    /\ toldByTool \subseteq Users /\ answered \subseteq Users /\ ended \subseteq Users
    /\ taskTold \subseteq Tasks /\ jobTold \in BOOLEAN
    /\ running \in BOOLEAN /\ cancelled \in BOOLEAN

Init ==
    /\ inbound = <<>> /\ arrived = 0
    /\ gen = 1 /\ closing = FALSE /\ closed = {}
    /\ sentInRound = {}
    /\ pc = [p \in Procs |-> "idle"]
    /\ msg = [p \in Procs |-> NoMsg]
    /\ tool = [p \in Procs |-> <<1, DefaultAgent>>]
    /\ calls = [p \in Procs |-> 0]
    /\ sideDone = {}
    /\ task = [t \in Tasks |-> NoTask]
    /\ toldByTool = {} /\ answered = {} /\ ended = {} /\ jobTold = FALSE
    /\ taskTold = {}
    /\ running = TRUE /\ cancelled = FALSE

\* Turns and tasks of Run see its context; jobs and heartbeats have their own.
Canceled(p) == cancelled /\ p = "run"

-----------------------------------------------------------------------------
(* Messages arrive, and Run takes them                                     *)

\* A channel publishes a message that will be routed to agent a.
Arrive(a) ==
    /\ arrived < MaxMsgs /\ Len(inbound) < BusCap
    /\ arrived' = arrived + 1
    /\ inbound' = Append(inbound, [kind |-> "user", id |-> arrived', agent |-> a, internal |-> FALSE])
    /\ UNCHANGED <<reloadVars, sentInRound, turnVars, task, toldVars, stopVars>>

\* The head of Run's loop: running and the context are looked at.
LoopTop ==
    /\ pc["run"] = "idle"
    /\ pc' = [pc EXCEPT !["run"] = IF running /\ ~cancelled THEN "consume" ELSE "exited"]
    /\ UNCHANGED <<busVars, reloadVars, sentInRound, msg, tool, calls, sideDone, task,
                   toldVars, stopVars>>

\* ConsumeInbound: a message that is there may win over a cancelled context.
Consume ==
    /\ pc["run"] = "consume"
    /\ inbound # <<>>
    /\ msg' = [msg EXCEPT !["run"] = Head(inbound)]
    /\ inbound' = Tail(inbound)
    /\ pc' = [pc EXCEPT !["run"] = "start"]
    /\ UNCHANGED <<arrived, reloadVars, sentInRound, tool, calls, sideDone, task,
                   toldVars, stopVars>>

\* ... or the wait ends with the context.
ConsumeCanceled ==
    /\ pc["run"] = "consume" /\ cancelled
    /\ pc' = [pc EXCEPT !["run"] = "idle"]
    /\ UNCHANGED <<busVars, reloadVars, sentInRound, msg, tool, calls, sideDone, task,
                   toldVars, stopVars>>

-----------------------------------------------------------------------------
(* A round                                                                 *)

\* Mutant: the flag of an earlier round stays
processMessageKeepsFlag(p, next) ==
    /\ pc' = [pc EXCEPT ![p] = next]
    /\ tool' = [tool EXCEPT ![p] = <<gen, msg[p].agent>>]
    /\ calls' = [calls EXCEPT ![p] = 0]
    /\ UNCHANGED sentInRound

\* processMessage after routing: the agent's message tool is reset; the turn
\* goes to the LLM, or a command answers it.
processMessage(p, next) ==
    /\ pc' = [pc EXCEPT ![p] = next]
    /\ tool' = [tool EXCEPT ![p] = <<gen, msg[p].agent>>]
    /\ calls' = [calls EXCEPT ![p] = 0]
    /\ sentInRound' = sentInRound \ {tool'[p]}

BeginUser(next) ==
    /\ pc["run"] = "start" /\ msg["run"].kind = "user"
    /\ processMessage("run", next)
    /\ UNCHANGED <<busVars, reloadVars, msg, sideDone, task, toldVars, stopVars>>

\* processSystemMessage: nothing is done for an internal origin; otherwise the
\* default agent is asked, and its message tool is not reset.
BeginSystem ==
    /\ pc["run"] = "start" /\ msg["run"].kind = "system"
    /\ pc' = [pc EXCEPT !["run"] = IF msg["run"].internal THEN "idle" ELSE "llm"]
    /\ tool' = [tool EXCEPT !["run"] = <<gen, DefaultAgent>>]
    /\ calls' = [calls EXCEPT !["run"] = 0]
    /\ UNCHANGED <<busVars, reloadVars, sentInRound, msg, sideDone, task, toldVars, stopVars>>

\* ProcessDirectWithChannel, called by a job
BeginJob(a, internal) ==
    /\ "job" \in SideKinds \ sideDone /\ pc["job"] = "idle"
    /\ msg' = [msg EXCEPT !["job"] =
                [kind |-> "job", id |-> 0, agent |-> a, internal |-> internal]]
    /\ pc' = [pc EXCEPT !["job"] = "start"]
    /\ UNCHANGED <<busVars, reloadVars, sentInRound, tool, calls, sideDone, task,
                   toldVars, stopVars>>

RouteJob ==
    /\ "job" \in SideKinds /\ pc["job"] = "start"
    /\ processMessage("job", "llm")
    /\ UNCHANGED <<busVars, reloadVars, msg, sideDone, task, toldVars, stopVars>>

\* ProcessHeartbeat: a turn of the default agent without a reset
BeginHeartbeat(internal) ==
    /\ "heartbeat" \in SideKinds \ sideDone /\ pc["heartbeat"] = "idle"
    /\ msg' = [msg EXCEPT !["heartbeat"] =
                [kind |-> "heartbeat", id |-> 0, agent |-> DefaultAgent, internal |-> internal]]
    /\ pc' = [pc EXCEPT !["heartbeat"] = "llm"]
    /\ tool' = [tool EXCEPT !["heartbeat"] = <<gen, DefaultAgent>>]
    /\ calls' = [calls EXCEPT !["heartbeat"] = 0]
    /\ UNCHANGED <<busVars, reloadVars, sentInRound, sideDone, task, toldVars, stopVars>>

\* The chat of the round that p runs is told something.
TellOwn(p) ==
    LET told == ~msg[p].internal IN
    /\ toldByTool' = IF told /\ msg[p].kind = "user" THEN toldByTool \cup {msg[p].id} ELSE toldByTool
    /\ taskTold' = IF told /\ msg[p].kind = "system" THEN taskTold \cup {msg[p].id} ELSE taskTold
    /\ jobTold' = (jobTold \/ (told /\ msg[p].kind = "job"))

Called(p) ==
    /\ pc[p] = "llm" /\ calls[p] < MaxCalls
    /\ calls' = [calls EXCEPT ![p] = calls[p] + 1]

\* MessageTool.Execute; ~ok: the bus took no message within 5 seconds
MessageTool(p, target, ok) ==
    /\ Called(p)
    /\ sentInRound' = IF ok THEN sentInRound \cup {tool[p]} ELSE sentInRound
    /\ IF ok /\ target = "own" THEN TellOwn(p) ELSE UNCHANGED <<toldByTool, taskTold, jobTold>>
    /\ UNCHANGED <<busVars, reloadVars, pc, msg, tool, sideDone, task, answered, ended, stopVars>>

\* SpawnTool and SubagentManager.Spawn
Spawn(p, t) ==
    /\ Called(p)
    /\ task[t].pc = "none" /\ \A s \in 1..(t-1) : task[s].pc # "none"
    /\ task' = [task EXCEPT ![t] = [pc |-> "spawned", by |-> p,
                                    internal |-> msg[p].internal, gen |-> tool[p][1]]]
    /\ UNCHANGED <<busVars, reloadVars, sentInRound, pc, msg, tool, sideDone, toldVars, stopVars>>

\* runLLMIteration ends; runAgentLoop publishes the answer to a system message
\* itself (SendResponse), a failure is left to the caller.
FinishRun(ok) ==
    /\ pc["run"] = "llm"
    /\ ok \/ ProviderFails \/ cancelled
    /\ pc' = [pc EXCEPT !["run"] = "respond"]
    /\ taskTold' = IF ok /\ msg["run"].kind = "system" /\ ~cancelled
                   THEN taskTold \cup {msg["run"].id} ELSE taskTold
    /\ UNCHANGED <<busVars, reloadVars, sentInRound, msg, tool, calls, sideDone, task,
                   toldByTool, answered, ended, jobTold, stopVars>>

\* The caller of a turn beside Run drops its response.
FinishSide(p) ==
    /\ p \in SideKinds /\ pc[p] = "llm"
    /\ pc' = [pc EXCEPT ![p] = "idle"]
    /\ sideDone' = sideDone \cup {p}
    /\ UNCHANGED <<busVars, reloadVars, sentInRound, msg, tool, calls, task, toldVars, stopVars>>

\* What Run asks: the flag of the default agent of the current registry.
AlreadySent == <<gen, DefaultAgent>> \in sentInRound

\* Run publishes the response or the error text.  That of a system message
\* goes to channel "system", which no user reads.
Respond ==
    /\ pc["run"] = "respond"
    /\ pc' = [pc EXCEPT !["run"] = "idle"]
    /\ IF msg["run"].kind = "user"
       THEN /\ answered' = IF AlreadySent \/ cancelled THEN answered
                           ELSE answered \cup {msg["run"].id}
            /\ ended' = IF cancelled THEN ended ELSE ended \cup {msg["run"].id}
       ELSE UNCHANGED <<answered, ended>>
    /\ UNCHANGED <<busVars, reloadVars, sentInRound, msg, tool, calls, sideDone, task,
                   toldByTool, jobTold, taskTold, stopVars>>

-----------------------------------------------------------------------------
(* Subagents                                                               *)

\* runTask looks at the context once, before the first request.
RunTask(t) ==
    /\ task[t].pc = "spawned"
    /\ task' = [task EXCEPT ![t].pc = IF Canceled(task[t].by) THEN "canceled" ELSE "running"]
    /\ UNCHANGED <<busVars, reloadVars, sentInRound, turnVars, toldVars, stopVars>>

\* The status runTask sets, which decides what the callback is given.
TaskStatus(ok) == IF ok THEN "ok" ELSE "failed"

\* RunToolLoop returns.
EndTask(t, ok) ==
    /\ task[t].pc = "running"
    /\ ok \/ ProviderFails \/ Canceled(task[t].by)
    /\ task' = [task EXCEPT ![t].pc = TaskStatus(ok)]
    /\ UNCHANGED <<busVars, reloadVars, sentInRound, turnVars, toldVars, stopVars>>

\* Mutant: the user is left to the agent's answer
asyncCallbackAgentOnly(t) ==
    /\ task[t].pc \in {"ok", "failed"}
    /\ task' = [task EXCEPT ![t].pc = "publish"]
    /\ UNCHANGED <<busVars, reloadVars, sentInRound, turnVars, toldVars, stopVars>>

\* asyncCallback: the content for the user goes out at once, a failure has none
asyncCallback(t) ==
    /\ task[t].pc \in {"ok", "failed"}
    /\ taskTold' = IF task[t].pc = "ok" /\ ~task[t].internal THEN taskTold \cup {t} ELSE taskTold
    /\ task' = [task EXCEPT ![t].pc = "publish"]
    /\ UNCHANGED <<busVars, reloadVars, sentInRound, turnVars, toldByTool, answered, ended,
                   jobTold, stopVars>>

\* ... and the result for the agent is put on the inbound queue.
PublishResult(t) ==
    /\ task[t].pc = "publish" /\ Len(inbound) < BusCap
    /\ inbound' = Append(inbound, [kind |-> "system", id |-> t, agent |-> DefaultAgent,
                                   internal |-> task[t].internal])
    /\ task' = [task EXCEPT ![t].pc = "reported"]
    /\ UNCHANGED <<arrived, reloadVars, sentInRound, turnVars, toldVars, stopVars>>

\* The queue stays full for 5 seconds: the error is ignored.
DropResult(t) ==
    /\ task[t].pc = "publish" /\ Len(inbound) = BusCap
    /\ task' = [task EXCEPT ![t].pc = "dropped"]
    /\ UNCHANGED <<busVars, reloadVars, sentInRound, turnVars, toldVars, stopVars>>

-----------------------------------------------------------------------------
(* Reload and shutdown                                                     *)

\* ReloadProviderAndConfig: registry, agents and tools are new ones
Swap ==
    /\ gen < MaxGen /\ ~closing
    /\ gen' = gen + 1
    /\ closing' = TRUE
    /\ UNCHANGED <<busVars, closed, sentInRound, turnVars, task, toldVars, stopVars>>

\* ... and 100 ms later the old provider is closed.
CloseOldProvider ==
    /\ closing
    /\ closing' = FALSE
    /\ closed' = closed \cup {gen - 1}
    /\ UNCHANGED <<busVars, gen, sentInRound, turnVars, task, toldVars, stopVars>>

Stop ==
    /\ running
    /\ running' = FALSE
    /\ UNCHANGED <<busVars, reloadVars, sentInRound, turnVars, task, toldVars, cancelled>>

\* gatewayCmd returns after shutdownGateway.
Cancel ==
    /\ ~running /\ ~cancelled
    /\ cancelled' = TRUE
    /\ UNCHANGED <<busVars, reloadVars, sentInRound, turnVars, task, toldVars, running>>

-----------------------------------------------------------------------------

RunStep ==
    \/ LoopTop
    \/ Consume
    \/ ConsumeCanceled
    \/ BeginUser("llm")
    \/ BeginUser("respond")
    \/ BeginSystem
    \/ \E ok \in BOOLEAN : FinishRun(ok)
    \/ Respond

TaskStep(t) ==
    \/ RunTask(t)
    \/ \E ok \in BOOLEAN : EndTask(t, ok)
    \/ asyncCallback(t)
    \/ PublishResult(t)
    \/ DropResult(t)

Next ==
    \/ \E a \in Agents : Arrive(a)
    \/ RunStep
    \/ \E a \in Agents, i \in BOOLEAN : BeginJob(a, i)
    \/ RouteJob
    \/ \E i \in BOOLEAN : BeginHeartbeat(i)
    \/ \E p \in Procs, target \in Targets, ok \in BOOLEAN : MessageTool(p, target, ok)
    \/ \E p \in Procs, t \in Tasks : Spawn(p, t)
    \/ \E p \in SideKinds : FinishSide(p)
    \/ \E t \in Tasks : TaskStep(t)
    \/ Swap
    \/ CloseOldProvider
    \/ Stop
    \/ Cancel

Spec == Init /\ [][Next]_vars

\* Goroutines are scheduled; an LLM call ends because providers set an HTTP
\* timeout and a turn has at most max_tool_iterations of them.
Fairness == WF_vars(RunStep) /\ \A t \in Tasks : WF_vars(TaskStep(t))

FairSpec == Spec /\ Fairness

-----------------------------------------------------------------------------

\* "Check if the message tool already sent a response during this round.  If
\* so, skip publishing to avoid duplicate messages to the user." (loop.go:299):
\* when a round is over its chat has been told something, by the message tool
\* or by Run, and not by both.
AnsweredOnce == \A u \in ended : (u \in toldByTool) # (u \in answered)

\* Whatever happens to the registry in the middle of a round, the user who
\* wrote is told something.
NotLost == \A u \in ended : u \in toldByTool \cup answered

\* ReloadProviderAndConfig "gives in-flight requests a moment to complete": no
\* turn and no subagent asks a provider that has been closed.
ProviderOpenWhileUsed ==
    /\ \A p \in Procs : pc[p] = "llm" => tool[p][1] \notin closed
    /\ \A t \in Tasks : task[t].pc = "running" => task[t].gen \notin closed

\* A job that is processed by the agent has its response sent to its chat.
JobAnswered == "job" \in sideDone /\ ~msg["job"].internal => jobTold

\* Run takes up every message that was put on the bus, until it is stopped.
MessagesAreProcessed == \A u \in Users : (arrived = u) ~> (u \in ended \/ ~running)

\* "The subagent will complete the task and report back when done."
\* (spawn.go): the chat that a task was spawned from is told something,
\* unless no user reads it, or the loop is stopped.
TasksReportBack ==
    \A t \in Tasks :
        (task[t].pc = "spawned") ~> (t \in taskTold \/ task[t].internal \/ ~running)

\* After the context is cancelled Run returns, whatever it was doing.
RunReturns == cancelled ~> (pc["run"] = "exited")
=============================================================================
