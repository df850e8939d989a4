----------------------------- MODULE Heartbeat ------------------------------
(***************************************************************************)
(* The heartbeat service (pkg/heartbeat/service.go), the device service's  *)
(* notifications (pkg/devices/service.go) and the state file they take the *)
(* user's last channel from (pkg/state/state.go, written with              *)
(* pkg/fileutil/file.go).                                                  *)
(*                                                                         *)
(* Each of the agent loop, the heartbeat service and the device service    *)
(* has a state.Manager of its own, which reads the file when it is made;   *)
(* only the agent loop's is written to.  A reload makes new heartbeat and  *)
(* device services; beats of the old one that are under way go on.         *)
(***************************************************************************)
EXTENDS Naturals, FiniteSets

CONSTANTS
    Channels,       \* "platform:chat" strings of external channels
    None,           \* no last channel: the empty string, or no file
    MaxRecords,     \* bound on messages that are recorded
    MaxServices     \* bound on heartbeat services: starts and reloads

ConstantsAssumption ==
    None \notin Channels /\ {MaxRecords, MaxServices} \subseteq Nat \ {0}

Managers == {"agent", "heartbeat", "devices"}
Services == 1..MaxServices
Beats == Services \X {"first", "tick"}      \* the AfterFunc, and runLoop's own

VARIABLES
    file,           \* state.json
    mem,            \* LastChannel of each manager
    saving,         \* SetLastChannel: "no", "write" or "return"
    acked,          \* history: the last channel SetLastChannel has put in the file
    latest,         \* the channel of the newest turn
    records,        \* SetLastChannel calls so far
    up,             \* the process runs
    service,        \* the newest heartbeat service
    running,        \* its stopChan is not nil
    timer,          \* services whose AfterFunc has not fired
    beat,           \* [Beats -> "none", "checked" or "handler"]
    prompted,       \* HEARTBEAT.md exists
    target          \* the channel a beat or a notification was last pointed at

stateVars == <<file, mem, saving, acked, latest, records>>
beatVars == <<timer, beat, prompted, target>>
vars == <<stateVars, up, service, running, beatVars>>

TypeOK ==
    /\ file \in Channels \cup {None, "torn"}
    /\ mem \in [Managers -> Channels \cup {None}]
    /\ saving \in {"no", "write", "return"}
    /\ acked \in Channels \cup {None} /\ latest \in Channels \cup {None}
    /\ records \in 0..MaxRecords
    /\ up \in BOOLEAN /\ running \in BOOLEAN
    /\ service \in 0..MaxServices
    /\ timer \subseteq 1..service
    /\ beat \in [Beats -> {"none", "checked", "handler"}]
    /\ \A b \in Beats : beat[b] # "none" => up /\ b[1] <= service
    /\ prompted \in BOOLEAN
    /\ target \in Channels \cup {None}

Init ==
    /\ file = None /\ mem = [m \in Managers |-> None]
    /\ saving = "no" /\ acked = None /\ latest = None /\ records = 0
    /\ up = FALSE /\ service = 0 /\ running = FALSE
    /\ timer = {} /\ beat = [b \in Beats |-> "none"]
    /\ prompted = FALSE /\ target = None

-----------------------------------------------------------------------------
(* state.Manager                                                           *)

\* NewManager: what the file holds, nothing if it cannot be read
Loaded == IF file = "torn" THEN None ELSE file

\* RecordLastChannel at the start of a turn: SetLastChannel takes the lock ...
SetLastChannel(c) ==
    /\ up /\ saving = "no" /\ records < MaxRecords
    /\ records' = records + 1
    /\ latest' = c
    /\ mem' = [mem EXCEPT !["agent"] = c]
    /\ saving' = "write"
    /\ UNCHANGED <<file, acked, up, service, running, beatVars>>

\* Mutant: the file is opened with O_TRUNC and written in place
WriteInPlace ==
    /\ saving = "write"
    /\ file' = IF file = "torn" THEN mem["agent"] ELSE "torn"
    /\ saving' = IF file = "torn" THEN "return" ELSE "write"
    /\ UNCHANGED <<mem, acked, latest, records, up, service, running, beatVars>>

\* ... WriteFileAtomic renames a complete temporary file over the old one ...
WriteFileAtomic ==
    /\ saving = "write"
    /\ file' = mem["agent"]
    /\ saving' = "return"
    /\ UNCHANGED <<mem, acked, latest, records, up, service, running, beatVars>>

\* ... or fails before the rename: the error is logged.
WriteFails ==
    /\ saving = "write"
    /\ saving' = "no"
    /\ UNCHANGED <<file, mem, acked, latest, records, up, service, running, beatVars>>

SetReturns ==
    /\ saving = "return"
    /\ acked' = mem["agent"]
    /\ saving' = "no"
    /\ UNCHANGED <<file, mem, latest, records, up, service, running, beatVars>>

-----------------------------------------------------------------------------
(* The process and its services                                            *)

\* gatewayCmd: three managers are made, heartbeat.Start runs the loop
StartProcess ==
    /\ ~up /\ service < MaxServices
    /\ up' = TRUE
    /\ mem' = [m \in Managers |-> Loaded]
    /\ service' = service + 1
    /\ running' = TRUE
    /\ timer' = {service'}
    /\ UNCHANGED <<file, saving, acked, latest, records, beat, prompted, target>>

\* heartbeat.Stop: the loop ends, a beat that runs does not
Stop ==
    /\ up /\ running /\ service < MaxServices
    /\ running' = FALSE
    /\ UNCHANGED <<stateVars, up, service, beatVars>>

\* restartServices: a new service and new managers; the agent loop's stays
StartNew ==
    /\ up /\ ~running /\ service < MaxServices
    /\ service' = service + 1
    /\ running' = TRUE
    /\ timer' = timer \cup {service'}
    /\ mem' = [mem EXCEPT !["heartbeat"] = Loaded, !["devices"] = Loaded]
    /\ UNCHANGED <<file, saving, acked, latest, records, up, beat, prompted, target>>

\* What is in memory is lost, a save under way too unless the rename is done.
Crash ==
    /\ up
    /\ up' = FALSE /\ running' = FALSE
    /\ saving' = "no"
    /\ acked' = IF saving = "return" THEN mem["agent"] ELSE acked
    /\ timer' = {} /\ beat' = [b \in Beats |-> "none"]
    /\ UNCHANGED <<file, mem, latest, records, service, prompted, target>>

-----------------------------------------------------------------------------
(* executeHeartbeat                                                        *)

\* Mutant: stopChan is not looked at
AliveAlways(s) == s <= service

\* stopChan of service s is not nil
Alive(s) == running /\ s = service

\* The check at the head of executeHeartbeat; the AfterFunc of a stopped
\* service fires all the same.
BeatFirst(s) ==
    /\ up /\ s \in timer
    /\ timer' = timer \ {s}
    /\ beat' = IF Alive(s) THEN [beat EXCEPT ![<<s, "first">>] = "checked"] ELSE beat
    /\ UNCHANGED <<stateVars, up, service, running, prompted, target>>

\* runLoop waits for the beat it started.
BeatTick(s) ==
    /\ up /\ Alive(s) /\ beat[<<s, "tick">>] = "none"
    /\ beat' = [beat EXCEPT ![<<s, "tick">>] = "checked"]
    /\ UNCHANGED <<stateVars, up, service, running, timer, prompted, target>>

\* buildPrompt found no HEARTBEAT.md: it is created and the beat ends.
BeatWithoutPrompt(b) ==
    /\ beat[b] = "checked" /\ ~prompted
    /\ prompted' = TRUE
    /\ beat' = [beat EXCEPT ![b] = "none"]
    /\ UNCHANGED <<stateVars, up, service, running, timer, target>>

\* The handler is called with the last channel the service's manager knows.
BeatHandler(b) ==
    /\ beat[b] = "checked" /\ prompted
    /\ target' = mem["heartbeat"]
    /\ beat' = [beat EXCEPT ![b] = "handler"]
    /\ UNCHANGED <<stateVars, up, service, running, timer, prompted>>

\* Its result is silent or an error: nothing is sent (sendResponse is not reached).
BeatEnds(b) ==
    /\ beat[b] = "handler"
    /\ beat' = [beat EXCEPT ![b] = "none"]
    /\ UNCHANGED <<stateVars, up, service, running, timer, prompted, target>>

\* sendNotification of a device event
Notify ==
    /\ up /\ running /\ mem["devices"] # None
    /\ target' = mem["devices"]
    /\ UNCHANGED <<stateVars, up, service, running, timer, beat, prompted>>

-----------------------------------------------------------------------------

Next ==
    \/ \E c \in Channels : SetLastChannel(c)
    \/ WriteFileAtomic
    \/ WriteFails
    \/ SetReturns
    \/ StartProcess
    \/ Stop
    \/ StartNew
    \/ Crash
    \/ \E s \in Services : BeatFirst(s)
    \/ \E s \in Services : BeatTick(s)
    \/ \E b \in Beats : BeatWithoutPrompt(b)
    \/ \E b \in Beats : BeatHandler(b)
    \/ \E b \in Beats : BeatEnds(b)
    \/ Notify

Spec == Init /\ [][Next]_vars

\* Timers fire and beats end: LLM calls have timeouts.
FairSpec ==
    /\ Spec
    /\ \A s \in Services : WF_vars(BeatFirst(s)) /\ WF_vars(BeatTick(s))
    /\ \A b \in Beats : /\ WF_vars(BeatWithoutPrompt(b)) /\ WF_vars(BeatHandler(b))
                        /\ WF_vars(BeatEnds(b))

-----------------------------------------------------------------------------

\* "ensuring that the state file is never corrupted even if the process
\* crashes" (state.go): after a crash the file holds the channel of the last
\* save that was completed.
StateFileSurvives == ~up => file = acked

\* After Stop no beat begins, neither of the loop nor of the timer that is
\* still pending: a beat only begins on the newest service.
BeatsOfTheNewest ==
    [][\A b \in Beats : beat[b] = "none" /\ beat'[b] # "none" => running /\ b[1] = service]_vars

\* A service that is left running calls its handler again and again: a beat
\* without a prompt, a slow one and a failed one are followed by another.
BeatsGoOn ==
    \A s \in Services :
        (up /\ running /\ service = s /\ beat[<<s, "tick">>] = "none")
            ~> (beat[<<s, "tick">>] = "handler" \/ ~up \/ ~running)

\* "channel and chatID are derived from the last active user channel"
\* (heartbeat/service.go:33): once that channel is saved, a beat or a
\* notification goes there.
GoesToLatest ==
    [][target' # target /\ saving = "no" /\ acked = latest => target' = latest]_vars
=============================================================================
