---------------------------- MODULE TypingLoops ----------------------------
(***************************************************************************)
(* The typing indicator of one chat: the loops that StartTyping of a       *)
(* channel starts, the stop functions it returns, the manager's entry for  *)
(* the chat (typingStops of pkg/channels/manager.go) and those who call    *)
(* what is recorded: the next message, a reply, the janitor.  How a loop   *)
(* is told to stop differs:                                                *)
(*   "own"      a context of its own (Telegram, QQ, LINE);                 *)
(*   "session"  a session, with a map of the current one (Matrix);         *)
(*   "byChat"   the channel in a map by chat (Discord), which the stop     *)
(*              function looks up when it is called.                       *)
(* A loop and its stop function carry the name of their message.           *)
(***************************************************************************)
EXTENDS Naturals, FiniteSets

CONSTANTS
    Inbound,        \* messages of the chat
    Kind,           \* "own", "session" or "byChat"
    Overlap,        \* may handlers of one chat overlap?
    Repliers,       \* goroutines in preSend
    MaxReplies,     \* bound on replies
    None

ConstantsAssumption ==
    /\ Kind \in {"own", "session", "byChat"} /\ Overlap \in BOOLEAN
    /\ MaxReplies \in Nat
    /\ None \notin Inbound /\ "janitor" \notin Repliers
    /\ Kind = "session" => ~Overlap

VARIABLES
    hpc,        \* [Inbound -> where HandleMessage stands]
    swapped,    \* [Inbound -> the entry that RecordTypingStop replaced]
    loop,       \* [Inbound -> the goroutine of its loop]
    told,       \* loops whose stop channel or context is closed
    current,    \* typingStop, typingSessions: entry of the chat
    entry,      \* typingStops of the manager: entry of the chat
    old,        \* is the entry older than typingStopTTL?
    read,       \* the entry runTTLJanitor has read
    held,       \* [Stoppers -> the stop function it took from the entry]
    replies,    \* replies begun
    misfired,   \* history: entries the janitor removed in place of another one
    running, stopPc

Stoppers == Repliers \cup {"janitor"}
managerVars == <<entry, old, read, held, replies, misfired>>
channelVars == <<loop, told, current>>
stopVars == <<running, stopPc>>
vars == <<hpc, swapped, managerVars, channelVars, stopVars>>

TypeOK ==
    /\ hpc \in [Inbound -> {"new", "start", "record", "stopPrevious", "done"}]
    /\ swapped \in [Inbound -> Inbound \cup {None}]
    /\ loop \in [Inbound -> {"none", "running", "ended"}]
    /\ told \subseteq Inbound
    /\ current \in Inbound \cup {None} /\ entry \in Inbound \cup {None}
    /\ old \in BOOLEAN /\ read \in Inbound \cup {None}
    /\ held \in [Stoppers -> Inbound \cup {None}]
    /\ replies \in 0..MaxReplies
    /\ misfired \subseteq Inbound
    /\ running \in BOOLEAN /\ stopPc \in {"none", "first", "second", "done"}

Init ==
    /\ hpc = [m \in Inbound |-> "new"]
    /\ swapped = [m \in Inbound |-> None]
    /\ loop = [m \in Inbound |-> "none"]
    /\ told = {} /\ current = None
    /\ entry = None /\ old = FALSE /\ read = None
    /\ held = [s \in Stoppers |-> None]
    /\ replies = 0 /\ misfired = {}
    /\ running = TRUE /\ stopPc = "none"

\* The context of the channel has been cancelled.
Cancelled == IF Kind = "byChat" THEN stopPc = "done" ELSE stopPc \in {"second", "done"}

-----------------------------------------------------------------------------
\* HandleMessage: StartTyping, and RecordTypingStop with what it returned

Goto(m, from, to) == hpc[m] = from /\ hpc' = [hpc EXCEPT ![m] = to]

Arrive(m) ==
    /\ Overlap \/ \A n \in Inbound : hpc[n] \in {"new", "done"}
    /\ IF Kind = "session" /\ ~running
       THEN Goto(m, "new", "record")    \* the stop function does nothing
       ELSE Goto(m, "new", "start")
    /\ UNCHANGED <<swapped, managerVars, channelVars, stopVars>>

\* Telegram: a loop on a context of its own
StartTypingOwn(m) ==
    /\ Kind = "own"
    /\ Goto(m, "start", "record") /\ loop' = [loop EXCEPT ![m] = "running"]
    /\ UNCHANGED <<told, current, swapped, managerVars, stopVars>>

\* QQ without a message to notify of and LINE in a group return a function that
\* does nothing.
StartTypingNothing(m) ==
    /\ Kind = "own"
    /\ Goto(m, "start", "record")
    /\ UNCHANGED <<channelVars, swapped, managerVars, stopVars>>

\* LINE returns an error when the first indicator is refused, and nothing is
\* recorded.
StartTypingRefused(m) ==
    /\ Kind = "own"
    /\ Goto(m, "start", "done")
    /\ UNCHANGED <<channelVars, swapped, managerVars, stopVars>>

\* Mutant: the loop it replaces is left to itself
StartTypingMappedKeeps(m) ==
    /\ Kind \in {"session", "byChat"}
    /\ Goto(m, "start", "record")
    /\ current' = m
    /\ loop' = [loop EXCEPT ![m] = "running"]
    /\ UNCHANGED <<told, swapped, managerVars, stopVars>>

\* startTyping of Discord, StartTyping of Matrix: the loop of the map is told
\* to stop, and the map gets the new one.
StartTypingMapped(m) ==
    /\ Kind \in {"session", "byChat"}
    /\ Goto(m, "start", "record")
    /\ told' = told \cup ({current} \ {None})
    /\ current' = m
    /\ loop' = [loop EXCEPT ![m] = "running"]
    /\ UNCHANGED <<swapped, managerVars, stopVars>>

\* Mutant: a session is forgotten, whoever it belongs to by now
StopFunctionForgets(m) ==
    /\ told' = told \cup {m}
    /\ current' = None

\* The stop function that StartTyping of m returned
StopFunction(m) ==
    CASE Kind = "own" ->
            told' = told \cup {m} /\ UNCHANGED current
      [] Kind = "session" ->
            /\ told' = told \cup {m}
            /\ current' = IF current = m THEN None ELSE current
      [] OTHER ->
            /\ told' = told \cup ({current} \ {None})
            /\ current' = None

\* RecordTypingStop swaps, ...
Record(m) ==
    /\ Goto(m, "record", "stopPrevious")
    /\ swapped' = [swapped EXCEPT ![m] = entry]
    /\ entry' = m /\ old' = FALSE
    /\ UNCHANGED <<read, held, replies, misfired, channelVars, stopVars>>

\* ... and calls what it replaced.
StopPrevious(m) ==
    /\ Goto(m, "stopPrevious", "done")
    /\ swapped' = [swapped EXCEPT ![m] = None]
    /\ IF swapped[m] = None THEN UNCHANGED <<told, current>> ELSE StopFunction(swapped[m])
    /\ UNCHANGED <<loop, managerVars, stopVars>>

\* Mutant: the recorder calls what it has just recorded
StopPreviousNew(m) ==
    /\ Goto(m, "stopPrevious", "done")
    /\ swapped' = [swapped EXCEPT ![m] = None]
    /\ IF swapped[m] = None THEN UNCHANGED <<told, current>> ELSE StopFunction(m)
    /\ UNCHANGED <<loop, managerVars, stopVars>>

-----------------------------------------------------------------------------
\* preSend and runTTLJanitor

PreSend(s) ==
    /\ held[s] = None /\ replies < MaxReplies
    /\ replies' = replies + 1
    /\ held' = [held EXCEPT ![s] = entry]
    /\ entry' = None /\ old' = FALSE
    /\ UNCHANGED <<hpc, swapped, read, misfired, channelVars, stopVars>>

Expire ==
    /\ entry # None /\ ~old
    /\ old' = TRUE
    /\ UNCHANGED <<hpc, swapped, entry, read, held, replies, misfired, channelVars, stopVars>>

JanitorReads ==
    /\ old /\ read = None /\ held["janitor"] = None
    /\ read' = entry
    /\ UNCHANGED <<hpc, swapped, entry, old, held, replies, misfired, channelVars, stopVars>>

\* LoadAndDelete of the key, whose entry may be another one by now; the stop
\* function is that of the entry it read.
JanitorEvicts ==
    /\ read # None
    /\ IF entry = None THEN UNCHANGED held ELSE held' = [held EXCEPT !["janitor"] = read]
    /\ misfired' = misfired \cup ({entry} \ {None, read})
    /\ entry' = None /\ old' = FALSE
    /\ read' = None
    /\ UNCHANGED <<hpc, swapped, replies, channelVars, stopVars>>

CallHeld(s) ==
    /\ held[s] # None
    /\ StopFunction(held[s])
    /\ held' = [held EXCEPT ![s] = None]
    /\ UNCHANGED <<hpc, swapped, loop, entry, old, read, replies, misfired, stopVars>>

-----------------------------------------------------------------------------
\* The loops, and Stop of the channel

\* A loop ends when it is told to and with the context of the channel, ...
LoopEnds(m) ==
    /\ loop[m] = "running"
    /\ m \in told \/ Cancelled
    /\ loop' = [loop EXCEPT ![m] = "ended"]
    /\ UNCHANGED <<hpc, swapped, told, current, managerVars, stopVars>>

\* ... in Discord also after five minutes; the map keeps its channel.
LoopTimesOut(m) ==
    /\ loop[m] = "running" /\ Kind = "byChat"
    /\ loop' = [loop EXCEPT ![m] = "ended"]
    /\ UNCHANGED <<hpc, swapped, told, current, managerVars, stopVars>>

\* SetRunning(false); then Discord sweeps its map and cancels, Matrix cancels
\* and sweeps.
StopBegins ==
    /\ stopPc = "none" /\ stopPc' = "first"
    /\ running' = FALSE
    /\ UNCHANGED <<hpc, swapped, managerVars, channelVars>>

StopSweeps ==
    /\ \/ Kind = "byChat" /\ stopPc = "first" /\ stopPc' = "second"
       \/ Kind = "session" /\ stopPc = "second" /\ stopPc' = "done"
    /\ told' = told \cup ({current} \ {None})
    /\ current' = None
    /\ UNCHANGED <<hpc, swapped, loop, managerVars, running>>

StopCancels ==
    /\ IF Kind = "byChat" THEN stopPc = "second" /\ stopPc' = "done"
       ELSE stopPc = "first" /\ stopPc' = "second"
    /\ UNCHANGED <<hpc, swapped, managerVars, channelVars, running>>

Handle(m) ==
    \/ Arrive(m)
    \/ StartTypingOwn(m) \/ StartTypingNothing(m) \/ StartTypingRefused(m)
    \/ StartTypingMapped(m)
    \/ Record(m) \/ StopPrevious(m)

Next ==
    \/ \E m \in Inbound : Handle(m) \/ LoopEnds(m) \/ LoopTimesOut(m)
    \/ \E s \in Repliers : PreSend(s)
    \/ \E s \in Stoppers : CallHeld(s)
    \/ Expire \/ JanitorReads \/ JanitorEvicts
    \/ StopBegins \/ StopSweeps \/ StopCancels

Spec == Init /\ [][Next]_vars

-----------------------------------------------------------------------------

Shown(m) == loop[m] = "running" /\ m \notin told

\* "The returned stop function is idempotent and cancels the goroutine": only
\* that one.  While a message is recorded as being answered nobody has stopped
\* its indicator, although handlers, replies and the janitor call the stop
\* functions of earlier messages late; only that of the next message, on and
\* about to be recorded, takes its place.
RecordedIsShown ==
    entry # None /\ running =>
        \/ entry \notin told
        \/ \E m \in Inbound : hpc[m] = "record" /\ m \notin told

\* An indicator that is on will be stopped by somebody: the entry, a handler
\* that is about to record it or to stop it, a reply or the janitor that took
\* it, unless the janitor's race dropped it.
SomebodyStops ==
    Kind = "own" =>
        \A m \in Inbound : Shown(m) =>
            \/ entry = m \/ hpc[m] = "record" \/ m \in misfired
            \/ \E n \in Inbound : swapped[n] = m
            \/ \E s \in Stoppers : held[s] = m

\* Of a channel that keeps a map, at most the loop in the map goes on, and what
\* is in the map was not told to stop: a channel closed twice would panic.
MapHoldsTheLoop ==
    Kind # "own" =>
        /\ \A m \in Inbound : Shown(m) => current = m
        /\ current # None => current \notin told

TypingInv ==
    /\ Kind # "byChat" => RecordedIsShown
    /\ SomebodyStops
    /\ MapHoldsTheLoop
=============================================================================
