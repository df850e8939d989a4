--------------------------- MODULE WhatsAppNative ---------------------------
(***************************************************************************)
(* The WhatsApp channel without a bridge                                   *)
(* (pkg/channels/whatsapp_native/whatsapp_native.go): Start, also of a     *)
(* channel that was stopped before, Stop with a limited time, the handler  *)
(* of disconnects, reconnect loops and the goroutine that shows QR codes.  *)
(* reconnectMu makes the handler and the beginning of Stop atomic; mu is   *)
(* held for single reads and writes.                                       *)
(*                                                                         *)
(* Each Start makes a run: its context, its client and its container have  *)
(* the run's number.  A loop looks at the fields, so that a loop which     *)
(* outlives its run goes on with the next.  Connect may succeed or fail,   *)
(* fails on a client that is connected, and may be late.                   *)
(***************************************************************************)
EXTENDS Naturals, FiniteSets

CONSTANTS
    Loops,          \* reconnect goroutines
    MaxRuns,        \* bound on Starts
    MaxBreaks       \* bound on connections that break

ConstantsAssumption == IsFiniteSet(Loops) /\ MaxRuns \in Nat \ {0} /\ MaxBreaks \in Nat

Runs == 1..MaxRuns

VARIABLES
    run,            \* number of the last Start; c.runCtx is its context
    cancelled,      \* runs whose context is cancelled
    client,         \* c.client and c.container: a run, or 0
    connected,      \* clients that are connected
    closedStores,   \* containers that are closed
    breaks,         \* connections that broke
    handle,         \* runs of which a Disconnected event is under way
    reconnecting, stopping, running,
    qr,             \* the run whose QR goroutine lives, or 0
    pc, at,         \* [Loops -> where the loop stands, and the client it took]
    startPc, stopPc,
    took,           \* the client that Stop took, or 0
    alone,          \* history: no goroutine outlived the last Stop, none was there at the last Start
    unheard         \* history: disconnects that no loop took up, and in what state

clientVars == <<client, connected, closedStores>>
loopVars == <<pc, at>>
stopVars == <<stopPc, took, alone>>
vars == <<run, cancelled, clientVars, breaks, handle, reconnecting, stopping, running, qr,
          loopVars, startPc, stopVars, unheard>>

Places == {"none", "check", "take", "connect", "sleep", "clear", "done"}

TypeOK ==
    /\ run \in 0..MaxRuns /\ cancelled \subseteq Runs
    /\ client \in 0..MaxRuns /\ connected \subseteq Runs /\ closedStores \subseteq Runs
    /\ breaks \in 0..MaxBreaks /\ handle \subseteq Runs
    /\ reconnecting \in BOOLEAN /\ stopping \in BOOLEAN /\ running \in BOOLEAN
    /\ qr \in 0..MaxRuns
    /\ pc \in [Loops -> Places] /\ at \in [Loops -> 0..MaxRuns]
    /\ startPc \in {"idle", "made", "connected", "failed"}
    /\ stopPc \in {"idle", "cancel", "disconnect", "wait", "clear"}
    /\ took \in 0..MaxRuns /\ alone \in BOOLEAN
    /\ unheard \subseteq {"connected", "stopping"}

Init ==
    /\ run = 0 /\ cancelled = {}
    /\ client = 0 /\ connected = {} /\ closedStores = {}
    /\ breaks = 0 /\ handle = {}
    /\ reconnecting = FALSE /\ stopping = FALSE /\ running = FALSE
    /\ qr = 0
    /\ pc = [l \in Loops |-> "none"] /\ at = [l \in Loops |-> 0]
    /\ startPc = "idle" /\ stopPc = "idle"
    /\ took = 0 /\ alone = TRUE
    /\ unheard = {}

Alive(l) == pc[l] \notin {"none", "done"}
WillConnect(l) == pc[l] \in {"check", "take", "connect", "sleep"}
wg == Cardinality({l \in Loops : Alive(l)}) + (IF qr = 0 THEN 0 ELSE 1)

-----------------------------------------------------------------------------
\* Start.  The manager calls Start and Stop one after the other.

\* The flags are reset, and the store is opened; it may fail before there is
\* anything to release.
StartBegins ==
    /\ startPc = "idle" /\ stopPc = "idle" /\ ~running /\ client = 0 /\ run < MaxRuns
    /\ stopping' = FALSE /\ reconnecting' = FALSE
    /\ alone' = (alone /\ wg = 0)
    /\ \/ /\ run' = run + 1
          /\ client' = run + 1
          /\ startPc' = "made"
       \/ UNCHANGED <<run, client, startPc>>
    /\ UNCHANGED <<cancelled, connected, closedStores, breaks, handle, running, qr, loopVars,
                   stopPc, took, unheard>>

\* Connect, for a device that is paired or not; the channel with QR codes gets
\* its goroutine.
StartConnects ==
    /\ startPc = "made"
    /\ \/ connected' = connected \cup {run} /\ startPc' = "connected" /\ qr' \in {qr, run}
       \/ startPc' = "failed" /\ UNCHANGED <<connected, qr>>
    /\ UNCHANGED <<run, cancelled, client, closedStores, breaks, handle, reconnecting, stopping,
                   running, loopVars, stopVars, unheard>>

StartReturns ==
    /\ startPc = "connected"
    /\ startPc' = "idle" /\ running' = TRUE
    /\ UNCHANGED <<run, cancelled, clientVars, breaks, handle, reconnecting, stopping, qr, loopVars,
                   stopVars, unheard>>

\* cleanupOnError
StartCleansUp ==
    /\ startPc = "failed"
    /\ startPc' = "idle"
    /\ cancelled' = cancelled \cup {run}
    /\ connected' = connected \ {run}
    /\ client' = 0
    /\ closedStores' = closedStores \cup {run}
    /\ UNCHANGED <<run, breaks, handle, reconnecting, stopping, running, qr, loopVars, stopVars, unheard>>

-----------------------------------------------------------------------------
\* Disconnects

\* A connection breaks, and the library reports it.
Break(r) ==
    /\ r \in connected /\ breaks < MaxBreaks
    /\ breaks' = breaks + 1
    /\ connected' = connected \ {r}
    /\ handle' = handle \cup {r}
    /\ UNCHANGED <<run, cancelled, client, closedStores, reconnecting, stopping, running, qr, loopVars,
                   startPc, stopVars, unheard>>

\* Mutant: stopping is not looked at
EventHandlerAlways(r, l) ==
    /\ r \in handle /\ handle' = handle \ {r}
    /\ IF reconnecting
       THEN /\ unheard' = unheard \cup {"connected"}
            /\ UNCHANGED <<reconnecting, pc>>
       ELSE /\ ~Alive(l)
            /\ reconnecting' = TRUE
            /\ pc' = [pc EXCEPT ![l] = "check"]
            /\ UNCHANGED unheard
    /\ UNCHANGED <<run, cancelled, clientVars, breaks, stopping, running, qr, at, startPc, stopVars>>

\* eventHandler, under reconnectMu: one loop at a time, none once Stop began.
EventHandler(r, l) ==
    /\ r \in handle /\ handle' = handle \ {r}
    /\ IF reconnecting \/ stopping
       THEN /\ unheard' = CASE stopping -> unheard \cup {"stopping"}
                            [] ~stopping /\ \E k \in Loops : WillConnect(k) -> unheard
                            [] OTHER -> unheard \cup {"connected"}
            /\ UNCHANGED <<reconnecting, pc>>
       ELSE /\ ~Alive(l)
            /\ reconnecting' = TRUE
            /\ pc' = [pc EXCEPT ![l] = "check"]
            /\ UNCHANGED unheard
    /\ UNCHANGED <<run, cancelled, clientVars, breaks, stopping, running, qr, at, startPc, stopVars>>

-----------------------------------------------------------------------------
\* reconnectWithBackoff

LoopChecks(l) ==
    /\ pc[l] = "check"
    /\ pc' = [pc EXCEPT ![l] = IF run \in cancelled THEN "clear" ELSE "take"]
    /\ UNCHANGED <<run, cancelled, clientVars, breaks, handle, reconnecting, stopping, running, qr, at,
                   startPc, stopVars, unheard>>

LoopTakes(l) ==
    /\ pc[l] = "take"
    /\ pc' = [pc EXCEPT ![l] = IF client = 0 THEN "clear" ELSE "connect"]
    /\ at' = [at EXCEPT ![l] = client]
    /\ UNCHANGED <<run, cancelled, clientVars, breaks, handle, reconnecting, stopping, running, qr,
                   startPc, stopVars, unheard>>

LoopConnects(l) ==
    /\ pc[l] = "connect"
    /\ \/ /\ at[l] \notin connected \cup closedStores
          /\ connected' = connected \cup {at[l]}
          /\ pc' = [pc EXCEPT ![l] = "clear"]
       \/ pc' = [pc EXCEPT ![l] = "sleep"] /\ UNCHANGED connected
    /\ at' = [at EXCEPT ![l] = 0]
    /\ UNCHANGED <<run, cancelled, client, closedStores, breaks, handle, reconnecting, stopping,
                   running, qr, startPc, stopVars, unheard>>

LoopWakes(l) ==
    /\ pc[l] = "sleep"
    /\ \/ pc' = [pc EXCEPT ![l] = "check"]
       \/ run \in cancelled /\ pc' = [pc EXCEPT ![l] = "clear"]
    /\ UNCHANGED <<run, cancelled, clientVars, breaks, handle, reconnecting, stopping, running, qr, at,
                   startPc, stopVars, unheard>>

\* The deferred reset of the flag, and wg.Done
LoopEnds(l) ==
    /\ pc[l] = "clear"
    /\ reconnecting' = FALSE
    /\ pc' = [pc EXCEPT ![l] = "done"]
    /\ UNCHANGED <<run, cancelled, clientVars, breaks, handle, stopping, running, qr, at, startPc,
                   stopVars, unheard>>

\* The QR channel is closed, or the context is cancelled.
QREnds ==
    /\ qr # 0 /\ qr' = 0
    /\ UNCHANGED <<run, cancelled, clientVars, breaks, handle, reconnecting, stopping, running, loopVars,
                   startPc, stopVars, unheard>>

-----------------------------------------------------------------------------
\* Stop

StopMarks ==
    /\ stopPc = "idle" /\ startPc = "idle" /\ running
    /\ stopping' = TRUE
    /\ stopPc' = "cancel"
    /\ UNCHANGED <<run, cancelled, clientVars, breaks, handle, reconnecting, running, qr, loopVars,
                   startPc, took, alone, unheard>>

StopCancels ==
    /\ stopPc = "cancel"
    /\ cancelled' = cancelled \cup {run}
    /\ took' = client
    /\ stopPc' = "disconnect"
    /\ UNCHANGED <<run, clientVars, breaks, handle, reconnecting, stopping, running, qr, loopVars,
                   startPc, alone, unheard>>

StopDisconnects ==
    /\ stopPc = "disconnect"
    /\ connected' = connected \ {took}
    /\ stopPc' = "wait"
    /\ UNCHANGED <<run, cancelled, client, closedStores, breaks, handle, reconnecting, stopping, running,
                   qr, loopVars, startPc, took, alone, unheard>>

\* Mutant: Stop does not wait for the goroutines
StopWaitsNot ==
    /\ stopPc = "wait"
    /\ alone' = TRUE
    /\ stopPc' = "clear"
    /\ UNCHANGED <<run, cancelled, clientVars, breaks, handle, reconnecting, stopping, running, qr,
                   loopVars, startPc, took, unheard>>

\* All goroutines have ended, or the time of Stop is over.
StopWaits ==
    /\ stopPc = "wait"
    /\ \/ wg = 0 /\ alone' = TRUE
       \/ wg > 0 /\ alone' = FALSE
    /\ stopPc' = "clear"
    /\ UNCHANGED <<run, cancelled, clientVars, breaks, handle, reconnecting, stopping, running, qr,
                   loopVars, startPc, took, unheard>>

StopClears ==
    /\ stopPc = "clear"
    /\ client' = 0
    /\ closedStores' = closedStores \cup {took}
    /\ running' = FALSE
    /\ stopPc' = "idle" /\ took' = 0
    /\ UNCHANGED <<run, cancelled, connected, breaks, handle, reconnecting, stopping, qr, loopVars,
                   startPc, alone, unheard>>

Loop(l) == LoopChecks(l) \/ LoopTakes(l) \/ LoopConnects(l) \/ LoopWakes(l) \/ LoopEnds(l)

Next ==
    \/ StartBegins \/ StartConnects \/ StartReturns \/ StartCleansUp
    \/ \E r \in Runs : Break(r) \/ \E l \in Loops : EventHandler(r, l)
    \/ QREnds
    \/ \E l \in Loops : Loop(l)
    \/ StopMarks \/ StopCancels \/ StopDisconnects \/ StopWaits \/ StopClears

Spec == Init /\ [][Next]_vars

-----------------------------------------------------------------------------

\* "Now it is safe to clear and close resources": after a Stop that saw its
\* goroutines end none is left, none uses the container it closes, and the
\* count of the WaitGroup does not rise while Stop waits.
SafeToClose ==
    alone /\ (stopPc = "clear" \/ (stopPc = "idle" /\ stopping)) => wg = 0

\* One loop at a time, except beside one that a Stop left behind, or that an
\* event of the earlier client began before a Start reset the flag.
OneLoop ==
    alone => Cardinality({l \in Loops : Alive(l)}) <= 1

\* A client that was stopped is not connected, unless a loop had taken it
\* before Stop disconnected it.
Left == {r \in connected : r \in closedStores}

\* A disconnect leads to a loop, or somebody is connected again, or Stop has
\* begun; a disconnect between the Connect of a loop and the reset of the flag
\* is not heard ("connected").
DisconnectHeard ==
    running /\ ~stopping /\ unheard = {} /\ alone /\ client \notin connected /\ handle = {} =>
        \E l \in Loops : Alive(l)

WhatsAppInv == SafeToClose /\ OneLoop /\ DisconnectHeard

\* What the code promises and does not keep: see README.md.
StopLeavesDisconnected == ~running /\ startPc = "idle" => Left = {}
EveryDisconnectHeard ==
    running /\ ~stopping /\ alone /\ client \notin connected /\ handle = {} =>
        \E l \in Loops : Alive(l)
=============================================================================
