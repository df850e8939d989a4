---------------------------- MODULE PicoChannel ----------------------------
(***************************************************************************)
(* The Pico channel (pkg/channels/pico/pico.go): WebSocket connections of  *)
(* browsers, kept in a sync.Map beside a counter, each with a goroutine    *)
(* that reads it; Send to all connections of a session, which the channel  *)
(* manager repeats when it fails; and Stop, beside handshakes in progress. *)
(*                                                                         *)
(* A Range over a sync.Map visits what is in the map throughout once, and  *)
(* what comes or goes meanwhile or not, as it likes.                       *)
(***************************************************************************)
EXTENDS Naturals, FiniteSets

CONSTANTS
    Conns,          \* connections, each used once
    Sessions,
    Senders,        \* calls of Send, by workers of the channel manager
    maxConns,       \* MaxConnections
    MaxTries        \* bound on attempts of a send

ASSUME ConstantsAssumption ==
    /\ IsFiniteSet(Conns) /\ "stop" \notin Senders
    /\ maxConns \in Nat \ {0} /\ MaxTries \in Nat \ {0}

VARIABLES
    session,        \* [Conns -> Sessions], by the query of the handshake
    phase,          \* [Conns -> where the handshake or readLoop stands]
    connections,    \* the sync.Map
    connCount,
    closed,         \* connections closed by us
    left,           \* connections whose client has gone
    running,
    cancelled,      \* c.ctx
    stopPc,
    visited,        \* [Senders \cup {"stop"} -> connections the Range has visited]
    begun,          \* [same -> connections in the map when it began]
    send,           \* [Senders -> the call: its session, state and attempts]
    received        \* [Conns -> [Senders -> times the client was sent its message]]

connVars == <<session, phase, connections, connCount, closed, left>>
stopVars == <<running, cancelled, stopPc>>
sendVars == <<send, received>>
rangeVars == <<visited, begun>>
vars == <<connVars, stopVars, rangeVars, sendVars>>

Rangers == Senders \cup {"stop"}
Phases ==
    {"new", "checked", "stored", "looping", "reading", "closing", "deleting", "counting", "gone"}

TypeOK ==
    /\ session \in [Conns -> Sessions]
    /\ phase \in [Conns -> Phases]
    /\ connections \subseteq Conns /\ closed \subseteq Conns /\ left \subseteq Conns
    /\ connCount \in 0..Cardinality(Conns)
    /\ running \in BOOLEAN /\ cancelled \in BOOLEAN
    /\ stopPc \in {"idle", "range", "cancel", "done"}
    /\ visited \in [Rangers -> SUBSET Conns] /\ begun \in [Rangers -> SUBSET Conns]
    /\ send \in [Senders -> [to : Sessions, pc : {"idle", "range", "sent", "failed"},
                             tries : 0..MaxTries, sent : BOOLEAN]]
    /\ received \in [Conns -> [Senders -> 0..MaxTries]]

\* After Start
Init ==
    /\ session \in [Conns -> Sessions]
    /\ phase = [c \in Conns |-> "new"]
    /\ connections = {} /\ connCount = 0
    /\ closed = {} /\ left = {}
    /\ running = TRUE /\ cancelled = FALSE /\ stopPc = "idle"
    /\ visited = [r \in Rangers |-> {}] /\ begun = [r \in Rangers |-> {}]
    /\ send \in [Senders -> [to : Sessions, pc : {"idle"}, tries : {0}, sent : {FALSE}]]
    /\ received = [c \in Conns |-> [s \in Senders |-> 0]]

Move(c, from, to) == phase[c] = from /\ phase' = [phase EXCEPT ![c] = to]

-----------------------------------------------------------------------------
\* handleWebSocket, of a request that is authorised: running, and the limit, ...
Check(c) ==
    /\ running /\ connCount < maxConns
    /\ Move(c, "new", "checked")
    /\ UNCHANGED <<session, connections, connCount, closed, left, stopVars, rangeVars, sendVars>>

\* ... Upgrade, which may fail, and Store, ...
Upgrade(c) ==
    /\ \/ Move(c, "checked", "stored") /\ connections' = connections \cup {c}
       \/ Move(c, "checked", "gone") /\ UNCHANGED connections
    /\ UNCHANGED <<session, connCount, closed, left, stopVars, rangeVars, sendVars>>

\* ... and the counter, with go readLoop.
Connected(c) ==
    /\ Move(c, "stored", "looping")
    /\ connCount' = connCount + 1
    /\ UNCHANGED <<session, connections, closed, left, stopVars, rangeVars, sendVars>>

\* readLoop looks at the context before each read.
LoopRound(c) ==
    /\ Move(c, "looping", IF cancelled THEN "closing" ELSE "reading")
    /\ UNCHANGED <<session, connections, connCount, closed, left, stopVars, rangeVars, sendVars>>

\* A message.send is published (HandleMessage), pings and what does not parse
\* are answered on the same connection: nothing of it is kept here.
ReadMessage(c) ==
    /\ Move(c, "reading", "looping")
    /\ c \notin closed /\ c \notin left
    /\ UNCHANGED <<session, connections, connCount, closed, left, stopVars, rangeVars, sendVars>>

\* The connection was closed, the client has left, or ReadTimeout passed.
ReadFails(c) ==
    /\ Move(c, "reading", "closing")
    /\ UNCHANGED <<session, connections, connCount, closed, left, stopVars, rangeVars, sendVars>>

\* The deferred close, Delete and Add(-1)
DeferClose(c) ==
    /\ Move(c, "closing", "deleting")
    /\ closed' = closed \cup {c}
    /\ UNCHANGED <<session, connections, connCount, left, stopVars, rangeVars, sendVars>>

DeferDelete(c) ==
    /\ Move(c, "deleting", "counting")
    /\ connections' = connections \ {c}
    /\ UNCHANGED <<session, connCount, closed, left, stopVars, rangeVars, sendVars>>

DeferCount(c) ==
    /\ Move(c, "counting", "gone")
    /\ connCount' = connCount - 1
    /\ UNCHANGED <<session, connections, closed, left, stopVars, rangeVars, sendVars>>

ClientLeaves(c) ==
    /\ phase[c] \in {"looping", "reading"} /\ c \notin left
    /\ left' = left \cup {c}
    /\ UNCHANGED <<session, phase, connections, connCount, closed, stopVars, rangeVars, sendVars>>

-----------------------------------------------------------------------------
\* Range

RangeBegins(r) ==
    /\ begun' = [begun EXCEPT ![r] = connections]
    /\ visited' = [visited EXCEPT ![r] = {}]

Visit(r, c) ==
    /\ c \in connections \ visited[r]
    /\ visited' = [visited EXCEPT ![r] = @ \cup {c}]
    /\ UNCHANGED begun

\* Mutant: a Range that found a connection ends
RangeEndsEarly(r) ==
    /\ begun[r] \cap connections = {} \/ visited[r] # {}
    /\ visited' = [visited EXCEPT ![r] = {}]

RangeEnds(r) ==
    /\ begun[r] \cap connections \subseteq visited[r]
    /\ visited' = [visited EXCEPT ![r] = {}]

-----------------------------------------------------------------------------
\* Send: broadcastToSession; EditMessage, StartTyping and SendPlaceholder are
\* the same broadcast of other messages.

SendBegins(s) ==
    /\ send[s].pc = "idle"
    /\ IF running
       THEN send' = [send EXCEPT ![s].pc = "range", ![s].tries = @ + 1] /\ RangeBegins(s)
       ELSE send' = [send EXCEPT ![s].pc = "failed"] /\ UNCHANGED rangeVars
    /\ UNCHANGED <<connVars, stopVars, received>>

\* writeJSON: it fails on a closed connection and may fail when the client left.
SendVisits(s, c) ==
    /\ send[s].pc = "range"
    /\ Visit(s, c)
    /\ \/ /\ session[c] = send[s].to /\ c \notin closed
          /\ received' = [received EXCEPT ![c][s] = @ + 1]
          /\ send' = [send EXCEPT ![s].sent = TRUE]
       \/ /\ session[c] # send[s].to \/ c \in closed \cup left
          /\ UNCHANGED sendVars
    /\ UNCHANGED <<connVars, stopVars>>

\* Mutant: the error of the last connection is the result
SendEndsLastError(s) ==
    /\ send[s].pc = "range" /\ RangeEnds(s)
    /\ begun' = [begun EXCEPT ![s] = {}]
    /\ send' = [send EXCEPT ![s].pc =
                    IF send[s].sent /\ \A c \in visited[s] : session[c] = send[s].to => c \notin closed
                    THEN "sent" ELSE IF send[s].tries < MaxTries THEN "idle" ELSE "failed"]
    /\ UNCHANGED <<connVars, stopVars, received>>

\* No connection took it: ErrSendFailed, and the manager's worker tries again.
SendEnds(s) ==
    /\ send[s].pc = "range" /\ RangeEnds(s)
    /\ begun' = [begun EXCEPT ![s] = {}]
    /\ send' = [send EXCEPT ![s].pc = IF send[s].sent THEN "sent"
                                      ELSE IF send[s].tries < MaxTries THEN "idle" ELSE "failed"]
    /\ UNCHANGED <<connVars, stopVars, received>>

-----------------------------------------------------------------------------
\* Stop

StopBegins ==
    /\ stopPc = "idle"
    /\ running' = FALSE
    /\ stopPc' = "range"
    /\ RangeBegins("stop")
    /\ UNCHANGED <<connVars, cancelled, sendVars>>

\* Mutant: the map is cleared without closing what is in it
StopVisitsOnlyDeletes(c) ==
    /\ stopPc = "range"
    /\ Visit("stop", c)
    /\ connections' = connections \ {c}
    /\ UNCHANGED <<session, phase, closed, connCount, left, stopVars, sendVars>>

StopVisits(c) ==
    /\ stopPc = "range"
    /\ Visit("stop", c)
    /\ closed' = closed \cup {c}
    /\ connections' = connections \ {c}
    /\ UNCHANGED <<session, phase, connCount, left, stopVars, sendVars>>

StopRanged ==
    /\ stopPc = "range" /\ RangeEnds("stop")
    /\ stopPc' = "cancel"
    /\ UNCHANGED <<connVars, running, cancelled, begun, sendVars>>

StopCancels ==
    /\ stopPc = "cancel"
    /\ cancelled' = TRUE
    /\ stopPc' = "done"
    /\ UNCHANGED <<connVars, running, rangeVars, sendVars>>

Conn(c) ==
    \/ Check(c) \/ Upgrade(c) \/ Connected(c) \/ LoopRound(c) \/ ReadMessage(c) \/ ReadFails(c)
    \/ DeferClose(c) \/ DeferDelete(c) \/ DeferCount(c) \/ ClientLeaves(c)

Next ==
    \/ \E c \in Conns : Conn(c) \/ StopVisits(c) \/ \E s \in Senders : SendVisits(s, c)
    \/ \E s \in Senders : SendBegins(s) \/ SendEnds(s)
    \/ StopBegins \/ StopRanged \/ StopCancels

Spec == Init /\ [][Next]_vars

-----------------------------------------------------------------------------

\* A retry follows an attempt that reached nobody: however the manager repeats
\* a send, no client is sent the message twice.
NeverTwice == \A c \in Conns, s \in Senders : received[c][s] <= 1

\* A send that fails has reached none of them.
FailedReachedNone ==
    \A s \in Senders : send[s].pc = "failed" => \A c \in Conns : received[c][s] = 0

\* Stop closes every connection but those whose handshake it overtook, which
\* end with their next message or ReadTimeout.
StopClosesAll ==
    stopPc \in {"cancel", "done"} =>
        \A c \in Conns : phase[c] \in {"looping", "reading"} =>
            c \in closed \/ c \notin begun["stop"]

\* A connection that is read can be found by the next Send, and the counter
\* counts what the limit is about: the readers.
FoundWhileOpen ==
    /\ \A c \in Conns : phase[c] \in {"looping", "reading"} /\ c \notin closed => c \in connections
    /\ connCount = Cardinality({c \in Conns : phase[c] \in {"looping", "reading", "closing", "deleting", "counting"}})

PicoInv == NeverTwice /\ FailedReachedNone /\ StopClosesAll /\ FoundWhileOpen

\* A send that succeeds has reached every connection of its session that was
\* there all the time.
EveryTab ==
    [][\A s \in Senders : send[s].pc = "range" /\ send'[s].pc = "sent" =>
          \A c \in begun[s] \cap connections :
              session[c] = send[s].to /\ c \notin closed \cup left => received[c][s] = 1]_vars

\* MaxConnections: two handshakes that both find the last place exceed it.
LimitHolds == connCount <= maxConns
=============================================================================
