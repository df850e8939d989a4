------------------------------- MODULE OneBot -------------------------------
(***************************************************************************)
(* The OneBot channel's connection (pkg/channels/onebot/onebot.go): one    *)
(* WebSocket that Start or the reconnect loop dials, a listener for each   *)
(* connection, API requests that wait for the answer with their echo, and  *)
(* Stop.  The connection breaks at any time, answers come late or never,   *)
(* and Stop may come while the loop is dialling.                           *)
(*                                                                         *)
(* A connection is the number of its dial, an echo the number of its       *)
(* request.  fetchSelfID is the request of the goroutine that dialled; the *)
(* others (reactions) each have a goroutine of their own.                  *)
(***************************************************************************)
EXTENDS Naturals

CONSTANTS
    Reactions,      \* goroutines of setMsgEmojiLike
    Loop,           \* Start, then the reconnect loop: it requests fetchSelfID
    MaxConns,       \* bound on connections
    MaxEcho         \* bound on API requests; MaxConns of them are fetchSelfID's

ConstantsAssumption == Loop \notin Reactions /\ {MaxConns, MaxEcho} \subseteq Nat

Callers == Reactions \cup {Loop}
Conns == 1..MaxConns
Echoes == 1..MaxEcho

VARIABLES
    link,           \* [Conns -> "none", "up", "down" (the peer is gone), "closed"]
    conn,           \* c.conn, 0 for nil
    loop,           \* where Start or the reconnect loop is
    listener,       \* [Conns -> "none", "begun", "reading", "ended"]
    canceled,       \* c.ctx
    stop,           \* where Stop is
    call,           \* [Callers -> where its sendAPIRequest is]
    sock, echo,     \* its connection, its echo
    pending,        \* echoes in c.pending
    ch,             \* [Echoes -> what the request's channel holds]
    echoCounter,
    wire            \* echoes whose answer is on its way

connVars == <<link, conn>>
callVars == <<call, sock, echo, pending, ch, echoCounter, wire>>
vars == <<connVars, loop, listener, canceled, stop, callVars>>

dialled == {c \in Conns : link[c] # "none"}

TypeOK ==
    /\ link \in [Conns -> {"none", "up", "down", "closed"}] /\ conn \in 0..MaxConns
    /\ loop \in {"dial", "listen", "fetch", "wait", "ended"}
    /\ listener \in [Conns -> {"none", "begun", "reading", "ended"}]
    /\ canceled \in BOOLEAN /\ stop \in {"no", "wake", "close", "done"}
    /\ call \in [Callers -> {"idle", "register", "write", "answer", "return"}]
    /\ sock \in [Callers -> 0..MaxConns] /\ echo \in [Callers -> 0..MaxEcho]
    /\ pending \subseteq 1..echoCounter /\ wire \subseteq 1..echoCounter
    /\ ch \in [Echoes -> {"empty", "answer", "nil"}]
    /\ echoCounter \in 0..MaxEcho

\* NewOneBotChannel and the beginning of Start
Init ==
    /\ link = [c \in Conns |-> "none"] /\ conn = 0
    /\ loop = "dial"
    /\ listener = [c \in Conns |-> "none"]
    /\ canceled = FALSE /\ stop = "no"
    /\ call = [p \in Callers |-> "idle"]
    /\ sock = [p \in Callers |-> 0] /\ echo = [p \in Callers |-> 0]
    /\ pending = {} /\ wire = {}
    /\ ch = [e \in Echoes |-> "empty"]
    /\ echoCounter = 0

-----------------------------------------------------------------------------
(* Connecting: Start, and reconnectLoop                                    *)

Fresh(c) == c \in Conns /\ link[c] = "none" /\ \A d \in Conns : d < c => link[d] # "none"

\* connect, when the dial succeeds
connect(c) ==
    /\ loop = "dial" /\ Fresh(c)
    /\ link' = [link EXCEPT ![c] = "up"]
    /\ conn' = c
    /\ loop' = "listen"
    /\ UNCHANGED <<listener, canceled, stop, callVars>>

\* and when it does not; the loop tries again after the interval
connectFails ==
    /\ loop = "dial"
    /\ loop' = "wait"
    /\ UNCHANGED <<connVars, listener, canceled, stop, callVars>>

\* Mutant: the listener is not started again after a reconnect
StartListenOnce ==
    /\ loop = "listen"
    /\ LET c == CHOOSE c \in dialled : \A d \in dialled : d <= c IN
        listener' = [listener EXCEPT ![c] = IF c = 1 THEN "begun" ELSE "none"]
    /\ loop' = "fetch"
    /\ UNCHANGED <<connVars, canceled, stop, callVars>>

\* go c.listen(): the listener takes c.conn when it starts.
StartListen ==
    /\ loop = "listen"
    /\ LET c == CHOOSE c \in dialled : \A d \in dialled : d <= c IN
        listener' = [listener EXCEPT ![c] = "begun"]
    /\ loop' = "fetch"
    /\ UNCHANGED <<connVars, canceled, stop, callVars>>

\* fetchSelfID is over; the next turn of reconnectLoop
FetchReturns ==
    /\ loop = "fetch" /\ call[Loop] = "return"
    /\ loop' = "wait"
    /\ call' = [call EXCEPT ![Loop] = "idle"]
    /\ UNCHANGED <<connVars, listener, canceled, stop, sock, echo, pending, ch, echoCounter, wire>>

\* reconnectLoop after the interval, when there is no connection
Reconnect ==
    /\ loop = "wait" /\ conn = 0 /\ ~canceled
    /\ \E c \in Conns : Fresh(c)
    /\ loop' = "dial"
    /\ UNCHANGED <<connVars, listener, canceled, stop, callVars>>

LoopEnds ==
    /\ loop = "wait" /\ canceled
    /\ loop' = "ended"
    /\ UNCHANGED <<connVars, listener, canceled, stop, callVars>>

-----------------------------------------------------------------------------
(* listen                                                                  *)

\* The listener of the c-th dial reads c.conn once: nil when Stop was faster.
ListenBegins(c) ==
    /\ listener[c] = "begun"
    /\ listener' = [listener EXCEPT ![c] =
        IF conn = 0 \/ canceled THEN "ended" ELSE "reading"]
    /\ UNCHANGED <<connVars, loop, canceled, stop, callVars>>

\* Mutant: the connection is closed and not forgotten
ReadErrorKeepsConn(c) ==
    /\ listener[c] = "reading" /\ link[c] \in {"down", "closed"}
    /\ listener' = [listener EXCEPT ![c] = "ended"]
    /\ link' = [link EXCEPT ![c] = "closed"]
    /\ UNCHANGED <<conn, loop, canceled, stop, callVars>>

\* ReadMessage fails: the peer is gone, no pong came within the deadline, or
\* Stop has closed the connection.
ReadError(c) ==
    /\ listener[c] = "reading" /\ link[c] \in {"down", "closed"}
    /\ listener' = [listener EXCEPT ![c] = "ended"]
    /\ IF conn = c THEN link' = [link EXCEPT ![c] = "closed"] /\ conn' = 0
                   ELSE UNCHANGED connVars
    /\ UNCHANGED <<loop, canceled, stop, callVars>>

\* An answer: it is put into the channel of the request with its echo, if that
\* still waits and its channel, which holds one, is empty.
ReadAnswer(c, e) ==
    /\ listener[c] = "reading" /\ link[c] = "up" /\ e \in wire
    /\ wire' = wire \ {e}
    /\ ch' = IF e \in pending /\ ch[e] = "empty" THEN [ch EXCEPT ![e] = "answer"] ELSE ch
    /\ UNCHANGED <<connVars, loop, listener, canceled, stop, call, sock, echo, pending,
                   echoCounter>>

\* The context is looked at after every message that was read.
ListenEnds(c) ==
    /\ listener[c] = "reading" /\ canceled
    /\ listener' = [listener EXCEPT ![c] = "ended"]
    /\ UNCHANGED <<connVars, loop, canceled, stop, callVars>>

\* environment: the peer goes away; answers under way are lost
Break(c) ==
    /\ link[c] = "up"
    /\ link' = [link EXCEPT ![c] = "down"]
    /\ wire' = {}
    /\ UNCHANGED <<conn, loop, listener, canceled, stop, call, sock, echo, pending, ch,
                   echoCounter>>

-----------------------------------------------------------------------------
(* sendAPIRequest                                                          *)

\* The connection is read under the lock; without one the request fails.
Request(p) ==
    /\ call[p] = "idle"
    /\ IF p = Loop THEN echoCounter < MaxEcho ELSE echoCounter < MaxEcho - MaxConns
    /\ p = Loop => loop = "fetch"
    /\ call' = [call EXCEPT ![p] = IF conn = 0 THEN "return" ELSE "register"]
    /\ sock' = [sock EXCEPT ![p] = conn]
    /\ echoCounter' = echoCounter + 1
    /\ echo' = [echo EXCEPT ![p] = echoCounter']
    /\ UNCHANGED <<connVars, loop, listener, canceled, stop, pending, ch, wire>>

Register(p) ==
    /\ call[p] = "register"
    /\ pending' = pending \cup {echo[p]}
    /\ call' = [call EXCEPT ![p] = "write"]
    /\ UNCHANGED <<connVars, loop, listener, canceled, stop, sock, echo, ch, echoCounter, wire>>

\* The deferred delete, on every way out
Forget(p) ==
    /\ pending' = pending \ {echo[p]}
    /\ call' = [call EXCEPT ![p] = "return"]

\* A write on a broken connection may fail or be lost without notice.
Write(p) ==
    /\ call[p] = "write"
    /\ \/ /\ link[sock[p]] = "up"
          /\ wire' = wire \cup {echo[p]}
          /\ call' = [call EXCEPT ![p] = "answer"] /\ UNCHANGED pending
       \/ /\ link[sock[p]] = "down"
          /\ call' = [call EXCEPT ![p] = "answer"] /\ UNCHANGED <<pending, wire>>
       \/ /\ link[sock[p]] \in {"down", "closed"}
          /\ Forget(p) /\ UNCHANGED wire
    /\ UNCHANGED <<connVars, loop, listener, canceled, stop, sock, echo, ch, echoCounter>>

\* The answer, the nil of Stop, the timeout, or the end of the context
RequestEnds(p) ==
    /\ call[p] = "answer"
    /\ Forget(p)
    /\ UNCHANGED <<connVars, loop, listener, canceled, stop, sock, echo, ch, echoCounter, wire>>

\* The goroutine of a reaction is over; another may come.
ReactionDone(p) ==
    /\ p \in Reactions /\ call[p] = "return"
    /\ call' = [call EXCEPT ![p] = "idle"]
    /\ UNCHANGED <<connVars, loop, listener, canceled, stop, sock, echo, pending, ch, echoCounter,
                   wire>>

-----------------------------------------------------------------------------
(* Stop                                                                    *)

StopCancels ==
    /\ stop = "no"
    /\ canceled' = TRUE
    /\ stop' = "wake"
    /\ UNCHANGED <<connVars, loop, listener, callVars>>

StopWakes ==
    /\ stop = "wake"
    /\ ch' = [e \in Echoes |-> IF e \in pending /\ ch[e] = "empty" THEN "nil" ELSE ch[e]]
    /\ pending' = {}
    /\ stop' = "close"
    /\ UNCHANGED <<connVars, loop, listener, canceled, call, sock, echo, echoCounter, wire>>

\* Mutant: Stop leaves the connection to the listener
StopWithoutClose ==
    /\ stop = "close"
    /\ conn' = 0
    /\ stop' = "done"
    /\ UNCHANGED <<link, loop, listener, canceled, callVars>>

StopCloses ==
    /\ stop = "close"
    /\ link' = IF conn = 0 THEN link ELSE [link EXCEPT ![conn] = "closed"]
    /\ conn' = 0
    /\ stop' = "done"
    /\ UNCHANGED <<loop, listener, canceled, callVars>>

-----------------------------------------------------------------------------

Stop == StopCancels \/ StopWakes \/ StopCloses

LoopStep ==
    \/ \E c \in Conns : connect(c)
    \/ connectFails
    \/ StartListen
    \/ FetchReturns
    \/ Reconnect
    \/ LoopEnds

ListenStep(c) ==
    \/ ListenBegins(c)
    \/ ReadError(c)
    \/ \E e \in Echoes : ReadAnswer(c, e)
    \/ ListenEnds(c)

RequestStep(p) ==
    \/ Request(p)
    \/ Register(p)
    \/ Write(p)
    \/ RequestEnds(p)
    \/ ReactionDone(p)

Next ==
    \/ LoopStep
    \/ \E c \in Conns : ListenStep(c)
    \/ \E c \in Conns : Break(c)
    \/ \E p \in Callers : RequestStep(p)
    \/ Stop

Spec == Init /\ [][Next]_vars

\* Goroutines run, a broken connection is noticed by its read deadline, a
\* request by its timeout, and the server does not refuse every dial.
Fairness ==
    /\ WF_vars(LoopStep)
    /\ \A c \in Conns : /\ SF_vars(connect(c)) /\ WF_vars(ListenBegins(c))
                        /\ WF_vars(ReadError(c))
    /\ \A p \in Callers : WF_vars(Register(p)) /\ WF_vars(Write(p)) /\ WF_vars(RequestEnds(p))
    /\ WF_vars(Request(Loop))
    /\ WF_vars(StopWakes) /\ WF_vars(StopCloses)

FairSpec == Spec /\ Fairness

-----------------------------------------------------------------------------

\* Someone reads, or is about to read, the connection the channel sends on:
\* otherwise its end would go unnoticed and the channel would never reconnect.
ConnectionIsRead ==
    conn # 0 /\ ~canceled =>
        \/ listener[conn] \in {"begun", "reading"}
        \/ loop = "listen"

\* There is one connection at a time: the one before is closed when the next
\* is dialled.
OneConnection ==
    ~canceled => \A c \in dialled : c # conn => link[c] = "closed"

\* c.pending holds the requests that wait and no others.
PendingWait == pending \subseteq {echo[p] : p \in {q \in Callers : call[q] \in {"write", "answer"}}}

\* A connection that breaks is replaced, as long as one may be dialled.
Reconnects ==
    \A c \in Conns : (link[c] = "down" /\ c < MaxConns) ~> (canceled \/ conn > c)

\* A request comes back whatever happens to its connection.
RequestsReturn ==
    \A p \in Callers : (call[p] = "register") ~> (call[p] = "return")

\* Every connection that was dialled is closed when Stop returns.  (One that is
\* being dialled at that moment is not: its listener ends at once and nobody
\* closes it.)
StopLeavesNoneOpen ==
    [][stop' = "done" /\ stop # "done" => \A c \in dialled : link'[c] = "closed"]_vars
=============================================================================
