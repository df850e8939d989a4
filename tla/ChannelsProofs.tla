--------------------------- MODULE ChannelsProofs ---------------------------
(***************************************************************************)
(* The channels' side, for any values of the constants: WeCom's            *)
(* deduplicator (any capacity, messages and copies), the connection of     *)
(* OneBot (any number of connections, requests and reactions) and the      *)
(* tasks of the WeCom AI bot (any chats, questions and replies), and at    *)
(* the end what the run of MCChannels checks.  The proofs about the        *)
(* delivery of replies are in MessageDelivery.                             *)
(***************************************************************************)
EXTENDS MCChannels, Sequences, WellFoundedInduction, TLAPS

-----------------------------------------------------------------------------
(* MessageDeduplicator                                                     *)

\* Where the ring keeps the message of each number of acceptance: the newest
\* is before idx, the oldest at idx.
PlacesInOrder ==
    \A i \in Places : ring[i] # NoID =>
        when[ring[i]] + idx = IF i < idx THEN count + i + 1 ELSE (count + i + 1) - max

\* The last max acceptances are of messages that the map holds.
RecentKept ==
    /\ \A id \in IDs : when[id] <= count
    /\ \A id \in IDs : when[id] # 0 /\ count < when[id] + max => id \in msgs

Inv == TypeOK /\ MapIsRing /\ PlacesInOrder /\ RecentKept

-----------------------------------------------------------------------------

\* The index of the ring advances by one and wraps at the end.
LEMMA Advance == ASSUME NEW i \in Places PROVE (i + 1) % max = IF i + 1 = max THEN 0 ELSE i + 1
BY maxAssumption DEF Places

\* A new deduplicator satisfies the invariant.
LEMMA InitInv == Init => Inv
<1> SUFFICES ASSUME Init PROVE Inv
    OBVIOUS
<1>1. TypeOK
    BY maxAssumption DEF Init, TypeOK, Places
<1>2. MapIsRing
    BY DEF Init, MapIsRing, Places
<1>3. PlacesInOrder /\ RecentKept
    BY DEF Init, PlacesInOrder, RecentKept, Places
<1> QED
    BY <1>1, <1>2, <1>3 DEF Inv

\* Accepting a message that the map does not hold keeps the invariant.
LEMMA StoreInv ==
    ASSUME Inv, NEW id \in IDs, id \notin msgs, Store(id), callbacks' \in [IDs -> Nat]
    PROVE  Inv'
<1> USE IDAssumption, maxAssumption
<1>1. idx \in Places /\ count \in Nat /\ max \in Nat /\ idx \in Nat /\ idx < max
    BY DEF Inv, TypeOK, Places
<1>2. idx' = IF idx + 1 = max THEN 0 ELSE idx + 1
    BY <1>1, Advance DEF Store
<1>3. ring' = [ring EXCEPT ![idx] = id] /\ ring \in [Places -> IDs \cup {NoID}]
    BY DEF Inv, TypeOK, Store
<1>4. /\ when' = [when EXCEPT ![id] = count + 1] /\ when \in [IDs -> Nat]
      /\ count' = count + 1
    BY DEF Inv, TypeOK, Store
<1>5. \A i \in Places : ring[i] # id
    BY <1>3 DEF Inv, MapIsRing
<1>6. TypeOK'
  <2>1. idx' \in Places
    BY <1>1, <1>2 DEF Places
  <2>2. msgs' \subseteq IDs
    BY DEF Inv, TypeOK, Store
  <2>3. ring' \in [Places -> IDs \cup {NoID}]
    BY <1>3
  <2>4. count' \in Nat /\ when' \in [IDs -> Nat]
    BY <1>1, <1>4
  <2> QED
    BY <2>1, <2>2, <2>3, <2>4 DEF TypeOK
<1>7. MapIsRing'
  <2>1. msgs' = (msgs \ {ring[idx]}) \cup {id}
    BY DEF Store
  <2>2. \A i, j \in Places : ring[i] = ring[j] /\ ring[i] # NoID => i = j
    BY DEF Inv, MapIsRing
  <2>3. msgs = {ring[i] : i \in Places} \ {NoID}
    BY DEF Inv, MapIsRing
  <2>4. \A i \in Places : ring'[i] = IF i = idx THEN id ELSE ring[i]
    BY <1>3
  <2>5. ASSUME NEW x \in msgs' PROVE x \in {ring'[i] : i \in Places} \ {NoID}
    <3>1. CASE x = id
        BY <3>1, <2>4, <1>1
    <3>2. CASE x \in msgs /\ x # ring[idx]
        BY <3>2, <2>3, <2>4
    <3> QED
        BY <2>1, <2>5, <3>1, <3>2
  <2>6. ASSUME NEW x \in {ring'[i] : i \in Places} \ {NoID} PROVE x \in msgs'
    <3>1. PICK i \in Places : x = ring'[i]
        OBVIOUS
    <3>2. CASE i = idx
        BY <3>1, <3>2, <2>1, <2>4
    <3>3. CASE i # idx
        BY <3>1, <3>3, <2>1, <2>2, <2>3, <2>4, <1>1, <2>6
    <3> QED
        BY <3>2, <3>3
  <2>7. \A i, j \in Places : ring'[i] = ring'[j] /\ ring'[i] # NoID => i = j
    BY <2>2, <2>4, <1>5
  <2>8. msgs' = {ring'[i] : i \in Places} \ {NoID}
    BY <2>5, <2>6, Zenon
  <2> QED
    BY <2>7, <2>8 DEF MapIsRing
<1>8. PlacesInOrder'
  <2> SUFFICES ASSUME NEW i \in Places, ring'[i] # NoID
               PROVE  when'[ring'[i]] + idx' = IF i < idx' THEN count' + i + 1
                                               ELSE (count' + i + 1) - max
    BY DEF PlacesInOrder
  <2>1. i \in Nat /\ i < max
    BY DEF Places
  <2>2. CASE i = idx
    <3>1. when'[ring'[i]] = count + 1
        BY <2>2, <1>1, <1>3, <1>4
    <3> QED
        BY <2>2, <3>1, <2>1, <1>1, <1>2, <1>4
  <2>3. CASE i # idx
    <3>1. ring'[i] = ring[i] /\ ring[i] \in IDs /\ ring[i] # id
        BY <2>3, <1>1, <1>3, <1>5
    <3>2. when'[ring'[i]] = when[ring[i]] /\ when[ring[i]] \in Nat
        BY <3>1, <1>4
    <3>3. when[ring[i]] + idx = IF i < idx THEN count + i + 1 ELSE (count + i + 1) - max
        BY <3>1 DEF Inv, PlacesInOrder
    <3> HIDE DEF Places
    <3> QED
        BY <2>1, <2>3, <3>2, <3>3, <1>1, <1>2, <1>4
  <2> QED
    BY <2>2, <2>3
<1>9. RecentKept'
  <2>1. \A jd \in IDs : when'[jd] <= count'
    BY <1>1, <1>4 DEF Inv, RecentKept
  <2>2. ASSUME NEW jd \in IDs, when'[jd] # 0, count' < when'[jd] + max
        PROVE  jd \in msgs'
    <3>1. CASE jd = id
        BY <3>1 DEF Store
    <3>2. CASE jd # id
      <4>1. when'[jd] = when[jd] /\ when[jd] \in Nat
        BY <3>2, <1>4
      <4>2. jd \in msgs
        BY <4>1, <2>2, <1>1, <1>4 DEF Inv, RecentKept
      <4>3. jd # ring[idx]
        <5> SUFFICES ASSUME jd = ring[idx] PROVE FALSE
            OBVIOUS
        <5>1. when[jd] + idx = (count + idx + 1) - max
            BY <1>1 DEF Inv, PlacesInOrder
        <5> QED
            BY <5>1, <4>1, <2>2, <1>1, <1>4
      <4> QED
        BY <4>2, <4>3 DEF Store
    <3> QED
        BY <3>1, <3>2
  <2> QED
    BY <2>1, <2>2 DEF RecentKept
<1> QED
    BY <1>6, <1>7, <1>8, <1>9 DEF Inv

\* Every step keeps the invariant: only accepting a message changes the ring.
LEMMA NextInv == Inv /\ [Next]_vars => Inv'
<1> SUFFICES ASSUME Inv, [Next]_vars PROVE Inv'
    OBVIOUS
<1>1. ASSUME UNCHANGED dedupVars, callbacks' \in [IDs -> Nat] PROVE Inv'
    BY <1>1 DEF Inv, TypeOK, MapIsRing, PlacesInOrder, RecentKept, dedupVars
<1>2. callbacks \in [IDs -> Nat]
    BY DEF Inv, TypeOK
<1>3. ASSUME NEW id \in IDs, handleMessageCallback(id) PROVE Inv'
    BY <1>1, <1>2, <1>3 DEF handleMessageCallback
<1>4. ASSUME NEW id \in IDs, processMessage(id) PROVE Inv'
  <2>1. callbacks' \in [IDs -> Nat]
    BY <1>2, <1>4 DEF processMessage
  <2> QED
    BY <1>4, <2>1, StoreInv DEF processMessage
<1>5. ASSUME NEW id \in IDs, SkipDuplicate(id) PROVE Inv'
  <2>1. callbacks' \in [IDs -> Nat]
    BY <1>2, <1>5 DEF SkipDuplicate
  <2> QED
    BY <1>1, <1>5, <2>1 DEF SkipDuplicate
<1>6. CASE UNCHANGED vars
    BY <1>1, <1>2, <1>6 DEF vars, dedupVars
<1> QED
    BY <1>3, <1>4, <1>5, <1>6 DEF Next

\* The map of MessageDeduplicator holds what its ring holds, in every state
\* and for every capacity.
THEOREM MapAlwaysRing == Spec => [](TypeOK /\ MapIsRing)
<1>1. Inv => TypeOK /\ MapIsRing
    BY DEF Inv
<1> QED
    BY <1>1, InitInv, NextInv, PTL DEF Spec

\* MarkMessageProcessed returns true for a message it knew only when at least
\* max others were accepted since: forgetting is by age, never all at once.
THEOREM ForgetsByAge == Spec => NoCliff
<1> DEFINE Old == \A id \in IDs : when'[id] # when[id] /\ when[id] # 0 => when[id] + max <= count
<1>1. Inv /\ [Next]_vars => [Old]_vars
  <2> SUFFICES ASSUME Inv, Next, NEW id \in IDs, when'[id] # when[id], when[id] # 0
               PROVE  when[id] + max <= count
    BY DEF vars, dedupVars
  <2>1. id \notin msgs
    BY DEF Next, handleMessageCallback, processMessage, SkipDuplicate, Store, dedupVars, Inv, TypeOK
  <2>2. when[id] \in Nat /\ count \in Nat /\ max \in Nat
    BY maxAssumption DEF Inv, TypeOK
  <2> QED
    BY <2>1, <2>2 DEF Inv, RecentKept
<1> QED
    BY <1>1, InitInv, NextInv, PTL DEF Spec, NoCliff

-----------------------------------------------------------------------------
(* OneBot                                                                  *)

\* The connection in use is the newest.  Until Stop has closed it no other is
\* open, and nothing is dialled while there is one.
BotConnInv ==
    /\ conn # 0 => link[conn] # "none" /\ \A c \in Bot!dialled : c <= conn
    /\ \A c \in Bot!dialled, d \in Bot!Conns : d < c => d \in Bot!dialled
    /\ loop = "dial" => conn = 0
    /\ stop # "done" => \A c \in Bot!dialled : c # conn => link[c] = "closed"
    /\ stop = "no" <=> ~obCanceled

\* A request under way has its echo.
BotEchoInv == \A p \in Bot!Callers : call[p] # "idle" => echo[p] \in 1..echoCounter

BotIInv == Bot!TypeOK /\ BotConnInv /\ Bot!ConnectionIsRead /\ Bot!PendingWait /\ BotEchoInv

\* The parts of TypeOK: the connection, and the requests.
BotConnTypes ==
    /\ link \in [Bot!Conns -> {"none", "up", "down", "closed"}] /\ conn \in 0..MaxConns
    /\ loop \in {"dial", "listen", "fetch", "wait", "ended"}
    /\ listener \in [Bot!Conns -> {"none", "begun", "reading", "ended"}]
    /\ obCanceled \in {TRUE, FALSE} /\ stop \in {"no", "wake", "close", "done"}

BotCallTypes ==
    /\ call \in [Bot!Callers -> {"idle", "register", "write", "answer", "return"}]
    /\ sock \in [Bot!Callers -> 0..MaxConns] /\ echo \in [Bot!Callers -> 0..MaxEcho]
    /\ pending \subseteq 1..echoCounter /\ wire \subseteq 1..echoCounter
    /\ ch \in [Bot!Echoes -> {"empty", "answer", "nil"}]
    /\ echoCounter \in 0..MaxEcho

LEMMA BotTypesSplit == (Bot!TypeOK <=> BotConnTypes /\ BotCallTypes) /\ (Bot!TypeOK' <=> BotConnTypes' /\ BotCallTypes')
<1>1. (obCanceled \in BOOLEAN <=> obCanceled \in {TRUE, FALSE}) /\ (obCanceled' \in BOOLEAN <=> obCanceled' \in {TRUE, FALSE})
  OBVIOUS
<1> QED
  BY <1>1 DEF Bot!TypeOK, BotConnTypes, BotCallTypes

\* Steps that leave the requests, and those that leave the connection, alone.
LEMMA BotRequestsKept ==
    ASSUME BotCallTypes, Bot!PendingWait, BotEchoInv, UNCHANGED Bot!callVars
    PROVE  BotCallTypes' /\ Bot!PendingWait' /\ BotEchoInv'
  BY DEF BotCallTypes, Bot!PendingWait, BotEchoInv, Bot!callVars

LEMMA BotConnectionUnchanged ==
    ASSUME BotConnTypes, BotConnInv, Bot!ConnectionIsRead, UNCHANGED <<Bot!connVars, loop, listener, obCanceled, stop>>
    PROVE  BotConnTypes' /\ BotConnInv' /\ Bot!ConnectionIsRead'
<1>1. Bot!dialled' = Bot!dialled
  BY DEF Bot!dialled, Bot!connVars
<1> QED
  BY <1>1 DEF BotConnTypes, BotConnInv, Bot!ConnectionIsRead, Bot!connVars

-----------------------------------------------------------------------------
LEMMA BotInitIInv == ASSUME Bot!ConstantsAssumption, Bot!Init PROVE BotIInv
<1>1. Bot!TypeOK
  <2>1. obCanceled \in BOOLEAN
    BY Zenon DEF Bot!Init
  <2>2. /\ link \in [Bot!Conns -> {"none", "up", "down", "closed"}]
        /\ listener \in [Bot!Conns -> {"none", "begun", "reading", "ended"}]
        /\ call \in [Bot!Callers -> {"idle", "register", "write", "answer", "return"}]
        /\ sock \in [Bot!Callers -> 0..MaxConns] /\ echo \in [Bot!Callers -> 0..MaxEcho]
        /\ ch \in [Bot!Echoes -> {"empty", "answer", "nil"}]
    BY DEF Bot!Init, Bot!ConstantsAssumption
  <2> QED
    BY <2>1, <2>2 DEF Bot!Init, Bot!TypeOK, Bot!ConstantsAssumption
<1>2. Bot!dialled = {}
  BY DEF Bot!Init, Bot!dialled
<1> QED
  BY <1>1, <1>2 DEF Bot!Init, BotIInv, BotConnInv, Bot!ConnectionIsRead, Bot!PendingWait,
       BotEchoInv

\* The listener that StartListen begins is that of the newest connection.
LEMMA BotNewestListens ==
    ASSUME Bot!ConstantsAssumption, BotIInv, Bot!StartListen, conn # 0
    PROVE  listener'[conn] = "begun"
<1>1. conn \in Bot!dialled /\ conn \in Bot!Conns /\ \A c \in Bot!dialled : c <= conn
  BY DEF BotIInv, Bot!TypeOK, BotConnInv, Bot!dialled, Bot!Conns
<1>2. Bot!dialled \subseteq Nat
  <2>1. MaxConns \in Nat
    BY DEF Bot!ConstantsAssumption
  <2> QED
    BY <2>1 DEF Bot!dialled, Bot!Conns
<1>3. (CHOOSE c \in Bot!dialled : \A d \in Bot!dialled : d <= c) = conn
  <2>1. \A c \in Bot!dialled : (\A d \in Bot!dialled : d <= c) => c = conn
    BY <1>1, <1>2
  <2> QED
    BY <1>1, <2>1, Zenon
<1> QED
  BY <1>1, <1>3 DEF Bot!StartListen, BotIInv, Bot!TypeOK

\* connect dials the connection after the last; all others are closed.
LEMMA BotConnectStep ==
    ASSUME Bot!ConstantsAssumption, BotIInv, NEW c \in Bot!Conns, Bot!connect(c)
    PROVE  BotIInv'
<1>1. /\ loop = "dial" /\ loop' = "listen" /\ conn = 0 /\ conn' = c
      /\ link \in [Bot!Conns -> {"none", "up", "down", "closed"}] /\ link' = [link EXCEPT ![c] = "up"]
      /\ link[c] = "none" /\ \A d \in Bot!Conns : d < c => link[d] # "none"
  BY DEF Bot!connect, Bot!Fresh, BotIInv, Bot!TypeOK, BotConnInv
<1>2. Bot!Conns \subseteq Nat \ {0}
  BY DEF Bot!Conns, Bot!ConstantsAssumption
<1>3. Bot!dialled' = Bot!dialled \cup {c} /\ \A d \in Bot!dialled : d < c
  BY <1>1, <1>2 DEF BotIInv, BotConnInv, Bot!dialled
<1>4. Bot!TypeOK'
  BY <1>1 DEF Bot!connect, BotIInv, Bot!TypeOK, Bot!Conns, Bot!callVars
<1>5. BotConnInv'
  <2>1. link'[c] = "up" /\ \A d \in Bot!Conns \ {c} : link'[d] = link[d]
    BY <1>1
  <2> QED
    BY <1>1, <1>2, <1>3, <2>1 DEF Bot!connect, BotIInv, BotConnInv, Bot!dialled
<1> QED
  BY <1>1, <1>4, <1>5 DEF Bot!connect, BotIInv, Bot!ConnectionIsRead, Bot!PendingWait,
       BotEchoInv, Bot!callVars

\* The other steps of Start and of the reconnect loop.
LEMMA BotLoopSteps ==
  ASSUME Bot!ConstantsAssumption, BotIInv, Bot!LoopStep
  PROVE  BotIInv'
<1>0. BotConnTypes /\ BotCallTypes /\ BotConnInv /\ Bot!ConnectionIsRead /\ Bot!PendingWait /\ BotEchoInv
  BY BotTypesSplit DEF BotIInv
<1>1. CASE Bot!connectFails \/ Bot!Reconnect \/ Bot!LoopEnds
  <2>1. /\ UNCHANGED <<Bot!connVars, listener, obCanceled, stop>> /\ UNCHANGED Bot!callVars
        /\ loop # "listen" /\ loop' \in {"dial", "wait", "ended"}
        /\ loop' = "dial" => conn = 0
    BY <1>1 DEF Bot!connectFails, Bot!Reconnect, Bot!LoopEnds
  <2>2. Bot!dialled' = Bot!dialled
    BY <2>1 DEF Bot!dialled, Bot!connVars
  <2>3. BotConnTypes'
    BY <1>0, <2>1 DEF BotConnTypes, Bot!connVars
  <2>4. BotConnInv'
    BY <1>0, <2>1, <2>2 DEF BotConnInv, Bot!connVars
  <2>5. Bot!ConnectionIsRead'
    BY <1>0, <2>1 DEF Bot!ConnectionIsRead, Bot!connVars
  <2> QED
    BY <1>0, <2>1, <2>3, <2>4, <2>5, BotRequestsKept, BotTypesSplit DEF BotIInv
<1>2. CASE Bot!StartListen
  <2>1. /\ UNCHANGED <<Bot!connVars, obCanceled, stop>> /\ UNCHANGED Bot!callVars
        /\ loop = "listen" /\ loop' = "fetch"
        /\ \E c : listener' = [listener EXCEPT ![c] = "begun"]
    BY <1>2 DEF Bot!StartListen
  <2>2. Bot!dialled' = Bot!dialled
    BY <2>1 DEF Bot!dialled, Bot!connVars
  <2>3. BotConnTypes'
    BY <1>0, <2>1 DEF BotConnTypes, Bot!connVars
  <2>4. BotConnInv'
    BY <1>0, <2>1, <2>2 DEF BotConnInv, Bot!connVars
  <2>5. Bot!ConnectionIsRead'
    BY <1>2, <2>1, BotNewestListens DEF Bot!ConnectionIsRead, Bot!connVars
  <2> QED
    BY <1>0, <2>1, <2>3, <2>4, <2>5, BotRequestsKept, BotTypesSplit DEF BotIInv
<1>3. CASE Bot!FetchReturns
  <2>1. /\ UNCHANGED <<Bot!connVars, listener, obCanceled, stop, sock, echo, pending, ch, echoCounter, wire>>
        /\ call[Loop] = "return" /\ call' = [call EXCEPT ![Loop] = "idle"]
        /\ loop = "fetch" /\ loop' = "wait"
    BY <1>3 DEF Bot!FetchReturns
  <2>2. Bot!dialled' = Bot!dialled
    BY <2>1 DEF Bot!dialled, Bot!connVars
  <2>3. BotConnTypes'
    BY <1>0, <2>1 DEF BotConnTypes, Bot!connVars
  <2>4. BotConnInv'
    BY <1>0, <2>1, <2>2 DEF BotConnInv, Bot!connVars
  <2>5. Bot!ConnectionIsRead'
    BY <1>0, <2>1 DEF Bot!ConnectionIsRead, Bot!connVars
  <2>6. BotCallTypes'
    BY <1>0, <2>1 DEF BotCallTypes
  <2>7. \A q \in Bot!Callers : call[q] \in {"write", "answer"} => call'[q] \in {"write", "answer"}
    BY <1>0, <2>1 DEF BotCallTypes
  <2>8. Bot!PendingWait'
    BY <1>0, <2>1, <2>7 DEF Bot!PendingWait
  <2>9. BotEchoInv'
    BY <1>0, <2>1 DEF BotEchoInv, BotCallTypes
  <2> QED
    BY <2>3, <2>4, <2>5, <2>6, <2>8, <2>9, BotTypesSplit DEF BotIInv
<1> QED
  BY <1>1, <1>2, <1>3, BotConnectStep DEF Bot!LoopStep

\* A listener, and the peer that goes away.
LEMMA BotListenSteps ==
    ASSUME Bot!ConstantsAssumption, BotIInv, NEW c \in Bot!Conns, Bot!ListenStep(c) \/ Bot!Break(c)
    PROVE  BotIInv'
<1>0. BotConnTypes /\ BotCallTypes /\ BotConnInv /\ Bot!ConnectionIsRead /\ Bot!PendingWait /\ BotEchoInv
  BY BotTypesSplit DEF BotIInv
<1>1. /\ link \in [Bot!Conns -> {"none", "up", "down", "closed"}]
      /\ listener \in [Bot!Conns -> {"none", "begun", "reading", "ended"}]
      /\ conn \in 0..MaxConns /\ MaxConns \in Nat
      /\ Bot!Conns \subseteq Nat \ {0} /\ (conn # 0 => conn \in Bot!Conns)
  BY <1>0 DEF BotConnTypes, Bot!Conns, Bot!ConstantsAssumption
<1>2. CASE Bot!ListenBegins(c) \/ Bot!ListenEnds(c)
  <2>1. /\ UNCHANGED <<Bot!connVars, loop, obCanceled, stop>> /\ UNCHANGED Bot!callVars
        /\ \/ listener' = [listener EXCEPT ![c] = "reading"]
           \/ listener' = [listener EXCEPT ![c] = "ended"] /\ (conn = 0 \/ obCanceled)
    BY <1>2 DEF Bot!ListenBegins, Bot!ListenEnds
  <2>2. Bot!dialled' = Bot!dialled
    BY <2>1 DEF Bot!dialled, Bot!connVars
  <2>3. BotConnTypes'
    BY <1>0, <2>1 DEF BotConnTypes, Bot!connVars
  <2>4. BotConnInv'
    BY <1>0, <2>1, <2>2 DEF BotConnInv, Bot!connVars
  <2>5. Bot!ConnectionIsRead'
    <3>1. CASE listener' = [listener EXCEPT ![c] = "reading"]
      <4>1. \A d \in Bot!Conns : listener'[d] = listener[d] \/ listener'[d] = "reading"
        BY <1>1, <3>1
      <4> QED
        BY <1>0, <1>1, <2>1, <4>1 DEF Bot!ConnectionIsRead, Bot!connVars
    <3>2. CASE conn = 0 \/ obCanceled
      BY <2>1, <3>2 DEF Bot!ConnectionIsRead, Bot!connVars
    <3> QED
      BY <2>1, <3>1, <3>2
  <2> QED
    BY <1>0, <2>1, <2>3, <2>4, <2>5, BotRequestsKept, BotTypesSplit DEF BotIInv
<1>3. CASE Bot!ReadError(c)
  <2>1. /\ listener' = [listener EXCEPT ![c] = "ended"] /\ link[c] \in {"down", "closed"}
        /\ \/ conn = c /\ conn' = 0 /\ link' = [link EXCEPT ![c] = "closed"]
           \/ conn # c /\ conn' = conn /\ link' = link
        /\ UNCHANGED <<loop, obCanceled, stop>> /\ UNCHANGED Bot!callVars
    BY <1>3 DEF Bot!ReadError, Bot!connVars
  <2>2. CASE conn = c
    <3>1. conn' = 0 /\ link' = [link EXCEPT ![c] = "closed"]
      BY <1>1, <2>1, <2>2
    <3>2. link'[c] = "closed" /\ \A d \in Bot!Conns \ {c} : link'[d] = link[d]
      BY <1>1, <3>1
    <3>3. Bot!dialled' = Bot!dialled
      BY <2>1, <3>2 DEF Bot!dialled
    <3>4. \A d \in Bot!dialled : d \in Bot!Conns
      BY DEF Bot!dialled
    <3>5. BotConnTypes'
      <4>1. link' \in [Bot!Conns -> {"none", "up", "down", "closed"}]
        BY <1>1, <3>1
      <4>2. listener' \in [Bot!Conns -> {"none", "begun", "reading", "ended"}]
        BY <1>1, <2>1
      <4>3. conn' \in 0..MaxConns
        BY <1>1, <3>1
      <4> QED
        BY <1>0, <2>1, <4>1, <4>2, <4>3 DEF BotConnTypes
    <3>6. stop' # "done" => \A d \in Bot!dialled' : d # conn' => link'[d] = "closed"
      BY <1>0, <2>1, <2>2, <3>2, <3>3, <3>4 DEF BotConnInv
    <3>7. BotConnInv'
      BY <1>0, <2>1, <3>1, <3>3, <3>6 DEF BotConnInv
    <3>8. Bot!ConnectionIsRead'
      BY <3>1 DEF Bot!ConnectionIsRead
    <3> QED
      BY <1>0, <2>1, <3>5, <3>7, <3>8, BotRequestsKept, BotTypesSplit DEF BotIInv
  <2>3. CASE conn # c
    <3>1. UNCHANGED <<conn, link, loop, obCanceled, stop>> /\ (conn # 0 => listener'[conn] = listener[conn])
      BY <1>1, <2>1, <2>3
    <3>2. Bot!dialled' = Bot!dialled
      BY <3>1 DEF Bot!dialled
    <3>3. BotConnTypes'
      BY <1>0, <2>1, <3>1 DEF BotConnTypes
    <3>4. BotConnInv'
      BY <1>0, <3>1, <3>2 DEF BotConnInv
    <3>5. Bot!ConnectionIsRead'
      BY <1>0, <3>1 DEF Bot!ConnectionIsRead
    <3> QED
      BY <1>0, <2>1, <3>3, <3>4, <3>5, BotRequestsKept, BotTypesSplit DEF BotIInv
  <2> QED
    BY <2>2, <2>3
<1>4. ASSUME NEW e \in Bot!Echoes, Bot!ReadAnswer(c, e) PROVE BotIInv'
  <2>1. /\ UNCHANGED <<Bot!connVars, loop, listener, obCanceled, stop>>
        /\ UNCHANGED <<call, sock, echo, pending, echoCounter>>
        /\ wire' \subseteq wire
        /\ ch' = ch \/ ch' = [ch EXCEPT ![e] = "answer"]
    BY <1>4 DEF Bot!ReadAnswer
  <2>2. BotCallTypes'
    BY <1>0, <2>1 DEF BotCallTypes
  <2>3. Bot!PendingWait' /\ BotEchoInv'
    BY <1>0, <2>1 DEF Bot!PendingWait, BotEchoInv
  <2> QED
    BY <1>0, <2>1, <2>2, <2>3, BotConnectionUnchanged, BotTypesSplit DEF BotIInv
<1>5. CASE Bot!Break(c)
  <2>1. /\ link[c] = "up" /\ link' = [link EXCEPT ![c] = "down"] /\ wire' = {}
        /\ UNCHANGED <<conn, loop, listener, obCanceled, stop, call, sock, echo, pending, ch, echoCounter>>
    BY <1>5 DEF Bot!Break
  <2>2. link'[c] = "down" /\ \A d \in Bot!Conns \ {c} : link'[d] = link[d]
    BY <1>1, <2>1
  <2>3. Bot!dialled' = Bot!dialled
    BY <2>1, <2>2 DEF Bot!dialled
  <2>4. BotConnTypes'
    <3>1. link' \in [Bot!Conns -> {"none", "up", "down", "closed"}]
      BY <1>1, <2>1
    <3> QED
      BY <1>0, <2>1, <3>1 DEF BotConnTypes
  <2>5. BotConnInv'
    <3>1. stop # "done" => conn = c
      BY <1>0, <2>1 DEF BotConnInv, Bot!dialled
    <3>2. stop' # "done" => \A d \in Bot!dialled' : d # conn' => link'[d] = "closed"
      BY <1>0, <2>1, <2>2, <2>3, <3>1 DEF BotConnInv, Bot!dialled
    <3>3. conn' # 0 => link'[conn'] # "none"
      BY <1>0, <1>1, <2>1, <2>2 DEF BotConnInv
    <3> QED
      BY <1>0, <2>1, <2>3, <3>2, <3>3 DEF BotConnInv
  <2>6. BotCallTypes'
    BY <1>0, <2>1 DEF BotCallTypes
  <2>7. Bot!ConnectionIsRead' /\ Bot!PendingWait' /\ BotEchoInv'
    BY <1>0, <2>1 DEF Bot!ConnectionIsRead, Bot!PendingWait, BotEchoInv
  <2> QED
    BY <2>4, <2>5, <2>6, <2>7, BotTypesSplit DEF BotIInv
<1> QED
  BY <1>2, <1>3, <1>4, <1>5 DEF Bot!ListenStep

\* A request: its echo is pending from Register to Forget.
LEMMA BotRequestSteps ==
    ASSUME Bot!ConstantsAssumption, BotIInv, NEW p \in Bot!Callers, Bot!RequestStep(p)
    PROVE  BotIInv'
<1>0. BotConnTypes /\ BotCallTypes /\ BotConnInv /\ Bot!ConnectionIsRead /\ Bot!PendingWait /\ BotEchoInv
  BY BotTypesSplit DEF BotIInv
<1>1. /\ call \in [Bot!Callers -> {"idle", "register", "write", "answer", "return"}]
      /\ sock \in [Bot!Callers -> 0..MaxConns] /\ echo \in [Bot!Callers -> 0..MaxEcho]
      /\ pending \subseteq 1..echoCounter /\ wire \subseteq 1..echoCounter
      /\ echoCounter \in 0..MaxEcho /\ conn \in 0..MaxConns /\ MaxEcho \in Nat /\ MaxConns \in Nat
  BY <1>0 DEF BotConnTypes, BotCallTypes, Bot!ConstantsAssumption
<1>2. UNCHANGED <<Bot!connVars, loop, listener, obCanceled, stop>> /\ ch' = ch
  BY DEF Bot!RequestStep, Bot!Request, Bot!Register, Bot!Write, Bot!RequestEnds,
       Bot!ReactionDone
<1>3. ASSUME UNCHANGED <<sock, echo, echoCounter>>, pending' \subseteq 1..echoCounter, wire' \subseteq 1..echoCounter,
             NEW x \in {"idle", "write", "answer", "return"}, call' = [call EXCEPT ![p] = x],
             call[p] # "idle", Bot!PendingWait'
      PROVE  BotIInv'
  <2>1. call' \in [Bot!Callers -> {"idle", "register", "write", "answer", "return"}]
    BY <1>1, <1>3
  <2>2. BotCallTypes'
    BY <1>0, <1>2, <1>3, <2>1 DEF BotCallTypes
  <2>3. BotEchoInv'
    BY <1>0, <1>1, <1>3 DEF BotEchoInv
  <2> QED
    BY <1>0, <1>2, <1>3, <2>2, <2>3, BotConnectionUnchanged, BotTypesSplit DEF BotIInv
<1>5. CASE Bot!Request(p)
  <2>1. /\ call[p] = "idle" /\ echoCounter' = echoCounter + 1 /\ pending' = pending /\ wire' = wire
        /\ \E x \in {"return", "register"} : call' = [call EXCEPT ![p] = x]
        /\ sock' = [sock EXCEPT ![p] = conn] /\ echo' = [echo EXCEPT ![p] = echoCounter + 1]
    BY <1>5 DEF Bot!Request
  <2>2. echoCounter < MaxEcho
    BY <1>1, <1>5 DEF Bot!Request
  <2>3. echoCounter + 1 \in 0..MaxEcho
    BY <1>1, <2>2
  <2>4. 1..echoCounter \subseteq 1..(echoCounter + 1)
    BY <1>1
  <2>5. /\ call' \in [Bot!Callers -> {"idle", "register", "write", "answer", "return"}]
        /\ sock' \in [Bot!Callers -> 0..MaxConns] /\ echo' \in [Bot!Callers -> 0..MaxEcho]
    BY <1>1, <2>1, <2>3
  <2>6. BotCallTypes'
    BY <1>0, <1>1, <1>2, <2>1, <2>3, <2>4, <2>5 DEF BotCallTypes
  <2>7. \A q \in Bot!Callers : call[q] \in {"write", "answer"} => call'[q] = call[q] /\ echo'[q] = echo[q]
    BY <1>1, <2>1
  <2>8. Bot!PendingWait'
    BY <1>0, <2>1, <2>7 DEF Bot!PendingWait
  <2>9. BotEchoInv'
    <3>1. echo'[p] = echoCounter + 1 /\ echoCounter + 1 \in 1..(echoCounter + 1)
      BY <1>1, <2>1
    <3>2. \A q \in Bot!Callers \ {p} : call'[q] = call[q] /\ echo'[q] = echo[q]
      BY <1>1, <2>1
    <3> QED
      BY <1>0, <2>1, <2>4, <3>1, <3>2 DEF BotEchoInv
  <2> QED
    BY <1>0, <1>2, <2>6, <2>8, <2>9, BotConnectionUnchanged, BotTypesSplit DEF BotIInv
<1>6. CASE Bot!Register(p)
  <2>1. /\ call[p] = "register" /\ pending' = pending \cup {echo[p]} /\ wire' = wire
        /\ call' = [call EXCEPT ![p] = "write"] /\ UNCHANGED <<sock, echo, echoCounter>>
    BY <1>6 DEF Bot!Register
  <2>2. \A q \in Bot!Callers : call[q] \in {"write", "answer"} \/ q = p => call'[q] \in {"write", "answer"}
    BY <1>1, <2>1
  <2>3. Bot!PendingWait'
    BY <1>0, <2>1, <2>2 DEF Bot!PendingWait
  <2>4. echo[p] \in 1..echoCounter
    BY <1>0, <2>1 DEF BotEchoInv
  <2> QED
    BY <1>1, <1>3, <2>1, <2>3, <2>4
<1>7. ASSUME Bot!Forget(p), call[p] # "idle", UNCHANGED <<sock, echo, echoCounter>>, wire' = wire PROVE BotIInv'
  <2>1. pending' = pending \ {echo[p]} /\ call' = [call EXCEPT ![p] = "return"]
    BY <1>7 DEF Bot!Forget
  <2>2. \A q \in Bot!Callers \ {p} : call'[q] = call[q]
    BY <1>1, <2>1
  <2>3. Bot!PendingWait'
    BY <1>0, <1>7, <2>1, <2>2 DEF Bot!PendingWait
  <2> QED
    BY <1>1, <1>3, <1>7, <2>1, <2>3
<1>8. CASE Bot!Write(p)
  <2>1. CASE Bot!Forget(p) /\ wire' = wire
    BY <1>7, <1>8, <2>1 DEF Bot!Write
  <2>2. CASE /\ call' = [call EXCEPT ![p] = "answer"] /\ pending' = pending
             /\ wire' = wire \/ wire' = wire \cup {echo[p]}
    <3>1. call[p] = "write" /\ UNCHANGED <<sock, echo, echoCounter>>
      BY <1>8 DEF Bot!Write
    <3>2. \A q \in Bot!Callers : call[q] \in {"write", "answer"} => call'[q] \in {"write", "answer"}
      BY <1>1, <2>2
    <3>3. Bot!PendingWait'
      BY <1>0, <2>2, <3>1, <3>2 DEF Bot!PendingWait
    <3>4. echo[p] \in 1..echoCounter
      BY <1>0, <3>1 DEF BotEchoInv
    <3> QED
      BY <1>1, <1>3, <2>2, <3>1, <3>3, <3>4
  <2> QED
    BY <1>8, <2>1, <2>2 DEF Bot!Write
<1>9. CASE Bot!RequestEnds(p)
  BY <1>7, <1>9 DEF Bot!RequestEnds
<1>10. CASE Bot!ReactionDone(p)
  <2>1. /\ call[p] = "return" /\ call' = [call EXCEPT ![p] = "idle"]
        /\ UNCHANGED <<sock, echo, pending, echoCounter, wire>>
    BY <1>10 DEF Bot!ReactionDone
  <2>2. \A q \in Bot!Callers : call[q] \in {"write", "answer"} => call'[q] \in {"write", "answer"}
    BY <1>1, <2>1
  <2>3. Bot!PendingWait'
    BY <1>0, <2>1, <2>2 DEF Bot!PendingWait
  <2> QED
    BY <1>1, <1>3, <2>1, <2>3
<1> QED
  BY <1>5, <1>6, <1>8, <1>9, <1>10 DEF Bot!RequestStep

LEMMA BotStopSteps ==
  ASSUME Bot!ConstantsAssumption, BotIInv, Bot!Stop
  PROVE  BotIInv'
<1>0. BotConnTypes /\ BotCallTypes /\ BotConnInv /\ Bot!ConnectionIsRead /\ Bot!PendingWait /\ BotEchoInv
  BY BotTypesSplit DEF BotIInv
<1>1. /\ link \in [Bot!Conns -> {"none", "up", "down", "closed"}] /\ Bot!Conns \subseteq Nat \ {0}
      /\ conn \in 0..MaxConns /\ MaxConns \in Nat /\ (conn # 0 => conn \in Bot!Conns)
  BY <1>0 DEF BotConnTypes, Bot!Conns, Bot!ConstantsAssumption
<1>2. CASE Bot!StopCancels
  <2>1. /\ stop = "no" /\ obCanceled' = TRUE /\ stop' = "wake"
        /\ UNCHANGED <<Bot!connVars, loop, listener>> /\ UNCHANGED Bot!callVars
    BY <1>2 DEF Bot!StopCancels
  <2>2. Bot!dialled' = Bot!dialled
    BY <2>1 DEF Bot!dialled, Bot!connVars
  <2>3. BotConnTypes'
    BY <1>0, <2>1 DEF BotConnTypes, Bot!connVars
  <2>4. BotConnInv'
    BY <1>0, <2>1, <2>2 DEF BotConnInv, Bot!connVars
  <2>5. Bot!ConnectionIsRead'
    BY <2>1 DEF Bot!ConnectionIsRead
  <2> QED
    BY <1>0, <2>1, <2>3, <2>4, <2>5, BotRequestsKept, BotTypesSplit DEF BotIInv
<1>3. CASE Bot!StopWakes
  <2>1. /\ UNCHANGED <<Bot!connVars, loop, listener, obCanceled, call, sock, echo, echoCounter, wire>>
        /\ stop = "wake" /\ stop' = "close" /\ pending' = {}
    BY <1>3 DEF Bot!StopWakes
  <2>2. ch' \in [Bot!Echoes -> {"empty", "answer", "nil"}]
    BY <1>0, <1>3 DEF Bot!StopWakes, BotCallTypes
  <2>3. Bot!dialled' = Bot!dialled
    BY <2>1 DEF Bot!dialled, Bot!connVars
  <2>4. BotConnTypes'
    BY <1>0, <2>1 DEF BotConnTypes, Bot!connVars
  <2>5. BotConnInv'
    BY <1>0, <2>1, <2>3 DEF BotConnInv, Bot!connVars
  <2>6. Bot!ConnectionIsRead' /\ Bot!PendingWait' /\ BotEchoInv'
    BY <1>0, <2>1 DEF Bot!ConnectionIsRead, Bot!PendingWait, BotEchoInv, Bot!connVars
  <2>7. BotCallTypes'
    BY <1>0, <2>1, <2>2 DEF BotCallTypes
  <2> QED
    BY <2>4, <2>5, <2>6, <2>7, BotTypesSplit DEF BotIInv
<1>4. CASE Bot!StopCloses
  <2>1. /\ stop = "close" /\ stop' = "done" /\ conn' = 0
        /\ UNCHANGED <<loop, listener, obCanceled>> /\ UNCHANGED Bot!callVars
        /\ link' = IF conn = 0 THEN link ELSE [link EXCEPT ![conn] = "closed"]
    BY <1>4 DEF Bot!StopCloses
  <2>2. \A d \in Bot!Conns : link'[d] = link[d] \/ (d = conn /\ link'[d] = "closed")
    BY <1>1, <2>1
  <2>3. conn # 0 => link[conn] # "none"
    BY <1>0 DEF BotConnInv
  <2>4. Bot!dialled' = Bot!dialled
    <3>1. \A d \in Bot!Conns : d = conn => link[d] # "none"
      BY <1>1, <2>3
    <3> QED
      BY <2>2, <3>1 DEF Bot!dialled
  <2>5. BotConnTypes'
    <3>1. link' \in [Bot!Conns -> {"none", "up", "down", "closed"}]
      BY <1>1, <2>1
    <3>2. conn' \in 0..MaxConns
      BY <1>1, <2>1
    <3> QED
      BY <1>0, <2>1, <3>1, <3>2 DEF BotConnTypes
  <2>6. BotConnInv'
    BY <1>0, <2>1, <2>4 DEF BotConnInv
  <2>7. Bot!ConnectionIsRead'
    BY <2>1 DEF Bot!ConnectionIsRead
  <2> QED
    BY <1>0, <2>1, <2>5, <2>6, <2>7, BotRequestsKept, BotTypesSplit DEF BotIInv
<1> QED
  BY <1>2, <1>3, <1>4 DEF Bot!Stop

LEMMA BotNextIInv ==
  ASSUME Bot!ConstantsAssumption, BotIInv, [Bot!Next]_(Bot!vars)
  PROVE  BotIInv'
<1>1. CASE UNCHANGED Bot!vars
  <2>1. UNCHANGED <<Bot!connVars, loop, listener, obCanceled, stop>> /\ UNCHANGED Bot!callVars
    BY <1>1 DEF Bot!vars
  <2> QED
    BY <2>1, BotConnectionUnchanged, BotRequestsKept, BotTypesSplit DEF BotIInv
<1> QED
  BY <1>1, BotLoopSteps, BotListenSteps, BotRequestSteps, BotStopSteps DEF Bot!Next

\* The connection in use is read, no other is open, and only requests that wait are
\* pending: for any number of connections, reactions and requests.
THEOREM BotConnectionKept ==
    ASSUME Bot!ConstantsAssumption
    PROVE  Bot!Spec => [](Bot!TypeOK /\ Bot!ConnectionIsRead /\ Bot!OneConnection /\ Bot!PendingWait)
<1>1. Bot!Init => BotIInv
  BY BotInitIInv
<1>2. BotIInv /\ [Bot!Next]_(Bot!vars) => BotIInv'
  BY BotNextIInv
<1>3. BotIInv => Bot!TypeOK /\ Bot!ConnectionIsRead /\ Bot!OneConnection /\ Bot!PendingWait
  BY DEF BotIInv, BotConnInv, Bot!OneConnection
<1> QED
  BY <1>1, <1>2, <1>3, PTL DEF Bot!Spec

\* When Stop returns, every connection that was dialled is closed.
THEOREM BotStopClosesAll ==
  ASSUME Bot!ConstantsAssumption
  PROVE  Bot!Spec => Bot!StopLeavesNoneOpen
<1>1. Bot!Init => BotIInv
  BY BotInitIInv
<1>2. BotIInv /\ [Bot!Next]_(Bot!vars) => BotIInv'
  BY BotNextIInv
<1>3. BotIInv /\ [Bot!Next]_(Bot!vars) => [stop' = "done" /\ stop # "done" => \A c \in Bot!dialled : link'[c] = "closed"]_(Bot!vars)
  <2> SUFFICES ASSUME BotIInv, Bot!Next, stop' = "done", stop # "done", NEW c \in Bot!dialled
               PROVE  link'[c] = "closed"
    OBVIOUS
  <2>1. Bot!StopCloses
    BY DEF Bot!Next, Bot!LoopStep, Bot!connect, Bot!connectFails, Bot!StartListen,
         Bot!FetchReturns, Bot!Reconnect, Bot!LoopEnds,
       Bot!ListenStep, Bot!ListenBegins, Bot!ReadError, Bot!ReadAnswer, Bot!ListenEnds, Bot!Break,
       Bot!RequestStep, Bot!Request, Bot!Register, Bot!Write, Bot!RequestEnds, Bot!ReactionDone, Bot!Stop, Bot!StopCancels, Bot!StopWakes
  <2>2. /\ link' = IF conn = 0 THEN link ELSE [link EXCEPT ![conn] = "closed"]
        /\ \A d \in Bot!dialled : d # conn => link[d] = "closed"
        /\ link \in [Bot!Conns -> {"none", "up", "down", "closed"}] /\ c \in Bot!Conns
    BY <2>1 DEF Bot!StopCloses, BotIInv, Bot!TypeOK, BotConnInv, Bot!dialled
  <2>3. c # 0
    BY <2>2 DEF Bot!Conns, Bot!ConstantsAssumption
  <2>4. CASE c = conn
    BY <2>2, <2>3, <2>4
  <2>5. CASE c # conn
    BY <2>2, <2>5
  <2> QED
    BY <2>4, <2>5
<1> QED
  BY <1>1, <1>2, <1>3, PTL DEF Bot!Spec, Bot!StopLeavesNoneOpen

-----------------------------------------------------------------------------
(* WeComAIBot                                                              *)

\* The call in hand has a reply, and its task was asked; only what was asked is polled for.
AIBotSendOK ==
    /\ pc # "idle" => task \in 1..asked /\ outbox # <<>>
    /\ \A t \in AIBot!Tasks : poll[t] # "none" => t \in 1..asked
    /\ left # 0 => current \in 1..asked

\* A task that Send can pick has not had its response_url used, or is about to
\* leave its queue.
AIBotURLUnused ==
    /\ \A t \in AIBot!Tasks : t > asked => posted[t] = 0
    /\ pc = "post" => posted[task] = 0
    /\ \A t \in AIBot!Tasks : AIBot!InQueue(t) => posted[t] = 0 \/ (pc = "remove" /\ t = task)

AIBotIInv == AIBot!TypeOK /\ AIBotSendOK /\ AIBot!MapsAgree /\ AIBotURLUnused /\ AIBot!ResponseURLUsedOnce

\* What most steps change: nothing that MapsAgree or URLUnused speak of.
AIBotMapTypes ==
    /\ asked \in 0..MaxTasks /\ chat \in [AIBot!Tasks -> Chats]
    /\ streamTasks \subseteq 1..asked
    /\ chatTasks \in [Chats -> SUBSET (1..asked)]
    /\ \A c \in Chats : \A t \in chatTasks[c] : chat[t] = c
    /\ StreamClosed \subseteq 1..asked /\ Finished \subseteq 1..asked

AIBotTimeTypes ==
    /\ aiCanceled \subseteq 1..asked /\ late \subseteq 1..asked
    /\ grace \subseteq 1..asked /\ hour \subseteq 1..asked

AIBotReplyTypes ==
    /\ answerCh \in [AIBot!Tasks -> 0..asked]
    /\ outbox \in Seq(1..asked) /\ heard \subseteq 1..asked
    /\ current \in 0..asked /\ left \in 0..MaxParts
    /\ aiShown \subseteq AIBot!Tasks \X AIBot!Tasks

AIBotSendTypes ==
    /\ pc \in {"idle", "deliver", "post", "remove"}
    /\ task \in 0..asked /\ posted \in [AIBot!Tasks -> Nat]

AIBotFlagTypes ==
    /\ streamClosed \in BOOLEAN /\ running \in BOOLEAN
    /\ poll \in [AIBot!Tasks -> {"none", "taken", "canceled", "close"}]

LEMMA AIBotTypesSplit ==
  /\ AIBot!TypeOK <=> AIBotMapTypes /\ AIBotTimeTypes /\ AIBotReplyTypes /\ AIBotSendTypes /\ AIBotFlagTypes
  /\ AIBot!TypeOK' <=> AIBotMapTypes' /\ AIBotTimeTypes' /\ AIBotReplyTypes' /\ AIBotSendTypes' /\ AIBotFlagTypes'
<1>1. AIBot!TypeOK <=> AIBotMapTypes /\ AIBotTimeTypes /\ AIBotReplyTypes /\ AIBotSendTypes /\ AIBotFlagTypes
  BY Zenon DEF AIBot!TypeOK, AIBotMapTypes, AIBotTimeTypes, AIBotReplyTypes,
       AIBotSendTypes, AIBotFlagTypes
<1>2. AIBot!TypeOK' <=> AIBotMapTypes' /\ AIBotTimeTypes' /\ AIBotReplyTypes' /\ AIBotSendTypes' /\ AIBotFlagTypes'
  BY Zenon DEF AIBot!TypeOK, AIBotMapTypes, AIBotTimeTypes, AIBotReplyTypes,
       AIBotSendTypes, AIBotFlagTypes
<1> QED
  BY <1>1, <1>2

LEMMA AIBotHeadAndTail ==
  ASSUME NEW S, NEW q \in Seq(S), q # <<>>
  PROVE  Head(q) \in S /\ Tail(q) \in Seq(S)
OBVIOUS

\* A queue that is not empty has an earliest task.
LEMMA AIBotEarliestInQueue ==
  ASSUME AIBot!ConstantsAssumption, AIBotMapTypes, NEW queue \in SUBSET (1..asked), queue # {}
  PROVE  AIBot!Earliest(queue) \in queue
<1>0. asked \in Nat /\ queue \subseteq Nat
  BY DEF AIBotMapTypes, AIBot!ConstantsAssumption
<1>1. PICK t \in queue : \A u \in queue : ~(<<u, t>> \in OpToRel(<, Nat))
  <2>1. IsWellFoundedOn(OpToRel(<, Nat), Nat)
    BY NatLessThanWellFounded
  <2> QED
    BY <1>0, <2>1, WFMin, Zenon
<1>2. \A u \in queue : ~(u < t)
  BY <1>0, <1>1 DEF OpToRel
<1>3. \A u \in queue : t <= u
  BY <1>0, <1>2
<1> QED
  BY <1>3, Zenon DEF AIBot!Earliest

LEMMA AIBotInitIInv == ASSUME AIBot!ConstantsAssumption, AIBot!Init PROVE AIBotIInv
<1>1. AIBotMapTypes /\ AIBotTimeTypes
  BY DEF AIBot!Init, AIBotMapTypes, AIBotTimeTypes, AIBot!ConstantsAssumption
<1>2. AIBotReplyTypes /\ AIBotSendTypes
  BY DEF AIBot!Init, AIBotReplyTypes, AIBotSendTypes, AIBot!ConstantsAssumption, AIBot!Tasks
<1>3. AIBotFlagTypes
  <2>1. streamClosed \in BOOLEAN /\ running \in BOOLEAN
    BY Zenon DEF AIBot!Init
  <2> QED
    BY <2>1 DEF AIBot!Init, AIBotFlagTypes
<1>4. AIBotSendOK /\ AIBotURLUnused /\ AIBot!ResponseURLUsedOnce
  BY DEF AIBot!Init, AIBotSendOK, AIBotURLUnused, AIBot!ResponseURLUsedOnce, AIBot!InQueue
<1>5. AIBot!MapsAgree
  BY DEF AIBot!Init, AIBot!MapsAgree, AIBot!InQueue
<1> QED
  BY <1>1, <1>2, <1>3, <1>4, <1>5, AIBotTypesSplit DEF AIBotIInv

-----------------------------------------------------------------------------
\* Steps that leave the maps, the worker and its posts alone.
LEMMA AIBotMapsKept ==
  ASSUME AIBotIInv, UNCHANGED <<asked, chat, AIBot!mapVars, StreamClosed, Finished, pc, task, posted>>
  PROVE  AIBotMapTypes' /\ AIBotSendTypes' /\ AIBot!MapsAgree' /\ AIBotURLUnused' /\ AIBot!ResponseURLUsedOnce'
<1>1. AIBotMapTypes /\ AIBotSendTypes
  BY AIBotTypesSplit DEF AIBotIInv
<1>2. AIBotMapTypes' /\ AIBotSendTypes'
  BY <1>1 DEF AIBotMapTypes, AIBotSendTypes, AIBot!mapVars
<1>3. AIBot!MapsAgree'
  BY DEF AIBotIInv, AIBot!MapsAgree, AIBot!InQueue, AIBot!mapVars
<1>4. AIBotURLUnused' /\ AIBot!ResponseURLUsedOnce'
  BY DEF AIBotIInv, AIBotURLUnused, AIBot!ResponseURLUsedOnce, AIBot!InQueue, AIBot!mapVars
<1> QED
  BY <1>2, <1>3, <1>4

\* A new task is in both maps.
LEMMA AIBotAskStep ==
  ASSUME AIBot!ConstantsAssumption, AIBotIInv, AIBot!handleTextMessage
  PROVE  AIBotIInv'
<1>0. /\ AIBotMapTypes /\ AIBotTimeTypes /\ AIBotReplyTypes /\ AIBotSendTypes /\ AIBotFlagTypes
      /\ AIBotSendOK /\ AIBot!MapsAgree /\ AIBotURLUnused /\ AIBot!ResponseURLUsedOnce
  BY AIBotTypesSplit DEF AIBotIInv
<1>1. /\ asked \in Nat /\ asked' = asked + 1 /\ asked' \in AIBot!Tasks /\ asked' \in 1..asked' /\ asked' \in 0..MaxTasks
      /\ 1..asked \subseteq 1..asked' /\ 0..asked \subseteq 0..asked' /\ asked' \notin 1..asked
      /\ \A t \in AIBot!Tasks : t > asked' => t > asked
  BY <1>0 DEF AIBotMapTypes, AIBot!handleTextMessage, AIBot!ConstantsAssumption, AIBot!Tasks
<1>2. /\ chat[asked'] \in Chats /\ streamTasks' = streamTasks \cup {asked'}
      /\ chatTasks' = [chatTasks EXCEPT ![chat[asked']] = @ \cup {asked'}]
      /\ UNCHANGED <<chat, AIBot!taskVars, AIBot!timeVars, poll, AIBot!agentVars, AIBot!sendVars, posted, aiShown, running>>
  BY <1>0, <1>1 DEF AIBotMapTypes, AIBot!handleTextMessage
<1>3. /\ \A c \in Chats : chatTasks'[c] = chatTasks[c] \/ (c = chat[asked'] /\ chatTasks'[c] = chatTasks[c] \cup {asked'})
      /\ chatTasks' \in [Chats -> SUBSET (1..asked')]
  BY <1>0, <1>1, <1>2 DEF AIBotMapTypes
<1>4. AIBotMapTypes'
  BY <1>0, <1>1, <1>2, <1>3 DEF AIBotMapTypes, AIBot!taskVars
<1>5. AIBotTimeTypes'
  BY <1>0, <1>1, <1>2 DEF AIBotTimeTypes, AIBot!taskVars, AIBot!timeVars
<1>6. AIBotReplyTypes'
  <2>1. answerCh \in [AIBot!Tasks -> 0..asked']
    BY <1>0, <1>1 DEF AIBotReplyTypes
  <2>2. outbox \in Seq(1..asked')
    BY <1>0, <1>1 DEF AIBotReplyTypes
  <2> QED
    BY <1>0, <1>1, <1>2, <2>1, <2>2 DEF AIBotReplyTypes, AIBot!taskVars, AIBot!agentVars
<1>7. AIBotSendTypes' /\ AIBotSendOK'
  BY <1>0, <1>1, <1>2 DEF AIBotSendTypes, AIBotSendOK, AIBot!sendVars, AIBot!agentVars
<1>8. AIBotFlagTypes'
  BY <1>0, <1>2 DEF AIBotFlagTypes, AIBot!sendVars
<1>9. \A t : AIBot!InQueue(t)' <=> AIBot!InQueue(t) \/ t = asked'
  BY <1>0, <1>2, <1>3 DEF AIBot!InQueue, AIBotMapTypes
<1>10. AIBot!MapsAgree'
  <2>1. asked' \notin StreamClosed /\ asked' \notin Finished
    BY <1>0, <1>1 DEF AIBotMapTypes
  <2> QED
    BY <1>0, <1>2, <1>9, <2>1 DEF AIBot!MapsAgree, AIBot!taskVars
<1>11. AIBotURLUnused' /\ AIBot!ResponseURLUsedOnce'
  <2>1. posted[asked'] = 0
    BY <1>0, <1>1 DEF AIBotURLUnused
  <2> QED
    BY <1>0, <1>1, <1>2, <1>9, <2>1 DEF AIBotURLUnused, AIBot!ResponseURLUsedOnce,
         AIBot!sendVars
<1> QED
  BY <1>4, <1>5, <1>6, <1>7, <1>8, <1>10, <1>11, AIBotTypesSplit DEF AIBotIInv

\* The agent takes a question or sends a reply to the last.
LEMMA AIBotAgentSteps ==
  ASSUME AIBot!ConstantsAssumption, AIBotIInv, AIBot!Reply \/ \E t \in AIBot!Tasks, n \in ReplyCounts : AIBot!Think(t, n)
  PROVE  AIBotIInv'
<1>0. AIBotMapTypes /\ AIBotTimeTypes /\ AIBotReplyTypes /\ AIBotSendTypes /\ AIBotFlagTypes /\ AIBotSendOK
  BY AIBotTypesSplit DEF AIBotIInv
<1>1. CASE AIBot!Reply
  <2>1. /\ left # 0 /\ left' = left - 1 /\ outbox' = Append(outbox, current)
        /\ UNCHANGED <<asked, chat, AIBot!mapVars, AIBot!taskVars, AIBot!timeVars, poll, heard, current, AIBot!sendVars, posted, aiShown, running>>
    BY <1>1, <1>0 DEF AIBot!Reply, AIBotReplyTypes, AIBot!ConstantsAssumption
  <2>2. current \in 1..asked
    BY <1>0, <2>1 DEF AIBotSendOK
  <2>3. left' \in 0..MaxParts
    BY <1>0, <1>1, <2>1 DEF AIBotReplyTypes, AIBot!Reply, AIBot!ConstantsAssumption
  <2>4. outbox' \in Seq(1..asked) /\ outbox' # <<>>
    BY <1>0, <2>1, <2>2 DEF AIBotReplyTypes
  <2>5. AIBotReplyTypes' /\ AIBotTimeTypes' /\ AIBotFlagTypes'
    BY <1>0, <2>1, <2>3, <2>4 DEF AIBotReplyTypes, AIBotTimeTypes, AIBotFlagTypes,
         AIBot!taskVars, AIBot!timeVars, AIBot!sendVars
  <2>6. AIBotSendOK'
    BY <1>0, <2>1, <2>2, <2>4 DEF AIBotSendOK, AIBot!sendVars
  <2>7. UNCHANGED <<asked, chat, AIBot!mapVars, StreamClosed, Finished, pc, task, posted>>
    BY <2>1 DEF AIBot!taskVars, AIBot!sendVars
  <2> QED
    BY <2>5, <2>6, <2>7, AIBotMapsKept, AIBotTypesSplit DEF AIBotIInv
<1>2. ASSUME NEW t \in AIBot!Tasks, NEW n \in ReplyCounts, AIBot!Think(t, n) PROVE AIBotIInv'
  <2>1. /\ t \in 1..asked /\ current' = t /\ heard' = heard \cup {t} /\ left' \in {n, 0}
        /\ UNCHANGED <<asked, chat, AIBot!mapVars, AIBot!taskVars, AIBot!timeVars, poll, outbox, AIBot!sendVars, posted, aiShown, running>>
    BY <1>2 DEF AIBot!Think
  <2>2. left' \in 0..MaxParts
    BY <2>1 DEF AIBot!ConstantsAssumption
  <2>3. 1..asked \subseteq 0..asked
    BY <1>0 DEF AIBotMapTypes, AIBot!ConstantsAssumption
  <2>4. AIBotReplyTypes' /\ AIBotTimeTypes' /\ AIBotFlagTypes'
    BY <1>0, <2>1, <2>2, <2>3 DEF AIBotReplyTypes, AIBotTimeTypes, AIBotFlagTypes,
         AIBot!taskVars, AIBot!timeVars, AIBot!sendVars
  <2>5. AIBotSendOK'
    BY <1>0, <2>1 DEF AIBotSendOK, AIBot!sendVars
  <2>6. UNCHANGED <<asked, chat, AIBot!mapVars, StreamClosed, Finished, pc, task, posted>>
    BY <2>1 DEF AIBot!taskVars, AIBot!sendVars
  <2> QED
    BY <2>4, <2>5, <2>6, AIBotMapsKept, AIBotTypesSplit DEF AIBotIInv
<1> QED
  BY <1>1, <1>2

\* None of the tasks in a queue is Finished: Send drops none.
LEMMA AIBotPickStep ==
  ASSUME AIBot!ConstantsAssumption, AIBotIInv, AIBot!SendPick
  PROVE  AIBotIInv'
<1>0. /\ AIBotMapTypes /\ AIBotTimeTypes /\ AIBotReplyTypes /\ AIBotSendTypes /\ AIBotFlagTypes
      /\ AIBotSendOK /\ AIBot!MapsAgree /\ AIBotURLUnused /\ AIBot!ResponseURLUsedOnce
  BY AIBotTypesSplit DEF AIBotIInv
<1> DEFINE c == chat[Head(outbox)]
           queue == AIBot!Unfinished(chatTasks[c])
<1>1. /\ pc = "idle" /\ outbox # <<>> /\ chatTasks' = [chatTasks EXCEPT ![c] = queue]
      /\ \/ queue = {} /\ pc' = "idle" /\ outbox' = Tail(outbox) /\ UNCHANGED <<task, streamClosed>>
         \/ /\ queue # {} /\ task' = AIBot!Earliest(queue) /\ streamClosed' = (task' \in StreamClosed)
            /\ pc' \in {"post", "deliver"} /\ outbox' = outbox
      /\ UNCHANGED <<asked, chat, streamTasks, AIBot!taskVars, AIBot!timeVars, poll, heard, current, left, posted, aiShown, running>>
  BY Zenon DEF AIBot!SendPick, AIBot!Done
<1>2. 1..asked \subseteq AIBot!Tasks /\ 1..asked \subseteq 0..asked
  BY <1>0 DEF AIBotMapTypes, AIBot!Tasks, AIBot!ConstantsAssumption
<1>3. Head(outbox) \in 1..asked /\ Tail(outbox) \in Seq(1..asked)
  BY <1>0, <1>1, AIBotHeadAndTail DEF AIBotReplyTypes
<1>4. c \in Chats /\ chatTasks[c] \subseteq 1..asked
  BY <1>0, <1>2, <1>3 DEF AIBotMapTypes
<1>5. \A t \in chatTasks[c] : t \in AIBot!Tasks /\ AIBot!InQueue(t) /\ t \notin Finished /\ t <= t
  BY <1>0, <1>2, <1>4 DEF AIBot!MapsAgree, AIBot!InQueue, AIBotMapTypes,
       AIBot!ConstantsAssumption
<1>6. queue = chatTasks[c]
  BY <1>5 DEF AIBot!Unfinished
<1>7. chatTasks' = chatTasks
  BY <1>0, <1>1, <1>4, <1>6 DEF AIBotMapTypes
<1>8. queue # {} => task' \in chatTasks[c] /\ task' \in 1..asked
  BY <1>0, <1>1, <1>4, <1>6, AIBotEarliestInQueue
<1>9. AIBotMapTypes' /\ AIBotTimeTypes'
  BY <1>0, <1>1, <1>7 DEF AIBotMapTypes, AIBotTimeTypes, AIBot!taskVars, AIBot!timeVars
<1>10. AIBotReplyTypes'
  BY <1>0, <1>1, <1>3 DEF AIBotReplyTypes, AIBot!taskVars
<1>11. AIBotSendTypes'
  BY <1>0, <1>1, <1>2, <1>8 DEF AIBotSendTypes
<1>12. AIBotFlagTypes'
  <2>1. streamClosed' \in BOOLEAN
    <3>1. streamClosed' = streamClosed \/ streamClosed' = (task' \in StreamClosed)
      BY <1>1
    <3>2. (task' \in StreamClosed) \in BOOLEAN
      OBVIOUS
    <3>3. streamClosed \in BOOLEAN
      BY <1>0 DEF AIBotFlagTypes
    <3> QED
      BY <3>1, <3>2, <3>3, Zenon
  <2> QED
    BY <1>0, <1>1, <2>1 DEF AIBotFlagTypes
<1>13. AIBotSendOK'
  BY <1>0, <1>1, <1>8 DEF AIBotSendOK
<1>14. AIBot!MapsAgree'
  BY <1>0, <1>1, <1>7 DEF AIBot!MapsAgree, AIBot!InQueue, AIBot!taskVars
<1>15. \A t \in AIBot!Tasks : AIBot!InQueue(t)' <=> AIBot!InQueue(t)
  BY <1>7 DEF AIBot!InQueue
<1>16. \A t \in AIBot!Tasks : AIBot!InQueue(t) => posted[t] = 0
  BY <1>0, <1>1 DEF AIBotURLUnused
<1>17. pc' = "post" => posted[task'] = 0
  BY <1>1, <1>5, <1>8, <1>16
<1>18. AIBotURLUnused' /\ AIBot!ResponseURLUsedOnce'
  BY <1>0, <1>1, <1>15, <1>16, <1>17 DEF AIBotURLUnused, AIBot!ResponseURLUsedOnce
<1> QED
  BY <1>9, <1>10, <1>11, <1>12, <1>13, <1>14, <1>18, AIBotTypesSplit DEF AIBotIInv

\* Taking a task out of both maps.
LEMMA AIBotRemoveKeepsMaps ==
  ASSUME AIBot!ConstantsAssumption, AIBotMapTypes, AIBot!MapsAgree, NEW t \in 1..asked, AIBot!removeTask(t),
         UNCHANGED <<asked, chat, StreamClosed>>
  PROVE  AIBotMapTypes' /\ AIBot!MapsAgree' /\ \A u \in AIBot!Tasks : AIBot!InQueue(u)' <=> AIBot!InQueue(u) /\ u # t
<1>1. t \in AIBot!Tasks /\ chat[t] \in Chats
  BY DEF AIBotMapTypes, AIBot!Tasks, AIBot!ConstantsAssumption
<1>2. /\ Finished' = Finished \cup {t} /\ streamTasks' = streamTasks \ {t}
      /\ \A c \in Chats : chatTasks'[c] = chatTasks[c] \ {t}
      /\ chatTasks' \in [Chats -> SUBSET (1..asked)]
  BY <1>1 DEF AIBot!removeTask, AIBotMapTypes
<1>3. AIBotMapTypes'
  BY <1>2 DEF AIBotMapTypes
<1>4. \A u : AIBot!InQueue(u)' <=> AIBot!InQueue(u) /\ u # t
  BY <1>2 DEF AIBot!InQueue
<1>5. AIBot!MapsAgree'
  BY <1>2, <1>4 DEF AIBot!MapsAgree
<1> QED
  BY <1>3, <1>4, <1>5

\* The other steps of Send.
LEMMA AIBotSendSteps ==
  ASSUME AIBot!ConstantsAssumption, AIBotIInv,
         AIBot!SendDeliver \/ AIBot!SendDropped \/ AIBot!SendRemove \/ \E ok \in BOOLEAN : AIBot!SendPost(ok)
  PROVE  AIBotIInv'
<1>0. /\ AIBotMapTypes /\ AIBotTimeTypes /\ AIBotReplyTypes /\ AIBotSendTypes /\ AIBotFlagTypes
      /\ AIBotSendOK /\ AIBot!MapsAgree /\ AIBotURLUnused /\ AIBot!ResponseURLUsedOnce
  BY AIBotTypesSplit DEF AIBotIInv
<1>1. task \in 1..asked /\ outbox # <<>> /\ task \in AIBot!Tasks /\ Head(outbox) \in 1..asked /\ Head(outbox) \in AIBot!Tasks
      /\ Head(outbox) \in 0..asked /\ Tail(outbox) \in Seq(1..asked)
  <2>1. pc # "idle"
    BY DEF AIBot!SendDeliver, AIBot!SendDropped, AIBot!SendRemove, AIBot!SendPost
  <2>2. task \in 1..asked /\ outbox # <<>> /\ 1..asked \subseteq AIBot!Tasks /\ 1..asked \subseteq 0..asked
    BY <1>0, <2>1 DEF AIBotSendOK, AIBotMapTypes, AIBot!Tasks, AIBot!ConstantsAssumption
  <2>3. Head(outbox) \in 1..asked /\ Tail(outbox) \in Seq(1..asked)
    BY <1>0, <2>2, AIBotHeadAndTail DEF AIBotReplyTypes
  <2> QED
    BY <2>2, <2>3
<1>2. ASSUME AIBot!SendDeliver \/ AIBot!SendDropped PROVE AIBotIInv'
  <2>1. /\ pc = "deliver" /\ pc' = "idle" /\ outbox' = Tail(outbox)
        /\ answerCh' = answerCh \/ answerCh' = [answerCh EXCEPT ![task] = Head(outbox)]
        /\ UNCHANGED <<asked, chat, AIBot!mapVars, StreamClosed, Finished, aiCanceled, AIBot!timeVars, poll, heard, current, left,
                       task, streamClosed, posted, aiShown, running>>
    BY <1>2 DEF AIBot!SendDeliver, AIBot!SendDropped, AIBot!Done, AIBot!taskVars
  <2>2. AIBotMapTypes' /\ AIBotTimeTypes' /\ AIBotFlagTypes'
    BY <1>0, <2>1 DEF AIBotMapTypes, AIBotTimeTypes, AIBotFlagTypes, AIBot!mapVars,
         AIBot!timeVars
  <2>3. AIBotReplyTypes'
    BY <1>0, <1>1, <2>1 DEF AIBotReplyTypes
  <2>4. AIBotSendTypes' /\ AIBotSendOK'
    BY <1>0, <2>1 DEF AIBotSendTypes, AIBotSendOK
  <2>5. AIBot!MapsAgree'
    BY <1>0, <2>1 DEF AIBot!MapsAgree, AIBot!InQueue, AIBot!mapVars
  <2>6. AIBotURLUnused' /\ AIBot!ResponseURLUsedOnce'
    BY <1>0, <2>1 DEF AIBotURLUnused, AIBot!ResponseURLUsedOnce, AIBot!InQueue,
         AIBot!mapVars
  <2> QED
    BY <2>2, <2>3, <2>4, <2>5, <2>6, AIBotTypesSplit DEF AIBotIInv
<1>3. ASSUME NEW ok \in BOOLEAN, AIBot!SendPost(ok) PROVE AIBotIInv'
  <2>1. /\ pc = "post" /\ pc' = "remove" /\ posted' = [posted EXCEPT ![task] = @ + 1]
        /\ aiShown' = aiShown \/ aiShown' = aiShown \cup {<<task, Head(outbox)>>}
        /\ aiCanceled' = aiCanceled \cup {task}
        /\ UNCHANGED <<asked, chat, AIBot!mapVars, answerCh, StreamClosed, Finished, AIBot!timeVars, poll, AIBot!agentVars, task, streamClosed, running>>
    BY <1>3 DEF AIBot!SendPost
  <2>2. AIBotMapTypes' /\ AIBotTimeTypes' /\ AIBotFlagTypes'
    BY <1>0, <1>1, <2>1 DEF AIBotMapTypes, AIBotTimeTypes, AIBotFlagTypes, AIBot!mapVars,
         AIBot!timeVars
  <2>3. AIBotReplyTypes'
    BY <1>0, <1>1, <2>1 DEF AIBotReplyTypes, AIBot!agentVars
  <2>4. posted[task] = 0 /\ posted' \in [AIBot!Tasks -> Nat] /\ posted'[task] = 1 /\ \A t \in AIBot!Tasks \ {task} : posted'[t] = posted[t]
    BY <1>0, <1>1, <2>1 DEF AIBotURLUnused, AIBotSendTypes
  <2>5. AIBotSendTypes' /\ AIBotSendOK'
    BY <1>0, <2>1, <2>4 DEF AIBotSendTypes, AIBotSendOK, AIBot!agentVars
  <2>6. AIBot!MapsAgree'
    BY <1>0, <2>1 DEF AIBot!MapsAgree, AIBot!InQueue, AIBot!mapVars
  <2>7. AIBot!ResponseURLUsedOnce'
    BY <1>0, <2>4 DEF AIBot!ResponseURLUsedOnce
  <2>8. task <= asked
    BY <1>0, <1>1 DEF AIBotMapTypes, AIBot!ConstantsAssumption
  <2>9. AIBotURLUnused'
    <3>1. \A t \in AIBot!Tasks : t > asked => t # task
      BY <1>0, <1>1, <2>8 DEF AIBot!Tasks, AIBotMapTypes, AIBot!ConstantsAssumption
    <3> QED
      BY <1>0, <2>1, <2>4, <3>1 DEF AIBotURLUnused, AIBot!InQueue, AIBot!mapVars
  <2> QED
    BY <2>2, <2>3, <2>5, <2>6, <2>7, <2>9, AIBotTypesSplit DEF AIBotIInv
<1>4. ASSUME AIBot!SendRemove PROVE AIBotIInv'
  <2>1. /\ pc = "remove" /\ pc' = "idle" /\ outbox' = Tail(outbox) /\ AIBot!removeTask(task)
        /\ UNCHANGED <<asked, chat, answerCh, StreamClosed, aiCanceled, AIBot!timeVars, poll, heard, current, left,
                       task, streamClosed, posted, aiShown, running>>
    BY <1>4 DEF AIBot!SendRemove, AIBot!Done
  <2>2. AIBotMapTypes' /\ AIBot!MapsAgree' /\ \A u \in AIBot!Tasks : AIBot!InQueue(u)' <=> AIBot!InQueue(u) /\ u # task
    BY <1>0, <1>1, <2>1, AIBotRemoveKeepsMaps
  <2>3. AIBotTimeTypes' /\ AIBotFlagTypes'
    BY <1>0, <2>1 DEF AIBotTimeTypes, AIBotFlagTypes, AIBot!timeVars
  <2>4. AIBotReplyTypes'
    BY <1>0, <1>1, <2>1 DEF AIBotReplyTypes
  <2>5. AIBotSendTypes' /\ AIBotSendOK'
    BY <1>0, <2>1 DEF AIBotSendTypes, AIBotSendOK
  <2>6. AIBotURLUnused' /\ AIBot!ResponseURLUsedOnce'
    BY <1>0, <2>1, <2>2 DEF AIBotURLUnused, AIBot!ResponseURLUsedOnce
  <2> QED
    BY <2>2, <2>3, <2>4, <2>5, <2>6, AIBotTypesSplit DEF AIBotIInv
<1> QED
  BY <1>2, <1>3, <1>4

\* The handler of a poll.
LEMMA AIBotPollSteps ==
  ASSUME AIBot!ConstantsAssumption, AIBotIInv, NEW t \in AIBot!Tasks, AIBot!PollStep(t)
  PROVE  AIBotIInv'
<1>0. /\ AIBotMapTypes /\ AIBotTimeTypes /\ AIBotReplyTypes /\ AIBotSendTypes /\ AIBotFlagTypes
      /\ AIBotSendOK /\ AIBot!MapsAgree /\ AIBotURLUnused /\ AIBot!ResponseURLUsedOnce
  BY AIBotTypesSplit DEF AIBotIInv
<1>1. CASE AIBot!PollTake(t)
  <2>1. /\ t \in streamTasks /\ answerCh[t] # 0
        /\ aiShown' = aiShown \cup {<<t, answerCh[t]>>}
        /\ answerCh' = [answerCh EXCEPT ![t] = 0] /\ poll' = [poll EXCEPT ![t] = "taken"]
        /\ UNCHANGED <<asked, chat, AIBot!mapVars, StreamClosed, Finished, aiCanceled, AIBot!timeVars, AIBot!agentVars, AIBot!sendVars, posted, running>>
    BY <1>1 DEF AIBot!PollTake, AIBot!Polled
  <2>2. t \in 1..asked /\ 0 \in 0..asked /\ answerCh[t] \in AIBot!Tasks
    BY <1>0, <2>1 DEF AIBotMapTypes, AIBotReplyTypes, AIBot!Tasks, AIBot!ConstantsAssumption
  <2>3. AIBotTimeTypes' /\ AIBotFlagTypes' /\ AIBotReplyTypes'
    BY <1>0, <2>1, <2>2 DEF AIBotTimeTypes, AIBotFlagTypes, AIBotReplyTypes,
         AIBot!timeVars, AIBot!sendVars, AIBot!agentVars
  <2>4. AIBotSendOK'
    BY <1>0, <2>1, <2>2 DEF AIBotSendOK, AIBotFlagTypes, AIBot!sendVars, AIBot!agentVars
  <2>5. UNCHANGED <<asked, chat, AIBot!mapVars, StreamClosed, Finished, pc, task, posted>>
    BY <2>1 DEF AIBot!sendVars
  <2> QED
    BY <2>3, <2>4, <2>5, AIBotMapsKept, AIBotTypesSplit DEF AIBotIInv
<1>2. CASE AIBot!PollCancel(t) \/ AIBot!PollLate(t)
  <2>1. /\ aiCanceled' = aiCanceled \cup {t} \/ aiCanceled' = aiCanceled
        /\ \E x \in {"canceled", "close"} : poll' = [poll EXCEPT ![t] = x]
        /\ t \in streamTasks \/ poll[t] # "none"
        /\ UNCHANGED <<asked, chat, AIBot!mapVars, answerCh, StreamClosed, Finished, AIBot!timeVars, AIBot!agentVars, AIBot!sendVars, posted, aiShown, running>>
    BY <1>2 DEF AIBot!PollCancel, AIBot!PollLate, AIBot!Polled, AIBot!taskVars
  <2>2. t \in 1..asked
    BY <1>0, <2>1 DEF AIBotMapTypes, AIBotSendOK
  <2>3. AIBotTimeTypes' /\ AIBotFlagTypes' /\ AIBotReplyTypes'
    BY <1>0, <2>1, <2>2 DEF AIBotTimeTypes, AIBotFlagTypes, AIBotReplyTypes,
         AIBot!timeVars, AIBot!sendVars, AIBot!agentVars
  <2>4. AIBotSendOK'
    BY <1>0, <2>1, <2>2 DEF AIBotSendOK, AIBotFlagTypes, AIBot!sendVars, AIBot!agentVars
  <2>5. UNCHANGED <<asked, chat, AIBot!mapVars, StreamClosed, Finished, pc, task, posted>>
    BY <2>1 DEF AIBot!sendVars
  <2> QED
    BY <2>3, <2>4, <2>5, AIBotMapsKept, AIBotTypesSplit DEF AIBotIInv
<1>3. CASE AIBot!PollRemove(t)
  <2>1. /\ poll[t] # "none" /\ AIBot!removeTask(t) /\ poll' = [poll EXCEPT ![t] = "none"]
        /\ UNCHANGED <<asked, chat, answerCh, StreamClosed, aiCanceled, AIBot!timeVars, AIBot!agentVars, AIBot!sendVars, posted, aiShown, running>>
    BY <1>3 DEF AIBot!PollRemove
  <2>2. t \in 1..asked
    BY <1>0, <2>1 DEF AIBotSendOK
  <2>3. AIBotMapTypes' /\ AIBot!MapsAgree' /\ \A u \in AIBot!Tasks : AIBot!InQueue(u)' <=> AIBot!InQueue(u) /\ u # t
    BY <1>0, <2>1, <2>2, AIBotRemoveKeepsMaps
  <2>4. AIBotTimeTypes' /\ AIBotFlagTypes' /\ AIBotReplyTypes' /\ AIBotSendTypes'
    BY <1>0, <2>1 DEF AIBotTimeTypes, AIBotFlagTypes, AIBotReplyTypes, AIBotSendTypes,
         AIBot!timeVars, AIBot!sendVars, AIBot!agentVars
  <2>5. AIBotSendOK'
    BY <1>0, <2>1 DEF AIBotSendOK, AIBotFlagTypes, AIBot!sendVars, AIBot!agentVars
  <2>6. AIBotURLUnused' /\ AIBot!ResponseURLUsedOnce'
    BY <1>0, <2>1, <2>3 DEF AIBotURLUnused, AIBot!ResponseURLUsedOnce, AIBot!sendVars
  <2> QED
    BY <2>3, <2>4, <2>5, <2>6, AIBotTypesSplit DEF AIBotIInv
<1>4. CASE AIBot!PollClose(t)
  <2>1. /\ poll[t] # "none" /\ poll' = [poll EXCEPT ![t] = "none"]
        /\ StreamClosed' = StreamClosed \cup {t} /\ streamTasks' = streamTasks \ {t}
        /\ UNCHANGED <<asked, chat, chatTasks, answerCh, Finished, aiCanceled, AIBot!timeVars, AIBot!agentVars, AIBot!sendVars, posted, aiShown, running>>
    BY <1>4 DEF AIBot!PollClose
  <2>2. t \in 1..asked
    BY <1>0, <2>1 DEF AIBotSendOK
  <2>3. AIBotMapTypes'
    BY <1>0, <2>1, <2>2 DEF AIBotMapTypes
  <2>4. AIBotTimeTypes' /\ AIBotFlagTypes' /\ AIBotReplyTypes' /\ AIBotSendTypes'
    BY <1>0, <2>1 DEF AIBotTimeTypes, AIBotFlagTypes, AIBotReplyTypes, AIBotSendTypes,
         AIBot!timeVars, AIBot!sendVars, AIBot!agentVars
  <2>5. AIBotSendOK'
    BY <1>0, <2>1 DEF AIBotSendOK, AIBotFlagTypes, AIBot!sendVars, AIBot!agentVars
  <2>6. AIBot!MapsAgree'
    BY <1>0, <2>1 DEF AIBot!MapsAgree, AIBot!InQueue
  <2>7. AIBotURLUnused' /\ AIBot!ResponseURLUsedOnce'
    BY <1>0, <2>1 DEF AIBotURLUnused, AIBot!ResponseURLUsedOnce, AIBot!InQueue,
         AIBot!sendVars
  <2> QED
    BY <2>3, <2>4, <2>5, <2>6, <2>7, AIBotTypesSplit DEF AIBotIInv
<1> QED
  BY <1>1, <1>2, <1>3, <1>4 DEF AIBot!PollStep

\* Time, and Stop.
LEMMA AIBotTimeSteps ==
  ASSUME AIBot!ConstantsAssumption, AIBotIInv, AIBot!Stop \/ \E t \in AIBot!Tasks : AIBot!PassTime(t)
  PROVE  AIBotIInv'
<1>0. AIBotMapTypes /\ AIBotTimeTypes /\ AIBotReplyTypes /\ AIBotSendTypes /\ AIBotFlagTypes /\ AIBotSendOK
  BY AIBotTypesSplit DEF AIBotIInv
<1>1. CASE AIBot!Stop
  <2>1. /\ aiCanceled' = 1..asked /\ running' = FALSE
        /\ UNCHANGED <<asked, chat, AIBot!mapVars, answerCh, StreamClosed, Finished, AIBot!timeVars, poll, AIBot!agentVars, AIBot!sendVars, posted, aiShown>>
    BY <1>1 DEF AIBot!Stop
  <2>2. running' \in BOOLEAN
    BY <2>1
  <2>3. AIBotFlagTypes'
    BY <1>0, <2>1, <2>2 DEF AIBotFlagTypes, AIBot!sendVars
  <2>4. AIBotTimeTypes' /\ AIBotReplyTypes' /\ AIBotSendOK'
    BY <1>0, <2>1 DEF AIBotTimeTypes, AIBotReplyTypes, AIBotSendOK, AIBot!timeVars,
         AIBot!agentVars, AIBot!sendVars
  <2>5. UNCHANGED <<asked, chat, AIBot!mapVars, StreamClosed, Finished, pc, task, posted>>
    BY <2>1 DEF AIBot!sendVars
  <2> QED
    BY <2>3, <2>4, <2>5, AIBotMapsKept, AIBotTypesSplit DEF AIBotIInv
<1>2. ASSUME NEW t \in AIBot!Tasks, AIBot!PassTime(t) PROVE AIBotIInv'
  <2>1. /\ t \in 1..asked
        /\ late' \subseteq late \cup {t} /\ grace' \subseteq grace \cup {t} /\ hour' \subseteq hour \cup {t}
        /\ UNCHANGED <<asked, chat, AIBot!mapVars, AIBot!taskVars, poll, AIBot!agentVars, AIBot!sendVars, posted, aiShown, running>>
    BY <1>0, <1>2 DEF AIBot!PassTime, AIBot!Tasks, AIBotMapTypes, AIBot!ConstantsAssumption
  <2>2. AIBotFlagTypes' /\ AIBotTimeTypes' /\ AIBotReplyTypes' /\ AIBotSendOK'
    BY <1>0, <2>1 DEF AIBotFlagTypes, AIBotTimeTypes, AIBotReplyTypes, AIBotSendOK,
         AIBot!taskVars, AIBot!agentVars, AIBot!sendVars
  <2>3. UNCHANGED <<asked, chat, AIBot!mapVars, StreamClosed, Finished, pc, task, posted>>
    BY <2>1 DEF AIBot!taskVars, AIBot!sendVars
  <2> QED
    BY <2>2, <2>3, AIBotMapsKept, AIBotTypesSplit DEF AIBotIInv
<1> QED
  BY <1>1, <1>2

\* The cleanup: what it takes from one map and leaves in the other is past its
\* deadline and has its stream closed.
LEMMA AIBotCleanupStep ==
  ASSUME AIBot!ConstantsAssumption, AIBotIInv, AIBot!cleanupOldTasks
  PROVE  AIBotIInv'
<1>0. /\ AIBotMapTypes /\ AIBotTimeTypes /\ AIBotReplyTypes /\ AIBotSendTypes /\ AIBotFlagTypes
      /\ AIBotSendOK /\ AIBot!MapsAgree /\ AIBotURLUnused /\ AIBot!ResponseURLUsedOnce
  BY AIBotTypesSplit DEF AIBotIInv
<1>1. /\ streamTasks' = streamTasks \ hour
      /\ chatTasks' = [c \in Chats |-> chatTasks[c] \ (AIBot!Expired \cup Finished)]
      /\ aiCanceled' \subseteq aiCanceled \cup AIBot!Expired
      /\ UNCHANGED <<asked, chat, answerCh, StreamClosed, Finished, AIBot!timeVars, poll, AIBot!agentVars, AIBot!sendVars, posted, aiShown, running>>
  BY DEF AIBot!cleanupOldTasks
<1>2. AIBotMapTypes'
  BY <1>0, <1>1 DEF AIBotMapTypes
<1>3. AIBotTimeTypes'
  BY <1>0, <1>1 DEF AIBotTimeTypes, AIBot!Expired, AIBot!timeVars
<1>4. AIBotReplyTypes' /\ AIBotSendTypes' /\ AIBotFlagTypes' /\ AIBotSendOK'
  BY <1>0, <1>1 DEF AIBotReplyTypes, AIBotSendTypes, AIBotFlagTypes, AIBotSendOK,
       AIBot!agentVars, AIBot!sendVars
<1>5. \A t : AIBot!InQueue(t)' <=> AIBot!InQueue(t) /\ t \notin AIBot!Expired /\ t \notin Finished
  BY <1>1 DEF AIBot!InQueue
<1>6. /\ \A t \in streamTasks' : t \notin AIBot!Expired /\ t \in AIBot!Tasks
      /\ \A t : t \in hour => t \in AIBot!Expired
  <2>1. 1..asked \subseteq AIBot!Tasks
    BY <1>0 DEF AIBotMapTypes, AIBot!Tasks, AIBot!ConstantsAssumption
  <2>2. hour \subseteq AIBot!Expired
    BY <1>0 DEF AIBotTimeTypes, AIBot!Expired
  <2>3. \A t \in streamTasks : t \in AIBot!Tasks /\ t \notin StreamClosed
    BY <1>0, <2>1 DEF AIBotMapTypes, AIBot!MapsAgree
  <2>4. \A t \in streamTasks' : t \in streamTasks /\ t \notin hour
    BY <1>1
  <2> QED
    BY <2>2, <2>3, <2>4 DEF AIBot!Expired
<1>7. AIBot!MapsAgree'
  BY <1>0, <1>1, <1>5, <1>6 DEF AIBot!MapsAgree
<1>8. AIBotURLUnused' /\ AIBot!ResponseURLUsedOnce'
  BY <1>0, <1>1, <1>5 DEF AIBotURLUnused, AIBot!ResponseURLUsedOnce, AIBot!sendVars
<1> QED
  BY <1>2, <1>3, <1>4, <1>7, <1>8, AIBotTypesSplit DEF AIBotIInv

LEMMA AIBotNextIInv ==
  ASSUME AIBot!ConstantsAssumption, AIBotIInv, [AIBot!Next]_(AIBot!vars)
  PROVE  AIBotIInv'
<1>1. CASE UNCHANGED AIBot!vars
  <2>1. /\ UNCHANGED <<asked, chat, AIBot!mapVars, StreamClosed, Finished, pc, task, posted>>
        /\ UNCHANGED <<answerCh, aiCanceled, late, grace, hour, poll, AIBot!agentVars, streamClosed, aiShown, running>>
    BY <1>1 DEF AIBot!vars, AIBot!taskVars, AIBot!timeVars, AIBot!sendVars
  <2>2. AIBotMapTypes /\ AIBotTimeTypes /\ AIBotReplyTypes /\ AIBotSendTypes /\ AIBotFlagTypes /\ AIBotSendOK
    BY AIBotTypesSplit DEF AIBotIInv
  <2>3. AIBotTimeTypes' /\ AIBotReplyTypes' /\ AIBotFlagTypes' /\ AIBotSendOK'
    BY <2>1, <2>2 DEF AIBotTimeTypes, AIBotReplyTypes, AIBotFlagTypes, AIBotSendOK,
         AIBot!agentVars
  <2> QED
    BY <2>1, <2>3, AIBotMapsKept, AIBotTypesSplit DEF AIBotIInv
<1>2. ASSUME AIBot!Send PROVE AIBotIInv'
  BY <1>2, AIBotPickStep, AIBotSendSteps DEF AIBot!Send
<1> QED
  BY <1>1, <1>2, AIBotAskStep, AIBotAgentSteps, AIBotPollSteps, AIBotTimeSteps,
       AIBotCleanupStep DEF AIBot!Next

\* For any number of chats, questions and replies: the maps agree and a response_url
\* is used once.
THEOREM AIBotTasksAgree ==
  ASSUME AIBot!ConstantsAssumption
  PROVE  AIBot!Spec => [](AIBot!TypeOK /\ AIBot!MapsAgree /\ AIBot!ResponseURLUsedOnce)
<1>1. AIBot!Init => AIBotIInv
  BY AIBotInitIInv
<1>2. AIBotIInv /\ [AIBot!Next]_(AIBot!vars) => AIBotIInv'
  BY AIBotNextIInv
<1>3. AIBotIInv => AIBot!TypeOK /\ AIBot!MapsAgree /\ AIBot!ResponseURLUsedOnce
  BY DEF AIBotIInv
<1> QED
  BY <1>1, <1>2, <1>3, PTL DEF AIBot!Spec

-----------------------------------------------------------------------------
(* The composition                                                         *)

\* Whichever component takes the steps, the others stand still: the composition
\* implements each of them.
LEMMA DedupImplemented == MCSpec => Spec
<1>1. MCInit => Init
  BY DEF MCInit
<1>2. [MCNext]_allVars => [Next]_vars
  BY DEF MCNext, DedupRuns, OnebotRuns, AibotRuns, IndicatorsRuns, ChunksRuns, allVars
<1> QED
  BY <1>1, <1>2, PTL DEF MCSpec, Spec

LEMMA BotImplemented == MCSpec => Bot!Spec
<1>1. MCInit => Bot!Init
  BY DEF MCInit
<1>2. [MCNext]_allVars => [Bot!Next]_(Bot!vars)
  BY DEF MCNext, DedupRuns, OnebotRuns, AibotRuns, IndicatorsRuns, ChunksRuns, allVars, obVars,
         Bot!vars, Bot!connVars, Bot!callVars
<1> QED
  BY <1>1, <1>2, PTL DEF MCSpec, Bot!Spec

LEMMA AIBotImplemented == MCSpec => AIBot!Spec
<1>1. MCInit => AIBot!Init
  BY DEF MCInit
<1>2. [MCNext]_allVars => [AIBot!Next]_(AIBot!vars)
  BY DEF MCNext, DedupRuns, OnebotRuns, AibotRuns, IndicatorsRuns, ChunksRuns, allVars, aiVars,
         AIBot!vars, AIBot!mapVars, AIBot!taskVars, AIBot!timeVars, AIBot!agentVars, AIBot!sendVars
<1> QED
  BY <1>1, <1>2, PTL DEF MCSpec, AIBot!Spec

\* The map of the deduplicator is its ring.
THEOREM DedupAlways == MCSpec => []DedupInv
<1>1. TypeOK /\ MapIsRing => DedupInv
  BY DEF DedupInv
<1> QED
  BY <1>1, DedupImplemented, MapAlwaysRing, PTL

\* A message is told apart from its copies until max others were accepted after it.
THEOREM CopiesAreToldApart == MCSpec => NoCliff
BY DedupImplemented, ForgetsByAge, PTL

\* The connection in use has a reader, no other is open, and only requests that
\* wait are pending, through breaks, redials, late answers and Stop.
THEOREM OneBotAlways == MCSpec => []OneBotInv
<1>1. Bot!TypeOK /\ Bot!ConnectionIsRead /\ Bot!OneConnection /\ Bot!PendingWait => OneBotInv
  BY DEF OneBotInv
<1> QED
  BY <1>1, BotImplemented, BotConnectionKept, InstancesAssumption, PTL

\* When Stop returns, every connection that was dialled is closed.
THEOREM OneBotStopCloses == MCSpec => StopLeavesNoneOpen
BY BotImplemented, BotStopClosesAll, InstancesAssumption, PTL DEF StopLeavesNoneOpen

\* Polls, the worker and the cleanup agree on the tasks, and a response_url is
\* used once, although deadlines race with answers.
THEOREM AIBotAlways == MCSpec => []AIBotInv
<1>1. AIBot!TypeOK /\ AIBot!MapsAgree /\ AIBot!ResponseURLUsedOnce => AIBotInv
  BY DEF AIBotInv
<1> QED
  BY <1>1, AIBotImplemented, AIBotTasksAgree, InstancesAssumption, PTL

\* The two chats share their variables: which of them it is was decided at the start.
ChatIInv ==
    /\ part = "indicators" => Indicators!IInv
    /\ part = "chunks" => Chunks!IInv

\* Typing indicators that are shown can be stopped; the chunks of a reply appear in
\* order and once, and a refused one never.
THEOREM DeliveryAlways == MCSpec => []DeliveryInv
<1>0. Indicators!ConstantsAssumption /\ Chunks!ConstantsAssumption
  BY InstancesAssumption
<1>1. MCInit => ChatIInv
  <2> SUFFICES ASSUME MCInit PROVE ChatIInv
    OBVIOUS
  <2>1. CASE part = "indicators"
    <3>1. Indicators!Init
      BY <2>1 DEF MCInit
    <3> QED
      BY <1>0, <2>1, <3>1, Indicators!InitIInv DEF ChatIInv
  <2>2. CASE part = "chunks"
    <3>1. Chunks!Init
      BY <2>2 DEF MCInit
    <3> QED
      BY <1>0, <2>2, <3>1, Chunks!InitIInv DEF ChatIInv
  <2> QED
    BY <2>1, <2>2 DEF ChatIInv
<1>2. ChatIInv /\ [MCNext]_allVars => ChatIInv'
  <2> SUFFICES ASSUME ChatIInv, [MCNext]_allVars PROVE ChatIInv'
    OBVIOUS
  <2>1. part' = part
    BY DEF MCNext, DedupRuns, OnebotRuns, AibotRuns, IndicatorsRuns, ChunksRuns, allVars
  <2>2. CASE part = "indicators"
    <3>1. [Indicators!Next]_(Indicators!vars)
      BY <2>2 DEF MCNext, DedupRuns, OnebotRuns, AibotRuns, IndicatorsRuns, ChunksRuns, allVars, chatVars,
         Indicators!vars, Indicators!handlerVars, Indicators!regVars, Indicators!sendVars, Indicators!histVars
    <3>2. Indicators!IInv'
      BY <1>0, <2>2, <3>1, Indicators!NextIInv DEF ChatIInv
    <3> QED
      BY <2>1, <2>2, <3>2 DEF ChatIInv
  <2>3. CASE part = "chunks"
    <3>1. [Chunks!Next]_(Chunks!vars)
      BY <2>3 DEF MCNext, DedupRuns, OnebotRuns, AibotRuns, IndicatorsRuns, ChunksRuns, allVars, chatVars,
         Chunks!vars, Chunks!handlerVars, Chunks!regVars, Chunks!sendVars, Chunks!histVars
    <3>2. Chunks!IInv'
      BY <1>0, <2>3, <3>1, Chunks!NextIInv DEF ChatIInv
    <3> QED
      BY <2>1, <2>3, <3>2 DEF ChatIInv
  <2> QED
    BY <2>1, <2>2, <2>3 DEF ChatIInv
<1>3. ChatIInv => DeliveryInv
  <2>1. Indicators!IInv => Indicators!TypeOK /\ Indicators!TypingCanBeStopped
    BY Indicators!IInvImplies
  <2>2. Chunks!IInv => Chunks!TypeOK /\ Chunks!ChunksInOrder /\ Chunks!RefusedIsFinal
    BY Chunks!IInvImplies
  <2> QED
    BY <2>1, <2>2 DEF ChatIInv, DeliveryInv
<1> QED
  BY <1>1, <1>2, <1>3, PTL DEF MCSpec
=============================================================================
