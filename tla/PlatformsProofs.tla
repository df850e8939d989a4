-------------------------- MODULE PlatformsProofs ---------------------------
(***************************************************************************)
(* Theorems about the channels that keep state of their own: PicoChannel,  *)
(* TypingLoops, WhatsAppNative, ReplyContext, and their composition        *)
(* MCPlatforms.  Each section has the invariant of a component, a lemma    *)
(* for each of its actions, and the theorem that they give.  Names of      *)
(* Typing(P) and Replies(P) hold for every record P that is a platform.    *)
(***************************************************************************)
EXTENDS MCPlatforms, Sequences, FiniteSetTheorems, WellFoundedInduction, TLAPS

Sends == [to : Sessions, pc : {"idle", "range", "sent", "failed"}, tries : Nat, sent : BOOLEAN]

SendTypes ==
    /\ send \in [Senders -> Sends]
    /\ received \in [Conns -> [Senders -> Nat]]
    /\ visited \in [Rangers -> SUBSET Conns]

\* Nobody has the message before an attempt has sent it, then those have it who
\* were visited and could be reached, and an attempt that sent it is the last.
Reached(s) ==
    /\ send[s].pc \in {"idle", "failed"} => ~send[s].sent
    /\ ~send[s].sent => \A c \in Conns : received[c][s] = 0
    /\ \A c \in Conns : received[c][s] <= 1
    /\ send[s].pc = "range" =>
          \A c \in Conns :
              /\ received[c][s] = 1 => c \in visited[s]
              /\ c \in visited[s] /\ session[c] = send[s].to /\ c \notin closed \cup left =>
                     received[c][s] = 1

SendInv == SendTypes /\ \A s \in Senders : Reached(s)

\* Nobody has sent anything.
LEMMA InitSendInv == ASSUME Init PROVE SendInv
<1>1. ASSUME NEW s \in Senders
      PROVE  send[s] \in [to : Sessions, pc : {"idle"}, tries : {0}, sent : {FALSE}]
  BY DEF Init
<1>2. ASSUME NEW s \in Senders, NEW c \in Conns PROVE received[c][s] = 0
  <2>1. received = [d \in Conns |-> [z \in Senders |-> 0]]
    BY DEF Init
  <2>2. received[c] = [z \in Senders |-> 0]
    BY <2>1
  <2> QED
    BY <2>2
<1>3. ASSUME NEW s \in Senders PROVE send[s] \in Sends
  <2>1. {"idle"} \subseteq {"idle", "range", "sent", "failed"} /\ {0} \subseteq Nat
        /\ {FALSE} \subseteq BOOLEAN
    OBVIOUS
  <2>2. [to : Sessions, pc : {"idle"}, tries : {0}, sent : {FALSE}] \subseteq Sends
    BY <2>1, Zenon DEF Sends
  <2> QED
    BY <1>1, <2>2
<1>4. send \in [Senders -> Sends]
  BY <1>3 DEF Init
<1>5. received \in [Conns -> [Senders -> Nat]] /\ visited \in [Rangers -> SUBSET Conns]
  BY DEF Init
<1>6. ASSUME NEW s \in Senders PROVE Reached(s)
  <2>1. send[s].pc = "idle"
    BY <1>1
  <2>2. ~send[s].sent
    BY <1>1
  <2>3. \A c \in Conns : received[c][s] = 0 /\ received[c][s] <= 1
    BY <1>2
  <2> QED
    BY <2>1, <2>2, <2>3 DEF Reached
<1> QED
  BY <1>4, <1>5, <1>6 DEF SendInv, SendTypes

\* Whatever leaves sends, and what they have visited, alone keeps it: clients
\* that leave and connections that are closed only ask for less.
LEMMA OthersKeep ==
    ASSUME SendInv, UNCHANGED <<session, sendVars>>,
           closed \subseteq closed', left \subseteq left',
           visited' \in [Rangers -> SUBSET Conns],
           \A s \in Senders : visited'[s] = visited[s]
    PROVE  SendInv'
<1>1. SendTypes'
  BY DEF SendInv, SendTypes, sendVars
<1>2. ASSUME NEW s \in Senders PROVE Reached(s)'
  BY DEF SendInv, Reached, sendVars
<1> QED
  BY <1>1, <1>2 DEF SendInv

\* A new attempt has visited nobody, and nobody has its message.
LEMMA SendBeginsKeeps ==
    ASSUME SendInv, NEW s \in Senders, SendBegins(s)
    PROVE  SendInv'
<1>1. s \in Rangers
  BY DEF Rangers
<1>2. SendTypes'
  <2>1. send[s] \in Sends
    BY DEF SendInv, SendTypes
  <2>2. send' = [send EXCEPT ![s] = send'[s]] /\ send'[s] \in Sends
    BY <2>1 DEF SendInv, SendTypes, Sends, SendBegins
  <2>3. send' \in [Senders -> Sends]
    BY <2>2 DEF SendInv, SendTypes
  <2>4. visited' \in [Rangers -> SUBSET Conns] /\ received' = received
    BY <1>1 DEF SendInv, SendTypes, SendBegins, RangeBegins, rangeVars
  <2> QED
    BY <2>3, <2>4 DEF SendInv, SendTypes
<1>3. ASSUME NEW z \in Senders PROVE Reached(z)'
  <2>1. CASE z = s
    BY <1>1, <2>1 DEF SendInv, SendTypes, Sends, Reached, SendBegins, RangeBegins, rangeVars, connVars
  <2>2. CASE z # s
    BY <1>1, <2>2 DEF SendInv, SendTypes, Sends, Reached, SendBegins, RangeBegins, rangeVars, connVars
  <2> QED
    BY <2>1, <2>2
<1> QED
  BY <1>2, <1>3 DEF SendInv

\* A visit sends the message once, to a connection of the session, or fails.
LEMMA SendVisitsKeeps ==
    ASSUME SendInv, NEW s \in Senders, NEW c \in Conns, SendVisits(s, c)
    PROVE  SendInv'
<1>1. s \in Rangers
  BY DEF Rangers
<1>2. SendTypes'
  <2>1. send[s] \in Sends /\ received[c] \in [Senders -> Nat] /\ received[c][s] + 1 \in Nat
    BY DEF SendInv, SendTypes
  <2>2. send' \in [Senders -> Sends]
    <3>1. CASE UNCHANGED sendVars
      BY <3>1 DEF SendInv, SendTypes, sendVars
    <3>2. CASE send' = [send EXCEPT ![s].sent = TRUE]
      <4>1. [send[s] EXCEPT !.sent = TRUE] \in Sends
        BY <2>1 DEF Sends
      <4>2. send' = [send EXCEPT ![s] = [send[s] EXCEPT !.sent = TRUE]]
        BY <3>2
      <4> QED
        BY <4>1, <4>2 DEF SendInv, SendTypes
    <3> QED
      BY <3>1, <3>2 DEF SendVisits
  <2>3. received' \in [Conns -> [Senders -> Nat]]
    BY <2>1 DEF SendInv, SendTypes, SendVisits, sendVars
  <2>4. visited' \in [Rangers -> SUBSET Conns]
    BY <1>1 DEF SendInv, SendTypes, SendVisits, Visit
  <2> QED
    BY <2>2, <2>3, <2>4 DEF SendTypes
<1>3. ASSUME NEW z \in Senders PROVE Reached(z)'
  <2>1. CASE z # s
    <3>1. send'[z] = send[z] /\ visited'[z] = visited[z]
          /\ \A d \in Conns : received'[d][z] = received[d][z]
      BY <1>1, <2>1 DEF SendInv, SendTypes, Rangers, SendVisits, Visit, sendVars
    <3> QED
      BY <3>1 DEF SendInv, Reached, SendVisits, connVars
  <2>2. CASE z = s /\ UNCHANGED sendVars
    <3>1. visited'[s] = visited[s] \cup {c} /\ (session[c] # send[s].to \/ c \in closed \cup left)
      BY <1>1, <2>2 DEF SendInv, SendTypes, SendVisits, Visit, sendVars
    <3> QED
      BY <2>2, <3>1 DEF SendInv, Reached, SendVisits, sendVars, connVars
  <2>3. CASE z = s /\ ~UNCHANGED sendVars
    <3>1. /\ send' = [send EXCEPT ![s].sent = TRUE]
          /\ received' = [received EXCEPT ![c][s] = @ + 1]
          /\ visited' = [visited EXCEPT ![s] = @ \cup {c}] /\ c \notin visited[s]
          /\ send[s].pc = "range"
      BY <2>3 DEF SendVisits, Visit
    <3>2. received[c][s] = 0
      <4>1. received[c] \in [Senders -> Nat]
        BY DEF SendInv, SendTypes
      <4>2. received[c][s] \in Nat
        BY <4>1
      <4>3. received[c][s] <= 1 /\ received[c][s] # 1
        BY <3>1 DEF SendInv, Reached
      <4> QED
        BY <4>2, <4>3
    <3>3. /\ visited'[s] = visited[s] \cup {c}
          /\ \A d \in Conns : received'[d][s] = IF d = c THEN 1 ELSE received[d][s]
      <4>1. visited'[s] = visited[s] \cup {c}
        BY <1>1, <3>1 DEF SendInv, SendTypes
      <4>2. received'[c] = [received[c] EXCEPT ![s] = 1]
        BY <3>1, <3>2 DEF SendInv, SendTypes
      <4>3. received'[c][s] = 1
        BY <4>2 DEF SendInv, SendTypes
      <4>4. \A d \in Conns \ {c} : received'[d] = received[d]
        BY <3>1 DEF SendInv, SendTypes
      <4> QED
        BY <4>1, <4>3, <4>4
    <3>4. send'[s].pc = "range" /\ send'[s].sent /\ send'[s].to = send[s].to
      BY <3>1 DEF SendInv, SendTypes, Sends
    <3> QED
      BY <2>3, <3>1, <3>3, <3>4 DEF SendInv, Reached, SendVisits, connVars
  <2> QED
    BY <2>1, <2>2, <2>3
<1> QED
  BY <1>2, <1>3 DEF SendInv

\* An attempt that reached nobody may be repeated, any other is the last.
LEMMA SendEndsKeeps ==
    ASSUME SendInv, NEW s \in Senders, SendEnds(s)
    PROVE  SendInv'
<1>1. s \in Rangers
  BY DEF Rangers
<1>2. SendTypes'
  BY <1>1 DEF SendInv, SendTypes, Sends, SendEnds, RangeEnds
<1>3. ASSUME NEW z \in Senders PROVE Reached(z)'
  <2>1. CASE z = s
    BY <1>1, <2>1 DEF SendInv, SendTypes, Sends, Reached, SendEnds, RangeEnds, connVars
  <2>2. CASE z # s
    BY <1>1, <2>2 DEF SendInv, SendTypes, Sends, Reached, SendEnds, RangeEnds, connVars
  <2> QED
    BY <2>1, <2>2
<1> QED
  BY <1>2, <1>3 DEF SendInv

\* SendInv is inductive.
LEMMA NextSendInv == ASSUME SendInv, [Next]_vars PROVE SendInv'
<1>1. ASSUME NEW c \in Conns, Conn(c) PROVE SendInv'
  <2>1. UNCHANGED <<session, sendVars, visited>> /\ closed \subseteq closed' /\ left \subseteq left'
    BY <1>1 DEF Conn, Check, Upgrade, Connected, LoopRound, ReadMessage, ReadFails, DeferClose,
                DeferDelete, DeferCount, ClientLeaves, rangeVars
  <2> QED
    BY <2>1, OthersKeep DEF SendInv, SendTypes
<1>2. ASSUME NEW r \in {"stop"}, UNCHANGED <<session, sendVars, left>>, closed \subseteq closed',
             visited' \in [Rangers -> SUBSET Conns],
             \E d \in SUBSET Conns : visited' = [visited EXCEPT ![r] = d]
      PROVE  SendInv'
  <2>1. \A s \in Senders : visited'[s] = visited[s]
    BY <1>2, ConstantsAssumption DEF SendInv, SendTypes, Rangers
  <2> QED
    BY <1>2, <2>1, OthersKeep
<1>3. ASSUME NEW c \in Conns, StopVisits(c) PROVE SendInv'
  BY <1>2, <1>3 DEF StopVisits, Visit, SendInv, SendTypes, Rangers
<1>4. CASE StopBegins
  BY <1>2, <1>4 DEF StopBegins, RangeBegins, connVars, SendInv, SendTypes, Rangers
<1>5. CASE StopRanged
  BY <1>2, <1>5 DEF StopRanged, RangeEnds, connVars, SendInv, SendTypes, Rangers
<1>6. CASE StopCancels \/ UNCHANGED vars
  BY <1>6, OthersKeep DEF StopCancels, vars, connVars, rangeVars, sendVars, SendInv, SendTypes
<1> QED
  BY <1>1, <1>3, <1>4, <1>5, <1>6, SendBeginsKeeps, SendVisitsKeeps, SendEndsKeeps DEF Next

\* However the manager repeats a send, whatever Stop closes meanwhile and
\* whoever leaves: no client is sent a message twice, and none a message whose
\* send failed.
THEOREM SentOnce == Spec => [](NeverTwice /\ FailedReachedNone)
<1>1. Init => SendInv
  BY InitSendInv
<1>2. SendInv /\ [Next]_vars => SendInv'
  BY NextSendInv
<1>3. SendInv => NeverTwice /\ FailedReachedNone
  BY DEF SendInv, Reached, NeverTwice, FailedReachedNone
<1> QED
  BY <1>1, <1>2, <1>3, PTL DEF Spec

\* What EveryTab says of a step.
Reaches ==
    \A s \in Senders : send[s].pc = "range" /\ send'[s].pc = "sent" =>
        \A c \in begun[s] \cap connections :
            session[c] = send[s].to /\ c \notin closed \cup left => received[c][s] = 1

\* Only SendEnds makes a send succeed.
LEMMA OnlyEndsSend ==
    ASSUME SendInv, [Next]_vars,
           NEW s \in Senders, send[s].pc = "range", send'[s].pc = "sent"
    PROVE  SendEnds(s)
<1>1. ASSUME NEW c \in Conns, Conn(c) \/ StopVisits(c) PROVE FALSE
  BY <1>1 DEF Conn, Check, Upgrade, Connected, LoopRound, ReadMessage, ReadFails, DeferClose,
              DeferDelete, DeferCount, ClientLeaves, StopVisits, sendVars
<1>2. ASSUME NEW c \in Conns, NEW z \in Senders, SendVisits(z, c) PROVE FALSE
  <2>1. send[s] \in Sends /\ send[z] \in Sends
    BY DEF SendInv, SendTypes
  <2>2. send'[s].pc = send[s].pc
    BY <1>2, <2>1 DEF SendVisits, sendVars, SendInv, SendTypes, Sends
  <2> QED
    BY <2>2
<1>3. ASSUME NEW z \in Senders, SendBegins(z) \/ (SendEnds(z) /\ z # s) PROVE FALSE
  <2>1. CASE z # s
    <3>1. send'[s] = send[s]
      BY <1>3, <2>1 DEF SendBegins, SendEnds, SendInv, SendTypes
    <3> QED
      BY <3>1
  <2>2. CASE z = s
    BY <1>3, <2>2 DEF SendBegins
  <2> QED
    BY <2>1, <2>2
<1>4. ASSUME StopBegins \/ StopRanged \/ StopCancels \/ UNCHANGED vars PROVE FALSE
  BY <1>4 DEF StopBegins, StopRanged, StopCancels, vars, sendVars
<1> QED
  BY <1>1, <1>2, <1>3, <1>4 DEF Next

\* EveryTab of one step: RangeEnds leaves out nobody who was there throughout.
LEMMA StepReaches == ASSUME SendInv, [Next]_vars PROVE Reaches
<1> SUFFICES ASSUME NEW s \in Senders, send[s].pc = "range", send'[s].pc = "sent",
                    NEW c \in begun[s] \cap connections,
                    session[c] = send[s].to, c \notin closed \cup left
             PROVE  received[c][s] = 1
  BY DEF Reaches
<1>1. begun[s] \cap connections \subseteq visited[s]
  BY OnlyEndsSend DEF SendEnds, RangeEnds
<1>2. s \in Rangers
  BY DEF Rangers
<1>3. c \in visited[s] /\ c \in Conns
  BY <1>1, <1>2 DEF SendInv, SendTypes
<1> QED
  BY <1>3 DEF SendInv, Reached

\* A send that succeeds has reached every tab of its session that was there from
\* the beginning of the attempt to its end.
THEOREM EveryTabReached == Spec => EveryTab
<1>1. Init => SendInv
  BY InitSendInv
<1>2. SendInv /\ [Next]_vars => SendInv'
  BY NextSendInv
<1>3. SendInv /\ [Next]_vars => [Reaches]_vars
  BY StepReaches
<1> QED
  BY <1>1, <1>2, <1>3, PTL DEF Spec, EveryTab, Reaches

-----------------------------------------------------------------------------

Reading(c) == phase[c] \in {"looping", "reading"}
Counted == {c \in Conns : phase[c] \in {"looping", "reading", "closing", "deleting", "counting"}}

ConnTypes ==
    /\ session \in [Conns -> Sessions]
    /\ phase \in [Conns -> Phases]
    /\ connections \subseteq Conns /\ closed \subseteq Conns /\ left \subseteq Conns
    /\ running \in BOOLEAN /\ cancelled \in BOOLEAN
    /\ stopPc \in {"idle", "range", "cancel", "done"}
    /\ begun \in [Rangers -> SUBSET Conns]
    /\ visited \in [Rangers -> SUBSET Conns]

\* What is open and stored is in the map; what Stop has visited is closed, and
\* so is in the end whatever was stored when it began.
ConnInv ==
    /\ ConnTypes
    /\ connCount = Cardinality(Counted)
    /\ \A c \in Conns : phase[c] \in {"stored", "looping", "reading", "closing", "deleting"}
         /\ c \notin closed =>
            c \in connections
    /\ \A c \in connections \cup begun["stop"] : phase[c] \notin {"new", "checked"}
    /\ stopPc = "range" => visited["stop"] \subseteq closed
    /\ stopPc \in {"cancel", "done"} =>
          \A c \in begun["stop"] : phase[c] \in {"stored", "looping", "reading"} => c \in closed

\* A send that may be repeated has attempts left.
TriesInv ==
    \A s \in Senders :
        /\ send[s] \in [to : Sessions, pc : {"idle", "range", "sent", "failed"}, tries : 0..MaxTries,
                         sent : BOOLEAN]
        /\ send[s].pc = "idle" => send[s].tries < MaxTries

\* Stop ranges over the map under a name that no sender has.
LEMMA StopRanges == "stop" \in Rangers /\ \A s \in Senders : s \in Rangers /\ s # "stop"
  BY ConstantsAssumption DEF Rangers

\* The connections that are counted are finitely many.
LEMMA CountedFinite == IsFiniteSet(Counted) /\ Cardinality(Counted) \in 0..Cardinality(Conns)
<1>1. Counted \subseteq Conns
  BY DEF Counted
<1>2. IsFiniteSet(Counted) /\ Cardinality(Counted) <= Cardinality(Conns)
  BY <1>1, FS_Subset, ConstantsAssumption
<1> QED
  BY <1>2, FS_CardinalityType, ConstantsAssumption

\* No connection was made.
LEMMA InitConnInv == ASSUME Init PROVE ConnInv
<1>1. ConnTypes
  <2>1. running \in BOOLEAN /\ cancelled \in BOOLEAN
    BY Zenon DEF Init
  <2> QED
    BY <2>1 DEF Init, ConnTypes, Phases, Rangers
<1>2. Counted = {}
  BY DEF Init, Counted
<1>3. Cardinality(Counted) = 0
  BY <1>2, FS_EmptySet
<1> QED
  BY <1>1, <1>3 DEF Init, ConnInv, Rangers

\* No send was tried.
LEMMA InitTriesInv == ASSUME Init PROVE TriesInv
<1> SUFFICES ASSUME NEW s \in Senders
             PROVE  /\ send[s] \in [to : Sessions, pc : {"idle", "range", "sent", "failed"},
                         tries : 0..MaxTries,
                                     sent : BOOLEAN]
                    /\ send[s].pc = "idle" => send[s].tries < MaxTries
  BY DEF TriesInv
<1>1. send[s] \in [to : Sessions, pc : {"idle"}, tries : {0}, sent : {FALSE}]
  BY DEF Init
<1>2. [to : Sessions, pc : {"idle"}, tries : {0}, sent : {FALSE}]
      \subseteq [to : Sessions, pc : {"idle", "range", "sent", "failed"}, tries : 0..MaxTries, sent : BOOLEAN]
  <2>1. {"idle"} \subseteq {"idle", "range", "sent", "failed"} /\ {0} \subseteq 0..MaxTries
    BY ConstantsAssumption
  <2>2. {FALSE} \subseteq BOOLEAN
    OBVIOUS
  <2> QED
    BY <2>1, <2>2, Zenon
<1>3. send[s].tries < MaxTries
  <2>1. send[s].tries = 0
    BY <1>1, Zenon
  <2> QED
    BY <2>1, ConstantsAssumption
<1>4. send[s] \in [to : Sessions, pc : {"idle", "range", "sent", "failed"}, tries : 0..MaxTries,
                  sent : BOOLEAN]
  BY <1>1, <1>2, Zenon
<1> QED
  BY <1>3, <1>4

\* A connection that is counted or not any more changes the counter by one.
LEMMA ConnCounts ==
    ASSUME ConnInv, NEW c \in Conns, Conn(c)
    PROVE  connCount' = Cardinality(Counted')
<1>1. CASE Connected(c)
  <2>1. Counted' = Counted \cup {c} /\ c \notin Counted
    BY <1>1 DEF ConnInv, ConnTypes, Connected, Move, Counted
  <2>2. Cardinality(Counted') = Cardinality(Counted) + 1
    BY <2>1, CountedFinite, FS_AddElement
  <2> QED
    BY <1>1, <2>2 DEF Connected, ConnInv
<1>2. CASE DeferCount(c)
  <2>1. Counted' = Counted \ {c} /\ c \in Counted
    BY <1>2 DEF ConnInv, ConnTypes, DeferCount, Move, Counted
  <2>2. Cardinality(Counted') = Cardinality(Counted) - 1
    BY <2>1, CountedFinite, FS_RemoveElement
  <2> QED
    BY <1>2, <2>2 DEF DeferCount, ConnInv
<1>3. CASE ~Connected(c) /\ ~DeferCount(c)
  <2>1. Counted' = Counted /\ connCount' = connCount
    BY <1>3 DEF ConnInv, ConnTypes, Conn, Check, Upgrade, LoopRound, ReadMessage, ReadFails, DeferClose,
                DeferDelete, ClientLeaves, Move, Counted
  <2> QED
    BY <2>1 DEF ConnInv
<1> QED
  BY <1>1, <1>2, <1>3

\* A connection is in the map from its upgrade to its deferred delete; Stop only waits
\* for those it found.
LEMMA ConnKeeps == ASSUME ConnInv, NEW c \in Conns, Conn(c) PROVE ConnInv'
<1> USE DEF ConnInv, ConnTypes, Conn, Check, Upgrade, Connected, LoopRound, ReadMessage, ReadFails, DeferClose,
            DeferDelete, DeferCount, ClientLeaves, Move, stopVars, rangeVars
<1>1. ConnTypes'
  BY DEF Phases
<1>2. connCount' = Cardinality(Counted')
  BY ConnCounts
<1>3. \A d \in Conns : phase'[d] \in {"stored", "looping", "reading", "closing", "deleting"}
        /\ d \notin closed' =>
            d \in connections'
  OBVIOUS
<1>4. \A d \in connections' \cup begun'["stop"] : phase'[d] \notin {"new", "checked"}
  BY StopRanges
<1>5. /\ stopPc' = "range" => visited'["stop"] \subseteq closed'
      /\ stopPc' \in {"cancel", "done"} =>
            \A d \in begun'["stop"] : phase'[d] \in {"stored", "looping", "reading"} => d \in closed'
  BY StopRanges
<1> QED
  BY <1>1, <1>2, <1>3, <1>4, <1>5

\* Steps of Send leave what Stop needs alone.
LEMMA SendConnKeeps ==
    ASSUME ConnInv, UNCHANGED <<connVars, stopVars>>,
           begun' \in [Rangers -> SUBSET Conns], visited' \in [Rangers -> SUBSET Conns],
           begun'["stop"] = begun["stop"], visited'["stop"] = visited["stop"]
    PROVE  ConnInv'
<1>1. connCount' = Cardinality(Counted')
  BY DEF ConnInv, Counted, connVars
<1> QED
  BY <1>1 DEF ConnInv, ConnTypes, connVars, stopVars

\* A send ranges under a name of its own.
LEMMA SenderConnKeeps ==
    ASSUME ConnInv, NEW s \in Senders,
           SendBegins(s) \/ SendEnds(s) \/ \E c \in Conns : SendVisits(s, c)
    PROVE  ConnInv'
<1>1. UNCHANGED <<connVars, stopVars>>
  BY DEF SendBegins, SendEnds, SendVisits
<1>2. begun' \in [Rangers -> SUBSET Conns] /\ visited' \in [Rangers -> SUBSET Conns]
  BY StopRanges DEF ConnInv, ConnTypes, SendBegins, SendEnds, SendVisits, RangeBegins, RangeEnds, Visit,
       rangeVars
<1>3. begun'["stop"] = begun["stop"] /\ visited'["stop"] = visited["stop"]
  BY StopRanges DEF ConnInv, ConnTypes, SendBegins, SendEnds, SendVisits, RangeBegins, RangeEnds, Visit,
       rangeVars
<1> QED
  BY <1>1, <1>2, <1>3, SendConnKeeps

\* Stop closes what it visits, and has visited in the end what it found.
LEMMA StopConnKeeps ==
    ASSUME ConnInv, StopBegins \/ StopRanged \/ StopCancels \/ \E c \in Conns : StopVisits(c)
    PROVE  ConnInv'
<1> USE StopRanges DEF ConnInv, ConnTypes
<1>1. connCount' = Cardinality(Counted')
  BY DEF Counted, StopBegins, StopRanged, StopCancels, StopVisits, connVars
<1>2. CASE StopBegins
  <2>1. running' \in BOOLEAN
    BY <1>2, Zenon DEF StopBegins
  <2>2. ConnTypes'
    BY <1>2, <2>1 DEF StopBegins, RangeBegins, connVars
  <2> QED
    BY <1>1, <1>2, <2>2 DEF StopBegins, RangeBegins, connVars
<1>3. CASE StopRanged
  BY <1>1, <1>3 DEF StopRanged, RangeEnds, connVars
<1>4. CASE StopCancels
  <2>1. cancelled' \in BOOLEAN
    BY <1>4, Zenon DEF StopCancels
  <2>2. ConnTypes'
    BY <1>4, <2>1 DEF StopCancels, connVars, rangeVars
  <2> QED
    BY <1>1, <1>4, <2>2 DEF StopCancels, connVars, rangeVars
<1>5. ASSUME NEW c \in Conns, StopVisits(c) PROVE ConnInv'
  <2>1. ConnTypes'
    BY <1>5 DEF StopVisits, Visit, stopVars
  <2> QED
    BY <1>1, <1>5, <2>1 DEF StopVisits, Visit, stopVars
<1> QED
  BY <1>2, <1>3, <1>4, <1>5

\* ConnInv is inductive.
LEMMA NextConnInv == ASSUME ConnInv, [Next]_vars PROVE ConnInv'
<1>1. CASE UNCHANGED vars
  <2>1. begun' = begun /\ visited' = visited /\ UNCHANGED <<connVars, stopVars>>
    BY <1>1 DEF vars, rangeVars
  <2> QED
    BY <2>1, SendConnKeeps DEF ConnInv, ConnTypes
<1>2. CASE Next
  BY <1>2, ConnKeeps, SenderConnKeeps, StopConnKeeps DEF Next
<1> QED
  BY <1>1, <1>2

\* TriesInv is inductive, with SendInv: SendEnds does not repeat the last attempt.
LEMMA NextTriesInv == ASSUME SendInv, TriesInv, [Next]_vars PROVE TriesInv'
<1> DEFINE S == [to : Sessions, pc : {"idle", "range", "sent", "failed"}, tries : 0..MaxTries, sent : BOOLEAN]
<1> SUFFICES ASSUME NEW s \in Senders
             PROVE  (send[s] \in S /\ (send[s].pc = "idle" => send[s].tries < MaxTries))'
  BY DEF TriesInv
<1>0. send[s] \in S /\ (send[s].pc = "idle" => send[s].tries < MaxTries) /\ send \in [Senders -> Sends]
  BY DEF TriesInv, SendInv, SendTypes
<1>1. CASE SendBegins(s)
  BY <1>0, <1>1, ConstantsAssumption DEF SendBegins
<1>2. CASE SendEnds(s)
  BY <1>0, <1>2, ConstantsAssumption DEF SendEnds
<1>3. ASSUME NEW c \in Conns, SendVisits(s, c) PROVE (send[s] \in S /\ (send[s].pc = "idle"
               => send[s].tries < MaxTries))'
  <2>1. send'[s] = send[s] \/ send'[s] = [send[s] EXCEPT !.sent = TRUE]
    BY <1>0, <1>3 DEF SendVisits, sendVars
  <2> QED
    BY <1>0, <2>1
<1>4. CASE send'[s] = send[s]
  BY <1>0, <1>4
<1>5. ASSUME NEW z \in Senders \ {s}, SendBegins(z) \/ SendEnds(z) \/ \E c \in Conns : SendVisits(z, c)
      PROVE  send'[s] = send[s]
  BY <1>0, <1>5 DEF SendBegins, SendEnds, SendVisits, sendVars
<1>6. ASSUME (\E c \in Conns : Conn(c) \/ StopVisits(c)) \/ StopBegins \/ StopRanged \/ StopCancels
               \/ UNCHANGED vars
      PROVE  send'[s] = send[s]
  BY <1>6 DEF Conn, Check, Upgrade, Connected, LoopRound, ReadMessage, ReadFails, DeferClose, DeferDelete,
              DeferCount, ClientLeaves, StopVisits, StopBegins, StopRanged, StopCancels, vars, sendVars
<1> QED
  BY <1>1, <1>2, <1>3, <1>4, <1>5, <1>6 DEF Next

\* The invariants say what the run checks.
LEMMA PicoImplies == ASSUME SendInv, ConnInv, TriesInv PROVE TypeOK /\ PicoInv
<1>1. send \in [Senders -> [to : Sessions, pc : {"idle", "range", "sent", "failed"}, tries : 0..MaxTries,
                            sent : BOOLEAN]]
  BY DEF SendInv, SendTypes, TriesInv
<1>2. received \in [Conns -> [Senders -> 0..MaxTries]]
  <2>1. ASSUME NEW c \in Conns, NEW s \in Senders PROVE received[c][s] \in 0..MaxTries
    <3>1. received[c] \in [Senders -> Nat]
      BY DEF SendInv, SendTypes
    <3>2. received[c][s] <= 1 /\ received[c][s] \in Nat
      BY <3>1 DEF SendInv, Reached
    <3> QED
      BY <3>2, ConstantsAssumption
  <2>2. \A c \in Conns : received[c] \in [Senders -> 0..MaxTries]
    BY <2>1 DEF SendInv, SendTypes
  <2> QED
    BY <2>2 DEF SendInv, SendTypes
<1>3. TypeOK
  BY <1>1, <1>2, CountedFinite DEF ConnInv, ConnTypes, TypeOK
<1>4. NeverTwice /\ FailedReachedNone
  BY DEF SendInv, Reached, NeverTwice, FailedReachedNone
<1>5. StopClosesAll
  BY DEF ConnInv, StopClosesAll
<1>6. FoundWhileOpen
  BY DEF ConnInv, FoundWhileOpen, Counted
<1> QED
  BY <1>3, <1>4, <1>5, <1>6 DEF PicoInv

\* However the manager repeats a send, nobody gets the message twice; Stop closes
\* what it found; a connection that is read is found; readers are counted.
THEOREM PicoKept == Spec => [](TypeOK /\ PicoInv)
<1>1. Init => SendInv /\ ConnInv /\ TriesInv
  BY InitSendInv, InitConnInv, InitTriesInv
<1>2. SendInv /\ ConnInv /\ TriesInv /\ [Next]_vars => (SendInv /\ ConnInv /\ TriesInv)'
  BY NextSendInv, NextConnInv, NextTriesInv
<1>3. SendInv /\ ConnInv /\ TriesInv => TypeOK /\ PicoInv
  BY PicoImplies
<1> QED
  BY <1>1, <1>2, <1>3, PTL DEF Spec

-----------------------------------------------------------------------------
(* TypingLoops                                                             *)

TyRecorded(m) == hpc[m] \in {"stopPrevious", "done"}
TyBegun(m) == hpc[m] \notin {"new", "start"}

\* A stop function is called once it was recorded, and then it is not the entry.
TyGone(m) == TyRecorded(m) /\ m # entry

\* Where a message stands, of which somebody has the stop function
TyOrder(P) ==
    /\ entry # Nobody => TyRecorded(entry)
    /\ read # Nobody => TyRecorded(read) /\ held["janitor"] = Nobody
    /\ \A n \in TypingMessages : swapped[n] # Nobody => hpc[n] = "stopPrevious" /\ TyGone(swapped[n])
    /\ \A s \in Typing(P)!Stoppers : held[s] # Nobody => TyGone(held[s])
    /\ \A m \in TypingMessages : loop[m] # "none" => TyBegun(m)
    /\ \A m \in told : TyBegun(m)
    /\ current # Nobody => TyBegun(current)
    /\ P.kind = "own" => \A m \in told : TyGone(m)
    /\ tyStopPc # "none" => ~tyRunning

\* Matrix handles one message at a time, and nobody stops what it has started.
TyInOrder(P) ==
    P.kind = "session" =>
        /\ \A m, n \in TypingMessages : hpc[m] \notin {"new", "done"} /\ hpc[n] \notin {"new", "done"} => m = n
        /\ \A m \in TypingMessages : hpc[m] = "record" /\ tyRunning => m \notin told

TyIInv(P) == Typing(P)!TypeOK /\ TyOrder(P) /\ TyInOrder(P) /\ Typing(P)!TypingInv

\* No message has come.
LEMMA TyInitIInv ==
  ASSUME NEW P, Typing(P)!ConstantsAssumption, Typing(P)!Init
  PROVE  TyIInv(P)
<1>1. Typing(P)!TypeOK
  <2>1. tyRunning \in BOOLEAN /\ old \in BOOLEAN
    BY DEF Typing!Init
  <2> QED
    BY <2>1 DEF Typing!ConstantsAssumption, Typing!Init, Typing!TypeOK, Typing!Stoppers
<1>2. TyOrder(P)
  BY DEF Typing!ConstantsAssumption, Typing!Init, TyOrder, Typing!Stoppers
<1>3. TyInOrder(P)
  BY DEF Typing!Init, TyInOrder
<1>4. Typing(P)!TypingInv
  BY DEF Typing!Init, Typing!TypingInv, Typing!RecordedIsShown, Typing!SomebodyStops,
       Typing!MapHoldsTheLoop, Typing!Shown
<1> QED
  BY <1>1, <1>2, <1>3, <1>4 DEF TyIInv

\* A stop function that is called is that of a message which is not the entry.
LEMMA TyStopFunctionKeeps ==
    ASSUME NEW P, Typing(P)!ConstantsAssumption, TyIInv(P), NEW x \in TypingMessages, TyGone(x),
             Typing(P)!StopFunction(x)
    PROVE  /\ told' \subseteq TypingMessages /\ current' \in TypingMessages \cup {Nobody}
           /\ told \subseteq told' /\ \A m \in told' \ told : TyBegun(m)
           /\ current' \in {current, Nobody}
           /\ P.kind # "own" /\ current' # Nobody => current' \notin told'
           /\ P.kind = "own" => told' = told \cup {x}
           /\ P.kind = "session" => told' = told \cup {x}
           /\ P.kind # "own" => \A m \in TypingMessages : m = current /\ m \notin told' => m = current'
<1> USE DEF Typing!ConstantsAssumption, TyIInv, Typing!TypeOK, TyOrder, Typing!TypingInv,
              Typing!MapHoldsTheLoop, TyGone, TyRecorded, TyBegun
<1>1. CASE P.kind = "own"
  BY <1>1 DEF Typing!StopFunction
<1>2. CASE P.kind = "session"
  BY <1>2 DEF Typing!StopFunction
<1>3. CASE P.kind = "byChat"
  BY <1>3 DEF Typing!StopFunction
<1> QED
  BY <1>1, <1>2, <1>3

\* A session begins a message when all others are done.
LEMMA TyArriveKeeps ==
    ASSUME NEW P, Typing(P)!ConstantsAssumption, TyIInv(P), NEW m \in TypingMessages, Typing(P)!Arrive(m)
    PROVE  TyIInv(P)'
<1> USE DEF Typing!ConstantsAssumption, TyIInv, Typing!Arrive, Typing!Goto, Typing!managerVars,
              Typing!channelVars, Typing!stopVars
<1>1. Typing(P)!TypeOK'
  BY DEF Typing!TypeOK, Typing!Stoppers
<1>2. TyOrder(P)'
  BY DEF Typing!TypeOK, TyOrder, Typing!Stoppers, TyRecorded, TyBegun, TyGone
<1>3. TyInOrder(P)'
  BY DEF Typing!TypeOK, TyOrder, TyInOrder, TyBegun, TyRecorded, TyGone, Typing!Stoppers
<1>4. Typing(P)!TypingInv'
  BY DEF Typing!TypeOK, TyOrder, TyInOrder, TyRecorded, TyBegun, TyGone, Typing!Stoppers,
       Typing!TypingInv, Typing!RecordedIsShown, Typing!SomebodyStops, Typing!MapHoldsTheLoop,
       Typing!Shown
<1> QED
  BY <1>1, <1>2, <1>3, <1>4

\* A loop of its own: its handler, about to record it, will have it stopped.
LEMMA TyOwnKeeps ==
    ASSUME NEW P, Typing(P)!ConstantsAssumption, TyIInv(P), NEW m \in TypingMessages,
             Typing(P)!StartTypingOwn(m)
    PROVE  TyIInv(P)'
<1> USE DEF Typing!ConstantsAssumption, TyIInv, Typing!StartTypingOwn, Typing!Goto, Typing!managerVars,
              Typing!channelVars, Typing!stopVars
<1>1. Typing(P)!TypeOK'
  BY DEF Typing!TypeOK, Typing!Stoppers
<1>2. TyOrder(P)'
  BY DEF Typing!TypeOK, TyOrder, Typing!Stoppers, TyRecorded, TyBegun, TyGone
<1>3. TyInOrder(P)'
  BY DEF Typing!TypeOK, TyOrder, TyInOrder, TyBegun, TyRecorded, TyGone, Typing!Stoppers
<1>4. Typing(P)!TypingInv'
  BY DEF Typing!TypeOK, TyOrder, TyInOrder, TyRecorded, TyBegun, TyGone, Typing!Stoppers,
       Typing!TypingInv, Typing!RecordedIsShown, Typing!SomebodyStops, Typing!MapHoldsTheLoop,
       Typing!Shown
<1> QED
  BY <1>1, <1>2, <1>3, <1>4

\* Without a loop there is nothing to stop.
LEMMA TyNothingKeeps ==
    ASSUME NEW P, Typing(P)!ConstantsAssumption, TyIInv(P), NEW m \in TypingMessages,
             Typing(P)!StartTypingNothing(m) \/ Typing(P)!StartTypingRefused(m)
    PROVE  TyIInv(P)'
<1> USE DEF Typing!ConstantsAssumption, TyIInv, Typing!StartTypingNothing, Typing!StartTypingRefused,
              Typing!Goto, Typing!managerVars, Typing!channelVars, Typing!stopVars
<1>1. Typing(P)!TypeOK'
  BY DEF Typing!TypeOK, Typing!Stoppers
<1>2. TyOrder(P)'
  BY DEF Typing!TypeOK, TyOrder, Typing!Stoppers, TyRecorded, TyBegun, TyGone
<1>3. TyInOrder(P)'
  BY DEF Typing!TypeOK, TyOrder, TyInOrder, TyBegun, TyRecorded, TyGone, Typing!Stoppers
<1>4. Typing(P)!TypingInv'
  BY DEF Typing!TypeOK, TyOrder, TyInOrder, TyRecorded, TyBegun, TyGone, Typing!Stoppers,
       Typing!TypingInv, Typing!RecordedIsShown, Typing!SomebodyStops, Typing!MapHoldsTheLoop,
       Typing!Shown
<1> QED
  BY <1>1, <1>2, <1>3, <1>4

\* The loop of the map is told, before the new one takes its place.
LEMMA TyMappedKeeps ==
    ASSUME NEW P, Typing(P)!ConstantsAssumption, TyIInv(P), NEW m \in TypingMessages,
             Typing(P)!StartTypingMapped(m)
    PROVE  TyIInv(P)'
<1> USE DEF Typing!ConstantsAssumption, TyIInv, Typing!StartTypingMapped, Typing!Goto, Typing!managerVars,
              Typing!channelVars, Typing!stopVars
<1>1. Typing(P)!TypeOK'
  BY DEF Typing!TypeOK, Typing!Stoppers
<1>2. TyOrder(P)'
  BY DEF Typing!TypeOK, TyOrder, Typing!Stoppers, TyRecorded, TyBegun, TyGone
<1>3. TyInOrder(P)'
  BY DEF Typing!TypeOK, TyOrder, TyInOrder, TyBegun, TyRecorded, TyGone, Typing!Stoppers
<1>4. Typing(P)!TypingInv'
  BY DEF Typing!TypeOK, TyOrder, TyInOrder, TyRecorded, TyBegun, TyGone, Typing!Stoppers,
       Typing!TypingInv, Typing!RecordedIsShown, Typing!SomebodyStops, Typing!MapHoldsTheLoop,
       Typing!Shown
<1> QED
  BY <1>1, <1>2, <1>3, <1>4

\* The entry that is replaced is held by the handler that replaced it.
LEMMA TyRecordKeeps ==
    ASSUME NEW P, Typing(P)!ConstantsAssumption, TyIInv(P), NEW m \in TypingMessages, Typing(P)!Record(m)
    PROVE  TyIInv(P)'
<1> USE DEF Typing!ConstantsAssumption, TyIInv, Typing!Record, Typing!Goto, Typing!managerVars,
              Typing!channelVars, Typing!stopVars
<1>1. Typing(P)!TypeOK'
  BY DEF Typing!TypeOK, Typing!Stoppers
<1>2. TyOrder(P)'
  BY DEF Typing!TypeOK, TyOrder, Typing!Stoppers, TyRecorded, TyBegun, TyGone
<1>3. TyInOrder(P)'
  BY DEF Typing!TypeOK, TyOrder, TyInOrder, TyBegun, TyRecorded, TyGone, Typing!Stoppers
<1>4. Typing(P)!TypingInv'
  BY DEF Typing!TypeOK, TyOrder, TyInOrder, TyRecorded, TyBegun, TyGone, Typing!Stoppers,
       Typing!TypingInv, Typing!RecordedIsShown, Typing!SomebodyStops, Typing!MapHoldsTheLoop,
       Typing!Shown
<1> QED
  BY <1>1, <1>2, <1>3, <1>4

\* A reply takes the entry away and holds it.
LEMMA TyPreSendKeeps ==
    ASSUME NEW P, Typing(P)!ConstantsAssumption, TyIInv(P), NEW s \in TypingRepliers, Typing(P)!PreSend(s)
    PROVE  TyIInv(P)'
<1> USE DEF Typing!ConstantsAssumption, TyIInv, Typing!PreSend, Typing!managerVars, Typing!channelVars,
              Typing!stopVars
<1>1. Typing(P)!TypeOK'
  <2>1. tyReplies' \in 0..P.replies
    BY DEF Typing!TypeOK
  <2> QED
    BY <2>1 DEF Typing!TypeOK, Typing!Stoppers
<1>2. TyOrder(P)'
  BY DEF Typing!TypeOK, TyOrder, Typing!Stoppers, TyRecorded, TyBegun, TyGone
<1>3. TyInOrder(P)'
  BY DEF Typing!TypeOK, TyOrder, TyInOrder, TyBegun, TyRecorded, TyGone, Typing!Stoppers
<1>4. Typing(P)!TypingInv'
  BY DEF Typing!TypeOK, TyOrder, TyInOrder, TyRecorded, TyBegun, TyGone, Typing!Stoppers,
       Typing!TypingInv, Typing!RecordedIsShown, Typing!SomebodyStops, Typing!MapHoldsTheLoop,
       Typing!Shown
<1> QED
  BY <1>1, <1>2, <1>3, <1>4

\* Growing old changes nothing yet.
LEMMA TyExpireKeeps ==
    ASSUME NEW P, Typing(P)!ConstantsAssumption, TyIInv(P), Typing(P)!Expire \/ Typing(P)!JanitorReads
    PROVE  TyIInv(P)'
<1> USE DEF Typing!ConstantsAssumption, TyIInv, Typing!Expire, Typing!JanitorReads, Typing!managerVars,
              Typing!channelVars, Typing!stopVars
<1>1. Typing(P)!TypeOK'
  BY DEF Typing!TypeOK, Typing!Stoppers
<1>2. TyOrder(P)'
  BY DEF Typing!TypeOK, TyOrder, Typing!Stoppers, TyRecorded, TyBegun, TyGone
<1>3. TyInOrder(P)'
  BY DEF Typing!TypeOK, TyOrder, TyInOrder, TyBegun, TyRecorded, TyGone, Typing!Stoppers
<1>4. Typing(P)!TypingInv'
  BY DEF Typing!TypeOK, TyOrder, TyInOrder, TyRecorded, TyBegun, TyGone, Typing!Stoppers,
       Typing!TypingInv, Typing!RecordedIsShown, Typing!SomebodyStops, Typing!MapHoldsTheLoop,
       Typing!Shown
<1> QED
  BY <1>1, <1>2, <1>3, <1>4

\* The janitor holds what it has read: an entry that came in between is misfired.
LEMMA TyEvictKeeps ==
    ASSUME NEW P, Typing(P)!ConstantsAssumption, TyIInv(P), Typing(P)!JanitorEvicts
    PROVE  TyIInv(P)'
<1> USE DEF Typing!ConstantsAssumption, TyIInv, Typing!JanitorEvicts, Typing!managerVars,
              Typing!channelVars, Typing!stopVars
<1>1. Typing(P)!TypeOK'
  BY ZenonT(120) DEF Typing!TypeOK, Typing!Stoppers
<1>2. TyOrder(P)'
  BY DEF Typing!TypeOK, TyOrder, Typing!Stoppers, TyRecorded, TyBegun, TyGone
<1>3. TyInOrder(P)'
  BY DEF Typing!TypeOK, TyOrder, TyInOrder, TyBegun, TyRecorded, TyGone, Typing!Stoppers
<1>4. Typing(P)!TypingInv'
  BY DEF Typing!TypeOK, TyOrder, TyInOrder, TyRecorded, TyBegun, TyGone, Typing!Stoppers,
       Typing!TypingInv, Typing!RecordedIsShown, Typing!SomebodyStops, Typing!MapHoldsTheLoop,
       Typing!Shown
<1> QED
  BY <1>1, <1>2, <1>3, <1>4

\* Loops end when they were told, or when their time is over.
LEMMA TyLoopKeeps ==
    ASSUME NEW P, Typing(P)!ConstantsAssumption, TyIInv(P), NEW m \in TypingMessages, Typing(P)!LoopEnds(m)
             \/ Typing(P)!LoopTimesOut(m)
    PROVE  TyIInv(P)'
<1> USE DEF Typing!ConstantsAssumption, TyIInv, Typing!LoopEnds, Typing!LoopTimesOut, Typing!managerVars,
              Typing!channelVars, Typing!stopVars
<1>1. Typing(P)!TypeOK'
  BY DEF Typing!TypeOK, Typing!Stoppers
<1>2. TyOrder(P)'
  BY DEF Typing!TypeOK, TyOrder, Typing!Stoppers, TyRecorded, TyBegun, TyGone
<1>3. TyInOrder(P)'
  BY DEF Typing!TypeOK, TyOrder, TyInOrder, TyBegun, TyRecorded, TyGone, Typing!Stoppers
<1>4. Typing(P)!TypingInv'
  BY DEF Typing!TypeOK, TyOrder, TyInOrder, TyRecorded, TyBegun, TyGone, Typing!Stoppers,
       Typing!TypingInv, Typing!RecordedIsShown, Typing!SomebodyStops, Typing!MapHoldsTheLoop,
       Typing!Shown
<1> QED
  BY <1>1, <1>2, <1>3, <1>4

\* Stop: the flag falls first.
LEMMA TyStopKeeps ==
    ASSUME NEW P, Typing(P)!ConstantsAssumption, TyIInv(P), Typing(P)!StopBegins \/ Typing(P)!StopSweeps
             \/ Typing(P)!StopCancels
    PROVE  TyIInv(P)'
<1> USE DEF Typing!ConstantsAssumption, TyIInv, Typing!StopBegins, Typing!StopSweeps, Typing!StopCancels,
              Typing!managerVars, Typing!channelVars, Typing!stopVars
<1>1. Typing(P)!TypeOK'
  BY DEF Typing!TypeOK, Typing!Stoppers
<1>2. TyOrder(P)'
  BY DEF Typing!TypeOK, TyOrder, Typing!Stoppers, TyRecorded, TyBegun, TyGone
<1>3. TyInOrder(P)'
  BY DEF Typing!TypeOK, TyOrder, TyInOrder, TyBegun, TyRecorded, TyGone, Typing!Stoppers
<1>4. Typing(P)!TypingInv'
  BY DEF Typing!TypeOK, TyOrder, TyInOrder, TyRecorded, TyBegun, TyGone, Typing!Stoppers,
       Typing!TypingInv, Typing!RecordedIsShown, Typing!SomebodyStops, Typing!MapHoldsTheLoop,
       Typing!Shown
<1> QED
  BY <1>1, <1>2, <1>3, <1>4

\* The handler calls the stop function of the message before its own.
LEMMA TyPreviousKeeps ==
    ASSUME NEW P, Typing(P)!ConstantsAssumption, TyIInv(P), NEW m \in TypingMessages, Typing(P)!StopPrevious(m)
    PROVE  TyIInv(P)'
<1> USE DEF Typing!ConstantsAssumption, TyIInv, Typing!managerVars, Typing!channelVars, Typing!stopVars
<1>0. CASE swapped[m] = Nobody
  <2> USE <1>0 DEF Typing!StopPrevious, Typing!Goto
  <2>1. Typing(P)!TypeOK'
    BY DEF Typing!TypeOK, Typing!Stoppers
  <2>2. TyOrder(P)'
    BY DEF Typing!TypeOK, TyOrder, Typing!Stoppers, TyRecorded, TyBegun, TyGone
  <2>3. TyInOrder(P)'
    BY DEF Typing!TypeOK, TyOrder, TyInOrder, TyBegun, TyRecorded, TyGone, Typing!Stoppers
  <2>4. Typing(P)!TypingInv'
    BY DEF Typing!TypeOK, TyOrder, TyInOrder, TyRecorded, TyBegun, TyGone,
         Typing!Stoppers, Typing!TypingInv, Typing!RecordedIsShown, Typing!SomebodyStops,
         Typing!MapHoldsTheLoop, Typing!Shown
  <2> QED
    BY <2>1, <2>2, <2>3, <2>4
<1>1. CASE swapped[m] # Nobody
  <2> DEFINE x == swapped[m]
  <2>1. x \in TypingMessages /\ TyGone(x) /\ Typing(P)!StopFunction(x)
    BY <1>1 DEF Typing!TypeOK, TyOrder, Typing!StopPrevious, Typing!Goto
  <2>2. /\ told' \subseteq TypingMessages /\ current' \in TypingMessages \cup {Nobody}
        /\ told \subseteq told' /\ \A z \in told' \ told : TyBegun(z)
        /\ current' \in {current, Nobody}
        /\ P.kind # "own" /\ current' # Nobody => current' \notin told'
        /\ P.kind = "own" => told' = told \cup {x}
        /\ P.kind = "session" => told' = told \cup {x}
        /\ P.kind # "own" => \A z \in TypingMessages : z = current /\ z \notin told' => z = current'
    BY <2>1, TyStopFunctionKeeps
  <2> USE <1>1, <2>1, <2>2 DEF Typing!StopPrevious, Typing!Goto
  <2> HIDE DEF Typing!StopFunction
  <2>3. Typing(P)!TypeOK'
    BY DEF Typing!TypeOK, Typing!Stoppers
  <2>4. TyOrder(P)'
    BY DEF Typing!TypeOK, TyOrder, Typing!Stoppers, TyRecorded, TyBegun, TyGone
  <2>5. TyInOrder(P)'
    BY DEF Typing!TypeOK, TyOrder, TyInOrder, TyBegun, TyRecorded, TyGone, Typing!Stoppers
  <2>6. Typing(P)!TypingInv'
    BY DEF Typing!TypeOK, TyOrder, TyInOrder, TyRecorded, TyBegun, TyGone,
         Typing!Stoppers, Typing!TypingInv, Typing!RecordedIsShown, Typing!SomebodyStops,
         Typing!MapHoldsTheLoop, Typing!Shown
  <2> QED
    BY <2>3, <2>4, <2>5, <2>6
<1> QED
  BY <1>0, <1>1

\* A reply or the janitor calls the stop function it holds.
LEMMA TyHeldKeeps ==
    ASSUME NEW P, Typing(P)!ConstantsAssumption, TyIInv(P), NEW s \in Typing(P)!Stoppers, Typing(P)!CallHeld(s)
    PROVE  TyIInv(P)'
<1> USE DEF Typing!ConstantsAssumption, TyIInv, Typing!managerVars, Typing!channelVars, Typing!stopVars
<1>1. CASE held[s] # Nobody
  <2> DEFINE x == held[s]
  <2>1. x \in TypingMessages /\ TyGone(x) /\ Typing(P)!StopFunction(x)
    BY <1>1 DEF Typing!TypeOK, TyOrder, Typing!CallHeld
  <2>2. /\ told' \subseteq TypingMessages /\ current' \in TypingMessages \cup {Nobody}
        /\ told \subseteq told' /\ \A z \in told' \ told : TyBegun(z)
        /\ current' \in {current, Nobody}
        /\ P.kind # "own" /\ current' # Nobody => current' \notin told'
        /\ P.kind = "own" => told' = told \cup {x}
        /\ P.kind = "session" => told' = told \cup {x}
        /\ P.kind # "own" => \A z \in TypingMessages : z = current /\ z \notin told' => z = current'
    BY <2>1, TyStopFunctionKeeps
  <2> USE <1>1, <2>1, <2>2 DEF Typing!CallHeld
  <2> HIDE DEF Typing!StopFunction
  <2>3. Typing(P)!TypeOK'
    BY DEF Typing!TypeOK, Typing!Stoppers
  <2>4. TyOrder(P)'
    BY DEF Typing!TypeOK, TyOrder, Typing!Stoppers, TyRecorded, TyBegun, TyGone
  <2>5. TyInOrder(P)'
    BY DEF Typing!TypeOK, TyOrder, TyInOrder, TyBegun, TyRecorded, TyGone, Typing!Stoppers
  <2>6. Typing(P)!TypingInv'
    BY DEF Typing!TypeOK, TyOrder, TyInOrder, TyRecorded, TyBegun, TyGone,
         Typing!Stoppers, Typing!TypingInv, Typing!RecordedIsShown, Typing!SomebodyStops,
         Typing!MapHoldsTheLoop, Typing!Shown
  <2> QED
    BY <2>3, <2>4, <2>5, <2>6
<1> QED
  BY <1>1 DEF Typing!CallHeld

\* TyIInv is inductive.
LEMMA TyNextIInv ==
  ASSUME NEW P, Typing(P)!ConstantsAssumption, TyIInv(P), [Typing(P)!Next]_(Typing(P)!vars)
  PROVE  TyIInv(P)'
<1>1. CASE UNCHANGED Typing(P)!vars
  BY <1>1 DEF TyIInv, Typing!TypeOK, TyOrder, TyInOrder, Typing!TypingInv,
       Typing!RecordedIsShown, Typing!SomebodyStops, Typing!MapHoldsTheLoop,
              Typing!Shown, TyRecorded, TyBegun, TyGone, Typing!vars, Typing!managerVars,
                Typing!channelVars, Typing!stopVars
<1>2. CASE Typing(P)!Next
  BY <1>2, TyArriveKeeps, TyOwnKeeps, TyNothingKeeps, TyMappedKeeps, TyRecordKeeps,
       TyPreviousKeeps, TyPreSendKeeps,
     TyHeldKeeps, TyExpireKeeps, TyEvictKeeps, TyLoopKeeps, TyStopKeeps
     DEF Typing!Next, Typing!Handle
<1> QED
  BY <1>1, <1>2

\* For any number of messages and replies: a loop that goes on has somebody who
\* will stop it, but for the janitor's race, and is not stopped by another one's
\* stop function unless the channel looks it up by chat.
THEOREM TypingKept ==
  ASSUME NEW P, Typing(P)!ConstantsAssumption
  PROVE  Typing(P)!Spec => [](Typing(P)!TypeOK /\ Typing(P)!TypingInv)
<1>1. Typing(P)!Init => TyIInv(P)
  BY TyInitIInv
<1>2. TyIInv(P) /\ [Typing(P)!Next]_(Typing(P)!vars) => TyIInv(P)'
  BY TyNextIInv
<1>3. TyIInv(P) => Typing(P)!TypeOK /\ Typing(P)!TypingInv
  BY DEF TyIInv
<1> QED
  BY <1>1, <1>2, <1>3, PTL DEF Typing!Spec

-----------------------------------------------------------------------------
(* WhatsAppNative                                                          *)

\* Sets are counted alike in every instance.
LEMMA WaSame ==
    /\ \A S : WhatsApp!Cardinality(S) = Cardinality(S)
    /\ \A S : WhatsApp!IsFiniteSet(S) <=> IsFiniteSet(S)
<1>1. \A S : WhatsApp!Cardinality(S) = Cardinality(S)
  BY Zenon DEF WhatsApp!Cardinality, Cardinality
<1>2. \A S : WhatsApp!IsFiniteSet(S) <=> IsFiniteSet(S)
  BY Zenon DEF WhatsApp!IsFiniteSet, IsFiniteSet
<1> QED
  BY <1>1, <1>2

WaNoneAlive == \A l \in WaLoops : ~WhatsApp!Alive(l)

\* Start and Stop alternate, and what they work on is the last run.
WaPhases ==
    /\ waStopPc # "idle" => waRunning /\ stopping
    /\ startPc # "idle" => ~waRunning /\ ~stopping
    /\ waRunning /\ waStopPc = "idle" => ~stopping
    /\ startPc # "idle" \/ waRunning => client = run /\ run \in WhatsApp!Runs
    /\ startPc # "idle" \/ (waRunning /\ ~stopping) => run \notin waCancelled
    /\ client # 0 => client = run
    /\ waCancelled \subseteq 1..run
    /\ waStopPc \in {"disconnect", "wait", "clear"} => took \in WhatsApp!Runs
    /\ \A l \in WaLoops : waPc[l] = "connect" => waAt[l] \in WhatsApp!Runs

\* Without a goroutine that was left behind, the flag tells of the only loop.
WaFlag ==
    alone =>
        /\ \A l \in WaLoops : WhatsApp!Alive(l) => reconnecting
        /\ \A k, l \in WaLoops : WhatsApp!Alive(k) /\ WhatsApp!Alive(l) => k = l
        /\ waStopPc = "clear" \/ (waStopPc = "idle" /\ stopping) => WaNoneAlive /\ qr = 0
        /\ ~stopping => \A l \in WaLoops : waPc[l] = "connect" => waAt[l] = run

\* Whoever will connect again, or start the loop that will
WaHeard ==
    (waRunning \/ startPc = "connected") /\ ~stopping /\ unheard = {} /\ alone /\ client \notin connected =>
        client \in handle \/ \E l \in WaLoops : WhatsApp!WillConnect(l)

WaIInv == WhatsApp!TypeOK /\ WaPhases /\ WaFlag /\ WaHeard

\* The counts of the WaitGroup and of OneLoop, said without numbers.
LEMMA WaCount ==
    ASSUME WhatsApp!ConstantsAssumption
    PROVE  /\ WhatsApp!wg = 0 <=> WaNoneAlive /\ qr = 0
           /\ (\A k, l \in WaLoops : WhatsApp!Alive(k) /\ WhatsApp!Alive(l) => k = l)
                => Cardinality({l \in WaLoops : WhatsApp!Alive(l)}) <= 1
<1> DEFINE A == {l \in WaLoops : WhatsApp!Alive(l)}
<1>1. IsFiniteSet(A) /\ Cardinality(A) \in Nat
  <2>1. A \subseteq WaLoops
    OBVIOUS
  <2> QED
    BY <2>1, WaSame, FS_Subset, FS_CardinalityType DEF WhatsApp!ConstantsAssumption
<1>2. Cardinality(A) = 0 <=> A = {}
  BY <1>1, FS_EmptySet
<1>3. WhatsApp!wg = 0 <=> Cardinality(A) = 0 /\ qr = 0
  BY <1>1, WaSame DEF WhatsApp!wg
<1>4. A = {} <=> WaNoneAlive
  BY DEF WaNoneAlive
<1>5. ASSUME \A k, l \in WaLoops : WhatsApp!Alive(k) /\ WhatsApp!Alive(l) => k = l PROVE Cardinality(A) <= 1
  <2>1. CASE A = {}
    BY <1>1, <1>2, <2>1
  <2>2. CASE A # {}
    <3>1. PICK k \in A : TRUE
      BY <2>2
    <3>2. A = {k}
      BY <1>5, <3>1
    <3> QED
      BY <3>2, FS_Singleton
  <2> QED
    BY <2>1, <2>2
<1> QED
  BY <1>2, <1>3, <1>4, <1>5

\* Nothing was started.
LEMMA WaInitIInv == ASSUME WhatsApp!ConstantsAssumption, WhatsApp!Init PROVE WaIInv
<1>1. WhatsApp!TypeOK
  <2>1. reconnecting \in BOOLEAN /\ stopping \in BOOLEAN /\ waRunning \in BOOLEAN /\ alone \in BOOLEAN
    BY DEF WhatsApp!Init
  <2> QED
    BY <2>1 DEF WhatsApp!ConstantsAssumption, WhatsApp!Init, WhatsApp!TypeOK,
         WhatsApp!Places
<1>2. WaPhases /\ WaFlag /\ WaHeard
  BY DEF WhatsApp!Init, WaPhases, WaFlag, WaHeard, WhatsApp!Alive, WaNoneAlive
<1> QED
  BY <1>1, <1>2 DEF WaIInv

\* Start resets the flags when no Stop is under way.
LEMMA WaStartBeginsKeeps ==
  ASSUME WhatsApp!ConstantsAssumption, WaIInv, WhatsApp!StartBegins
  PROVE  WaIInv'
<1> USE DEF WhatsApp!ConstantsAssumption, WaIInv, WhatsApp!StartBegins, WhatsApp!clientVars,
              WhatsApp!loopVars, WhatsApp!stopVars
<1>1. WhatsApp!TypeOK'
  <2>1. stopping' \in BOOLEAN /\ reconnecting' \in BOOLEAN
    BY Zenon
  <2>2. alone' \in BOOLEAN
    BY Zenon DEF WhatsApp!TypeOK
  <2>3. run' \in 0..WaMaxRuns /\ client' \in 0..WaMaxRuns
    BY DEF WhatsApp!TypeOK
  <2> QED
    BY <2>1, <2>2, <2>3 DEF WhatsApp!TypeOK, WhatsApp!Runs, WhatsApp!Places, WaPhases
<1>2. WaPhases'
  BY DEF WhatsApp!TypeOK, WhatsApp!Runs, WhatsApp!Places, WaPhases
<1>3. WaFlag'
  BY WaCount DEF WhatsApp!TypeOK, WhatsApp!Runs, WhatsApp!Places, WaPhases, WaFlag,
       WhatsApp!Alive, WaNoneAlive
<1>4. WaHeard'
  BY DEF WhatsApp!TypeOK, WhatsApp!Runs, WhatsApp!Places, WaPhases, WaFlag,
       WhatsApp!Alive, WaNoneAlive, WaHeard, WhatsApp!WillConnect
<1> QED
  BY <1>1, <1>2, <1>3, <1>4

\* A connection that Start fails to make needs no loop yet.
LEMMA WaStartConnectsKeeps ==
  ASSUME WhatsApp!ConstantsAssumption, WaIInv, WhatsApp!StartConnects
  PROVE  WaIInv'
<1> USE DEF WhatsApp!ConstantsAssumption, WaIInv, WhatsApp!StartConnects, WhatsApp!clientVars,
              WhatsApp!loopVars, WhatsApp!stopVars
<1>1. WhatsApp!TypeOK'
  BY DEF WhatsApp!TypeOK, WhatsApp!Runs, WhatsApp!Places, WaPhases
<1>2. WaPhases'
  BY DEF WhatsApp!TypeOK, WhatsApp!Runs, WhatsApp!Places, WaPhases
<1>3. WaFlag'
  BY DEF WhatsApp!TypeOK, WhatsApp!Runs, WhatsApp!Places, WaPhases, WaFlag,
       WhatsApp!Alive, WaNoneAlive
<1>4. WaHeard'
  BY DEF WhatsApp!TypeOK, WhatsApp!Runs, WhatsApp!Places, WaPhases, WaFlag,
       WhatsApp!Alive, WaNoneAlive, WaHeard, WhatsApp!WillConnect
<1> QED
  BY <1>1, <1>2, <1>3, <1>4

\* Start returns with a connection, or with somebody who will make one.
LEMMA WaStartReturnsKeeps ==
  ASSUME WhatsApp!ConstantsAssumption, WaIInv, WhatsApp!StartReturns
  PROVE  WaIInv'
<1> USE DEF WhatsApp!ConstantsAssumption, WaIInv, WhatsApp!StartReturns, WhatsApp!clientVars,
              WhatsApp!loopVars, WhatsApp!stopVars
<1>1. WhatsApp!TypeOK'
  BY DEF WhatsApp!TypeOK, WhatsApp!Runs, WhatsApp!Places, WaPhases
<1>2. WaPhases'
  BY DEF WhatsApp!TypeOK, WhatsApp!Runs, WhatsApp!Places, WaPhases
<1>3. WaFlag'
  BY DEF WhatsApp!TypeOK, WhatsApp!Runs, WhatsApp!Places, WaPhases, WaFlag,
       WhatsApp!Alive, WaNoneAlive
<1>4. WaHeard'
  BY DEF WhatsApp!TypeOK, WhatsApp!Runs, WhatsApp!Places, WaPhases, WaFlag,
       WhatsApp!Alive, WaNoneAlive, WaHeard, WhatsApp!WillConnect
<1> QED
  BY <1>1, <1>2, <1>3, <1>4

\* A Start that fails stops its own client.
LEMMA WaStartCleansUpKeeps ==
  ASSUME WhatsApp!ConstantsAssumption, WaIInv, WhatsApp!StartCleansUp
  PROVE  WaIInv'
<1> USE DEF WhatsApp!ConstantsAssumption, WaIInv, WhatsApp!StartCleansUp, WhatsApp!clientVars,
              WhatsApp!loopVars, WhatsApp!stopVars
<1>1. WhatsApp!TypeOK'
  BY DEF WhatsApp!TypeOK, WhatsApp!Runs, WhatsApp!Places, WaPhases
<1>2. WaPhases'
  BY DEF WhatsApp!TypeOK, WhatsApp!Runs, WhatsApp!Places, WaPhases
<1>3. WaFlag'
  BY DEF WhatsApp!TypeOK, WhatsApp!Runs, WhatsApp!Places, WaPhases, WaFlag,
       WhatsApp!Alive, WaNoneAlive
<1>4. WaHeard'
  BY DEF WhatsApp!TypeOK, WhatsApp!Runs, WhatsApp!Places, WaPhases, WaFlag,
       WhatsApp!Alive, WaNoneAlive, WaHeard, WhatsApp!WillConnect
<1> QED
  BY <1>1, <1>2, <1>3, <1>4

\* A disconnect is handled, or was not heard.
LEMMA WaBreakKeeps ==
  ASSUME WhatsApp!ConstantsAssumption, WaIInv, NEW r \in WhatsApp!Runs, WhatsApp!Break(r)
  PROVE  WaIInv'
<1> USE DEF WhatsApp!ConstantsAssumption, WaIInv, WhatsApp!Break, WhatsApp!clientVars, WhatsApp!loopVars,
              WhatsApp!stopVars
<1>1. WhatsApp!TypeOK'
  BY DEF WhatsApp!TypeOK, WhatsApp!Runs, WhatsApp!Places, WaPhases
<1>2. WaPhases'
  BY DEF WhatsApp!TypeOK, WhatsApp!Runs, WhatsApp!Places, WaPhases
<1>3. WaFlag'
  BY DEF WhatsApp!TypeOK, WhatsApp!Runs, WhatsApp!Places, WaPhases, WaFlag,
       WhatsApp!Alive, WaNoneAlive
<1>4. WaHeard'
  BY DEF WhatsApp!TypeOK, WhatsApp!Runs, WhatsApp!Places, WaPhases, WaFlag,
       WhatsApp!Alive, WaNoneAlive, WaHeard, WhatsApp!WillConnect
<1> QED
  BY <1>1, <1>2, <1>3, <1>4

\* The handler starts a loop when none goes on and Stop has not begun.
LEMMA WaEventHandlerKeeps ==
  ASSUME WhatsApp!ConstantsAssumption, WaIInv, NEW r \in WhatsApp!Runs, NEW l \in WaLoops,
           WhatsApp!EventHandler(r, l)
  PROVE  WaIInv'
<1> USE DEF WhatsApp!ConstantsAssumption, WaIInv, WhatsApp!EventHandler, WhatsApp!clientVars,
              WhatsApp!loopVars, WhatsApp!stopVars
<1>1. WhatsApp!TypeOK'
  BY DEF WhatsApp!TypeOK, WhatsApp!Runs, WhatsApp!Places, WaPhases
<1>2. WaPhases'
  BY DEF WhatsApp!TypeOK, WhatsApp!Runs, WhatsApp!Places, WaPhases
<1>3. WaFlag'
  BY DEF WhatsApp!TypeOK, WhatsApp!Runs, WhatsApp!Places, WaPhases, WaFlag,
       WhatsApp!Alive, WaNoneAlive
<1>4. WaHeard'
  BY DEF WhatsApp!TypeOK, WhatsApp!Runs, WhatsApp!Places, WaPhases, WaFlag,
       WhatsApp!Alive, WaNoneAlive, WaHeard, WhatsApp!WillConnect
<1> QED
  BY <1>1, <1>2, <1>3, <1>4

\* A loop that sees the end of its context, or a connection, leaves.
LEMMA WaLoopChecksKeeps ==
  ASSUME WhatsApp!ConstantsAssumption, WaIInv, NEW l \in WaLoops, WhatsApp!LoopChecks(l)
  PROVE  WaIInv'
<1> USE DEF WhatsApp!ConstantsAssumption, WaIInv, WhatsApp!LoopChecks, WhatsApp!clientVars,
              WhatsApp!loopVars, WhatsApp!stopVars
<1>1. WhatsApp!TypeOK'
  BY DEF WhatsApp!TypeOK, WhatsApp!Runs, WhatsApp!Places, WaPhases
<1>2. WaPhases'
  BY DEF WhatsApp!TypeOK, WhatsApp!Runs, WhatsApp!Places, WaPhases
<1>3. WaFlag'
  BY DEF WhatsApp!TypeOK, WhatsApp!Runs, WhatsApp!Places, WaPhases, WaFlag,
       WhatsApp!Alive, WaNoneAlive
<1>4. WaHeard'
  BY DEF WhatsApp!TypeOK, WhatsApp!Runs, WhatsApp!Places, WaPhases, WaFlag,
       WhatsApp!Alive, WaNoneAlive, WaHeard, WhatsApp!WillConnect
<1> QED
  BY <1>1, <1>2, <1>3, <1>4

\* A loop connects the client of its run.
LEMMA WaLoopTakesKeeps ==
  ASSUME WhatsApp!ConstantsAssumption, WaIInv, NEW l \in WaLoops, WhatsApp!LoopTakes(l)
  PROVE  WaIInv'
<1> USE DEF WhatsApp!ConstantsAssumption, WaIInv, WhatsApp!LoopTakes, WhatsApp!clientVars,
              WhatsApp!loopVars, WhatsApp!stopVars
<1>1. WhatsApp!TypeOK'
  BY DEF WhatsApp!TypeOK, WhatsApp!Runs, WhatsApp!Places, WaPhases
<1>2. WaPhases'
  BY DEF WhatsApp!TypeOK, WhatsApp!Runs, WhatsApp!Places, WaPhases
<1>3. WaFlag'
  BY DEF WhatsApp!TypeOK, WhatsApp!Runs, WhatsApp!Places, WaPhases, WaFlag,
       WhatsApp!Alive, WaNoneAlive
<1>4. WaHeard'
  BY DEF WhatsApp!TypeOK, WhatsApp!Runs, WhatsApp!Places, WaPhases, WaFlag,
       WhatsApp!Alive, WaNoneAlive, WaHeard, WhatsApp!WillConnect
<1> QED
  BY <1>1, <1>2, <1>3, <1>4

\* A loop that has connected needs no successor but for the disconnect nobody heard.
LEMMA WaLoopConnectsKeeps ==
  ASSUME WhatsApp!ConstantsAssumption, WaIInv, NEW l \in WaLoops, WhatsApp!LoopConnects(l)
  PROVE  WaIInv'
<1> USE DEF WhatsApp!ConstantsAssumption, WaIInv, WhatsApp!LoopConnects, WhatsApp!clientVars,
              WhatsApp!loopVars, WhatsApp!stopVars
<1>1. WhatsApp!TypeOK'
  <2>1. connected' \subseteq WhatsApp!Runs
    BY DEF WhatsApp!TypeOK, WaPhases
  <2>2. waPc' \in [WaLoops -> WhatsApp!Places]
    BY DEF WhatsApp!TypeOK, WhatsApp!Places
  <2>3. waAt' \in [WaLoops -> 0..WaMaxRuns]
    BY DEF WhatsApp!TypeOK
  <2> QED
    BY <2>1, <2>2, <2>3 DEF WhatsApp!TypeOK, WhatsApp!Runs, WhatsApp!Places, WaPhases
<1>2. WaPhases'
  BY DEF WhatsApp!TypeOK, WhatsApp!Runs, WhatsApp!Places, WaPhases
<1>3. WaFlag'
  BY DEF WhatsApp!TypeOK, WhatsApp!Runs, WhatsApp!Places, WaPhases, WaFlag,
       WhatsApp!Alive, WaNoneAlive
<1>4. WaHeard'
  BY DEF WhatsApp!TypeOK, WhatsApp!Runs, WhatsApp!Places, WaPhases, WaFlag,
       WhatsApp!Alive, WaNoneAlive, WaHeard, WhatsApp!WillConnect
<1> QED
  BY <1>1, <1>2, <1>3, <1>4

\* A loop that failed tries again after its delay.
LEMMA WaLoopWakesKeeps ==
  ASSUME WhatsApp!ConstantsAssumption, WaIInv, NEW l \in WaLoops, WhatsApp!LoopWakes(l)
  PROVE  WaIInv'
<1> USE DEF WhatsApp!ConstantsAssumption, WaIInv, WhatsApp!LoopWakes, WhatsApp!clientVars,
              WhatsApp!loopVars, WhatsApp!stopVars
<1>1. WhatsApp!TypeOK'
  BY DEF WhatsApp!TypeOK, WhatsApp!Runs, WhatsApp!Places, WaPhases
<1>2. WaPhases'
  BY DEF WhatsApp!TypeOK, WhatsApp!Runs, WhatsApp!Places, WaPhases
<1>3. WaFlag'
  BY DEF WhatsApp!TypeOK, WhatsApp!Runs, WhatsApp!Places, WaPhases, WaFlag,
       WhatsApp!Alive, WaNoneAlive
<1>4. WaHeard'
  BY DEF WhatsApp!TypeOK, WhatsApp!Runs, WhatsApp!Places, WaPhases, WaFlag,
       WhatsApp!Alive, WaNoneAlive, WaHeard, WhatsApp!WillConnect
<1> QED
  BY <1>1, <1>2, <1>3, <1>4

\* A loop resets the flag when it ends.
LEMMA WaLoopEndsKeeps ==
  ASSUME WhatsApp!ConstantsAssumption, WaIInv, NEW l \in WaLoops, WhatsApp!LoopEnds(l)
  PROVE  WaIInv'
<1> USE DEF WhatsApp!ConstantsAssumption, WaIInv, WhatsApp!LoopEnds, WhatsApp!clientVars,
              WhatsApp!loopVars, WhatsApp!stopVars
<1>1. WhatsApp!TypeOK'
  BY DEF WhatsApp!TypeOK, WhatsApp!Runs, WhatsApp!Places, WaPhases
<1>2. WaPhases'
  BY DEF WhatsApp!TypeOK, WhatsApp!Runs, WhatsApp!Places, WaPhases
<1>3. WaFlag'
  BY DEF WhatsApp!TypeOK, WhatsApp!Runs, WhatsApp!Places, WaPhases, WaFlag,
       WhatsApp!Alive, WaNoneAlive
<1>4. WaHeard'
  BY DEF WhatsApp!TypeOK, WhatsApp!Runs, WhatsApp!Places, WaPhases, WaFlag,
       WhatsApp!Alive, WaNoneAlive, WaHeard, WhatsApp!WillConnect
<1> QED
  BY <1>1, <1>2, <1>3, <1>4

\* The goroutine of the QR codes ends.
LEMMA WaQREndsKeeps ==
  ASSUME WhatsApp!ConstantsAssumption, WaIInv, WhatsApp!QREnds
  PROVE  WaIInv'
<1> USE DEF WhatsApp!ConstantsAssumption, WaIInv, WhatsApp!QREnds, WhatsApp!clientVars, WhatsApp!loopVars,
              WhatsApp!stopVars
<1>1. WhatsApp!TypeOK'
  BY DEF WhatsApp!TypeOK, WhatsApp!Runs, WhatsApp!Places, WaPhases
<1>2. WaPhases'
  BY DEF WhatsApp!TypeOK, WhatsApp!Runs, WhatsApp!Places, WaPhases
<1>3. WaFlag'
  BY DEF WhatsApp!TypeOK, WhatsApp!Runs, WhatsApp!Places, WaPhases, WaFlag,
       WhatsApp!Alive, WaNoneAlive
<1>4. WaHeard'
  BY DEF WhatsApp!TypeOK, WhatsApp!Runs, WhatsApp!Places, WaPhases, WaFlag,
       WhatsApp!Alive, WaNoneAlive, WaHeard, WhatsApp!WillConnect
<1> QED
  BY <1>1, <1>2, <1>3, <1>4

\* From here on no loop is begun.
LEMMA WaStopMarksKeeps ==
  ASSUME WhatsApp!ConstantsAssumption, WaIInv, WhatsApp!StopMarks
  PROVE  WaIInv'
<1> USE DEF WhatsApp!ConstantsAssumption, WaIInv, WhatsApp!StopMarks, WhatsApp!clientVars,
              WhatsApp!loopVars, WhatsApp!stopVars
<1>1. WhatsApp!TypeOK'
  BY DEF WhatsApp!TypeOK, WhatsApp!Runs, WhatsApp!Places, WaPhases
<1>2. WaPhases'
  BY DEF WhatsApp!TypeOK, WhatsApp!Runs, WhatsApp!Places, WaPhases
<1>3. WaFlag'
  BY DEF WhatsApp!TypeOK, WhatsApp!Runs, WhatsApp!Places, WaPhases, WaFlag,
       WhatsApp!Alive, WaNoneAlive
<1>4. WaHeard'
  BY DEF WhatsApp!TypeOK, WhatsApp!Runs, WhatsApp!Places, WaPhases, WaFlag,
       WhatsApp!Alive, WaNoneAlive, WaHeard, WhatsApp!WillConnect
<1> QED
  BY <1>1, <1>2, <1>3, <1>4

\* Stop cancels the context of the run.
LEMMA WaStopCancelsKeeps ==
  ASSUME WhatsApp!ConstantsAssumption, WaIInv, WhatsApp!StopCancels
  PROVE  WaIInv'
<1> USE DEF WhatsApp!ConstantsAssumption, WaIInv, WhatsApp!StopCancels, WhatsApp!clientVars,
              WhatsApp!loopVars, WhatsApp!stopVars
<1>1. WhatsApp!TypeOK'
  BY DEF WhatsApp!TypeOK, WhatsApp!Runs, WhatsApp!Places, WaPhases
<1>2. WaPhases'
  BY DEF WhatsApp!TypeOK, WhatsApp!Runs, WhatsApp!Places, WaPhases
<1>3. WaFlag'
  BY DEF WhatsApp!TypeOK, WhatsApp!Runs, WhatsApp!Places, WaPhases, WaFlag,
       WhatsApp!Alive, WaNoneAlive
<1>4. WaHeard'
  BY DEF WhatsApp!TypeOK, WhatsApp!Runs, WhatsApp!Places, WaPhases, WaFlag,
       WhatsApp!Alive, WaNoneAlive, WaHeard, WhatsApp!WillConnect
<1> QED
  BY <1>1, <1>2, <1>3, <1>4

\* Stop disconnects the client it took.
LEMMA WaStopDisconnectsKeeps ==
  ASSUME WhatsApp!ConstantsAssumption, WaIInv, WhatsApp!StopDisconnects
  PROVE  WaIInv'
<1> USE DEF WhatsApp!ConstantsAssumption, WaIInv, WhatsApp!StopDisconnects, WhatsApp!clientVars,
              WhatsApp!loopVars, WhatsApp!stopVars
<1>1. WhatsApp!TypeOK'
  BY DEF WhatsApp!TypeOK, WhatsApp!Runs, WhatsApp!Places, WaPhases
<1>2. WaPhases'
  BY DEF WhatsApp!TypeOK, WhatsApp!Runs, WhatsApp!Places, WaPhases
<1>3. WaFlag'
  BY DEF WhatsApp!TypeOK, WhatsApp!Runs, WhatsApp!Places, WaPhases, WaFlag,
       WhatsApp!Alive, WaNoneAlive
<1>4. WaHeard'
  BY DEF WhatsApp!TypeOK, WhatsApp!Runs, WhatsApp!Places, WaPhases, WaFlag,
       WhatsApp!Alive, WaNoneAlive, WaHeard, WhatsApp!WillConnect
<1> QED
  BY <1>1, <1>2, <1>3, <1>4

\* Stop waits for all goroutines, or is not alone afterwards.
LEMMA WaStopWaitsKeeps ==
  ASSUME WhatsApp!ConstantsAssumption, WaIInv, WhatsApp!StopWaits
  PROVE  WaIInv'
<1> USE DEF WhatsApp!ConstantsAssumption, WaIInv, WhatsApp!StopWaits, WhatsApp!clientVars,
              WhatsApp!loopVars, WhatsApp!stopVars
<1>1. WhatsApp!TypeOK'
  BY DEF WhatsApp!TypeOK, WhatsApp!Runs, WhatsApp!Places, WaPhases
<1>2. WaPhases'
  BY DEF WhatsApp!TypeOK, WhatsApp!Runs, WhatsApp!Places, WaPhases
<1>3. WaFlag'
  BY WaCount DEF WhatsApp!TypeOK, WhatsApp!Runs, WhatsApp!Places, WaPhases, WaFlag,
       WhatsApp!Alive, WaNoneAlive
<1>4. WaHeard'
  BY DEF WhatsApp!TypeOK, WhatsApp!Runs, WhatsApp!Places, WaPhases, WaFlag,
       WhatsApp!Alive, WaNoneAlive, WaHeard, WhatsApp!WillConnect
<1> QED
  BY <1>1, <1>2, <1>3, <1>4

\* Stop clears the client, and the channel is not running.
LEMMA WaStopClearsKeeps ==
  ASSUME WhatsApp!ConstantsAssumption, WaIInv, WhatsApp!StopClears
  PROVE  WaIInv'
<1> USE DEF WhatsApp!ConstantsAssumption, WaIInv, WhatsApp!StopClears, WhatsApp!clientVars,
              WhatsApp!loopVars, WhatsApp!stopVars
<1>1. WhatsApp!TypeOK'
  <2>1. waRunning' \in BOOLEAN
    BY Zenon
  <2>2. closedStores' \subseteq WhatsApp!Runs /\ 0 \in 0..WaMaxRuns
    BY DEF WhatsApp!TypeOK, WaPhases
  <2> QED
    BY <2>1, <2>2 DEF WhatsApp!TypeOK, WhatsApp!Runs, WhatsApp!Places, WaPhases
<1>2. WaPhases'
  BY DEF WhatsApp!TypeOK, WhatsApp!Runs, WhatsApp!Places, WaPhases
<1>3. WaFlag'
  BY DEF WhatsApp!TypeOK, WhatsApp!Runs, WhatsApp!Places, WaPhases, WaFlag,
       WhatsApp!Alive, WaNoneAlive
<1>4. WaHeard'
  BY DEF WhatsApp!TypeOK, WhatsApp!Runs, WhatsApp!Places, WaPhases, WaFlag,
       WhatsApp!Alive, WaNoneAlive, WaHeard, WhatsApp!WillConnect
<1> QED
  BY <1>1, <1>2, <1>3, <1>4

\* WaIInv is inductive.
LEMMA WaNextIInv ==
  ASSUME WhatsApp!ConstantsAssumption, WaIInv, [WhatsApp!Next]_(WhatsApp!vars)
  PROVE  WaIInv'
<1>1. CASE UNCHANGED WhatsApp!vars
  BY <1>1 DEF WaIInv, WhatsApp!TypeOK, WaPhases, WaFlag, WaHeard, WhatsApp!Alive,
       WaNoneAlive, WhatsApp!WillConnect, WhatsApp!vars, WhatsApp!clientVars,
       WhatsApp!loopVars,
              WhatsApp!stopVars
<1>2. CASE WhatsApp!Next
  BY <1>2, WaStartBeginsKeeps, WaStartConnectsKeeps, WaStartReturnsKeeps,
       WaStartCleansUpKeeps, WaBreakKeeps, WaEventHandlerKeeps, WaLoopChecksKeeps,
       WaLoopTakesKeeps, WaLoopConnectsKeeps, WaLoopWakesKeeps, WaLoopEndsKeeps, WaQREndsKeeps,
       WaStopMarksKeeps, WaStopCancelsKeeps, WaStopDisconnectsKeeps, WaStopWaitsKeeps,
       WaStopClearsKeeps DEF WhatsApp!Next, WhatsApp!Loop
<1> QED
  BY <1>1, <1>2

\* The invariant says what the run checks.
LEMMA WaIInvImplies ==
  ASSUME WhatsApp!ConstantsAssumption, WaIInv
  PROVE  WhatsApp!TypeOK /\ WhatsApp!SafeToClose /\ WhatsApp!OneLoop /\ WhatsApp!DisconnectHeard
<1>1. WhatsApp!TypeOK
  BY DEF WaIInv
<1>2. WhatsApp!SafeToClose
  BY WaCount, WaSame DEF WaIInv, WaFlag, WhatsApp!SafeToClose
<1>3. WhatsApp!OneLoop
  BY WaCount, WaSame DEF WaIInv, WaFlag, WhatsApp!OneLoop
<1>4. WhatsApp!DisconnectHeard
  BY DEF WaIInv, WaHeard, WhatsApp!DisconnectHeard, WhatsApp!WillConnect, WhatsApp!Alive
<1> QED
  BY <1>1, <1>2, <1>3, <1>4

\* For any number of starts and disconnects, unless a Stop gave up waiting: one
\* loop reconnects, none after Stop, and one when a disconnect was heard.
THEOREM WaKept ==
  ASSUME WhatsApp!ConstantsAssumption
  PROVE  WhatsApp!Spec => [](WhatsApp!TypeOK /\ WhatsApp!SafeToClose /\ WhatsApp!OneLoop
           /\ WhatsApp!DisconnectHeard)
<1>1. WhatsApp!Init => WaIInv
  BY WaInitIInv
<1>2. WaIInv /\ [WhatsApp!Next]_(WhatsApp!vars) => WaIInv'
  BY WaNextIInv
<1>3. WaIInv => WhatsApp!TypeOK /\ WhatsApp!SafeToClose /\ WhatsApp!OneLoop /\ WhatsApp!DisconnectHeard
  BY WaIInvImplies
<1> QED
  BY <1>1, <1>2, <1>3, PTL DEF WhatsApp!Spec

-----------------------------------------------------------------------------
(* ReplyContext                                                            *)

\* Sets are counted alike in every instance.
LEMMA ReplySame ==
    ASSUME NEW P
    PROVE  /\ \A S : Replies(P)!Cardinality(S) = Cardinality(S)
           /\ \A S : Replies(P)!IsFiniteSet(S) <=> IsFiniteSet(S)
<1>1. \A S : Replies(P)!Cardinality(S) = Cardinality(S)
  BY Zenon DEF Replies!Cardinality, Cardinality
<1>2. \A S : Replies(P)!IsFiniteSet(S) <=> IsFiniteSet(S)
  BY Zenon DEF Replies!IsFiniteSet, IsFiniteSet
<1> QED
  BY <1>1, <1>2

ReplyPlaces == {"none", "new", "quote", "context", "counter", "filter", "done"}
ReplyOpen == {"context", "counter", "filter"}

\* The handlers of an event that stand at one of these places
ReplyStanding(P, f, e, A) == {h \in Replies(P)!Handlers : h[1] = e /\ f[h] \in A}
ReplyStored(P, e) == Cardinality(ReplyStanding(P, replyAt, e, {"quote", "filter", "done"}))
ReplyFiltered(P, e) == Cardinality(ReplyStanding(P, replyAt, e, {"filter", "done"}))
ReplyOpened(P, e) == Cardinality(ReplyStanding(P, replyAt, e, ReplyOpen))
ReplyHolding(P, e) == {s \in P.senders : local[s].id = e}
ReplyHeld(P, e) == Cardinality(ReplyHolding(P, e))

\* The handlers that made, or will make, a counter of an event
ReplyTook(P, e) ==
    {h \in Replies(P)!Handlers : h[1] = e /\ (replyAt[h] \in ReplyOpen \/ seqs[h] > 0
      \/ msgSeqCounters[chat[e]] = h)}
ReplyTaker(P, e) == Cardinality(ReplyTook(P, e))

\* How often an event may have been taken: its id was forgotten, or is remembered.
ReplyAllowed(P, e) == forgotten[e] + (IF Replies(P)!Duplicate(e) THEN 1 ELSE 0)

ReplyShape(P) ==
    /\ P.platform # "line" =>
          /\ \A h \in Replies(P)!Handlers : replyAt[h] # "quote"
          /\ \A s \in P.senders : replyPc[s] \notin {"reply", "push"}
          /\ \A e \in ReplyEvents : replyReplies[e] = 0 /\ quotes[e] = 0
    /\ P.platform # "qq" =>
          /\ \A h \in Replies(P)!Handlers : replyAt[h] \notin {"context", "counter"}
          /\ posts = {}
          /\ \A s \in P.senders : replyPc[s] # "post"
    /\ P.platform = "slack" => \A s \in P.senders : local[s].id = NoValue
    /\ P.platform # "slack" =>
          /\ \A s \in P.senders : replyPc[s] # "mark"
          /\ \A e \in ReplyEvents : marks[e] = 0

\* A token is stored, held or spent once for each handler that stored it.
ReplyLineOf(P, e) ==
    /\ replyReplies[e] + ReplyHeld(P, e) + (IF replyTokens[chat[e]] = e THEN 1 ELSE 0) <= ReplyStored(P, e)
    /\ quotes[e] + (IF quoteTokens[chat[e]] = e THEN 1 ELSE 0) <= ReplyFiltered(P, e)

ReplyLineInv(P) ==
    P.platform = "line" =>
        /\ \A s \in P.senders : replyPc[s] = "reply" <=> local[s].id # NoValue
        /\ \A c \in P.chats : /\ replyTokens[c] # NoValue => chat[replyTokens[c]] = c
                              /\ quoteTokens[c] # NoValue => chat[quoteTokens[c]] = c
        /\ \A e \in ReplyEvents : ReplyLineOf(P, e)

\* An id that is remembered is not taken again.
ReplyTakenOf(P, e) == ReplyTaker(P, e) <= ReplyAllowed(P, e)
  /\ published[e] + ReplyOpened(P, e) <= ReplyAllowed(P, e)

ReplyTakenInv(P) ==
    P.platform = "qq" =>
        /\ \A c \in P.chats : msgSeqCounters[c] # NoValue => chat[msgSeqCounters[c][1]] = c
        /\ \A e \in ReplyEvents : ReplyTakenOf(P, e)

\* A counter gives each number once.
ReplyNumberInv(P) ==
    P.platform = "qq" =>
        /\ \A s \in P.senders :
              /\ local[s].ctr # NoValue => local[s].seq \in 1..seqs[local[s].ctr]
              /\ replyPc[s] # "post" => local[s].ctr = NoValue
        /\ \A p \in posts : p.ctr # NoValue => p.seq \in 1..seqs[p.ctr]
        /\ \A s, t \in P.senders :
              local[s].ctr # NoValue /\ local[t].ctr = local[s].ctr /\ local[s].seq = local[t].seq => s = t
        /\ \A s \in P.senders, p \in posts :
              local[s].ctr # NoValue /\ p.ctr = local[s].ctr => p.seq # local[s].seq
        /\ \A p, q \in posts : p.ctr # NoValue /\ p.ctr = q.ctr /\ p.seq = q.seq => p = q

\* An ack is stored or spent once for each handler that stored it, and a check
\* mark follows a message that was shown in its chat.
ReplyAckOf(P, e) ==
    /\ marks[e] + (IF pendingAcks[chat[e]] = e THEN 1 ELSE 0) <= ReplyFiltered(P, e)
    /\ marks[e] > 0 => kind[e] # "refused" /\ chat[e] \in shownIn

ReplyAckInv(P) ==
    P.platform = "slack" =>
        /\ \A c \in P.chats :
              pendingAcks[c] # NoValue => chat[pendingAcks[c]] = c /\ kind[pendingAcks[c]] # "refused"
        /\ \A s \in P.senders : replyPc[s] = "mark" => to[s] \in shownIn
        /\ \A e \in ReplyEvents : ReplyAckOf(P, e)

ReplyIInv(P) == Replies(P)!TypeOK /\ ReplyShape(P) /\ ReplyLineInv(P) /\ ReplyTakenInv(P)
  /\ ReplyNumberInv(P) /\ ReplyAckInv(P)

-----------------------------------------------------------------------------

\* There are finitely many handlers.
LEMMA ReplyHandlersFinite ==
  ASSUME NEW P, Replies(P)!ConstantsAssumption
  PROVE  IsFiniteSet(Replies(P)!Handlers)
<1>1. IsFiniteSet(1..P.deliveries)
  <2>1. P.deliveries \in Int
    BY DEF Replies!ConstantsAssumption
  <2> QED
    BY <2>1, FS_Interval
<1> QED
  BY <1>1, ReplySame, FS_Product DEF Replies!ConstantsAssumption, Replies!Handlers

\* A part of a finite set is finite, and not larger.
LEMMA ReplyFewer ==
    ASSUME NEW S, IsFiniteSet(S), NEW T \in SUBSET S
    PROVE  IsFiniteSet(T) /\ Cardinality(T) \in Nat /\ Cardinality(S) \in Nat
             /\ Cardinality(T) <= Cardinality(S)
BY FS_Subset, FS_CardinalityType

\* A part of a finite set and one more is at most one larger.
LEMMA ReplyOneMore ==
    ASSUME NEW S, IsFiniteSet(S), NEW x, NEW T \in SUBSET (S \cup {x})
    PROVE  IsFiniteSet(T) /\ Cardinality(T) \in Nat /\ Cardinality(S) \in Nat
             /\ Cardinality(T) <= Cardinality(S) + 1
<1>1. IsFiniteSet(S \cup {x})
        /\ Cardinality(S \cup {x}) = IF x \in S THEN Cardinality(S) ELSE Cardinality(S) + 1
  BY FS_AddElement
<1>2. IsFiniteSet(T) /\ Cardinality(T) \in Nat /\ Cardinality(T) <= Cardinality(S \cup {x})
  BY <1>1, ReplyFewer
<1>3. Cardinality(S) \in Nat
  BY FS_CardinalityType
<1> QED
  BY <1>1, <1>2, <1>3

\* A handler moves: what is counted changes by that handler only.

ReplyIn(p, A) == IF p \in A THEN 1 ELSE 0

\* A handler moves: what is counted changes by that handler only.
LEMMA ReplyMoves ==
    ASSUME NEW P, Replies(P)!ConstantsAssumption, replyAt \in [Replies(P)!Handlers -> ReplyPlaces],
             NEW h \in Replies(P)!Handlers, NEW q \in ReplyPlaces,
                  replyAt' = [replyAt EXCEPT ![h] = q], NEW e, NEW A
    PROVE  /\ Cardinality(ReplyStanding(P, replyAt, e, A)) \in Nat
                /\ Cardinality(ReplyStanding(P, replyAt', e, A)) \in Nat
           /\ Cardinality(ReplyStanding(P, replyAt', e, A)) =
                Cardinality(ReplyStanding(P, replyAt, e, A))
                  + (IF h[1] = e THEN ReplyIn(q, A) - ReplyIn(replyAt[h], A) ELSE 0)
<1> DEFINE F == ReplyStanding(P, replyAt, e, A)
           G == ReplyStanding(P, replyAt', e, A)
<1>1. IsFiniteSet(F) /\ IsFiniteSet(G)
  BY ReplyHandlersFinite, FS_Subset DEF ReplyStanding
<1>2. Cardinality(F) \in Nat /\ Cardinality(G) \in Nat
  BY <1>1, FS_CardinalityType
<1>3. CASE h[1] # e \/ (replyAt[h] \in A <=> q \in A)
  <2>1. G = F
    BY <1>3 DEF ReplyStanding
  <2> QED
    BY <1>2, <1>3, <2>1 DEF ReplyIn
<1>4. CASE h[1] = e /\ replyAt[h] \notin A /\ q \in A
  <2>1. G = F \cup {h} /\ h \notin F
    BY <1>4 DEF ReplyStanding
  <2>2. Cardinality(G) = Cardinality(F) + 1
    BY <1>1, <2>1, FS_AddElement
  <2> QED
    BY <1>2, <1>4, <2>2 DEF ReplyIn
<1>5. CASE h[1] = e /\ replyAt[h] \in A /\ q \notin A
  <2>1. G = F \ {h} /\ h \in F
    BY <1>5 DEF ReplyStanding
  <2>2. Cardinality(G) = Cardinality(F) - 1
    BY <1>1, <2>1, FS_RemoveElement
  <2> QED
    BY <1>2, <1>5, <2>2 DEF ReplyIn
<1> QED
  BY <1>2, <1>3, <1>4, <1>5

ReplyMovedTo(P, h, q) ==
    \A e : /\ ReplyStored(P, e) \in Nat /\ ReplyFiltered(P, e) \in Nat /\ ReplyOpened(P, e) \in Nat
           /\ ReplyStored(P, e)' =
                ReplyStored(P, e)
                  + (IF h[1] = e THEN ReplyIn(q, {"quote", "filter", "done"}) - ReplyIn(replyAt[h],
                    {"quote", "filter", "done"}) ELSE 0)
           /\ ReplyFiltered(P, e)' = ReplyFiltered(P, e)
                + (IF h[1] = e THEN ReplyIn(q, {"filter", "done"}) - ReplyIn(replyAt[h],
                  {"filter", "done"}) ELSE 0)
           /\ ReplyOpened(P, e)' = ReplyOpened(P, e)
                + (IF h[1] = e THEN ReplyIn(q, ReplyOpen) - ReplyIn(replyAt[h], ReplyOpen) ELSE 0)

\* A handler that moves is counted where it goes and no longer where it was.
LEMMA ReplyMoved ==
    ASSUME NEW P, Replies(P)!ConstantsAssumption, Replies(P)!TypeOK, NEW h \in Replies(P)!Handlers,
             NEW q \in ReplyPlaces, replyAt' = [replyAt EXCEPT ![h] = q]
    PROVE  ReplyMovedTo(P, h, q)
<1> SUFFICES ASSUME NEW e
             PROVE  /\ ReplyStored(P, e) \in Nat /\ ReplyFiltered(P, e) \in Nat /\ ReplyOpened(P, e) \in Nat
                    /\ ReplyStored(P, e)' =
                         ReplyStored(P, e)
                           + (IF h[1] = e THEN ReplyIn(q, {"quote", "filter", "done"}) - ReplyIn(replyAt[h], {"quote", "filter", "done"}) ELSE 0)
                    /\ ReplyFiltered(P, e)' = ReplyFiltered(P, e)
                         + (IF h[1] = e THEN ReplyIn(q, {"filter", "done"}) - ReplyIn(replyAt[h],
                           {"filter", "done"}) ELSE 0)
                    /\ ReplyOpened(P, e)' = ReplyOpened(P, e)
                         + (IF h[1] = e THEN ReplyIn(q, ReplyOpen) - ReplyIn(replyAt[h], ReplyOpen) ELSE 0)
  BY DEF ReplyMovedTo
<1>0. replyAt \in [Replies(P)!Handlers -> ReplyPlaces]
  BY DEF Replies!TypeOK, ReplyPlaces
<1>1. \A A : /\ Cardinality(ReplyStanding(P, replyAt, e, A)) \in Nat
                  /\ Cardinality(ReplyStanding(P, replyAt', e, A)) \in Nat
             /\ Cardinality(ReplyStanding(P, replyAt', e, A)) =
                Cardinality(ReplyStanding(P, replyAt, e, A))
                  + (IF h[1] = e THEN ReplyIn(q, A) - ReplyIn(replyAt[h], A) ELSE 0)
  BY ZenonT(120), <1>0, ReplyMoves
<1>2. \A A : ReplyIn(q, A) \in 0..1 /\ ReplyIn(replyAt[h], A) \in 0..1
  BY DEF ReplyIn
<1>3. /\ ReplyStored(P, e)' = Cardinality(ReplyStanding(P, replyAt', e, {"quote", "filter", "done"}))
      /\ ReplyFiltered(P, e)' = Cardinality(ReplyStanding(P, replyAt', e, {"filter", "done"}))
      /\ ReplyOpened(P, e)' = Cardinality(ReplyStanding(P, replyAt', e, ReplyOpen))
  BY DEF ReplyStored, ReplyFiltered, ReplyOpened, ReplyStanding, ReplyOpen
<1>4. /\ ReplyStored(P, e) \in Nat /\ ReplyStored(P, e)' \in Nat
      /\ ReplyStored(P, e)' = ReplyStored(P, e)
           + (IF h[1] = e THEN ReplyIn(q, {"quote", "filter", "done"}) - ReplyIn(replyAt[h],
             {"quote", "filter", "done"}) ELSE 0)
  BY <1>1, <1>3 DEF ReplyStored
<1>5. /\ ReplyFiltered(P, e) \in Nat /\ ReplyFiltered(P, e)' \in Nat
      /\ ReplyFiltered(P, e)' = ReplyFiltered(P, e)
           + (IF h[1] = e THEN ReplyIn(q, {"filter", "done"}) - ReplyIn(replyAt[h], {"filter", "done"}) ELSE 0)
  BY <1>1, <1>3 DEF ReplyFiltered
<1>6. /\ ReplyOpened(P, e) \in Nat /\ ReplyOpened(P, e)' \in Nat
      /\ ReplyOpened(P, e)' = ReplyOpened(P, e)
           + (IF h[1] = e THEN ReplyIn(q, ReplyOpen) - ReplyIn(replyAt[h], ReplyOpen) ELSE 0)
  BY <1>1, <1>3 DEF ReplyOpened
<1> QED
  BY <1>4, <1>5, <1>6

\* What is counted is finite.
LEMMA ReplyCountersAreNumbers ==
    ASSUME NEW P, Replies(P)!ConstantsAssumption
    PROVE  \A e : /\ IsFiniteSet(ReplyTook(P, e)) /\ ReplyTaker(P, e) \in Nat
                       /\ IsFiniteSet(ReplyTook(P, e)') /\ ReplyTaker(P, e)' \in Nat
                  /\ IsFiniteSet(ReplyHolding(P, e)) /\ ReplyHeld(P, e) \in Nat
                  /\ IsFiniteSet(ReplyHolding(P, e)') /\ ReplyHeld(P, e)' \in Nat
                  /\ ReplyStored(P, e) \in Nat /\ ReplyFiltered(P, e) \in Nat /\ ReplyOpened(P, e) \in Nat
<1> TAKE e
<1>1. IsFiniteSet(Replies(P)!Handlers) /\ IsFiniteSet(P.senders)
  BY ReplySame, ReplyHandlersFinite DEF Replies!ConstantsAssumption
<1>2. /\ ReplyTook(P, e) \subseteq Replies(P)!Handlers /\ ReplyTook(P, e)' \subseteq Replies(P)!Handlers
      /\ ReplyHolding(P, e) \subseteq P.senders /\ ReplyHolding(P, e)' \subseteq P.senders
  BY DEF ReplyTook, ReplyHolding
<1>3. \A A : ReplyStanding(P, replyAt, e, A) \subseteq Replies(P)!Handlers
  BY DEF ReplyStanding
<1>4. /\ IsFiniteSet(ReplyTook(P, e)) /\ Cardinality(ReplyTook(P, e)) \in Nat
      /\ IsFiniteSet(ReplyTook(P, e)') /\ Cardinality(ReplyTook(P, e)') \in Nat
  BY <1>1, <1>2, ReplyFewer
<1>5. /\ IsFiniteSet(ReplyHolding(P, e)) /\ Cardinality(ReplyHolding(P, e)) \in Nat
      /\ IsFiniteSet(ReplyHolding(P, e)') /\ Cardinality(ReplyHolding(P, e)') \in Nat
  BY <1>1, <1>2, ReplyFewer
<1>6. \A A : Cardinality(ReplyStanding(P, replyAt, e, A)) \in Nat
  BY <1>1, <1>3, ReplyFewer
<1> QED
  BY <1>4, <1>5, <1>6 DEF ReplyTaker, ReplyHeld, ReplyStored, ReplyFiltered, ReplyOpened

\* Induction over the naturals, of a set
LEMMA ReplyInduction ==
    ASSUME NEW S \in SUBSET Nat, 0 \in S, \A n \in S : n + 1 \in S
    PROVE  S = Nat
<1> SUFFICES ASSUME Nat \ S # {} PROVE FALSE
  OBVIOUS
<1>1. PICK n \in Nat \ S : \A m \in Nat \ S : ~ (<<m, n>> \in OpToRel(<, Nat))
  BY NatLessThanWellFounded, WFMin, Zenon
<1>2. \A m \in Nat \ S : ~ (m < n)
  BY <1>1 DEF OpToRel
<1>3. n # 0 /\ n - 1 \in Nat
  OBVIOUS
<1>4. n - 1 \in S
  BY <1>2, <1>3
<1> QED
  BY <1>3, <1>4

\* Ids of a list that grows
LEMMA ReplyIdsAppend ==
    ASSUME NEW P, NEW S, NEW s \in Seq(S), NEW e \in S
    PROVE  Append(s, e) \in Seq(S) /\ Len(Append(s, e)) = Len(s) + 1
             /\ Replies(P)!Ids(Append(s, e)) = Replies(P)!Ids(s) \cup {e}
<1> DEFINE t == Append(s, e)
<1>1. t \in Seq(S) /\ Len(t) = Len(s) + 1 /\ Len(s) \in Nat /\ DOMAIN t = 1..(Len(s) + 1)
        /\ DOMAIN s = 1..Len(s)
  OBVIOUS
<1>2. \A i \in 1..Len(s) : t[i] = s[i]
  OBVIOUS
<1>3. t[Len(s) + 1] = e
  OBVIOUS
<1> HIDE DEF t
<1>4. Replies(P)!Ids(t) \subseteq Replies(P)!Ids(s) \cup {e}
  <2> SUFFICES ASSUME NEW i \in 1..(Len(s) + 1) PROVE t[i] \in Replies(P)!Ids(s) \cup {e}
    BY <1>1 DEF Replies!Ids
  <2>1. i \in 1..Len(s) \/ i = Len(s) + 1
    BY <1>1
  <2> QED
    BY <1>1, <1>2, <1>3, <2>1 DEF Replies!Ids
<1>5. Replies(P)!Ids(s) \cup {e} \subseteq Replies(P)!Ids(t)
  <2>1. e \in Replies(P)!Ids(t)
    BY <1>1, <1>3 DEF Replies!Ids
  <2>2. ASSUME NEW i \in 1..Len(s) PROVE s[i] \in Replies(P)!Ids(t)
    BY <1>1, <1>2 DEF Replies!Ids
  <2> QED
    BY <1>1, <2>1, <2>2 DEF Replies!Ids
<1> QED
  BY <1>1, <1>4, <1>5 DEF t

\* Ids of a list that loses its oldest entry
LEMMA ReplyIdsTail ==
    ASSUME NEW P, NEW S, NEW s \in Seq(S), s # << >>
    PROVE  /\ Head(s) \in S /\ Tail(s) \in Seq(S) /\ Len(Tail(s)) = Len(s) - 1
           /\ Replies(P)!Ids(s) = {Head(s)} \cup Replies(P)!Ids(Tail(s))
<1>1. /\ Head(s) = s[1] /\ Tail(s) \in Seq(S) /\ Len(Tail(s)) = Len(s) - 1 /\ Len(s) \in Nat \ {0}
      /\ DOMAIN s = 1..Len(s) /\ DOMAIN Tail(s) = 1..(Len(s) - 1)
      /\ s[1] \in S
  OBVIOUS
<1>2. \A i \in 1..(Len(s) - 1) : Tail(s)[i] = s[i + 1]
  OBVIOUS
<1>3. Replies(P)!Ids(s) \subseteq {Head(s)} \cup Replies(P)!Ids(Tail(s))
  <2> SUFFICES ASSUME NEW i \in 1..Len(s) PROVE s[i] \in {Head(s)} \cup Replies(P)!Ids(Tail(s))
    BY <1>1 DEF Replies!Ids
  <2>1. CASE i = 1
    BY <1>1, <2>1
  <2>2. CASE i # 1
    <3>1. i - 1 \in 1..(Len(s) - 1) /\ (i - 1) + 1 = i
      BY <1>1, <2>2
    <3> QED
      BY <1>1, <1>2, <3>1 DEF Replies!Ids
  <2> QED
    BY <2>1, <2>2
<1>4. {Head(s)} \cup Replies(P)!Ids(Tail(s)) \subseteq Replies(P)!Ids(s)
  <2>1. Head(s) \in Replies(P)!Ids(s)
    BY <1>1 DEF Replies!Ids
  <2>2. ASSUME NEW i \in 1..(Len(s) - 1) PROVE Tail(s)[i] \in Replies(P)!Ids(s)
    <3>1. i + 1 \in 1..Len(s)
      BY <1>1
    <3> QED
      BY <1>1, <1>2, <3>1 DEF Replies!Ids
  <2> QED
    BY <1>1, <2>1, <2>2 DEF Replies!Ids
<1> QED
  BY <1>1, <1>3, <1>4

\* One step of Without, and the functions that have taken n of them
ReplyStep(ids, S, f, i) ==
         IF i = 0 THEN << >> ELSE IF ids[i] \in S THEN f[i - 1] ELSE Append(f[i - 1], ids[i])
ReplyTaken(ids, S, f, n) == f = [i \in 0..n |-> ReplyStep(ids, S, f, i)]

\* Such a function exists for every n.
LEMMA ReplyTakenExists ==
    ASSUME NEW ids, NEW S, NEW n \in Nat
    PROVE  \E f : ReplyTaken(ids, S, f, n)
<1> DEFINE N == {k \in Nat : \E f : ReplyTaken(ids, S, f, k)}
<1>1. 0 \in N
  <2> DEFINE f == [i \in 0..0 |-> << >>]
  <2>1. f = [i \in 0..0 |-> ReplyStep(ids, S, f, i)]
    BY DEF ReplyStep
  <2> QED
    BY <2>1 DEF ReplyTaken
<1>2. ASSUME NEW k \in N PROVE k + 1 \in N
  <2>1. PICK f : ReplyTaken(ids, S, f, k)
    OBVIOUS
  <2> DEFINE g == [i \in 0..(k + 1) |-> IF i <= k THEN f[i] ELSE ReplyStep(ids, S, f, i)]
  <2>2. ASSUME NEW i \in 0..(k + 1) PROVE g[i] = ReplyStep(ids, S, g, i)
    <3>1. CASE i = 0
      BY <2>1, <3>1 DEF ReplyTaken, ReplyStep
    <3>2. CASE i # 0
      <4>1. i - 1 \in 0..k /\ g[i - 1] = f[i - 1]
        BY <3>2
      <4>2. ReplyStep(ids, S, g, i) = ReplyStep(ids, S, f, i)
        BY <4>1 DEF ReplyStep
      <4>3. CASE i <= k
        <5>1. f[i] = ReplyStep(ids, S, f, i)
          BY <2>1, <4>3 DEF ReplyTaken
        <5> QED
          BY <4>2, <4>3, <5>1
      <4>4. CASE ~(i <= k)
        BY <4>2, <4>4
      <4> QED
        BY <4>3, <4>4
    <3> QED
      BY <3>1, <3>2
  <2>3. g = [i \in 0..(k + 1) |-> ReplyStep(ids, S, g, i)]
    BY <2>2, Zenon
  <2>4. ReplyTaken(ids, S, g, k + 1)
    BY <2>3, Zenon DEF ReplyTaken
  <2> HIDE DEF g
  <2> QED
    BY <2>4
<1>3. N = Nat
  <2> HIDE DEF N
  <2>1. N \in SUBSET Nat
    BY DEF N
  <2> QED
    BY <1>1, <1>2, <2>1, ReplyInduction
<1> QED
  BY <1>3

\* What is left of ids without the members of S
LEMMA ReplyWithoutIs ==
    ASSUME NEW P, NEW X, NEW ids \in Seq(X), NEW S
    PROVE  \A rest : rest = Replies(P)!Without(ids, S) =>
              /\ rest \in Seq(X) /\ Len(rest) <= Len(ids)
              /\ Replies(P)!Ids(rest) = Replies(P)!Ids(ids) \ S
<1> DEFINE f == CHOOSE f : f = [i \in 0..Len(ids) |->
                IF i = 0 THEN << >> ELSE IF ids[i] \in S THEN f[i - 1] ELSE Append(f[i - 1], ids[i])]
<1>0. Replies(P)!Without(ids, S) = f[Len(ids)]
  BY DEF Replies!Without
<1>1. f = [i \in 0..Len(ids) |-> ReplyStep(ids, S, f, i)]
  <2>1. Len(ids) \in Nat
    OBVIOUS
  <2>2. \E g : g = [i \in 0..Len(ids) |->
                IF i = 0 THEN << >> ELSE IF ids[i] \in S THEN g[i - 1] ELSE Append(g[i - 1], ids[i])]
    <3>1. PICK g : ReplyTaken(ids, S, g, Len(ids))
      BY <2>1, ReplyTakenExists, Zenon
    <3>2. g = [i \in 0..Len(ids) |->
                IF i = 0 THEN << >> ELSE IF ids[i] \in S THEN g[i - 1] ELSE Append(g[i - 1], ids[i])]
      BY <3>1, Zenon DEF ReplyTaken, ReplyStep
    <3> QED
      BY <3>2, Zenon
  <2>3. f = [i \in 0..Len(ids) |->
                IF i = 0 THEN << >> ELSE IF ids[i] \in S THEN f[i - 1] ELSE Append(f[i - 1], ids[i])]
    BY <2>2, Zenon
  <2> QED
    BY <2>3, Zenon DEF ReplyStep
<1> HIDE DEF f
<1>2. Len(ids) \in Nat /\ \A i \in 1..Len(ids) : ids[i] \in X
  OBVIOUS
<1> DEFINE Upto(n) == {ids[i] : i \in 1..n}
           Good(n) == n <= Len(ids) => /\ f[n] \in Seq(X) /\ Len(f[n]) <= n
                                       /\ Replies(P)!Ids(f[n]) = Upto(n) \ S
           N == {n \in Nat : Good(n)}
<1>3. 0 \in N
  <2>1. f[0] = << >>
    BY <1>1, <1>2 DEF ReplyStep
  <2>2. Replies(P)!Ids(<< >>) = {} /\ Upto(0) = {} /\ << >> \in Seq(X) /\ Len(<< >>) = 0
    BY DEF Replies!Ids
  <2>3. Good(0)
    BY <2>1, <2>2
  <2> HIDE DEF Good
  <2> QED
    BY <2>3
<1>4. ASSUME NEW n \in N PROVE n + 1 \in N
  <2> SUFFICES ASSUME n + 1 <= Len(ids)
               PROVE  /\ f[n + 1] \in Seq(X) /\ Len(f[n + 1]) <= n + 1
                      /\ Replies(P)!Ids(f[n + 1]) = Upto(n + 1) \ S
    OBVIOUS
  <2>1. n \in Nat /\ f[n] \in Seq(X) /\ Len(f[n]) <= n /\ Replies(P)!Ids(f[n]) = Upto(n) \ S
    BY <1>2
  <2>2. Upto(n + 1) = Upto(n) \cup {ids[n + 1]} /\ ids[n + 1] \in X
    BY <1>2, <2>1
  <2>3. f[n + 1] = IF ids[n + 1] \in S THEN f[n] ELSE Append(f[n], ids[n + 1])
    <3>1. n + 1 \in 0..Len(ids) /\ n + 1 # 0 /\ (n + 1) - 1 = n
      BY <1>2, <2>1
    <3> QED
      BY <1>1, <3>1 DEF ReplyStep
  <2> HIDE DEF Upto
  <2>4. CASE ids[n + 1] \in S
    BY <2>1, <2>2, <2>3, <2>4
  <2>5. CASE ids[n + 1] \notin S
    <3>1. /\ Append(f[n], ids[n + 1]) \in Seq(X) /\ Len(Append(f[n], ids[n + 1])) = Len(f[n]) + 1
          /\ Replies(P)!Ids(Append(f[n], ids[n + 1])) = Replies(P)!Ids(f[n]) \cup {ids[n + 1]}
      BY <2>1, <2>2, ReplyIdsAppend
    <3>2. Len(f[n]) \in Nat
      BY <2>1
    <3> QED
      BY <2>1, <2>2, <2>3, <2>5, <3>1, <3>2
  <2> QED
    BY <2>4, <2>5
<1>5. N = Nat
  <2> HIDE DEF N
  <2>1. N \in SUBSET Nat
    BY DEF N
  <2> QED
    BY <1>3, <1>4, <2>1, ReplyInduction
<1>6. Good(Len(ids))
  BY <1>2, <1>5
<1>7. Upto(Len(ids)) = Replies(P)!Ids(ids)
  BY DEF Replies!Ids
<1> QED
  BY <1>0, <1>2, <1>6, <1>7

\* No event has come and nothing was sent.
LEMMA ReplyInitIInv ==
  ASSUME NEW P, Replies(P)!ConstantsAssumption, Replies(P)!Init
  PROVE  ReplyIInv(P)
<1> USE DEF Replies!ConstantsAssumption
<1>1. Replies(P)!TypeOK
  <2>1. 0 \in Nat /\ 0 \in 0..P.retries
    OBVIOUS
  <2>2. dedup \in Seq(ReplyEvents) /\ Len(dedup) <= P.capacity
    BY DEF Replies!Init
  <2>3. local \in [P.senders -> [id : ReplyEvents \cup {NoValue}, ctr : Replies(P)!Handlers \cup {NoValue},
          seq : Nat]]
    <3>1. Replies(P)!Nothing \in [id : ReplyEvents \cup {NoValue},
            ctr : Replies(P)!Handlers \cup {NoValue}, seq : Nat]
      BY DEF Replies!Nothing
    <3> QED
      BY <3>1 DEF Replies!Init
  <2> QED
    BY <2>1, <2>2, <2>3 DEF Replies!Init, Replies!TypeOK
<1>2. ReplyShape(P)
  BY DEF Replies!Init, ReplyShape, Replies!Nothing
<1>3. \A e, A : "none" \notin A => ReplyStanding(P, replyAt, e, A) = {}
  BY DEF Replies!Init, ReplyStanding
<1>4. ReplyLineInv(P)
  <2>1. \A e \in ReplyEvents : ReplyHolding(P, e) = {}
    BY DEF Replies!Init, Replies!Nothing, ReplyHolding
  <2>2. \A e \in ReplyEvents : ReplyHeld(P, e) = 0
    BY <2>1, FS_EmptySet DEF ReplyHeld
  <2>3. \A e \in ReplyEvents : ReplyStored(P, e) = 0 /\ ReplyFiltered(P, e) = 0
    BY <1>3, FS_EmptySet DEF ReplyStored, ReplyFiltered
  <2> QED
    BY <2>2, <2>3 DEF Replies!Init, ReplyLineInv, ReplyLineOf, Replies!Nothing
<1>5. ReplyTakenInv(P)
  <2>1. \A e \in ReplyEvents : ReplyTook(P, e) = {} /\ ReplyStanding(P, replyAt, e, ReplyOpen) = {}
          /\ ReplyAllowed(P, e) = 0
    BY <1>3 DEF Replies!Init, ReplyTook, ReplyAllowed, Replies!Duplicate, Replies!Ids,
         ReplyOpen
  <2>2. \A e \in ReplyEvents : ReplyTaker(P, e) = 0 /\ ReplyOpened(P, e) = 0
    BY <2>1, FS_EmptySet DEF ReplyOpened, ReplyTaker
  <2> QED
    BY <2>1, <2>2 DEF Replies!Init, ReplyTakenInv, ReplyTakenOf
<1>6. ReplyNumberInv(P)
  BY DEF Replies!Init, ReplyNumberInv, Replies!Nothing
<1>7. ReplyAckInv(P)
  <2>1. \A e \in ReplyEvents : ReplyFiltered(P, e) = 0
    BY <1>3, FS_EmptySet DEF ReplyFiltered
  <2> QED
    BY <2>1 DEF Replies!Init, ReplyAckInv, ReplyAckOf
<1> QED
  BY <1>1, <1>2, <1>4, <1>5, <1>6, <1>7 DEF ReplyIInv

-----------------------------------------------------------------------------

\* An id that is taken had to be unknown, and may be taken once more when it is
\* known no longer.
LEMMA ReplyRememberAllows ==
    ASSUME NEW P, Replies(P)!ConstantsAssumption, Replies(P)!TypeOK, NEW e \in ReplyEvents,
             ~Replies(P)!Duplicate(e), Replies(P)!Remember(e)
    PROVE  /\ dedup' \in Seq(ReplyEvents) /\ Len(dedup') <= P.capacity /\ stale' \subseteq ReplyEvents
           /\ forgotten' \in [ReplyEvents -> Nat]
           /\ \A x \in ReplyEvents : /\ ReplyAllowed(P, x) \in Nat /\ ReplyAllowed(P, x)' \in Nat
                                    /\ ReplyAllowed(P, x)' >= ReplyAllowed(P, x) + (IF x = e THEN 1 ELSE 0)
<1> DEFINE full == Len(dedup) >= P.capacity
           kept == IF full THEN Tail(dedup) ELSE dedup
           rest == Replies(P)!Without(kept, {e})
<1>1. /\ dedup \in Seq(ReplyEvents) /\ Len(dedup) <= P.capacity /\ stale \subseteq ReplyEvents
      /\ forgotten \in [ReplyEvents -> Nat] /\ P.capacity \in Nat \ {0} /\ Len(dedup) \in Nat
  BY DEF Replies!ConstantsAssumption, Replies!TypeOK
<1>2. full => dedup # << >>
  BY <1>1
<1>3. /\ kept \in Seq(ReplyEvents) /\ Len(kept) < P.capacity /\ Len(kept) \in Nat
      /\ Replies(P)!Ids(kept) \subseteq Replies(P)!Ids(dedup)
      /\ full => Head(dedup) \in ReplyEvents /\ Replies(P)!Ids(dedup) = {Head(dedup)} \cup Replies(P)!Ids(kept)
      /\ ~full => kept = dedup
  <2>1. CASE full
    <3>1. /\ Head(dedup) \in ReplyEvents /\ Tail(dedup) \in Seq(ReplyEvents)
          /\ Len(Tail(dedup)) = Len(dedup) - 1
               /\ Replies(P)!Ids(dedup) = {Head(dedup)} \cup Replies(P)!Ids(Tail(dedup))
      BY <1>1, <1>2, <2>1, ReplyIdsTail
    <3>2. kept = Tail(dedup) /\ Len(dedup) - 1 < P.capacity /\ Len(dedup) - 1 \in Nat
      BY <1>1, <1>2, <2>1
    <3>3. full /\ kept = Tail(dedup)
      BY <2>1, <3>2
    <3> HIDE DEF full, kept
    <3> QED
      BY <3>1, <3>2, <3>3
  <2>2. CASE ~full
    BY <1>1, <2>2
  <2> QED
    BY <2>1, <2>2
<1> HIDE DEF kept
<1>4. /\ rest \in Seq(ReplyEvents) /\ Len(rest) <= Len(kept)
      /\ Replies(P)!Ids(rest) = Replies(P)!Ids(kept) \ {e}
  <2>1. kept \in Seq(ReplyEvents) /\ rest = Replies(P)!Without(kept, {e})
    BY <1>3
  <2> HIDE DEF rest
  <2>2. rest \in Seq(ReplyEvents) /\ Len(rest) <= Len(kept)
    BY <2>1, ReplyWithoutIs
  <2>3. Replies(P)!Ids(rest) = Replies(P)!Ids(kept) \ {e}
    BY <2>1, ReplyWithoutIs
  <2> QED
    BY <2>2, <2>3
<1> HIDE DEF rest
<1>5. /\ dedup' = Append(rest, e)
      /\ stale' = (IF full THEN stale \ {Head(dedup)} ELSE stale) \ {e}
      /\ forgotten' = Replies(P)!Count(forgotten, IF full
           /\ Head(dedup) \notin stale THEN {Head(dedup)} ELSE {})
  BY DEF Replies!Remember, kept, rest
<1>6. dedup' \in Seq(ReplyEvents) /\ Len(dedup') = Len(rest) + 1
        /\ Replies(P)!Ids(dedup') = Replies(P)!Ids(kept) \cup {e}
  BY <1>4, <1>5, ReplyIdsAppend
<1>7. Len(dedup') <= P.capacity
  <2>1. Len(rest) \in Nat
    BY <1>4
  <2> QED
    BY <1>1, <1>3, <1>4, <1>6, <2>1
<1>8. stale' \subseteq ReplyEvents /\ forgotten' \in [ReplyEvents -> Nat]
  BY <1>1, <1>5 DEF Replies!Count
<1>9. ASSUME NEW x \in ReplyEvents
      PROVE  /\ ReplyAllowed(P, x) \in Nat /\ ReplyAllowed(P, x)' \in Nat
             /\ ReplyAllowed(P, x)' >= ReplyAllowed(P, x) + (IF x = e THEN 1 ELSE 0)
  <2>1. forgotten[x] \in Nat /\ forgotten'[x] \in Nat /\ ReplyAllowed(P, x) \in Nat
          /\ ReplyAllowed(P, x)' \in Nat
    BY <1>1, <1>8 DEF ReplyAllowed
  <2>2. CASE x = e
    <3>1. forgotten'[x] >= forgotten[x]
      BY <1>1, <1>5, <2>1 DEF Replies!Count
    <3>2. Replies(P)!Duplicate(x)'
      BY <1>5, <1>6, <2>2 DEF Replies!Duplicate
    <3> QED
      BY <2>1, <2>2, <3>1, <3>2 DEF ReplyAllowed
  <2>3. CASE x # e /\ full /\ x = Head(dedup) /\ x \notin stale
    <3>1. forgotten'[x] = forgotten[x] + 1
      BY <1>1, <1>5, <2>3 DEF Replies!Count
    <3> QED
      BY <2>1, <2>3, <3>1 DEF ReplyAllowed
  <2>4. CASE x # e /\ ~(full /\ x = Head(dedup) /\ x \notin stale)
    <3>1. forgotten'[x] >= forgotten[x]
      BY <1>1, <1>5, <2>1 DEF Replies!Count
    <3>2. Replies(P)!Duplicate(x) => Replies(P)!Duplicate(x)'
      BY <1>3, <1>5, <1>6, <2>4 DEF Replies!Duplicate
    <3> QED
      BY <2>1, <2>4, <3>1, <3>2 DEF ReplyAllowed
  <2> QED
    BY <2>2, <2>3, <2>4
<1> QED
  BY <1>6, <1>7, <1>8, <1>9

\* As long as QQ's map stays as it is, ...
LEMMA ReplyAllowedStays ==
    ASSUME NEW P, Replies(P)!TypeOK, UNCHANGED Replies(P)!dedupVars
    PROVE  \A e \in ReplyEvents : ReplyAllowed(P, e) \in Nat /\ ReplyAllowed(P, e)' = ReplyAllowed(P, e)
BY DEF Replies!TypeOK, ReplyAllowed, Replies!Duplicate, Replies!dedupVars

\* ... or an id grows stale, or the stale ones go.
LEMMA ReplyAgeAllows ==
    ASSUME NEW P, Replies(P)!ConstantsAssumption, Replies(P)!TypeOK,
             (\E e \in ReplyEvents : Replies(P)!GrowStale(e)) \/ Replies(P)!dedupJanitor
    PROVE  /\ dedup' \in Seq(ReplyEvents) /\ Len(dedup') <= P.capacity /\ stale' \subseteq ReplyEvents
           /\ forgotten' \in [ReplyEvents -> Nat]
           /\ \A x \in ReplyEvents : ReplyAllowed(P, x) \in Nat /\ ReplyAllowed(P, x)' \in Nat
                /\ ReplyAllowed(P, x)' >= ReplyAllowed(P, x)
<1>1. /\ dedup \in Seq(ReplyEvents) /\ Len(dedup) <= P.capacity /\ stale \subseteq ReplyEvents
      /\ forgotten \in [ReplyEvents -> Nat] /\ P.capacity \in Nat \ {0} /\ Len(dedup) \in Nat
  BY DEF Replies!ConstantsAssumption, Replies!TypeOK
<1>2. ASSUME NEW e \in ReplyEvents, Replies(P)!GrowStale(e)
      PROVE  /\ dedup' \in Seq(ReplyEvents) /\ Len(dedup') <= P.capacity /\ stale' \subseteq ReplyEvents
             /\ forgotten' \in [ReplyEvents -> Nat]
             /\ \A x \in ReplyEvents : ReplyAllowed(P, x) \in Nat /\ ReplyAllowed(P, x)' \in Nat
                  /\ ReplyAllowed(P, x)' >= ReplyAllowed(P, x)
  <2>1. dedup' = dedup /\ stale' = stale \cup {e} /\ forgotten' = Replies(P)!Count(forgotten, {e})
    BY <1>2 DEF Replies!GrowStale
  <2>2. forgotten' \in [ReplyEvents -> Nat] /\ stale' \subseteq ReplyEvents
    BY <1>1, <2>1 DEF Replies!Count
  <2>3. ASSUME NEW x \in ReplyEvents PROVE ReplyAllowed(P, x) \in Nat /\ ReplyAllowed(P, x)' \in Nat
                 /\ ReplyAllowed(P, x)' >= ReplyAllowed(P, x)
    <3>1. forgotten[x] \in Nat /\ forgotten'[x] = forgotten[x] + (IF x = e THEN 1 ELSE 0)
      BY <1>1, <2>1 DEF Replies!Count
    <3>2. x # e => (Replies(P)!Duplicate(x)' <=> Replies(P)!Duplicate(x))
      BY <2>1 DEF Replies!Duplicate
    <3> QED
      BY <3>1, <3>2 DEF ReplyAllowed
  <2> QED
    BY <1>1, <2>1, <2>2, <2>3
<1>3. ASSUME Replies(P)!dedupJanitor
      PROVE  /\ dedup' \in Seq(ReplyEvents) /\ Len(dedup') <= P.capacity /\ stale' \subseteq ReplyEvents
             /\ forgotten' \in [ReplyEvents -> Nat]
             /\ \A x \in ReplyEvents : ReplyAllowed(P, x) \in Nat /\ ReplyAllowed(P, x)' \in Nat
                  /\ ReplyAllowed(P, x)' >= ReplyAllowed(P, x)
  <2>1. dedup' = Replies(P)!Without(dedup, stale) /\ stale' = {} /\ forgotten' = forgotten
    BY <1>3 DEF Replies!dedupJanitor
  <2>2. dedup' \in Seq(ReplyEvents) /\ Len(dedup') <= Len(dedup)
        /\ Replies(P)!Ids(dedup') = Replies(P)!Ids(dedup) \ stale
    <3>1. dedup \in Seq(ReplyEvents)
      BY <1>1
    <3>2. dedup' \in Seq(ReplyEvents) /\ Len(dedup') <= Len(dedup)
      BY <2>1, <3>1, ReplyWithoutIs
    <3>3. Replies(P)!Ids(dedup') = Replies(P)!Ids(dedup) \ stale
      BY <2>1, <3>1, ReplyWithoutIs
    <3> QED
      BY <3>2, <3>3
  <2>3. Len(dedup') <= P.capacity
    <3>1. Len(dedup') \in Nat
      BY <2>2
    <3> QED
      BY <1>1, <2>2, <3>1
  <2>4. ASSUME NEW x \in ReplyEvents PROVE ReplyAllowed(P, x) \in Nat
                 /\ ReplyAllowed(P, x)' = ReplyAllowed(P, x)
    <3>1. Replies(P)!Duplicate(x)' <=> Replies(P)!Duplicate(x)
      BY <2>1, <2>2 DEF Replies!Duplicate
    <3> QED
      BY <1>1, <2>1, <3>1 DEF ReplyAllowed
  <2> QED
    BY <1>1, <2>1, <2>2, <2>3, <2>4
<1> QED
  BY <1>2, <1>3

-----------------------------------------------------------------------------

\* What is counted of an event is a number.
LEMMA ReplyNumbers ==
    ASSUME NEW P, Replies(P)!TypeOK, NEW e \in ReplyEvents
    PROVE  /\ published[e] \in Nat /\ forgotten[e] \in Nat /\ marks[e] \in Nat
           /\ replyReplies[e] \in Nat /\ quotes[e] \in Nat /\ chat[e] \in P.chats
BY DEF Replies!TypeOK

\* Count adds one for each member of E.
LEMMA ReplyCountIs ==
    ASSUME NEW P, NEW f \in [ReplyEvents -> Nat], NEW E
    PROVE  /\ Replies(P)!Count(f, E) \in [ReplyEvents -> Nat]
           /\ \A e \in ReplyEvents : Replies(P)!Count(f, E)[e] = f[e] + (IF e \in E THEN 1 ELSE 0)
BY DEF Replies!Count

\* Result: done, another attempt, or failed.
LEMMA ReplyResultIs ==
    ASSUME NEW P, Replies(P)!ConstantsAssumption, Replies(P)!TypeOK, NEW s \in P.senders, NEW err,
             Replies(P)!Result(s, err)
    PROVE  /\ attempt' \in [P.senders -> 0..P.retries]
           /\ \E p \in {"done", "send", "failed"} : replyPc' = [replyPc EXCEPT ![s] = p]
<1>1. attempt \in [P.senders -> 0..P.retries] /\ P.retries \in Nat
  BY DEF Replies!TypeOK, Replies!ConstantsAssumption
<1>2. CASE attempt' = attempt
  BY <1>1, <1>2 DEF Replies!Result
<1>3. CASE attempt[s] < P.retries /\ attempt' = [attempt EXCEPT ![s] = @ + 1]
  <2>1. attempt[s] + 1 \in 0..P.retries
    BY <1>1, <1>3
  <2> QED
    BY <1>1, <1>3, <2>1 DEF Replies!Result
<1> QED
  BY <1>2, <1>3 DEF Replies!Result

\* What was shown stays shown.
LEMMA ReplyShowIs ==
    ASSUME NEW P, Replies(P)!TypeOK, NEW s \in P.senders, NEW o, Replies(P)!Show(s, o)
    PROVE  shownIn \subseteq shownIn' /\ shownIn' \subseteq P.chats /\ (o.shown => to[s] \in shownIn')
BY DEF Replies!TypeOK, Replies!Show

\* The event of a handler
LEMMA ReplyEventOf ==
  ASSUME NEW P, NEW h \in Replies(P)!Handlers
  PROVE  h[1] \in ReplyEvents
BY DEF Replies!Handlers

\* A delivery is one handler more that may store.
LEMMA ReplyDeliverKeeps ==
  ASSUME NEW P, Replies(P)!ConstantsAssumption, ReplyIInv(P), NEW h \in Replies(P)!Handlers,
           Replies(P)!Deliver(h)
  PROVE  ReplyIInv(P)'
<1> USE DEF Replies!Deliver, Replies!Goto, Replies!lineVars, Replies!qqVars, Replies!dedupVars,
              Replies!slackVars, Replies!inVars, Replies!seenVars, Replies!sendVars
<1>at. h[1] \in ReplyEvents /\ replyAt[h] = "none" /\ replyAt' = [replyAt EXCEPT ![h] = "new"]
         /\ "new" \in ReplyPlaces
  BY ReplyEventOf DEF ReplyPlaces
<1>count. \A e \in ReplyEvents : /\ ReplyStored(P, e) \in Nat /\ ReplyStored(P, e)' = ReplyStored(P, e)
                                /\ ReplyFiltered(P, e) \in Nat /\ ReplyFiltered(P, e)' = ReplyFiltered(P, e)
                                /\ ReplyOpened(P, e) \in Nat /\ ReplyOpened(P, e)' = ReplyOpened(P, e)
  <2>1. ReplyMovedTo(P, h, "new")
    BY <1>at, ReplyMoved DEF ReplyIInv
  <2> QED
    BY <1>at, <2>1 DEF ReplyMovedTo, ReplyIn, ReplyOpen
<1>1. Replies(P)!TypeOK'
  <2>1. replyAt' \in [Replies(P)!Handlers -> {"none", "new", "quote", "context", "counter", "filter", "done"}]
    BY <1>at DEF ReplyIInv, Replies!TypeOK
  <2>2. UNCHANGED <<chat, kind, published, Replies(P)!lineVars, Replies(P)!qqVars, Replies(P)!dedupVars,
          Replies(P)!slackVars, Replies(P)!sendVars>>
    OBVIOUS
  <2> HIDE DEF Replies!Deliver, Replies!Goto
  <2> QED
    BY <2>1, <2>2 DEF ReplyIInv, Replies!TypeOK
<1>2. ReplyShape(P)'
  BY <1>at, Replies(P)!ConstantsAssumption DEF ReplyIInv, Replies!TypeOK, ReplyShape,
       Replies!Nothing, Replies!Count, Replies!ConstantsAssumption
<1>3. ReplyLineInv(P)'
  <2>1. \A e \in ReplyEvents : ReplyHeld(P, e)' = ReplyHeld(P, e)
    BY  DEF ReplyHeld, ReplyHolding
  <2>2. ASSUME P.platform = "line", NEW e \in ReplyEvents PROVE ReplyLineOf(P, e)'
    <3>1. ReplyLineOf(P, e)
      BY <2>2 DEF ReplyIInv, ReplyLineInv
    <3>2. /\ replyReplies[e] \in Nat /\ quotes[e] \in Nat /\ chat[e] \in P.chats /\ ReplyHeld(P, e) \in Nat
          /\ ReplyStored(P, e) \in Nat /\ ReplyFiltered(P, e) \in Nat
      BY ReplyNumbers, ReplyCountersAreNumbers DEF ReplyIInv
    <3>3. chat'[e] = chat[e] /\ replyReplies'[e] = replyReplies[e] /\ quotes'[e] = quotes[e]
          /\ replyTokens' = replyTokens /\ quoteTokens' = quoteTokens
      OBVIOUS
    <3> QED
      BY <1>count, <2>1, <3>1, <3>2, <3>3 DEF ReplyLineOf
  <2>3. ASSUME P.platform = "line"
        PROVE  (/\ \A y \in P.senders : replyPc[y] = "reply" <=> local[y].id # NoValue
                /\ \A z \in P.chats : /\ replyTokens[z] # NoValue => chat[replyTokens[z]] = z
                                      /\ quoteTokens[z] # NoValue => chat[quoteTokens[z]] = z)'
    BY <1>at, <2>3, Replies(P)!ConstantsAssumption DEF ReplyIInv, Replies!TypeOK,
         ReplyLineInv, Replies!Nothing, Replies!ConstantsAssumption
  <2> QED
    BY <2>2, <2>3 DEF ReplyLineInv
<1>4. ReplyTakenInv(P)'
  <2>1. \A e \in ReplyEvents : ReplyAllowed(P, e) \in Nat /\ ReplyAllowed(P, e)' = ReplyAllowed(P, e)
    BY ReplyAllowedStays DEF ReplyIInv
  <2>2. ASSUME NEW e \in ReplyEvents PROVE ReplyTaker(P, e)' <= ReplyTaker(P, e)
    <3>1. ReplyTook(P, e)' \subseteq ReplyTook(P, e)
      BY <1>at, Replies(P)!ConstantsAssumption DEF ReplyIInv, Replies!TypeOK, ReplyShape,
           ReplyTook, ReplyOpen, ReplyTakenInv, ReplyNumberInv, Replies!ConstantsAssumption
    <3> QED
      BY <3>1, ReplyCountersAreNumbers, ReplyFewer DEF ReplyTaker
  <2>3. ASSUME P.platform = "qq", NEW e \in ReplyEvents PROVE ReplyTakenOf(P, e)'
    <3>1. ReplyTakenOf(P, e)
      BY <2>3 DEF ReplyIInv, ReplyTakenInv
    <3>2. /\ published[e] \in Nat /\ ReplyTaker(P, e) \in Nat /\ ReplyTaker(P, e)' \in Nat
               /\ ReplyOpened(P, e) \in Nat
      BY ReplyNumbers, ReplyCountersAreNumbers DEF ReplyIInv
    <3>3. published'[e] <= published[e] /\ published'[e] \in Nat
      BY <1>at, <3>2 DEF ReplyIInv, Replies!TypeOK, Replies!Count
    <3> QED
      BY <1>at, <1>count, <2>1, <2>2, <3>1, <3>2, <3>3 DEF ReplyTakenOf
  <2>4. ASSUME P.platform = "qq" PROVE (\A z \in P.chats : msgSeqCounters[z] # NoValue
                 => chat[msgSeqCounters[z][1]] = z)'
    BY <1>at, <2>4, Replies(P)!ConstantsAssumption DEF ReplyIInv, Replies!TypeOK,
         ReplyTakenInv, Replies!ConstantsAssumption
  <2> QED
    BY <2>3, <2>4 DEF ReplyTakenInv
<1>5. ReplyNumberInv(P)'
  BY <1>at, Replies(P)!ConstantsAssumption DEF ReplyIInv, Replies!TypeOK, ReplyNumberInv,
       ReplyShape, Replies!Nothing, Replies!ConstantsAssumption
<1>6. ReplyAckInv(P)'
  <2>1. ASSUME P.platform = "slack", NEW e \in ReplyEvents PROVE ReplyAckOf(P, e)'
    <3>1. ReplyAckOf(P, e)
      BY <2>1 DEF ReplyIInv, ReplyAckInv
    <3>2. marks[e] \in Nat /\ chat[e] \in P.chats /\ ReplyFiltered(P, e) \in Nat
      BY ReplyNumbers, ReplyCountersAreNumbers DEF ReplyIInv
    <3>3. chat'[e] = chat[e] /\ kind'[e] = kind[e] /\ marks'[e] = marks[e] /\ pendingAcks' = pendingAcks
          /\ shownIn \subseteq shownIn'
      BY  DEF Replies!Show
    <3> QED
      BY <1>count, <2>1, <3>1, <3>2, <3>3 DEF ReplyAckOf
  <2>2. ASSUME P.platform = "slack"
        PROVE  (/\ \A z \in P.chats :
                     pendingAcks[z] # NoValue => chat[pendingAcks[z]] = z /\ kind[pendingAcks[z]] # "refused"
                /\ \A y \in P.senders : replyPc[y] = "mark" => to[y] \in shownIn)'
    BY <1>at, <2>2, Replies(P)!ConstantsAssumption DEF ReplyIInv, Replies!TypeOK,
         ReplyAckInv, Replies!Show, Replies!ConstantsAssumption
  <2> QED
    BY <2>1, <2>2 DEF ReplyAckInv
<1> QED
  BY <1>1, <1>2, <1>3, <1>4, <1>5, <1>6 DEF ReplyIInv

\* A token is stored for the handler that stores it.
LEMMA ReplyLineTokenKeeps ==
  ASSUME NEW P, Replies(P)!ConstantsAssumption, ReplyIInv(P), NEW h \in Replies(P)!Handlers,
           Replies(P)!LineToken(h)
  PROVE  ReplyIInv(P)'
<1> USE DEF Replies!LineToken, Replies!Goto, Replies!lineVars, Replies!qqVars, Replies!dedupVars,
              Replies!slackVars, Replies!inVars, Replies!seenVars, Replies!sendVars
<1>at. h[1] \in ReplyEvents /\ replyAt[h] = "new" /\ replyAt' = [replyAt EXCEPT ![h] = "quote"]
         /\ "quote" \in ReplyPlaces
  BY ReplyEventOf DEF ReplyPlaces
<1>count. \A e \in ReplyEvents : /\ ReplyStored(P, e) \in Nat /\ ReplyStored(P, e)' = ReplyStored(P, e)
                                      + (IF h[1] = e THEN 1 ELSE 0)
                                /\ ReplyFiltered(P, e) \in Nat /\ ReplyFiltered(P, e)' = ReplyFiltered(P, e)
                                /\ ReplyOpened(P, e) \in Nat /\ ReplyOpened(P, e)' = ReplyOpened(P, e)
  <2>1. ReplyMovedTo(P, h, "quote")
    BY <1>at, ReplyMoved DEF ReplyIInv
  <2> QED
    BY <1>at, <2>1 DEF ReplyMovedTo, ReplyIn, ReplyOpen
<1>plat. P.platform = "line"
  BY DEF ReplyIInv, ReplyShape
<1>1. Replies(P)!TypeOK'
  <2>1. replyTokens' \in [P.chats -> ReplyEvents \cup {NoValue}]
    BY <1>at DEF ReplyIInv, Replies!TypeOK
  <2>2. replyAt' \in [Replies(P)!Handlers -> {"none", "new", "quote", "context", "counter", "filter", "done"}]
    BY <1>at DEF ReplyIInv, Replies!TypeOK
  <2>3. UNCHANGED <<chat, kind, published, quoteTokens, Replies(P)!qqVars, Replies(P)!dedupVars,
          Replies(P)!slackVars, Replies(P)!sendVars>>
    OBVIOUS
  <2> HIDE DEF Replies!LineToken, Replies!Goto
  <2> QED
    BY ZenonT(120), <2>1, <2>2, <2>3 DEF ReplyIInv, Replies!TypeOK
<1>2. ReplyShape(P)'
  BY <1>at, <1>plat, Replies(P)!ConstantsAssumption DEF ReplyIInv, Replies!TypeOK,
       ReplyShape, Replies!Nothing, Replies!Count, Replies!ConstantsAssumption
<1>3. ReplyLineInv(P)'
  <2>1. \A e \in ReplyEvents : ReplyHeld(P, e)' = ReplyHeld(P, e)
    BY  DEF ReplyHeld, ReplyHolding
  <2>2. ASSUME P.platform = "line", NEW e \in ReplyEvents PROVE ReplyLineOf(P, e)'
    <3>1. ReplyLineOf(P, e)
      BY <2>2 DEF ReplyIInv, ReplyLineInv
    <3>2. /\ replyReplies[e] \in Nat /\ quotes[e] \in Nat /\ chat[e] \in P.chats /\ ReplyHeld(P, e) \in Nat
          /\ ReplyStored(P, e) \in Nat /\ ReplyFiltered(P, e) \in Nat
      BY ReplyNumbers, ReplyCountersAreNumbers DEF ReplyIInv
    <3>3. /\ chat'[e] = chat[e] /\ replyReplies'[e] = replyReplies[e] /\ quotes'[e] = quotes[e]
          /\ h[1] # e => (replyTokens'[chat[e]] = e => replyTokens[chat[e]] = e)
          /\ quoteTokens' = quoteTokens
      BY <1>at, <3>2 DEF ReplyIInv, Replies!TypeOK
    <3> QED
      BY <1>count, <2>1, <3>1, <3>2, <3>3 DEF ReplyLineOf
  <2>3. ASSUME P.platform = "line"
        PROVE  (/\ \A y \in P.senders : replyPc[y] = "reply" <=> local[y].id # NoValue
                /\ \A z \in P.chats : /\ replyTokens[z] # NoValue => chat[replyTokens[z]] = z
                                      /\ quoteTokens[z] # NoValue => chat[quoteTokens[z]] = z)'
    BY <1>at, <2>3, Replies(P)!ConstantsAssumption DEF ReplyIInv, Replies!TypeOK,
         ReplyLineInv, Replies!Nothing, Replies!ConstantsAssumption
  <2> QED
    BY <2>2, <2>3 DEF ReplyLineInv
<1>4. ReplyTakenInv(P)'
  BY <1>plat DEF ReplyTakenInv
<1>5. ReplyNumberInv(P)'
  BY <1>plat DEF ReplyNumberInv
<1>6. ReplyAckInv(P)'
  BY <1>plat DEF ReplyAckInv
<1> QED
  BY <1>1, <1>2, <1>3, <1>4, <1>5, <1>6 DEF ReplyIInv

\* So is a quote.
LEMMA ReplyLineQuoteKeeps ==
  ASSUME NEW P, Replies(P)!ConstantsAssumption, ReplyIInv(P), NEW h \in Replies(P)!Handlers,
           Replies(P)!LineQuote(h)
  PROVE  ReplyIInv(P)'
<1> USE DEF Replies!LineQuote, Replies!Goto, Replies!lineVars, Replies!qqVars, Replies!dedupVars,
              Replies!slackVars, Replies!inVars, Replies!seenVars, Replies!sendVars
<1>at. h[1] \in ReplyEvents /\ replyAt[h] = "quote" /\ replyAt' = [replyAt EXCEPT ![h] = "filter"]
         /\ "filter" \in ReplyPlaces
  BY ReplyEventOf DEF ReplyPlaces
<1>count. \A e \in ReplyEvents : /\ ReplyStored(P, e) \in Nat /\ ReplyStored(P, e)' = ReplyStored(P, e)
                                /\ ReplyFiltered(P, e) \in Nat
                                     /\ ReplyFiltered(P, e)' = ReplyFiltered(P, e) + (IF h[1] = e THEN 1 ELSE 0)
                                /\ ReplyOpened(P, e) \in Nat /\ ReplyOpened(P, e)' = ReplyOpened(P, e)
                                     + (IF h[1] = e THEN 1 ELSE 0)
  <2>1. ReplyMovedTo(P, h, "filter")
    BY <1>at, ReplyMoved DEF ReplyIInv
  <2> QED
    BY <1>at, <2>1 DEF ReplyMovedTo, ReplyIn, ReplyOpen
<1>plat. P.platform = "line"
  BY DEF ReplyIInv, ReplyShape
<1>1. Replies(P)!TypeOK'
  <2>1. quoteTokens' \in [P.chats -> ReplyEvents \cup {NoValue}]
    BY <1>at DEF ReplyIInv, Replies!TypeOK
  <2>2. replyAt' \in [Replies(P)!Handlers -> {"none", "new", "quote", "context", "counter", "filter", "done"}]
    BY <1>at DEF ReplyIInv, Replies!TypeOK
  <2>3. UNCHANGED <<chat, kind, published, replyTokens, Replies(P)!qqVars, Replies(P)!dedupVars,
          Replies(P)!slackVars, Replies(P)!sendVars>>
    OBVIOUS
  <2> HIDE DEF Replies!LineQuote, Replies!Goto
  <2> QED
    BY ZenonT(120), <2>1, <2>2, <2>3 DEF ReplyIInv, Replies!TypeOK
<1>2. ReplyShape(P)'
  BY <1>at, <1>plat, Replies(P)!ConstantsAssumption DEF ReplyIInv, Replies!TypeOK,
       ReplyShape, Replies!Nothing, Replies!Count, Replies!ConstantsAssumption
<1>3. ReplyLineInv(P)'
  <2>1. \A e \in ReplyEvents : ReplyHeld(P, e)' = ReplyHeld(P, e)
    BY  DEF ReplyHeld, ReplyHolding
  <2>2. ASSUME P.platform = "line", NEW e \in ReplyEvents PROVE ReplyLineOf(P, e)'
    <3>1. ReplyLineOf(P, e)
      BY <2>2 DEF ReplyIInv, ReplyLineInv
    <3>2. /\ replyReplies[e] \in Nat /\ quotes[e] \in Nat /\ chat[e] \in P.chats /\ ReplyHeld(P, e) \in Nat
          /\ ReplyStored(P, e) \in Nat /\ ReplyFiltered(P, e) \in Nat
      BY ReplyNumbers, ReplyCountersAreNumbers DEF ReplyIInv
    <3>3. /\ chat'[e] = chat[e] /\ replyReplies'[e] = replyReplies[e] /\ quotes'[e] = quotes[e]
          /\ replyTokens' = replyTokens
          /\ h[1] # e => (quoteTokens'[chat[e]] = e => quoteTokens[chat[e]] = e)
      BY <1>at, <3>2 DEF ReplyIInv, Replies!TypeOK
    <3> QED
      BY <1>count, <2>1, <3>1, <3>2, <3>3 DEF ReplyLineOf
  <2>3. ASSUME P.platform = "line"
        PROVE  (/\ \A y \in P.senders : replyPc[y] = "reply" <=> local[y].id # NoValue
                /\ \A z \in P.chats : /\ replyTokens[z] # NoValue => chat[replyTokens[z]] = z
                                      /\ quoteTokens[z] # NoValue => chat[quoteTokens[z]] = z)'
    BY <1>at, <2>3, Replies(P)!ConstantsAssumption DEF ReplyIInv, Replies!TypeOK,
         ReplyLineInv, Replies!Nothing, Replies!ConstantsAssumption
  <2> QED
    BY <2>2, <2>3 DEF ReplyLineInv
<1>4. ReplyTakenInv(P)'
  BY <1>plat DEF ReplyTakenInv
<1>5. ReplyNumberInv(P)'
  BY <1>plat DEF ReplyNumberInv
<1>6. ReplyAckInv(P)'
  BY <1>plat DEF ReplyAckInv
<1> QED
  BY <1>1, <1>2, <1>3, <1>4, <1>5, <1>6 DEF ReplyIInv

\* An event is published by a handler that took it.
LEMMA ReplyHandleMessageKeeps ==
  ASSUME NEW P, Replies(P)!ConstantsAssumption, ReplyIInv(P), NEW h \in Replies(P)!Handlers,
           Replies(P)!HandleMessage(h)
  PROVE  ReplyIInv(P)'
<1> USE DEF Replies!HandleMessage, Replies!Goto, Replies!lineVars, Replies!qqVars, Replies!dedupVars,
              Replies!slackVars, Replies!inVars, Replies!seenVars, Replies!sendVars
<1>at. h[1] \in ReplyEvents /\ replyAt[h] = "filter" /\ replyAt' = [replyAt EXCEPT ![h] = "done"]
         /\ "done" \in ReplyPlaces
  BY ReplyEventOf DEF ReplyPlaces
<1>count. \A e \in ReplyEvents : /\ ReplyStored(P, e) \in Nat /\ ReplyStored(P, e)' = ReplyStored(P, e)
                                /\ ReplyFiltered(P, e) \in Nat /\ ReplyFiltered(P, e)' = ReplyFiltered(P, e)
                                /\ ReplyOpened(P, e) \in Nat
                                     /\ ReplyOpened(P, e)' = ReplyOpened(P, e) - (IF h[1] = e THEN 1 ELSE 0)
  <2>1. ReplyMovedTo(P, h, "done")
    BY <1>at, ReplyMoved DEF ReplyIInv
  <2> QED
    BY <1>at, <2>1 DEF ReplyMovedTo, ReplyIn, ReplyOpen
<1>eff. published \in [ReplyEvents -> Nat] /\ published' \in [ReplyEvents -> Nat]
  <2>1. published \in [ReplyEvents -> Nat]
    BY DEF ReplyIInv, Replies!TypeOK
  <2> QED
    BY <2>1 DEF Replies!Count
<1>1. Replies(P)!TypeOK'
  BY ZenonT(120), <1>at, <1>eff DEF ReplyIInv, Replies!TypeOK
<1>2. ReplyShape(P)'
  BY <1>at, <1>eff, Replies(P)!ConstantsAssumption DEF ReplyIInv, Replies!TypeOK,
       ReplyShape, Replies!Nothing, Replies!Count, Replies!ConstantsAssumption
<1>3. ReplyLineInv(P)'
  <2>1. \A e \in ReplyEvents : ReplyHeld(P, e)' = ReplyHeld(P, e)
    BY <1>eff DEF ReplyHeld, ReplyHolding
  <2>2. ASSUME P.platform = "line", NEW e \in ReplyEvents PROVE ReplyLineOf(P, e)'
    <3>1. ReplyLineOf(P, e)
      BY <2>2 DEF ReplyIInv, ReplyLineInv
    <3>2. /\ replyReplies[e] \in Nat /\ quotes[e] \in Nat /\ chat[e] \in P.chats /\ ReplyHeld(P, e) \in Nat
          /\ ReplyStored(P, e) \in Nat /\ ReplyFiltered(P, e) \in Nat
      BY ReplyNumbers, ReplyCountersAreNumbers DEF ReplyIInv
    <3>3. chat'[e] = chat[e] /\ replyReplies'[e] = replyReplies[e] /\ quotes'[e] = quotes[e]
          /\ replyTokens' = replyTokens /\ quoteTokens' = quoteTokens
      BY <1>eff
    <3> QED
      BY <1>count, <2>1, <3>1, <3>2, <3>3 DEF ReplyLineOf
  <2>3. ASSUME P.platform = "line"
        PROVE  (/\ \A y \in P.senders : replyPc[y] = "reply" <=> local[y].id # NoValue
                /\ \A z \in P.chats : /\ replyTokens[z] # NoValue => chat[replyTokens[z]] = z
                                      /\ quoteTokens[z] # NoValue => chat[quoteTokens[z]] = z)'
    BY <1>at, <1>eff, <2>3, Replies(P)!ConstantsAssumption DEF ReplyIInv, Replies!TypeOK,
         ReplyLineInv, Replies!Nothing, Replies!ConstantsAssumption
  <2> QED
    BY <2>2, <2>3 DEF ReplyLineInv
<1>4. ReplyTakenInv(P)'
  <2>1. \A e \in ReplyEvents : ReplyAllowed(P, e) \in Nat /\ ReplyAllowed(P, e)' = ReplyAllowed(P, e)
    BY <1>eff, ReplyAllowedStays DEF ReplyIInv
  <2>2. ASSUME NEW e \in ReplyEvents PROVE ReplyTaker(P, e)' <= ReplyTaker(P, e)
    <3>1. ReplyTook(P, e)' \subseteq ReplyTook(P, e)
      BY <1>at, <1>eff, Replies(P)!ConstantsAssumption DEF ReplyIInv, Replies!TypeOK,
           ReplyShape, ReplyTook, ReplyOpen, ReplyTakenInv, ReplyNumberInv,
           Replies!ConstantsAssumption
    <3> QED
      BY <3>1, ReplyCountersAreNumbers, ReplyFewer DEF ReplyTaker
  <2>3. ASSUME P.platform = "qq", NEW e \in ReplyEvents PROVE ReplyTakenOf(P, e)'
    <3>1. ReplyTakenOf(P, e)
      BY <2>3 DEF ReplyIInv, ReplyTakenInv
    <3>2. /\ published[e] \in Nat /\ ReplyTaker(P, e) \in Nat /\ ReplyTaker(P, e)' \in Nat
               /\ ReplyOpened(P, e) \in Nat
      BY ReplyNumbers, ReplyCountersAreNumbers DEF ReplyIInv
    <3>3. published'[e] <= published[e] + (IF h[1] = e THEN 1 ELSE 0) /\ published'[e] \in Nat
      BY <1>at, <1>eff, <3>2 DEF ReplyIInv, Replies!TypeOK, Replies!Count
    <3> QED
      BY <1>at, <1>count, <2>1, <2>2, <3>1, <3>2, <3>3 DEF ReplyTakenOf
  <2>4. ASSUME P.platform = "qq" PROVE (\A z \in P.chats : msgSeqCounters[z] # NoValue
                 => chat[msgSeqCounters[z][1]] = z)'
    BY <1>at, <1>eff, <2>4, Replies(P)!ConstantsAssumption DEF ReplyIInv, Replies!TypeOK,
         ReplyTakenInv, Replies!ConstantsAssumption
  <2> QED
    BY <2>3, <2>4 DEF ReplyTakenInv
<1>5. ReplyNumberInv(P)'
  BY <1>at, <1>eff, Replies(P)!ConstantsAssumption DEF ReplyIInv, Replies!TypeOK,
       ReplyNumberInv, ReplyShape, Replies!Nothing, Replies!ConstantsAssumption
<1>6. ReplyAckInv(P)'
  <2>1. ASSUME P.platform = "slack", NEW e \in ReplyEvents PROVE ReplyAckOf(P, e)'
    <3>1. ReplyAckOf(P, e)
      BY <2>1 DEF ReplyIInv, ReplyAckInv
    <3>2. marks[e] \in Nat /\ chat[e] \in P.chats /\ ReplyFiltered(P, e) \in Nat
      BY ReplyNumbers, ReplyCountersAreNumbers DEF ReplyIInv
    <3>3. chat'[e] = chat[e] /\ kind'[e] = kind[e] /\ marks'[e] = marks[e] /\ pendingAcks' = pendingAcks
          /\ shownIn \subseteq shownIn'
      BY <1>eff DEF Replies!Show
    <3> QED
      BY <1>count, <2>1, <3>1, <3>2, <3>3 DEF ReplyAckOf
  <2>2. ASSUME P.platform = "slack"
        PROVE  (/\ \A z \in P.chats :
                     pendingAcks[z] # NoValue => chat[pendingAcks[z]] = z /\ kind[pendingAcks[z]] # "refused"
                /\ \A y \in P.senders : replyPc[y] = "mark" => to[y] \in shownIn)'
    BY <1>at, <1>eff, <2>2, Replies(P)!ConstantsAssumption DEF ReplyIInv, Replies!TypeOK,
         ReplyAckInv, Replies!Show, Replies!ConstantsAssumption
  <2> QED
    BY <2>1, <2>2 DEF ReplyAckInv
<1> QED
  BY <1>1, <1>2, <1>3, <1>4, <1>5, <1>6 DEF ReplyIInv

\* The id is stored before the counter: nothing is counted yet.
LEMMA ReplyQQContextKeeps ==
  ASSUME NEW P, Replies(P)!ConstantsAssumption, ReplyIInv(P), NEW h \in Replies(P)!Handlers,
           Replies(P)!QQContext(h)
  PROVE  ReplyIInv(P)'
<1> USE DEF Replies!QQContext, Replies!Goto, Replies!lineVars, Replies!qqVars, Replies!dedupVars,
              Replies!slackVars, Replies!inVars, Replies!seenVars, Replies!sendVars
<1>at. h[1] \in ReplyEvents /\ replyAt[h] = "context" /\ replyAt' = [replyAt EXCEPT ![h] = "counter"]
         /\ "counter" \in ReplyPlaces
  BY ReplyEventOf DEF ReplyPlaces
<1>count. \A e \in ReplyEvents : /\ ReplyStored(P, e) \in Nat /\ ReplyStored(P, e)' = ReplyStored(P, e)
                                /\ ReplyFiltered(P, e) \in Nat /\ ReplyFiltered(P, e)' = ReplyFiltered(P, e)
                                /\ ReplyOpened(P, e) \in Nat /\ ReplyOpened(P, e)' = ReplyOpened(P, e)
  <2>1. ReplyMovedTo(P, h, "counter")
    BY <1>at, ReplyMoved DEF ReplyIInv
  <2> QED
    BY <1>at, <2>1 DEF ReplyMovedTo, ReplyIn, ReplyOpen
<1>plat. P.platform = "qq"
  BY DEF ReplyIInv, ReplyShape
<1>1. Replies(P)!TypeOK'
  <2>1. lastMsgID' \in [P.chats -> ReplyEvents \cup {NoValue}]
    BY <1>at DEF ReplyIInv, Replies!TypeOK
  <2>2. replyAt' \in [Replies(P)!Handlers -> {"none", "new", "quote", "context", "counter", "filter", "done"}]
    BY <1>at DEF ReplyIInv, Replies!TypeOK
  <2>3. UNCHANGED <<chat, kind, published, Replies(P)!lineVars, msgSeqCounters, seqs, Replies(P)!dedupVars,
          Replies(P)!slackVars, Replies(P)!sendVars>>
    OBVIOUS
  <2> HIDE DEF Replies!QQContext, Replies!Goto
  <2> QED
    BY ZenonT(120), <2>1, <2>2, <2>3 DEF ReplyIInv, Replies!TypeOK
<1>2. ReplyShape(P)'
  BY <1>at, <1>plat, Replies(P)!ConstantsAssumption DEF ReplyIInv, Replies!TypeOK,
       ReplyShape, Replies!Nothing, Replies!Count, Replies!ConstantsAssumption
<1>3. ReplyLineInv(P)'
  BY <1>plat DEF ReplyLineInv
<1>4. ReplyTakenInv(P)'
  <2>1. \A e \in ReplyEvents : ReplyAllowed(P, e) \in Nat /\ ReplyAllowed(P, e)' = ReplyAllowed(P, e)
    BY ReplyAllowedStays DEF ReplyIInv
  <2>2. ASSUME NEW e \in ReplyEvents PROVE ReplyTaker(P, e)' <= ReplyTaker(P, e)
    <3>1. ReplyTook(P, e)' \subseteq ReplyTook(P, e)
      BY <1>at, Replies(P)!ConstantsAssumption DEF ReplyIInv, Replies!TypeOK, ReplyShape,
           ReplyTook, ReplyOpen, ReplyTakenInv, ReplyNumberInv, Replies!ConstantsAssumption
    <3> QED
      BY <3>1, ReplyCountersAreNumbers, ReplyFewer DEF ReplyTaker
  <2>3. ASSUME P.platform = "qq", NEW e \in ReplyEvents PROVE ReplyTakenOf(P, e)'
    <3>1. ReplyTakenOf(P, e)
      BY <2>3 DEF ReplyIInv, ReplyTakenInv
    <3>2. /\ published[e] \in Nat /\ ReplyTaker(P, e) \in Nat /\ ReplyTaker(P, e)' \in Nat
               /\ ReplyOpened(P, e) \in Nat
      BY ReplyNumbers, ReplyCountersAreNumbers DEF ReplyIInv
    <3>3. published'[e] <= published[e] /\ published'[e] \in Nat
      BY <1>at, <3>2 DEF ReplyIInv, Replies!TypeOK, Replies!Count
    <3> QED
      BY <1>at, <1>count, <2>1, <2>2, <3>1, <3>2, <3>3 DEF ReplyTakenOf
  <2>4. ASSUME P.platform = "qq" PROVE (\A z \in P.chats : msgSeqCounters[z] # NoValue
                 => chat[msgSeqCounters[z][1]] = z)'
    BY <1>at, <2>4, Replies(P)!ConstantsAssumption DEF ReplyIInv, Replies!TypeOK,
         ReplyTakenInv, Replies!ConstantsAssumption
  <2> QED
    BY <2>3, <2>4 DEF ReplyTakenInv
<1>5. ReplyNumberInv(P)'
  BY <1>at, <1>plat, Replies(P)!ConstantsAssumption DEF ReplyIInv, Replies!TypeOK,
       ReplyNumberInv, ReplyShape, Replies!Nothing, Replies!ConstantsAssumption
<1>6. ReplyAckInv(P)'
  BY <1>plat DEF ReplyAckInv
<1> QED
  BY <1>1, <1>2, <1>3, <1>4, <1>5, <1>6 DEF ReplyIInv

\* The counter is of a handler that has taken the event.
LEMMA ReplyQQCounterKeeps ==
  ASSUME NEW P, Replies(P)!ConstantsAssumption, ReplyIInv(P), NEW h \in Replies(P)!Handlers,
           Replies(P)!QQCounter(h)
  PROVE  ReplyIInv(P)'
<1> USE DEF Replies!QQCounter, Replies!Goto, Replies!lineVars, Replies!qqVars, Replies!dedupVars,
              Replies!slackVars, Replies!inVars, Replies!seenVars, Replies!sendVars
<1>at. h[1] \in ReplyEvents /\ replyAt[h] = "counter" /\ replyAt' = [replyAt EXCEPT ![h] = "filter"]
         /\ "filter" \in ReplyPlaces
  BY ReplyEventOf DEF ReplyPlaces
<1>count. \A e \in ReplyEvents : /\ ReplyStored(P, e) \in Nat /\ ReplyStored(P, e)' = ReplyStored(P, e)
                                      + (IF h[1] = e THEN 1 ELSE 0)
                                /\ ReplyFiltered(P, e) \in Nat
                                     /\ ReplyFiltered(P, e)' = ReplyFiltered(P, e) + (IF h[1] = e THEN 1 ELSE 0)
                                /\ ReplyOpened(P, e) \in Nat /\ ReplyOpened(P, e)' = ReplyOpened(P, e)
  <2>1. ReplyMovedTo(P, h, "filter")
    BY <1>at, ReplyMoved DEF ReplyIInv
  <2> QED
    BY <1>at, <2>1 DEF ReplyMovedTo, ReplyIn, ReplyOpen
<1>plat. P.platform = "qq"
  BY DEF ReplyIInv, ReplyShape
<1>1. Replies(P)!TypeOK'
  <2>1. msgSeqCounters' \in [P.chats -> Replies(P)!Handlers \cup {NoValue}]
    BY <1>at DEF ReplyIInv, Replies!TypeOK
  <2>2. replyAt' \in [Replies(P)!Handlers -> {"none", "new", "quote", "context", "counter", "filter", "done"}]
    BY <1>at DEF ReplyIInv, Replies!TypeOK
  <2>3. UNCHANGED <<chat, kind, published, Replies(P)!lineVars, lastMsgID, seqs, Replies(P)!dedupVars,
          Replies(P)!slackVars, Replies(P)!sendVars>>
    OBVIOUS
  <2> HIDE DEF Replies!QQCounter, Replies!Goto
  <2> QED
    BY <2>1, <2>2, <2>3 DEF ReplyIInv, Replies!TypeOK
<1>2. ReplyShape(P)'
  BY <1>at, <1>plat, Replies(P)!ConstantsAssumption DEF ReplyIInv, Replies!TypeOK,
       ReplyShape, Replies!Nothing, Replies!Count, Replies!ConstantsAssumption
<1>3. ReplyLineInv(P)'
  BY <1>plat DEF ReplyLineInv
<1>4. ReplyTakenInv(P)'
  <2>1. \A e \in ReplyEvents : ReplyAllowed(P, e) \in Nat /\ ReplyAllowed(P, e)' = ReplyAllowed(P, e)
    BY ReplyAllowedStays DEF ReplyIInv
  <2>2. ASSUME NEW e \in ReplyEvents PROVE ReplyTaker(P, e)' <= ReplyTaker(P, e)
    <3>1. ReplyTook(P, e)' \subseteq ReplyTook(P, e)
      BY <1>at, Replies(P)!ConstantsAssumption DEF ReplyIInv, Replies!TypeOK, ReplyShape,
           ReplyTook, ReplyOpen, ReplyTakenInv, ReplyNumberInv, Replies!ConstantsAssumption
    <3> QED
      BY <3>1, ReplyCountersAreNumbers, ReplyFewer DEF ReplyTaker
  <2>3. ASSUME P.platform = "qq", NEW e \in ReplyEvents PROVE ReplyTakenOf(P, e)'
    <3>1. ReplyTakenOf(P, e)
      BY <2>3 DEF ReplyIInv, ReplyTakenInv
    <3>2. /\ published[e] \in Nat /\ ReplyTaker(P, e) \in Nat /\ ReplyTaker(P, e)' \in Nat
               /\ ReplyOpened(P, e) \in Nat
      BY ReplyNumbers, ReplyCountersAreNumbers DEF ReplyIInv
    <3>3. published'[e] <= published[e] /\ published'[e] \in Nat
      BY <1>at, <3>2 DEF ReplyIInv, Replies!TypeOK, Replies!Count
    <3> QED
      BY <1>at, <1>count, <2>1, <2>2, <3>1, <3>2, <3>3 DEF ReplyTakenOf
  <2>4. ASSUME P.platform = "qq" PROVE (\A z \in P.chats : msgSeqCounters[z] # NoValue
                 => chat[msgSeqCounters[z][1]] = z)'
    BY <1>at, <2>4, Replies(P)!ConstantsAssumption DEF ReplyIInv, Replies!TypeOK,
         ReplyTakenInv, Replies!ConstantsAssumption
  <2> QED
    BY <2>3, <2>4 DEF ReplyTakenInv
<1>5. ReplyNumberInv(P)'
  BY <1>at, <1>plat, Replies(P)!ConstantsAssumption DEF ReplyIInv, Replies!TypeOK,
       ReplyNumberInv, ReplyShape, Replies!Nothing, Replies!ConstantsAssumption
<1>6. ReplyAckInv(P)'
  BY <1>plat DEF ReplyAckInv
<1> QED
  BY <1>1, <1>2, <1>3, <1>4, <1>5, <1>6 DEF ReplyIInv

\* The ack of an event whose sender is allowed
LEMMA ReplySlackMessageStoresKeeps ==
  ASSUME NEW P, Replies(P)!ConstantsAssumption, ReplyIInv(P), NEW h \in Replies(P)!Handlers,
           Replies(P)!SlackMessage(h), kind[h[1]] # "refused"
  PROVE  ReplyIInv(P)'
<1> USE DEF Replies!SlackMessage, Replies!Goto, Replies!lineVars, Replies!qqVars, Replies!dedupVars,
              Replies!slackVars, Replies!inVars, Replies!seenVars, Replies!sendVars
<1>at. h[1] \in ReplyEvents /\ replyAt[h] = "new" /\ replyAt' = [replyAt EXCEPT ![h] = "filter"]
         /\ "filter" \in ReplyPlaces
  BY ReplyEventOf DEF ReplyPlaces
<1>count. \A e \in ReplyEvents : /\ ReplyStored(P, e) \in Nat /\ ReplyStored(P, e)' = ReplyStored(P, e)
                                      + (IF h[1] = e THEN 1 ELSE 0)
                                /\ ReplyFiltered(P, e) \in Nat
                                     /\ ReplyFiltered(P, e)' = ReplyFiltered(P, e) + (IF h[1] = e THEN 1 ELSE 0)
                                /\ ReplyOpened(P, e) \in Nat /\ ReplyOpened(P, e)' = ReplyOpened(P, e)
                                     + (IF h[1] = e THEN 1 ELSE 0)
  <2>1. ReplyMovedTo(P, h, "filter")
    BY <1>at, ReplyMoved DEF ReplyIInv
  <2> QED
    BY <1>at, <2>1 DEF ReplyMovedTo, ReplyIn, ReplyOpen
<1>plat. P.platform = "slack"
  BY DEF ReplyIInv, ReplyShape
<1>eff. /\ pendingAcks' = [pendingAcks EXCEPT ![chat[h[1]]] = h[1]] /\ kind[h[1]] # "refused"
        /\ UNCHANGED <<chat, kind, published, Replies(P)!lineVars, Replies(P)!qqVars, Replies(P)!dedupVars,
             marks, Replies(P)!sendVars>>
        /\ pendingAcks \in [P.chats -> ReplyEvents \cup {NoValue}]
             /\ pendingAcks' \in [P.chats -> ReplyEvents \cup {NoValue}]
  BY <1>at DEF ReplyIInv, Replies!TypeOK
<1>un. UNCHANGED <<chat, kind, published, Replies(P)!lineVars, Replies(P)!qqVars, Replies(P)!dedupVars,
         marks, Replies(P)!sendVars>>
  OBVIOUS
<1>ty. pendingAcks' \in [P.chats -> ReplyEvents \cup {NoValue}]
  BY <1>eff
<1> HIDE DEF Replies!SlackMessage, Replies!Goto
<1>1. Replies(P)!TypeOK'
  BY ZenonT(120), <1>at, <1>un, <1>ty DEF ReplyIInv, Replies!TypeOK
<1>2. ReplyShape(P)'
  BY <1>at, <1>plat, <1>eff, Replies(P)!ConstantsAssumption DEF ReplyIInv, Replies!TypeOK,
       ReplyShape, Replies!Nothing, Replies!Count, Replies!ConstantsAssumption
<1>3. ReplyLineInv(P)'
  BY <1>plat DEF ReplyLineInv
<1>4. ReplyTakenInv(P)'
  BY <1>plat DEF ReplyTakenInv
<1>5. ReplyNumberInv(P)'
  BY <1>plat DEF ReplyNumberInv
<1>6. ReplyAckInv(P)'
  <2>1. ASSUME P.platform = "slack", NEW e \in ReplyEvents PROVE ReplyAckOf(P, e)'
    <3>1. ReplyAckOf(P, e)
      BY <2>1 DEF ReplyIInv, ReplyAckInv
    <3>2. marks[e] \in Nat /\ chat[e] \in P.chats /\ ReplyFiltered(P, e) \in Nat
      BY ReplyNumbers, ReplyCountersAreNumbers DEF ReplyIInv
    <3>3. /\ chat'[e] = chat[e] /\ kind'[e] = kind[e] /\ marks'[e] = marks[e] /\ shownIn' = shownIn
          /\ (IF pendingAcks'[chat[e]] = e THEN 1 ELSE 0) <=
                (IF pendingAcks[chat[e]] = e THEN 1 ELSE 0) + (IF h[1] = e THEN 1 ELSE 0)
      BY <1>at, <1>eff, <3>2
    <3> QED
      BY <1>count, <2>1, <3>1, <3>2, <3>3 DEF ReplyAckOf
  <2>2. ASSUME P.platform = "slack"
        PROVE  (/\ \A z \in P.chats :
                     pendingAcks[z] # NoValue => chat[pendingAcks[z]] = z /\ kind[pendingAcks[z]] # "refused"
                /\ \A y \in P.senders : replyPc[y] = "mark" => to[y] \in shownIn)'
    BY <1>at, <1>eff, <2>2, Replies(P)!ConstantsAssumption DEF ReplyIInv, Replies!TypeOK,
         ReplyAckInv, Replies!Show, Replies!ConstantsAssumption
  <2> QED
    BY <2>1, <2>2 DEF ReplyAckInv
<1> QED
  BY <1>1, <1>2, <1>3, <1>4, <1>5, <1>6 DEF ReplyIInv

\* A refused sender leaves no ack.
LEMMA ReplySlackMessageRefusedKeeps ==
  ASSUME NEW P, Replies(P)!ConstantsAssumption, ReplyIInv(P), NEW h \in Replies(P)!Handlers,
           Replies(P)!SlackMessage(h), kind[h[1]] = "refused"
  PROVE  ReplyIInv(P)'
<1> USE DEF Replies!SlackMessage, Replies!Goto, Replies!lineVars, Replies!qqVars, Replies!dedupVars,
              Replies!slackVars, Replies!inVars, Replies!seenVars, Replies!sendVars
<1>at. h[1] \in ReplyEvents /\ replyAt[h] = "new" /\ replyAt' = [replyAt EXCEPT ![h] = "done"]
         /\ "done" \in ReplyPlaces
  BY ReplyEventOf DEF ReplyPlaces
<1>count. \A e \in ReplyEvents : /\ ReplyStored(P, e) \in Nat /\ ReplyStored(P, e)' = ReplyStored(P, e)
                                      + (IF h[1] = e THEN 1 ELSE 0)
                                /\ ReplyFiltered(P, e) \in Nat
                                     /\ ReplyFiltered(P, e)' = ReplyFiltered(P, e) + (IF h[1] = e THEN 1 ELSE 0)
                                /\ ReplyOpened(P, e) \in Nat /\ ReplyOpened(P, e)' = ReplyOpened(P, e)
  <2>1. ReplyMovedTo(P, h, "done")
    BY <1>at, ReplyMoved DEF ReplyIInv
  <2> QED
    BY <1>at, <2>1 DEF ReplyMovedTo, ReplyIn, ReplyOpen
<1>plat. P.platform = "slack"
  BY DEF ReplyIInv, ReplyShape
<1>eff. UNCHANGED <<chat, kind, published, Replies(P)!lineVars, Replies(P)!qqVars, Replies(P)!dedupVars,
          marks, Replies(P)!sendVars, pendingAcks>>
  OBVIOUS
<1> HIDE DEF Replies!SlackMessage, Replies!Goto
<1>1. Replies(P)!TypeOK'
  BY <1>at, <1>eff, Replies(P)!ConstantsAssumption DEF ReplyIInv, Replies!TypeOK,
       Replies!Count, Replies!ConstantsAssumption
<1>2. ReplyShape(P)'
  BY <1>at, <1>plat, <1>eff, Replies(P)!ConstantsAssumption DEF ReplyIInv, Replies!TypeOK,
       ReplyShape, Replies!Nothing, Replies!Count, Replies!ConstantsAssumption
<1>3. ReplyLineInv(P)'
  BY <1>plat DEF ReplyLineInv
<1>4. ReplyTakenInv(P)'
  BY <1>plat DEF ReplyTakenInv
<1>5. ReplyNumberInv(P)'
  BY <1>plat DEF ReplyNumberInv
<1>6. ReplyAckInv(P)'
  <2>1. ASSUME P.platform = "slack", NEW e \in ReplyEvents PROVE ReplyAckOf(P, e)'
    <3>1. ReplyAckOf(P, e)
      BY <2>1 DEF ReplyIInv, ReplyAckInv
    <3>2. marks[e] \in Nat /\ chat[e] \in P.chats /\ ReplyFiltered(P, e) \in Nat
      BY ReplyNumbers, ReplyCountersAreNumbers DEF ReplyIInv
    <3>3. chat'[e] = chat[e] /\ kind'[e] = kind[e] /\ marks'[e] = marks[e] /\ pendingAcks' = pendingAcks
          /\ shownIn \subseteq shownIn'
      BY <1>eff DEF Replies!Show
    <3> QED
      BY <1>count, <2>1, <3>1, <3>2, <3>3 DEF ReplyAckOf
  <2>2. ASSUME P.platform = "slack"
        PROVE  (/\ \A z \in P.chats :
                     pendingAcks[z] # NoValue => chat[pendingAcks[z]] = z /\ kind[pendingAcks[z]] # "refused"
                /\ \A y \in P.senders : replyPc[y] = "mark" => to[y] \in shownIn)'
    BY <1>at, <1>eff, <2>2, Replies(P)!ConstantsAssumption DEF ReplyIInv, Replies!TypeOK,
         ReplyAckInv, Replies!Show, Replies!ConstantsAssumption
  <2> QED
    BY <2>1, <2>2 DEF ReplyAckInv
<1> QED
  BY <1>1, <1>2, <1>3, <1>4, <1>5, <1>6 DEF ReplyIInv

\* A command leaves no ack.
LEMMA ReplySlackCommandKeeps ==
  ASSUME NEW P, Replies(P)!ConstantsAssumption, ReplyIInv(P), NEW h \in Replies(P)!Handlers,
           Replies(P)!SlackCommand(h)
  PROVE  ReplyIInv(P)'
<1> USE DEF Replies!SlackCommand, Replies!Goto, Replies!lineVars, Replies!qqVars, Replies!dedupVars,
              Replies!slackVars, Replies!inVars, Replies!seenVars, Replies!sendVars
<1>at. h[1] \in ReplyEvents /\ replyAt[h] = "new" /\ replyAt' = [replyAt EXCEPT ![h] = "done"]
         /\ "done" \in ReplyPlaces
  BY ReplyEventOf DEF ReplyPlaces
<1>count. \A e \in ReplyEvents : /\ ReplyStored(P, e) \in Nat /\ ReplyStored(P, e)' = ReplyStored(P, e)
                                      + (IF h[1] = e THEN 1 ELSE 0)
                                /\ ReplyFiltered(P, e) \in Nat
                                     /\ ReplyFiltered(P, e)' = ReplyFiltered(P, e) + (IF h[1] = e THEN 1 ELSE 0)
                                /\ ReplyOpened(P, e) \in Nat /\ ReplyOpened(P, e)' = ReplyOpened(P, e)
  <2>1. ReplyMovedTo(P, h, "done")
    BY <1>at, ReplyMoved DEF ReplyIInv
  <2> QED
    BY <1>at, <2>1 DEF ReplyMovedTo, ReplyIn, ReplyOpen
<1>plat. P.platform = "slack"
  BY DEF ReplyIInv, ReplyShape
<1>eff. published \in [ReplyEvents -> Nat] /\ published' \in [ReplyEvents -> Nat]
  <2>1. published \in [ReplyEvents -> Nat]
    BY DEF ReplyIInv, Replies!TypeOK
  <2> QED
    BY <2>1 DEF Replies!Count
<1>1. Replies(P)!TypeOK'
  BY ZenonT(120), <1>at, <1>eff DEF ReplyIInv, Replies!TypeOK
<1>2. ReplyShape(P)'
  BY <1>at, <1>plat, <1>eff, Replies(P)!ConstantsAssumption DEF ReplyIInv, Replies!TypeOK,
       ReplyShape, Replies!Nothing, Replies!Count, Replies!ConstantsAssumption
<1>3. ReplyLineInv(P)'
  BY <1>plat DEF ReplyLineInv
<1>4. ReplyTakenInv(P)'
  BY <1>plat DEF ReplyTakenInv
<1>5. ReplyNumberInv(P)'
  BY <1>plat DEF ReplyNumberInv
<1>6. ReplyAckInv(P)'
  <2>1. ASSUME P.platform = "slack", NEW e \in ReplyEvents PROVE ReplyAckOf(P, e)'
    <3>1. ReplyAckOf(P, e)
      BY <2>1 DEF ReplyIInv, ReplyAckInv
    <3>2. marks[e] \in Nat /\ chat[e] \in P.chats /\ ReplyFiltered(P, e) \in Nat
      BY ReplyNumbers, ReplyCountersAreNumbers DEF ReplyIInv
    <3>3. chat'[e] = chat[e] /\ kind'[e] = kind[e] /\ marks'[e] = marks[e] /\ pendingAcks' = pendingAcks
          /\ shownIn \subseteq shownIn'
      BY <1>eff DEF Replies!Show
    <3> QED
      BY <1>count, <2>1, <3>1, <3>2, <3>3 DEF ReplyAckOf
  <2>2. ASSUME P.platform = "slack"
        PROVE  (/\ \A z \in P.chats :
                     pendingAcks[z] # NoValue => chat[pendingAcks[z]] = z /\ kind[pendingAcks[z]] # "refused"
                /\ \A y \in P.senders : replyPc[y] = "mark" => to[y] \in shownIn)'
    BY <1>at, <1>eff, <2>2, Replies(P)!ConstantsAssumption DEF ReplyIInv, Replies!TypeOK,
         ReplyAckInv, Replies!Show, Replies!ConstantsAssumption
  <2> QED
    BY <2>1, <2>2 DEF ReplyAckInv
<1> QED
  BY <1>1, <1>2, <1>3, <1>4, <1>5, <1>6 DEF ReplyIInv

\* A duplicate is dropped.
LEMMA ReplyQQDuplicateKeeps ==
  ASSUME NEW P, Replies(P)!ConstantsAssumption, ReplyIInv(P), NEW h \in Replies(P)!Handlers,
           Replies(P)!QQDedup(h), Replies(P)!Duplicate(h[1])
  PROVE  ReplyIInv(P)'
<1> USE DEF Replies!QQDedup, Replies!Goto, Replies!lineVars, Replies!qqVars, Replies!dedupVars,
              Replies!slackVars, Replies!inVars, Replies!seenVars, Replies!sendVars
<1>at. h[1] \in ReplyEvents /\ replyAt[h] = "new" /\ replyAt' = [replyAt EXCEPT ![h] = "done"]
         /\ "done" \in ReplyPlaces
  BY ReplyEventOf DEF ReplyPlaces
<1>count. \A e \in ReplyEvents : /\ ReplyStored(P, e) \in Nat /\ ReplyStored(P, e)' = ReplyStored(P, e)
                                      + (IF h[1] = e THEN 1 ELSE 0)
                                /\ ReplyFiltered(P, e) \in Nat
                                     /\ ReplyFiltered(P, e)' = ReplyFiltered(P, e) + (IF h[1] = e THEN 1 ELSE 0)
                                /\ ReplyOpened(P, e) \in Nat /\ ReplyOpened(P, e)' = ReplyOpened(P, e)
  <2>1. ReplyMovedTo(P, h, "done")
    BY <1>at, ReplyMoved DEF ReplyIInv
  <2> QED
    BY <1>at, <2>1 DEF ReplyMovedTo, ReplyIn, ReplyOpen
<1>plat. P.platform = "qq"
  BY DEF ReplyIInv, ReplyShape
<1>eff. UNCHANGED <<chat, kind, published, Replies(P)!lineVars, Replies(P)!qqVars, Replies(P)!dedupVars,
          Replies(P)!slackVars, Replies(P)!sendVars>>
  OBVIOUS
<1> HIDE DEF Replies!QQDedup, Replies!Goto
<1>1. Replies(P)!TypeOK'
  <2>1. replyAt' \in [Replies(P)!Handlers -> {"none", "new", "quote", "context", "counter", "filter", "done"}]
    BY <1>at DEF ReplyIInv, Replies!TypeOK
  <2>2. UNCHANGED <<chat, kind, published, Replies(P)!lineVars, Replies(P)!qqVars, Replies(P)!dedupVars,
          Replies(P)!slackVars, Replies(P)!sendVars>>
    BY <1>eff
  <2> QED
    BY <2>1, <2>2 DEF ReplyIInv, Replies!TypeOK
<1>2. ReplyShape(P)'
  BY <1>at, <1>plat, <1>eff, Replies(P)!ConstantsAssumption DEF ReplyIInv, Replies!TypeOK,
       ReplyShape, Replies!Nothing, Replies!Count, Replies!ConstantsAssumption
<1>3. ReplyLineInv(P)'
  BY <1>plat DEF ReplyLineInv
<1>4. ReplyTakenInv(P)'
  <2>1. \A e \in ReplyEvents : ReplyAllowed(P, e) \in Nat /\ ReplyAllowed(P, e)' = ReplyAllowed(P, e)
    BY <1>eff, ReplyAllowedStays DEF ReplyIInv
  <2>2. ASSUME NEW e \in ReplyEvents PROVE ReplyTaker(P, e)' <= ReplyTaker(P, e)
    <3>1. ReplyTook(P, e)' \subseteq ReplyTook(P, e)
      BY <1>at, <1>eff, Replies(P)!ConstantsAssumption DEF ReplyIInv, Replies!TypeOK,
           ReplyShape, ReplyTook, ReplyOpen, ReplyTakenInv, ReplyNumberInv,
           Replies!ConstantsAssumption
    <3> QED
      BY <3>1, ReplyCountersAreNumbers, ReplyFewer DEF ReplyTaker
  <2>3. ASSUME P.platform = "qq", NEW e \in ReplyEvents PROVE ReplyTakenOf(P, e)'
    <3>1. ReplyTakenOf(P, e)
      BY <2>3 DEF ReplyIInv, ReplyTakenInv
    <3>2. /\ published[e] \in Nat /\ ReplyTaker(P, e) \in Nat /\ ReplyTaker(P, e)' \in Nat
               /\ ReplyOpened(P, e) \in Nat
      BY ReplyNumbers, ReplyCountersAreNumbers DEF ReplyIInv
    <3>3. published'[e] <= published[e] /\ published'[e] \in Nat
      BY <1>at, <1>eff, <3>2 DEF ReplyIInv, Replies!TypeOK, Replies!Count
    <3> QED
      BY <1>at, <1>count, <2>1, <2>2, <3>1, <3>2, <3>3 DEF ReplyTakenOf
  <2>4. ASSUME P.platform = "qq" PROVE (\A z \in P.chats : msgSeqCounters[z] # NoValue
                 => chat[msgSeqCounters[z][1]] = z)'
    BY <1>at, <1>eff, <2>4, Replies(P)!ConstantsAssumption DEF ReplyIInv, Replies!TypeOK,
         ReplyTakenInv, Replies!ConstantsAssumption
  <2> QED
    BY <2>3, <2>4 DEF ReplyTakenInv
<1>5. ReplyNumberInv(P)'
  BY <1>at, <1>plat, <1>eff, Replies(P)!ConstantsAssumption DEF ReplyIInv, Replies!TypeOK,
       ReplyNumberInv, ReplyShape, Replies!Nothing, Replies!ConstantsAssumption
<1>6. ReplyAckInv(P)'
  BY <1>plat DEF ReplyAckInv
<1> QED
  BY <1>1, <1>2, <1>3, <1>4, <1>5, <1>6 DEF ReplyIInv

\* A push takes no token.
LEMMA ReplySendPushKeeps ==
  ASSUME NEW P, Replies(P)!ConstantsAssumption, ReplyIInv(P), NEW s \in P.senders, Replies(P)!sendPush(s)
  PROVE  ReplyIInv(P)'
<1> USE DEF Replies!sendPush, Replies!lineVars, Replies!qqVars, Replies!dedupVars, Replies!slackVars,
              Replies!inVars, Replies!seenVars, Replies!sendVars
<1>count. \A e \in ReplyEvents : /\ ReplyStored(P, e) \in Nat /\ ReplyStored(P, e)' = ReplyStored(P, e)
                                /\ ReplyFiltered(P, e) \in Nat /\ ReplyFiltered(P, e)' = ReplyFiltered(P, e)
                                /\ ReplyOpened(P, e) \in Nat /\ ReplyOpened(P, e)' = ReplyOpened(P, e)
  BY ReplyCountersAreNumbers DEF ReplyStored, ReplyFiltered, ReplyOpened
<1>plat. P.platform = "line"
  BY DEF ReplyIInv, ReplyShape
<1>r. PICK o \in Replies(P)!Outcomes, err \in {"nil", "temporary", "permanent"} : Replies(P)!Show(s, o)
        /\ Replies(P)!Result(s, err)
  BY Zenon
<1>eff. /\ replyPc[s] = "push" /\ attempt' \in [P.senders -> 0..P.retries]
        /\ shownIn' \subseteq P.chats
        /\ UNCHANGED <<to, local, replyReplies, quotes, accepted, posts, Replies(P)!inVars,
             Replies(P)!lineVars, Replies(P)!qqVars, Replies(P)!dedupVars, Replies(P)!slackVars>>
  BY <1>r, ReplyResultIs, ReplyShowIs DEF ReplyIInv
<1>p. PICK p \in {"done", "send", "failed"} : replyPc' = [replyPc EXCEPT ![s] = p]
  BY <1>r, ReplyResultIs DEF ReplyIInv
<1> HIDE DEF Replies!sendPush
<1>1. Replies(P)!TypeOK'
  BY <1>eff, <1>p, Replies(P)!ConstantsAssumption DEF ReplyIInv, Replies!TypeOK,
       Replies!Count, Replies!ConstantsAssumption
<1>2. ReplyShape(P)'
  BY <1>plat, <1>eff, <1>p, Replies(P)!ConstantsAssumption DEF ReplyIInv, Replies!TypeOK,
       ReplyShape, Replies!Nothing, Replies!Count, Replies!ConstantsAssumption
<1>3. ReplyLineInv(P)'
  <2>1. \A e \in ReplyEvents : ReplyHeld(P, e)' = ReplyHeld(P, e)
    BY <1>eff, <1>p DEF ReplyHeld, ReplyHolding
  <2>2. ASSUME P.platform = "line", NEW e \in ReplyEvents PROVE ReplyLineOf(P, e)'
    <3>1. ReplyLineOf(P, e)
      BY <2>2 DEF ReplyIInv, ReplyLineInv
    <3>2. /\ replyReplies[e] \in Nat /\ quotes[e] \in Nat /\ chat[e] \in P.chats /\ ReplyHeld(P, e) \in Nat
          /\ ReplyStored(P, e) \in Nat /\ ReplyFiltered(P, e) \in Nat
      BY ReplyNumbers, ReplyCountersAreNumbers DEF ReplyIInv
    <3>3. chat'[e] = chat[e] /\ replyReplies'[e] = replyReplies[e] /\ quotes'[e] = quotes[e]
          /\ replyTokens' = replyTokens /\ quoteTokens' = quoteTokens
      BY <1>eff, <1>p
    <3> QED
      BY <1>count, <2>1, <3>1, <3>2, <3>3 DEF ReplyLineOf
  <2>3. ASSUME P.platform = "line"
        PROVE  (/\ \A y \in P.senders : replyPc[y] = "reply" <=> local[y].id # NoValue
                /\ \A z \in P.chats : /\ replyTokens[z] # NoValue => chat[replyTokens[z]] = z
                                      /\ quoteTokens[z] # NoValue => chat[quoteTokens[z]] = z)'
    BY <1>eff, <1>p, <2>3, Replies(P)!ConstantsAssumption DEF ReplyIInv, Replies!TypeOK,
         ReplyLineInv, Replies!Nothing, Replies!ConstantsAssumption
  <2> QED
    BY <2>2, <2>3 DEF ReplyLineInv
<1>4. ReplyTakenInv(P)'
  BY <1>plat DEF ReplyTakenInv
<1>5. ReplyNumberInv(P)'
  BY <1>plat DEF ReplyNumberInv
<1>6. ReplyAckInv(P)'
  BY <1>plat DEF ReplyAckInv
<1> QED
  BY <1>1, <1>2, <1>3, <1>4, <1>5, <1>6 DEF ReplyIInv

\* LoadAndDelete: the quote is spent, and stored no more.
LEMMA ReplyLineLoadQuoteKeeps ==
  ASSUME NEW P, Replies(P)!ConstantsAssumption, ReplyIInv(P), NEW s \in P.senders, Replies(P)!LineLoadQuote(s)
  PROVE  ReplyIInv(P)'
<1> USE DEF Replies!LineLoadQuote, Replies!lineVars, Replies!qqVars, Replies!dedupVars, Replies!slackVars,
              Replies!inVars, Replies!seenVars, Replies!sendVars
<1>count. \A e \in ReplyEvents : /\ ReplyStored(P, e) \in Nat /\ ReplyStored(P, e)' = ReplyStored(P, e)
                                /\ ReplyFiltered(P, e) \in Nat /\ ReplyFiltered(P, e)' = ReplyFiltered(P, e)
                                /\ ReplyOpened(P, e) \in Nat /\ ReplyOpened(P, e)' = ReplyOpened(P, e)
  BY ReplyCountersAreNumbers DEF ReplyStored, ReplyFiltered, ReplyOpened
<1>plat. P.platform = "line"
  BY DEF ReplyIInv, ReplyShape
<1>eff. quotes \in [ReplyEvents -> Nat] /\ quotes' \in [ReplyEvents -> Nat]
  <2>1. quotes \in [ReplyEvents -> Nat]
    BY DEF ReplyIInv, Replies!TypeOK
  <2> QED
    BY <2>1 DEF Replies!Count
<1>1. Replies(P)!TypeOK'
  BY ZenonT(120), <1>eff DEF ReplyIInv, Replies!TypeOK
<1>2. ReplyShape(P)'
  BY <1>plat, <1>eff, Replies(P)!ConstantsAssumption DEF ReplyIInv, Replies!TypeOK,
       ReplyShape, Replies!Nothing, Replies!Count, Replies!ConstantsAssumption
<1>3. ReplyLineInv(P)'
  <2>1. \A e \in ReplyEvents : ReplyHeld(P, e)' = ReplyHeld(P, e)
    BY <1>eff DEF ReplyHeld, ReplyHolding
  <2>2. ASSUME P.platform = "line", NEW e \in ReplyEvents PROVE ReplyLineOf(P, e)'
    <3>1. ReplyLineOf(P, e)
      BY <2>2 DEF ReplyIInv, ReplyLineInv
    <3>2. /\ replyReplies[e] \in Nat /\ quotes[e] \in Nat /\ chat[e] \in P.chats /\ ReplyHeld(P, e) \in Nat
          /\ ReplyStored(P, e) \in Nat /\ ReplyFiltered(P, e) \in Nat
      BY ReplyNumbers, ReplyCountersAreNumbers DEF ReplyIInv
    <3>3. /\ chat'[e] = chat[e] /\ replyReplies'[e] = replyReplies[e] /\ replyTokens' = replyTokens
          /\ quotes'[e] = quotes[e] + (IF quoteTokens[to[s]] = e THEN 1 ELSE 0)
          /\ quoteTokens'[chat[e]] = IF chat[e] = to[s] THEN NoValue ELSE quoteTokens[chat[e]]
          /\ quoteTokens[to[s]] = e => chat[e] = to[s]
          /\ e # NoValue
      BY <1>eff, <2>2, <3>2, Replies(P)!ConstantsAssumption DEF ReplyIInv, Replies!TypeOK,
           ReplyLineInv, Replies!Count, Replies!ConstantsAssumption
    <3> QED
      BY <1>count, <2>1, <3>1, <3>2, <3>3 DEF ReplyLineOf
  <2>3. ASSUME P.platform = "line"
        PROVE  (/\ \A y \in P.senders : replyPc[y] = "reply" <=> local[y].id # NoValue
                /\ \A z \in P.chats : /\ replyTokens[z] # NoValue => chat[replyTokens[z]] = z
                                      /\ quoteTokens[z] # NoValue => chat[quoteTokens[z]] = z)'
    BY <1>eff, <2>3, Replies(P)!ConstantsAssumption DEF ReplyIInv, Replies!TypeOK,
         ReplyLineInv, Replies!Nothing, Replies!ConstantsAssumption
  <2> QED
    BY <2>2, <2>3 DEF ReplyLineInv
<1>4. ReplyTakenInv(P)'
  BY <1>plat DEF ReplyTakenInv
<1>5. ReplyNumberInv(P)'
  BY <1>plat DEF ReplyNumberInv
<1>6. ReplyAckInv(P)'
  BY <1>plat DEF ReplyAckInv
<1> QED
  BY <1>1, <1>2, <1>3, <1>4, <1>5, <1>6 DEF ReplyIInv

\* LoadAndDelete: the ack is spent, and stored no more.
LEMMA ReplySlackMarkKeeps ==
  ASSUME NEW P, Replies(P)!ConstantsAssumption, ReplyIInv(P), NEW s \in P.senders, Replies(P)!SlackMark(s)
  PROVE  ReplyIInv(P)'
<1> USE DEF Replies!SlackMark, Replies!lineVars, Replies!qqVars, Replies!dedupVars, Replies!slackVars,
              Replies!inVars, Replies!seenVars, Replies!sendVars
<1>count. \A e \in ReplyEvents : /\ ReplyStored(P, e) \in Nat /\ ReplyStored(P, e)' = ReplyStored(P, e)
                                /\ ReplyFiltered(P, e) \in Nat /\ ReplyFiltered(P, e)' = ReplyFiltered(P, e)
                                /\ ReplyOpened(P, e) \in Nat /\ ReplyOpened(P, e)' = ReplyOpened(P, e)
  BY ReplyCountersAreNumbers DEF ReplyStored, ReplyFiltered, ReplyOpened
<1>plat. P.platform = "slack"
  BY DEF ReplyIInv, ReplyShape
<1>eff. marks \in [ReplyEvents -> Nat] /\ marks' \in [ReplyEvents -> Nat]
  <2>1. marks \in [ReplyEvents -> Nat]
    BY DEF ReplyIInv, Replies!TypeOK
  <2> QED
    BY <2>1 DEF Replies!Count
<1>1. Replies(P)!TypeOK'
  <2>1. replyPc' \in [P.senders -> {"send", "reply", "push", "counter", "post", "mark", "done", "failed"}]
    BY DEF ReplyIInv, Replies!TypeOK
  <2>2. pendingAcks' \in [P.chats -> ReplyEvents \cup {NoValue}]
    BY DEF ReplyIInv, Replies!TypeOK
  <2>3. UNCHANGED <<to, attempt, local, Replies(P)!seenVars, Replies(P)!inVars, Replies(P)!lineVars,
          Replies(P)!qqVars, Replies(P)!dedupVars>>
    OBVIOUS
  <2> HIDE DEF Replies!SlackMark
  <2> QED
    BY ZenonT(120), <1>eff, <2>1, <2>2, <2>3 DEF ReplyIInv, Replies!TypeOK
<1>2. ReplyShape(P)'
  BY <1>plat, <1>eff, Replies(P)!ConstantsAssumption DEF ReplyIInv, Replies!TypeOK,
       ReplyShape, Replies!Nothing, Replies!Count, Replies!ConstantsAssumption
<1>3. ReplyLineInv(P)'
  BY <1>plat DEF ReplyLineInv
<1>4. ReplyTakenInv(P)'
  BY <1>plat DEF ReplyTakenInv
<1>5. ReplyNumberInv(P)'
  BY <1>plat DEF ReplyNumberInv
<1>6. ReplyAckInv(P)'
  <2>1. ASSUME P.platform = "slack", NEW e \in ReplyEvents PROVE ReplyAckOf(P, e)'
    <3>1. ReplyAckOf(P, e)
      BY <2>1 DEF ReplyIInv, ReplyAckInv
    <3>2. marks[e] \in Nat /\ chat[e] \in P.chats /\ ReplyFiltered(P, e) \in Nat
      BY ReplyNumbers, ReplyCountersAreNumbers DEF ReplyIInv
    <3>3. /\ chat'[e] = chat[e] /\ kind'[e] = kind[e] /\ shownIn' = shownIn
          /\ marks'[e] = marks[e] + (IF pendingAcks[to[s]] = e THEN 1 ELSE 0)
          /\ pendingAcks'[chat[e]] = IF chat[e] = to[s] THEN NoValue ELSE pendingAcks[chat[e]]
          /\ pendingAcks[to[s]] = e => chat[e] = to[s] /\ kind[e] # "refused" /\ chat[e] \in shownIn
          /\ e # NoValue
      BY <1>eff, <2>1, <3>2, Replies(P)!ConstantsAssumption DEF ReplyIInv, Replies!TypeOK,
           ReplyAckInv, Replies!Count, Replies!ConstantsAssumption
    <3> QED
      BY <1>count, <2>1, <3>1, <3>2, <3>3 DEF ReplyAckOf
  <2>2. ASSUME P.platform = "slack"
        PROVE  (/\ \A z \in P.chats :
                     pendingAcks[z] # NoValue => chat[pendingAcks[z]] = z /\ kind[pendingAcks[z]] # "refused"
                /\ \A y \in P.senders : replyPc[y] = "mark" => to[y] \in shownIn)'
    BY <1>eff, <2>2, Replies(P)!ConstantsAssumption DEF ReplyIInv, Replies!TypeOK,
         ReplyAckInv, Replies!Show, Replies!ConstantsAssumption
  <2> QED
    BY <2>1, <2>2 DEF ReplyAckInv
<1> QED
  BY <1>1, <1>2, <1>3, <1>4, <1>5, <1>6 DEF ReplyIInv

\* A send loads the id of its chat.
LEMMA ReplyQQLoadIDKeeps ==
  ASSUME NEW P, Replies(P)!ConstantsAssumption, ReplyIInv(P), NEW s \in P.senders, Replies(P)!QQLoadID(s)
  PROVE  ReplyIInv(P)'
<1> USE DEF Replies!QQLoadID, Replies!lineVars, Replies!qqVars, Replies!dedupVars, Replies!slackVars,
              Replies!inVars, Replies!seenVars, Replies!sendVars
<1>count. \A e \in ReplyEvents : /\ ReplyStored(P, e) \in Nat /\ ReplyStored(P, e)' = ReplyStored(P, e)
                                /\ ReplyFiltered(P, e) \in Nat /\ ReplyFiltered(P, e)' = ReplyFiltered(P, e)
                                /\ ReplyOpened(P, e) \in Nat /\ ReplyOpened(P, e)' = ReplyOpened(P, e)
  BY ReplyCountersAreNumbers DEF ReplyStored, ReplyFiltered, ReplyOpened
<1>plat. P.platform = "qq"
  BY DEF ReplyIInv, ReplyShape
<1>1. Replies(P)!TypeOK'
  BY ZenonT(120), Replies(P)!ConstantsAssumption DEF ReplyIInv, Replies!TypeOK, Replies!Count,
       Replies!ConstantsAssumption
<1>2. ReplyShape(P)'
  BY <1>plat, Replies(P)!ConstantsAssumption DEF ReplyIInv, Replies!TypeOK, ReplyShape,
       Replies!Nothing, Replies!Count, Replies!ConstantsAssumption
<1>3. ReplyLineInv(P)'
  BY <1>plat DEF ReplyLineInv
<1>4. ReplyTakenInv(P)'
  <2>1. \A e \in ReplyEvents : ReplyAllowed(P, e) \in Nat /\ ReplyAllowed(P, e)' = ReplyAllowed(P, e)
    BY ReplyAllowedStays DEF ReplyIInv
  <2>2. ASSUME NEW e \in ReplyEvents PROVE ReplyTaker(P, e)' <= ReplyTaker(P, e)
    <3>1. ReplyTook(P, e)' \subseteq ReplyTook(P, e)
      BY Replies(P)!ConstantsAssumption DEF ReplyIInv, Replies!TypeOK, ReplyShape,
           ReplyTook, ReplyOpen, ReplyTakenInv, ReplyNumberInv, Replies!ConstantsAssumption
    <3> QED
      BY <3>1, ReplyCountersAreNumbers, ReplyFewer DEF ReplyTaker
  <2>3. ASSUME P.platform = "qq", NEW e \in ReplyEvents PROVE ReplyTakenOf(P, e)'
    <3>1. ReplyTakenOf(P, e)
      BY <2>3 DEF ReplyIInv, ReplyTakenInv
    <3>2. /\ published[e] \in Nat /\ ReplyTaker(P, e) \in Nat /\ ReplyTaker(P, e)' \in Nat
               /\ ReplyOpened(P, e) \in Nat
      BY ReplyNumbers, ReplyCountersAreNumbers DEF ReplyIInv
    <3>3. published'[e] <= published[e] /\ published'[e] \in Nat
      BY <3>2 DEF ReplyIInv, Replies!TypeOK, Replies!Count
    <3> QED
      BY <1>count, <2>1, <2>2, <3>1, <3>2, <3>3 DEF ReplyTakenOf
  <2>4. ASSUME P.platform = "qq" PROVE (\A z \in P.chats : msgSeqCounters[z] # NoValue
                 => chat[msgSeqCounters[z][1]] = z)'
    BY <2>4, Replies(P)!ConstantsAssumption DEF ReplyIInv, Replies!TypeOK, ReplyTakenInv,
         Replies!ConstantsAssumption
  <2> QED
    BY <2>3, <2>4 DEF ReplyTakenInv
<1>5. ReplyNumberInv(P)'
  BY <1>plat, Replies(P)!ConstantsAssumption DEF ReplyIInv, Replies!TypeOK,
       ReplyNumberInv, ReplyShape, Replies!Nothing, Replies!ConstantsAssumption
<1>6. ReplyAckInv(P)'
  BY <1>plat DEF ReplyAckInv
<1> QED
  BY <1>1, <1>2, <1>3, <1>4, <1>5, <1>6 DEF ReplyIInv

\* Without a counter there is no number.
LEMMA ReplyQQNumberNoneKeeps ==
  ASSUME NEW P, Replies(P)!ConstantsAssumption, ReplyIInv(P), NEW s \in P.senders, Replies(P)!QQNumber(s),
           msgSeqCounters[to[s]] = NoValue
  PROVE  ReplyIInv(P)'
<1> USE DEF Replies!QQNumber, Replies!lineVars, Replies!qqVars, Replies!dedupVars, Replies!slackVars,
              Replies!inVars, Replies!seenVars, Replies!sendVars
<1>count. \A e \in ReplyEvents : /\ ReplyStored(P, e) \in Nat /\ ReplyStored(P, e)' = ReplyStored(P, e)
                                /\ ReplyFiltered(P, e) \in Nat /\ ReplyFiltered(P, e)' = ReplyFiltered(P, e)
                                /\ ReplyOpened(P, e) \in Nat /\ ReplyOpened(P, e)' = ReplyOpened(P, e)
  BY ReplyCountersAreNumbers DEF ReplyStored, ReplyFiltered, ReplyOpened
<1>plat. P.platform = "qq"
  BY DEF ReplyIInv, ReplyShape
<1>eff. /\ replyPc[s] = "counter" /\ replyPc' = [replyPc EXCEPT ![s] = "post"]
        /\ UNCHANGED <<seqs, local, to, attempt, Replies(P)!seenVars, Replies(P)!inVars,
             Replies(P)!lineVars, lastMsgID, msgSeqCounters, Replies(P)!dedupVars, Replies(P)!slackVars>>
  OBVIOUS
<1> HIDE DEF Replies!QQNumber
<1>1. Replies(P)!TypeOK'
  BY <1>eff, Replies(P)!ConstantsAssumption DEF ReplyIInv, Replies!TypeOK, Replies!Count,
       Replies!ConstantsAssumption
<1>2. ReplyShape(P)'
  BY <1>plat, <1>eff, Replies(P)!ConstantsAssumption DEF ReplyIInv, Replies!TypeOK,
       ReplyShape, Replies!Nothing, Replies!Count, Replies!ConstantsAssumption
<1>3. ReplyLineInv(P)'
  BY <1>plat DEF ReplyLineInv
<1>4. ReplyTakenInv(P)'
  <2>1. \A e \in ReplyEvents : ReplyAllowed(P, e) \in Nat /\ ReplyAllowed(P, e)' = ReplyAllowed(P, e)
    BY <1>eff, ReplyAllowedStays DEF ReplyIInv
  <2>2. ASSUME NEW e \in ReplyEvents PROVE ReplyTaker(P, e)' <= ReplyTaker(P, e)
    <3>1. ReplyTook(P, e)' \subseteq ReplyTook(P, e)
      BY <1>eff, Replies(P)!ConstantsAssumption DEF ReplyIInv, Replies!TypeOK, ReplyShape,
           ReplyTook, ReplyOpen, ReplyTakenInv, ReplyNumberInv, Replies!ConstantsAssumption
    <3> QED
      BY <3>1, ReplyCountersAreNumbers, ReplyFewer DEF ReplyTaker
  <2>3. ASSUME P.platform = "qq", NEW e \in ReplyEvents PROVE ReplyTakenOf(P, e)'
    <3>1. ReplyTakenOf(P, e)
      BY <2>3 DEF ReplyIInv, ReplyTakenInv
    <3>2. /\ published[e] \in Nat /\ ReplyTaker(P, e) \in Nat /\ ReplyTaker(P, e)' \in Nat
               /\ ReplyOpened(P, e) \in Nat
      BY ReplyNumbers, ReplyCountersAreNumbers DEF ReplyIInv
    <3>3. published'[e] <= published[e] /\ published'[e] \in Nat
      BY <1>eff, <3>2 DEF ReplyIInv, Replies!TypeOK, Replies!Count
    <3> QED
      BY <1>count, <2>1, <2>2, <3>1, <3>2, <3>3 DEF ReplyTakenOf
  <2>4. ASSUME P.platform = "qq" PROVE (\A z \in P.chats : msgSeqCounters[z] # NoValue
                 => chat[msgSeqCounters[z][1]] = z)'
    BY <1>eff, <2>4, Replies(P)!ConstantsAssumption DEF ReplyIInv, Replies!TypeOK,
         ReplyTakenInv, Replies!ConstantsAssumption
  <2> QED
    BY <2>3, <2>4 DEF ReplyTakenInv
<1>5. ReplyNumberInv(P)'
  BY <1>plat, <1>eff, Replies(P)!ConstantsAssumption DEF ReplyIInv, Replies!TypeOK,
       ReplyNumberInv, ReplyShape, Replies!Nothing, Replies!ConstantsAssumption
<1>6. ReplyAckInv(P)'
  BY <1>plat DEF ReplyAckInv
<1> QED
  BY <1>1, <1>2, <1>3, <1>4, <1>5, <1>6 DEF ReplyIInv

\* The next number of a counter was not given to anybody.
LEMMA ReplyQQNumberSomeKeeps ==
  ASSUME NEW P, Replies(P)!ConstantsAssumption, ReplyIInv(P), NEW s \in P.senders,
           NEW c \in Replies(P)!Handlers, Replies(P)!QQNumber(s), msgSeqCounters[to[s]] = c
  PROVE  ReplyIInv(P)'
<1> USE DEF Replies!QQNumber, Replies!lineVars, Replies!qqVars, Replies!dedupVars, Replies!slackVars,
              Replies!inVars, Replies!seenVars, Replies!sendVars
<1>count. \A e \in ReplyEvents : /\ ReplyStored(P, e) \in Nat /\ ReplyStored(P, e)' = ReplyStored(P, e)
                                /\ ReplyFiltered(P, e) \in Nat /\ ReplyFiltered(P, e)' = ReplyFiltered(P, e)
                                /\ ReplyOpened(P, e) \in Nat /\ ReplyOpened(P, e)' = ReplyOpened(P, e)
  BY ReplyCountersAreNumbers DEF ReplyStored, ReplyFiltered, ReplyOpened
<1>plat. P.platform = "qq"
  BY DEF ReplyIInv, ReplyShape
<1>eff. /\ replyPc[s] = "counter" /\ replyPc' = [replyPc EXCEPT ![s] = "post"]
        /\ seqs' = [seqs EXCEPT ![c] = seqs[c] + 1]
        /\ UNCHANGED <<to, attempt, Replies(P)!seenVars, Replies(P)!inVars, Replies(P)!lineVars, lastMsgID,
             msgSeqCounters, Replies(P)!dedupVars, Replies(P)!slackVars>>
  BY Replies(P)!ConstantsAssumption DEF Replies!ConstantsAssumption
<1>loc. /\ seqs \in [Replies(P)!Handlers -> Nat]
             /\ local \in [P.senders -> [id : ReplyEvents \cup {NoValue},
                  ctr : Replies(P)!Handlers \cup {NoValue}, seq : Nat]]
        /\ NoValue \notin Replies(P)!Handlers /\ NoValue \notin ReplyEvents
  BY Replies(P)!ConstantsAssumption DEF ReplyIInv, Replies!TypeOK,
       Replies!ConstantsAssumption
<1>lo. /\ local' = [local EXCEPT ![s] = [id |-> local[s].id, ctr |-> c, seq |-> seqs[c] + 1]]
       /\ local' \in [P.senders -> [id : ReplyEvents \cup {NoValue},
            ctr : Replies(P)!Handlers \cup {NoValue}, seq : Nat]]
  BY <1>loc
<1>own. c[1] \in ReplyEvents /\ chat[c[1]] = to[s] /\ to[s] \in P.chats
  BY <1>loc, <1>plat, ReplyEventOf DEF ReplyIInv, Replies!TypeOK, ReplyTakenInv
<1> HIDE DEF Replies!QQNumber
<1>1. Replies(P)!TypeOK'
  BY <1>eff, <1>loc, <1>lo, <1>own, Replies(P)!ConstantsAssumption DEF ReplyIInv,
       Replies!TypeOK, Replies!Count, Replies!ConstantsAssumption
<1>2. ReplyShape(P)'
  BY <1>plat, <1>eff, <1>loc, <1>lo, <1>own, Replies(P)!ConstantsAssumption DEF ReplyIInv,
       Replies!TypeOK, ReplyShape, Replies!Nothing, Replies!Count, Replies!ConstantsAssumption
<1>3. ReplyLineInv(P)'
  BY <1>plat DEF ReplyLineInv
<1>4. ReplyTakenInv(P)'
  <2>1. \A e \in ReplyEvents : ReplyAllowed(P, e) \in Nat /\ ReplyAllowed(P, e)' = ReplyAllowed(P, e)
    BY <1>eff, <1>loc, <1>lo, <1>own, ReplyAllowedStays DEF ReplyIInv
  <2>2. ASSUME NEW e \in ReplyEvents PROVE ReplyTaker(P, e)' <= ReplyTaker(P, e)
    <3>1. ReplyTook(P, e)' \subseteq ReplyTook(P, e)
      <4> SUFFICES ASSUME NEW g \in Replies(P)!Handlers, g[1] = e,
                          replyAt[g] \in ReplyOpen \/ seqs'[g] > 0 \/ msgSeqCounters[chat[e]] = g
                   PROVE  g \in ReplyTook(P, e)
        BY <1>eff DEF ReplyTook
      <4>1. g = c => g \in ReplyTook(P, e)
        BY <1>own DEF ReplyTook
      <4>2. g # c => g \in ReplyTook(P, e)
        BY <1>eff, <1>loc DEF ReplyTook
      <4> QED
        BY <4>1, <4>2
    <3> QED
      BY <3>1, ReplyCountersAreNumbers, ReplyFewer DEF ReplyTaker
  <2>3. ASSUME P.platform = "qq", NEW e \in ReplyEvents PROVE ReplyTakenOf(P, e)'
    <3>1. ReplyTakenOf(P, e)
      BY <2>3 DEF ReplyIInv, ReplyTakenInv
    <3>2. /\ published[e] \in Nat /\ ReplyTaker(P, e) \in Nat /\ ReplyTaker(P, e)' \in Nat
               /\ ReplyOpened(P, e) \in Nat
      BY ReplyNumbers, ReplyCountersAreNumbers DEF ReplyIInv
    <3>3. published'[e] <= published[e] /\ published'[e] \in Nat
      BY <1>eff, <1>loc, <1>lo, <1>own, <3>2 DEF ReplyIInv, Replies!TypeOK, Replies!Count
    <3> QED
      BY <1>count, <2>1, <2>2, <3>1, <3>2, <3>3 DEF ReplyTakenOf
  <2>4. ASSUME P.platform = "qq" PROVE (\A z \in P.chats : msgSeqCounters[z] # NoValue
                 => chat[msgSeqCounters[z][1]] = z)'
    BY <1>eff, <1>loc, <1>lo, <1>own, <2>4, Replies(P)!ConstantsAssumption DEF ReplyIInv,
         Replies!TypeOK, ReplyTakenInv, Replies!ConstantsAssumption
  <2> QED
    BY <2>3, <2>4 DEF ReplyTakenInv
<1>5. ReplyNumberInv(P)'
  <2>1. ReplyNumberInv(P) /\ s \in P.senders
    BY DEF ReplyIInv
  <2>2. /\ local'[s].ctr = c /\ local'[s].seq = seqs[c] + 1
        /\ \A t \in P.senders : t # s => local'[t] = local[t]
        /\ \A t \in P.senders : local[t].seq \in Nat /\ local[t].ctr \in Replies(P)!Handlers \cup {NoValue}
        /\ \A p \in posts : p.seq \in Nat /\ p.ctr \in Replies(P)!Handlers \cup {NoValue}
    BY <1>loc, <1>lo DEF ReplyIInv, Replies!TypeOK
  <2>3. seqs'[c] = seqs[c] + 1 /\ seqs[c] \in Nat /\ \A g \in Replies(P)!Handlers : g # c => seqs'[g] = seqs[g]
    BY <1>eff, <1>loc
  <2>4. \A g \in Replies(P)!Handlers : seqs[g] \in Nat /\ seqs'[g] \in Nat /\ seqs[g] <= seqs'[g]
    BY <1>loc, <2>3
  <2>5. \A t \in P.senders : /\ local'[t].ctr # NoValue => local'[t].seq \in 1..seqs'[local'[t].ctr]
                             /\ replyPc'[t] # "post" => local'[t].ctr = NoValue
    BY <1>plat, <1>eff, <1>loc, <2>1, <2>2, <2>3, <2>4 DEF ReplyNumberInv, ReplyIInv,
         Replies!TypeOK
  <2>6. \A p \in posts : p.ctr # NoValue => p.seq \in 1..seqs'[p.ctr]
    BY <1>plat, <1>loc, <2>1, <2>2, <2>4 DEF ReplyNumberInv
  <2>7. \A t \in P.senders : t # s /\ local[t].ctr = c => local[t].seq # seqs[c] + 1
    BY <1>plat, <1>loc, <2>1, <2>2, <2>3 DEF ReplyNumberInv
  <2>8. \A p \in posts : p.ctr = c => p.seq # seqs[c] + 1
    BY <1>plat, <1>loc, <2>1, <2>2, <2>3 DEF ReplyNumberInv
  <2>9. posts' = posts
    BY <1>eff
  <2> HIDE DEF Replies!qqVars, Replies!seenVars, Replies!sendVars
  <2>10. \A t, u \in P.senders :
            local'[t].ctr # NoValue /\ local'[u].ctr = local'[t].ctr /\ local'[t].seq = local'[u].seq => t = u
    BY <1>plat, <2>1, <2>2, <2>7 DEF ReplyNumberInv
  <2>11. \A t \in P.senders, p \in posts :
            local'[t].ctr # NoValue /\ p.ctr = local'[t].ctr => p.seq # local'[t].seq
    BY <1>plat, <2>1, <2>2, <2>8 DEF ReplyNumberInv
  <2> QED
    BY <1>plat, <2>1, <2>5, <2>6, <2>9, <2>10, <2>11 DEF ReplyNumberInv
<1>6. ReplyAckInv(P)'
  BY <1>plat DEF ReplyAckInv
<1> QED
  BY <1>1, <1>2, <1>3, <1>4, <1>5, <1>6 DEF ReplyIInv

\* An ignored event is remembered, and its handler ends.
LEMMA ReplyQQIgnoredKeeps ==
  ASSUME NEW P, Replies(P)!ConstantsAssumption, ReplyIInv(P), NEW h \in Replies(P)!Handlers,
           Replies(P)!QQDedup(h), ~Replies(P)!Duplicate(h[1]), kind[h[1]] = "ignored"
  PROVE  ReplyIInv(P)'
<1> USE DEF Replies!QQDedup, Replies!Goto, Replies!lineVars, Replies!qqVars, Replies!dedupVars,
              Replies!slackVars, Replies!inVars, Replies!seenVars, Replies!sendVars
<1>at. h[1] \in ReplyEvents /\ replyAt[h] = "new" /\ replyAt' = [replyAt EXCEPT ![h] = "done"]
         /\ "done" \in ReplyPlaces
  BY ReplyEventOf DEF ReplyPlaces
<1>count. \A e \in ReplyEvents : /\ ReplyStored(P, e) \in Nat /\ ReplyStored(P, e)' = ReplyStored(P, e)
                                      + (IF h[1] = e THEN 1 ELSE 0)
                                /\ ReplyFiltered(P, e) \in Nat
                                     /\ ReplyFiltered(P, e)' = ReplyFiltered(P, e) + (IF h[1] = e THEN 1 ELSE 0)
                                /\ ReplyOpened(P, e) \in Nat /\ ReplyOpened(P, e)' = ReplyOpened(P, e)
  <2>1. ReplyMovedTo(P, h, "done")
    BY <1>at, ReplyMoved DEF ReplyIInv
  <2> QED
    BY <1>at, <2>1 DEF ReplyMovedTo, ReplyIn, ReplyOpen
<1>plat. P.platform = "qq"
  BY DEF ReplyIInv, ReplyShape
<1>eff. UNCHANGED <<chat, kind, published, Replies(P)!lineVars, Replies(P)!qqVars, Replies(P)!slackVars,
          Replies(P)!sendVars>> /\ Replies(P)!Remember(h[1])
  OBVIOUS
<1>rem. /\ dedup' \in Seq(ReplyEvents) /\ Len(dedup') <= P.capacity /\ stale' \subseteq ReplyEvents
        /\ forgotten' \in [ReplyEvents -> Nat]
        /\ \A x \in ReplyEvents : /\ ReplyAllowed(P, x) \in Nat /\ ReplyAllowed(P, x)' \in Nat
                                 /\ ReplyAllowed(P, x)' >= ReplyAllowed(P, x) + (IF x = h[1] THEN 1 ELSE 0)
  BY <1>at, <1>eff, ReplyRememberAllows DEF ReplyIInv
<1> HIDE DEF Replies!QQDedup, Replies!Goto
<1>1. Replies(P)!TypeOK'
  BY ZenonT(120), <1>at, <1>eff, <1>rem DEF ReplyIInv, Replies!TypeOK
<1>2. ReplyShape(P)'
  BY <1>at, <1>plat, <1>eff DEF ReplyIInv, Replies!TypeOK, ReplyShape
<1>3. ReplyLineInv(P)'
  BY <1>plat DEF ReplyLineInv
<1>4. ReplyTakenInv(P)'
  <2>1. ASSUME NEW e \in ReplyEvents PROVE ReplyTaker(P, e)' <= ReplyTaker(P, e) + (IF h[1] = e THEN 1 ELSE 0)
    <3>1. ReplyTook(P, e)' \subseteq IF h[1] = e THEN ReplyTook(P, e) \cup {h} ELSE ReplyTook(P, e)
      BY <1>at, <1>eff DEF ReplyIInv, Replies!TypeOK, ReplyTook, ReplyOpen
    <3>2. /\ IsFiniteSet(ReplyTook(P, e)) /\ ReplyTaker(P, e) \in Nat /\ ReplyTaker(P, e)' \in Nat
      BY ReplyCountersAreNumbers
    <3>3. CASE h[1] = e
      BY <3>1, <3>2, <3>3, ReplyOneMore DEF ReplyTaker
    <3>4. CASE h[1] # e
      BY <3>1, <3>2, <3>4, ReplyFewer DEF ReplyTaker
    <3> QED
      BY <3>3, <3>4
  <2>2. ASSUME NEW e \in ReplyEvents PROVE ReplyTakenOf(P, e)'
    <3>1. ReplyTakenOf(P, e)
      BY <1>plat DEF ReplyIInv, ReplyTakenInv
    <3>2. /\ published[e] \in Nat /\ ReplyTaker(P, e) \in Nat /\ ReplyTaker(P, e)' \in Nat
               /\ ReplyOpened(P, e) \in Nat
          /\ published'[e] = published[e]
      BY <1>eff, ReplyNumbers, ReplyCountersAreNumbers DEF ReplyIInv
    <3>3. /\ ReplyAllowed(P, e) \in Nat /\ ReplyAllowed(P, e)' \in Nat
          /\ ReplyAllowed(P, e)' >= ReplyAllowed(P, e) + (IF h[1] = e THEN 1 ELSE 0)
      BY <1>rem
    <3>4. ReplyTaker(P, e)' <= ReplyTaker(P, e) + (IF h[1] = e THEN 1 ELSE 0)
            /\ ReplyOpened(P, e)' <= ReplyOpened(P, e) + (IF h[1] = e THEN 1 ELSE 0)
                 /\ ReplyOpened(P, e)' \in Nat
      BY <1>count, <2>1, <3>2
    <3> QED
      BY <3>1, <3>2, <3>3, <3>4 DEF ReplyTakenOf
  <2> QED
    BY <1>plat, <1>eff, <2>2 DEF ReplyIInv, ReplyTakenInv
<1>5. ReplyNumberInv(P)'
  BY <1>plat, <1>eff DEF ReplyIInv, ReplyNumberInv
<1>6. ReplyAckInv(P)'
  BY <1>plat DEF ReplyAckInv
<1> QED
  BY <1>1, <1>2, <1>3, <1>4, <1>5, <1>6 DEF ReplyIInv

\* An event is taken when its id was not remembered.
LEMMA ReplyQQTakenKeeps ==
  ASSUME NEW P, Replies(P)!ConstantsAssumption, ReplyIInv(P), NEW h \in Replies(P)!Handlers,
           Replies(P)!QQDedup(h), ~Replies(P)!Duplicate(h[1]), kind[h[1]] # "ignored"
  PROVE  ReplyIInv(P)'
<1> USE DEF Replies!QQDedup, Replies!Goto, Replies!lineVars, Replies!qqVars, Replies!dedupVars,
              Replies!slackVars, Replies!inVars, Replies!seenVars, Replies!sendVars
<1>at. h[1] \in ReplyEvents /\ replyAt[h] = "new" /\ replyAt' = [replyAt EXCEPT ![h] = "context"]
         /\ "context" \in ReplyPlaces
  BY ReplyEventOf DEF ReplyPlaces
<1>count. \A e \in ReplyEvents : /\ ReplyStored(P, e) \in Nat /\ ReplyStored(P, e)' = ReplyStored(P, e)
                                /\ ReplyFiltered(P, e) \in Nat /\ ReplyFiltered(P, e)' = ReplyFiltered(P, e)
                                /\ ReplyOpened(P, e) \in Nat /\ ReplyOpened(P, e)' = ReplyOpened(P, e)
                                     + (IF h[1] = e THEN 1 ELSE 0)
  <2>1. ReplyMovedTo(P, h, "context")
    BY <1>at, ReplyMoved DEF ReplyIInv
  <2> QED
    BY <1>at, <2>1 DEF ReplyMovedTo, ReplyIn, ReplyOpen
<1>plat. P.platform = "qq"
  BY DEF ReplyIInv, ReplyShape
<1>eff. UNCHANGED <<chat, kind, published, Replies(P)!lineVars, Replies(P)!qqVars, Replies(P)!slackVars,
          Replies(P)!sendVars>> /\ Replies(P)!Remember(h[1])
  OBVIOUS
<1>rem. /\ dedup' \in Seq(ReplyEvents) /\ Len(dedup') <= P.capacity /\ stale' \subseteq ReplyEvents
        /\ forgotten' \in [ReplyEvents -> Nat]
        /\ \A x \in ReplyEvents : /\ ReplyAllowed(P, x) \in Nat /\ ReplyAllowed(P, x)' \in Nat
                                 /\ ReplyAllowed(P, x)' >= ReplyAllowed(P, x) + (IF x = h[1] THEN 1 ELSE 0)
  BY <1>at, <1>eff, ReplyRememberAllows DEF ReplyIInv
<1> HIDE DEF Replies!QQDedup, Replies!Goto
<1>1. Replies(P)!TypeOK'
  BY <1>at, <1>eff, <1>rem DEF ReplyIInv, Replies!TypeOK
<1>2. ReplyShape(P)'
  BY <1>at, <1>plat, <1>eff DEF ReplyIInv, Replies!TypeOK, ReplyShape
<1>3. ReplyLineInv(P)'
  BY <1>plat DEF ReplyLineInv
<1>4. ReplyTakenInv(P)'
  <2>1. ASSUME NEW e \in ReplyEvents PROVE ReplyTaker(P, e)' <= ReplyTaker(P, e) + (IF h[1] = e THEN 1 ELSE 0)
    <3>1. ReplyTook(P, e)' \subseteq IF h[1] = e THEN ReplyTook(P, e) \cup {h} ELSE ReplyTook(P, e)
      BY <1>at, <1>eff DEF ReplyIInv, Replies!TypeOK, ReplyTook, ReplyOpen
    <3>2. /\ IsFiniteSet(ReplyTook(P, e)) /\ ReplyTaker(P, e) \in Nat /\ ReplyTaker(P, e)' \in Nat
      BY ReplyCountersAreNumbers
    <3>3. CASE h[1] = e
      BY <3>1, <3>2, <3>3, ReplyOneMore DEF ReplyTaker
    <3>4. CASE h[1] # e
      BY <3>1, <3>2, <3>4, ReplyFewer DEF ReplyTaker
    <3> QED
      BY <3>3, <3>4
  <2>2. ASSUME NEW e \in ReplyEvents PROVE ReplyTakenOf(P, e)'
    <3>1. ReplyTakenOf(P, e)
      BY <1>plat DEF ReplyIInv, ReplyTakenInv
    <3>2. /\ published[e] \in Nat /\ ReplyTaker(P, e) \in Nat /\ ReplyTaker(P, e)' \in Nat
               /\ ReplyOpened(P, e) \in Nat
          /\ published'[e] = published[e]
      BY <1>eff, ReplyNumbers, ReplyCountersAreNumbers DEF ReplyIInv
    <3>3. /\ ReplyAllowed(P, e) \in Nat /\ ReplyAllowed(P, e)' \in Nat
          /\ ReplyAllowed(P, e)' >= ReplyAllowed(P, e) + (IF h[1] = e THEN 1 ELSE 0)
      BY <1>rem
    <3>4. ReplyTaker(P, e)' <= ReplyTaker(P, e) + (IF h[1] = e THEN 1 ELSE 0)
            /\ ReplyOpened(P, e)' <= ReplyOpened(P, e) + (IF h[1] = e THEN 1 ELSE 0)
                 /\ ReplyOpened(P, e)' \in Nat
      BY <1>count, <2>1, <3>2
    <3> QED
      BY <3>1, <3>2, <3>3, <3>4 DEF ReplyTakenOf
  <2> QED
    BY <1>plat, <1>eff, <2>2 DEF ReplyIInv, ReplyTakenInv
<1>5. ReplyNumberInv(P)'
  BY <1>plat, <1>eff DEF ReplyIInv, ReplyNumberInv
<1>6. ReplyAckInv(P)'
  BY <1>plat DEF ReplyAckInv
<1> QED
  BY <1>1, <1>2, <1>3, <1>4, <1>5, <1>6 DEF ReplyIInv

\* An id that leaves the map, or grows stale, allows one handler more.
LEMMA ReplyAgeKeeps ==
  ASSUME NEW P, Replies(P)!ConstantsAssumption, ReplyIInv(P),
           (\E x \in ReplyEvents : Replies(P)!GrowStale(x)) \/ Replies(P)!dedupJanitor, TRUE
  PROVE  ReplyIInv(P)'
<1> USE DEF Replies!GrowStale, Replies!dedupJanitor, Replies!lineVars, Replies!qqVars, Replies!dedupVars,
              Replies!slackVars, Replies!inVars, Replies!seenVars, Replies!sendVars
<1>count. \A e \in ReplyEvents : /\ ReplyStored(P, e) \in Nat /\ ReplyStored(P, e)' = ReplyStored(P, e)
                                /\ ReplyFiltered(P, e) \in Nat /\ ReplyFiltered(P, e)' = ReplyFiltered(P, e)
                                /\ ReplyOpened(P, e) \in Nat /\ ReplyOpened(P, e)' = ReplyOpened(P, e)
  BY ReplyCountersAreNumbers DEF ReplyStored, ReplyFiltered, ReplyOpened
<1>eff. UNCHANGED <<Replies(P)!inVars, Replies(P)!lineVars, Replies(P)!qqVars, Replies(P)!slackVars,
          Replies(P)!sendVars>>
  OBVIOUS
<1>rem. /\ dedup' \in Seq(ReplyEvents) /\ Len(dedup') <= P.capacity /\ stale' \subseteq ReplyEvents
        /\ forgotten' \in [ReplyEvents -> Nat]
        /\ \A x \in ReplyEvents : ReplyAllowed(P, x) \in Nat /\ ReplyAllowed(P, x)' \in Nat
             /\ ReplyAllowed(P, x)' >= ReplyAllowed(P, x)
  BY ReplyAgeAllows DEF ReplyIInv
<1> HIDE DEF Replies!GrowStale, Replies!dedupJanitor
<1>1. Replies(P)!TypeOK'
  BY <1>eff, <1>rem DEF ReplyIInv, Replies!TypeOK
<1>2. ReplyShape(P)'
  BY <1>eff, Replies(P)!ConstantsAssumption DEF ReplyIInv, Replies!TypeOK, ReplyShape,
       Replies!Nothing, Replies!Count, Replies!ConstantsAssumption
<1>3. ReplyLineInv(P)'
  <2>1. \A e \in ReplyEvents : ReplyHeld(P, e)' = ReplyHeld(P, e)
    BY <1>eff DEF ReplyHeld, ReplyHolding
  <2>2. ASSUME P.platform = "line", NEW e \in ReplyEvents PROVE ReplyLineOf(P, e)'
    <3>1. ReplyLineOf(P, e)
      BY <2>2 DEF ReplyIInv, ReplyLineInv
    <3>2. /\ replyReplies[e] \in Nat /\ quotes[e] \in Nat /\ chat[e] \in P.chats /\ ReplyHeld(P, e) \in Nat
          /\ ReplyStored(P, e) \in Nat /\ ReplyFiltered(P, e) \in Nat
      BY ReplyNumbers, ReplyCountersAreNumbers DEF ReplyIInv
    <3>3. chat'[e] = chat[e] /\ replyReplies'[e] = replyReplies[e] /\ quotes'[e] = quotes[e]
          /\ replyTokens' = replyTokens /\ quoteTokens' = quoteTokens
      BY <1>eff
    <3> QED
      BY <1>count, <2>1, <3>1, <3>2, <3>3 DEF ReplyLineOf
  <2>3. ASSUME P.platform = "line"
        PROVE  (/\ \A y \in P.senders : replyPc[y] = "reply" <=> local[y].id # NoValue
                /\ \A z \in P.chats : /\ replyTokens[z] # NoValue => chat[replyTokens[z]] = z
                                      /\ quoteTokens[z] # NoValue => chat[quoteTokens[z]] = z)'
    BY <1>eff, <2>3, Replies(P)!ConstantsAssumption DEF ReplyIInv, Replies!TypeOK,
         ReplyLineInv, Replies!Nothing, Replies!ConstantsAssumption
  <2> QED
    BY <2>2, <2>3 DEF ReplyLineInv
<1>4. ReplyTakenInv(P)'
  <2>1. \A e \in ReplyEvents : ReplyTaker(P, e)' = ReplyTaker(P, e)
    BY <1>eff DEF ReplyTaker, ReplyTook
  <2>2. ASSUME P.platform = "qq", NEW e \in ReplyEvents PROVE ReplyTakenOf(P, e)'
    <3>1. ReplyTakenOf(P, e)
      BY <2>2 DEF ReplyIInv, ReplyTakenInv
    <3>2. /\ published[e] \in Nat /\ ReplyTaker(P, e) \in Nat /\ ReplyOpened(P, e) \in Nat
               /\ published'[e] = published[e]
      BY <1>eff, ReplyNumbers, ReplyCountersAreNumbers DEF ReplyIInv
    <3> QED
      BY <1>count, <1>rem, <2>1, <3>1, <3>2 DEF ReplyTakenOf
  <2> QED
    BY <1>eff, <2>2 DEF ReplyIInv, ReplyTakenInv
<1>5. ReplyNumberInv(P)'
  BY <1>eff DEF ReplyIInv, ReplyNumberInv
<1>6. ReplyAckInv(P)'
  <2>1. ASSUME P.platform = "slack", NEW e \in ReplyEvents PROVE ReplyAckOf(P, e)'
    <3>1. ReplyAckOf(P, e)
      BY <2>1 DEF ReplyIInv, ReplyAckInv
    <3>2. marks[e] \in Nat /\ chat[e] \in P.chats /\ ReplyFiltered(P, e) \in Nat
      BY ReplyNumbers, ReplyCountersAreNumbers DEF ReplyIInv
    <3>3. chat'[e] = chat[e] /\ kind'[e] = kind[e] /\ marks'[e] = marks[e] /\ pendingAcks' = pendingAcks
          /\ shownIn \subseteq shownIn'
      BY <1>eff DEF Replies!Show
    <3> QED
      BY <1>count, <2>1, <3>1, <3>2, <3>3 DEF ReplyAckOf
  <2>2. ASSUME P.platform = "slack"
        PROVE  (/\ \A z \in P.chats :
                     pendingAcks[z] # NoValue => chat[pendingAcks[z]] = z /\ kind[pendingAcks[z]] # "refused"
                /\ \A y \in P.senders : replyPc[y] = "mark" => to[y] \in shownIn)'
    BY <1>eff, <2>2, Replies(P)!ConstantsAssumption DEF ReplyIInv, Replies!TypeOK,
         ReplyAckInv, Replies!Show, Replies!ConstantsAssumption
  <2> QED
    BY <2>1, <2>2 DEF ReplyAckInv
<1> QED
  BY <1>1, <1>2, <1>3, <1>4, <1>5, <1>6 DEF ReplyIInv

\* LoadAndDelete: the token moves from the store to the send.
LEMMA ReplyLineLoadTokenKeeps ==
  ASSUME NEW P, Replies(P)!ConstantsAssumption, ReplyIInv(P), NEW s \in P.senders, Replies(P)!LineLoadToken(s)
  PROVE  ReplyIInv(P)'
<1> USE DEF Replies!LineLoadToken, Replies!lineVars, Replies!qqVars, Replies!dedupVars, Replies!slackVars,
              Replies!inVars, Replies!seenVars, Replies!sendVars
<1>count. \A e \in ReplyEvents : /\ ReplyStored(P, e) \in Nat /\ ReplyStored(P, e)' = ReplyStored(P, e)
                                /\ ReplyFiltered(P, e) \in Nat /\ ReplyFiltered(P, e)' = ReplyFiltered(P, e)
                                /\ ReplyOpened(P, e) \in Nat /\ ReplyOpened(P, e)' = ReplyOpened(P, e)
  BY ReplyCountersAreNumbers DEF ReplyStored, ReplyFiltered, ReplyOpened
<1>plat. P.platform = "line"
  BY DEF ReplyIInv, ReplyShape
<1>t. PICK tried \in {NoValue, replyTokens[to[s]]} :
          /\ local' = [local EXCEPT ![s].id = tried]
          /\ replyPc' = [replyPc EXCEPT ![s] = IF tried = NoValue THEN "push" ELSE "reply"]
  OBVIOUS
<1>eff. /\ replyPc[s] = "counter" /\ replyTokens' = [replyTokens EXCEPT ![to[s]] = NoValue]
        /\ UNCHANGED <<to, attempt, Replies(P)!seenVars, Replies(P)!inVars, quoteTokens, Replies(P)!qqVars,
             Replies(P)!dedupVars, Replies(P)!slackVars>>
  OBVIOUS
<1>ty. /\ NoValue \notin ReplyEvents /\ to[s] \in P.chats
            /\ replyTokens \in [P.chats -> ReplyEvents \cup {NoValue}] /\ tried \in ReplyEvents \cup {NoValue}
       /\ local \in [P.senders -> [id : ReplyEvents \cup {NoValue},
            ctr : Replies(P)!Handlers \cup {NoValue}, seq : Nat]]
       /\ replyPc \in [P.senders -> {"send", "reply", "push", "counter", "post", "mark", "done", "failed"}]
  BY Replies(P)!ConstantsAssumption DEF ReplyIInv, Replies!TypeOK,
       Replies!ConstantsAssumption
<1>ty2. /\ local' \in [P.senders -> [id : ReplyEvents \cup {NoValue},
             ctr : Replies(P)!Handlers \cup {NoValue}, seq : Nat]]
        /\ \A t \in P.senders : local'[t].id = IF t = s THEN tried ELSE local[t].id
        /\ replyPc' \in [P.senders -> {"send", "reply", "push", "counter", "post", "mark", "done", "failed"}]
        /\ replyTokens' \in [P.chats -> ReplyEvents \cup {NoValue}]
  BY <1>t, <1>eff, <1>ty
<1>own. /\ local[s].id = NoValue
        /\ tried # NoValue => tried = replyTokens[to[s]] /\ chat[tried] = to[s]
  BY <1>plat, <1>eff, <1>ty DEF ReplyIInv, ReplyLineInv
<1> HIDE DEF Replies!LineLoadToken
<1>1. Replies(P)!TypeOK'
  <2>1. /\ local' \in [P.senders -> [id : ReplyEvents \cup {NoValue},
             ctr : Replies(P)!Handlers \cup {NoValue}, seq : Nat]]
        /\ replyPc' \in [P.senders -> {"send", "reply", "push", "counter", "post", "mark", "done", "failed"}]
        /\ replyTokens' \in [P.chats -> ReplyEvents \cup {NoValue}]
    BY <1>ty2
  <2>2. UNCHANGED <<to, attempt, Replies(P)!seenVars, Replies(P)!inVars, quoteTokens, Replies(P)!qqVars,
          Replies(P)!dedupVars, Replies(P)!slackVars>>
    BY <1>eff
  <2>3. {replyTokens', quoteTokens', lastMsgID', pendingAcks'} \subseteq [P.chats -> ReplyEvents \cup {NoValue}]
    BY <2>1, <2>2 DEF ReplyIInv, Replies!TypeOK
  <2> HIDE DEF Replies!lineVars
  <2> QED
    BY <2>1, <2>2, <2>3 DEF ReplyIInv, Replies!TypeOK
<1>2. ReplyShape(P)'
  BY <1>plat, <1>eff, <1>t, <1>ty, <1>ty2, <1>own, Replies(P)!ConstantsAssumption
       DEF ReplyIInv, Replies!TypeOK, ReplyShape, Replies!Nothing, Replies!Count,
       Replies!ConstantsAssumption
<1>3. ReplyLineInv(P)'
  <2>1. \A e \in ReplyEvents : ReplyHeld(P, e)' = ReplyHeld(P, e) + (IF tried = e THEN 1 ELSE 0)
    <3> SUFFICES ASSUME NEW e \in ReplyEvents PROVE ReplyHeld(P, e)' = ReplyHeld(P, e)
          + (IF tried = e THEN 1 ELSE 0)
      OBVIOUS
    <3>1. ReplyHolding(P, e)' = IF tried = e THEN ReplyHolding(P, e) \cup {s} ELSE ReplyHolding(P, e)
      BY <1>ty, <1>ty2, <1>own DEF ReplyHolding
    <3>2. s \notin ReplyHolding(P, e)
      BY <1>ty, <1>own DEF ReplyHolding
    <3>3. IsFiniteSet(ReplyHolding(P, e)) /\ ReplyHeld(P, e) \in Nat
      BY ReplyCountersAreNumbers
    <3> QED
      BY <3>1, <3>2, <3>3, FS_AddElement DEF ReplyHeld
  <2>2. ASSUME P.platform = "line", NEW e \in ReplyEvents PROVE ReplyLineOf(P, e)'
    <3>1. ReplyLineOf(P, e)
      BY <2>2 DEF ReplyIInv, ReplyLineInv
    <3>2. /\ replyReplies[e] \in Nat /\ quotes[e] \in Nat /\ chat[e] \in P.chats /\ ReplyHeld(P, e) \in Nat
          /\ ReplyStored(P, e) \in Nat /\ ReplyFiltered(P, e) \in Nat
      BY ReplyNumbers, ReplyCountersAreNumbers DEF ReplyIInv
    <3>3. /\ chat'[e] = chat[e] /\ replyReplies'[e] = replyReplies[e] /\ quotes'[e] = quotes[e]
          /\ quoteTokens' = quoteTokens /\ e # NoValue
          /\ replyTokens'[chat[e]] = IF chat[e] = to[s] THEN NoValue ELSE replyTokens[chat[e]]
          /\ tried = e => replyTokens[chat[e]] = e /\ chat[e] = to[s]
      BY <1>eff, <1>ty, <1>own, <3>2
    <3> QED
      BY <1>count, <2>1, <3>1, <3>2, <3>3 DEF ReplyLineOf
  <2>3. ASSUME P.platform = "line"
        PROVE  (/\ \A y \in P.senders : replyPc[y] = "reply" <=> local[y].id # NoValue
                /\ \A z \in P.chats : /\ replyTokens[z] # NoValue => chat[replyTokens[z]] = z
                                      /\ quoteTokens[z] # NoValue => chat[quoteTokens[z]] = z)'
    BY <1>eff, <1>t, <1>ty, <1>ty2, <1>own, <2>3, Replies(P)!ConstantsAssumption
         DEF ReplyIInv, Replies!TypeOK, ReplyLineInv, Replies!Nothing,
         Replies!ConstantsAssumption
  <2> QED
    BY <2>2, <2>3 DEF ReplyLineInv
<1>4. ReplyTakenInv(P)'
  BY <1>plat DEF ReplyTakenInv
<1>5. ReplyNumberInv(P)'
  BY <1>plat DEF ReplyNumberInv
<1>6. ReplyAckInv(P)'
  BY <1>plat DEF ReplyAckInv
<1> QED
  BY <1>1, <1>2, <1>3, <1>4, <1>5, <1>6 DEF ReplyIInv

\* The token of the send is spent by the call.
LEMMA ReplySendReplyKeeps ==
  ASSUME NEW P, Replies(P)!ConstantsAssumption, ReplyIInv(P), NEW s \in P.senders, Replies(P)!sendReply(s)
  PROVE  ReplyIInv(P)'
<1> USE DEF Replies!sendReply, Replies!lineVars, Replies!qqVars, Replies!dedupVars, Replies!slackVars,
              Replies!inVars, Replies!seenVars, Replies!sendVars
<1>count. \A e \in ReplyEvents : /\ ReplyStored(P, e) \in Nat /\ ReplyStored(P, e)' = ReplyStored(P, e)
                                /\ ReplyFiltered(P, e) \in Nat /\ ReplyFiltered(P, e)' = ReplyFiltered(P, e)
                                /\ ReplyOpened(P, e) \in Nat /\ ReplyOpened(P, e)' = ReplyOpened(P, e)
  BY ReplyCountersAreNumbers DEF ReplyStored, ReplyFiltered, ReplyOpened
<1>plat. P.platform = "line"
  BY DEF ReplyIInv, ReplyShape
<1>o. PICK o \in Replies(P)!Outcomes :
          /\ accepted' = accepted \cup {e \in {local[s].id} : o.shown}
          /\ Replies(P)!Show(s, o)
          /\ replyPc' = [replyPc EXCEPT ![s] = IF o.ok THEN "done" ELSE "push"]
  BY Zenon
<1>eff. /\ replyPc[s] = "reply" /\ replyReplies' = Replies(P)!Count(replyReplies, {local[s].id})
             /\ local' = [local EXCEPT ![s] = Replies(P)!Nothing]
        /\ UNCHANGED <<to, attempt, quotes, posts, Replies(P)!inVars, Replies(P)!lineVars,
             Replies(P)!qqVars, Replies(P)!dedupVars, Replies(P)!slackVars>>
  OBVIOUS
<1>ty. /\ NoValue \notin ReplyEvents
       /\ local \in [P.senders -> [id : ReplyEvents \cup {NoValue},
            ctr : Replies(P)!Handlers \cup {NoValue}, seq : Nat]] /\ local[s].id \in ReplyEvents
       /\ replyPc \in [P.senders -> {"send", "reply", "push", "counter", "post", "mark", "done", "failed"}]
       /\ replyReplies \in [ReplyEvents -> Nat]
  BY <1>plat, <1>eff, Replies(P)!ConstantsAssumption DEF ReplyIInv, Replies!TypeOK,
       ReplyLineInv, Replies!ConstantsAssumption
<1>ty2. /\ local' \in [P.senders -> [id : ReplyEvents \cup {NoValue},
             ctr : Replies(P)!Handlers \cup {NoValue}, seq : Nat]]
        /\ \A t \in P.senders : local'[t].id = IF t = s THEN NoValue ELSE local[t].id
        /\ replyPc' \in [P.senders -> {"send", "reply", "push", "counter", "post", "mark", "done", "failed"}]
        /\ replyPc'[s] \in {"done", "push"} /\ \A t \in P.senders : t # s => replyPc'[t] = replyPc[t]
  BY <1>o, <1>eff, <1>ty DEF Replies!Nothing
<1>ty3. /\ replyReplies' \in [ReplyEvents -> Nat]
        /\ \A e \in ReplyEvents : replyReplies'[e] = replyReplies[e] + (IF local[s].id = e THEN 1 ELSE 0)
  BY <1>eff, <1>ty DEF Replies!Count
<1>ty4. shownIn' \subseteq P.chats /\ accepted' \subseteq ReplyEvents
  BY <1>o, <1>ty, ReplyShowIs DEF ReplyIInv, Replies!TypeOK
<1> HIDE DEF Replies!sendReply
<1>1. Replies(P)!TypeOK'
  <2>1. /\ local' \in [P.senders -> [id : ReplyEvents \cup {NoValue},
             ctr : Replies(P)!Handlers \cup {NoValue}, seq : Nat]]
        /\ replyPc' \in [P.senders -> {"send", "reply", "push", "counter", "post", "mark", "done", "failed"}]
        /\ replyReplies' \in [ReplyEvents -> Nat] /\ shownIn' \subseteq P.chats
             /\ accepted' \subseteq ReplyEvents
    BY <1>ty2, <1>ty3, <1>ty4
  <2>2. UNCHANGED <<to, attempt, quotes, posts, Replies(P)!inVars, Replies(P)!lineVars, Replies(P)!qqVars,
          Replies(P)!dedupVars, Replies(P)!slackVars>>
    BY <1>eff
  <2> QED
    BY ZenonT(120), <2>1, <2>2 DEF ReplyIInv, Replies!TypeOK
<1>2. ReplyShape(P)'
  BY <1>plat, <1>eff, <1>ty, <1>ty2, Replies(P)!ConstantsAssumption DEF ReplyIInv,
       Replies!TypeOK, ReplyShape, Replies!Nothing, Replies!Count, Replies!ConstantsAssumption
<1>3. ReplyLineInv(P)'
  <2>1. \A e \in ReplyEvents : ReplyHeld(P, e)' = ReplyHeld(P, e) - (IF local[s].id = e THEN 1 ELSE 0)
    <3> SUFFICES ASSUME NEW e \in ReplyEvents
          PROVE ReplyHeld(P, e)' = ReplyHeld(P, e) - (IF local[s].id = e THEN 1 ELSE 0)
      OBVIOUS
    <3>1. ReplyHolding(P, e)' = IF local[s].id = e THEN ReplyHolding(P, e) \ {s} ELSE ReplyHolding(P, e)
      BY <1>ty, <1>ty2 DEF ReplyHolding
    <3>2. local[s].id = e => s \in ReplyHolding(P, e)
      BY <1>ty DEF ReplyHolding
    <3>3. IsFiniteSet(ReplyHolding(P, e)) /\ ReplyHeld(P, e) \in Nat
      BY ReplyCountersAreNumbers
    <3>4. CASE local[s].id = e
      <4>1. Cardinality(ReplyHolding(P, e) \ {s}) = Cardinality(ReplyHolding(P, e)) - 1
        BY <3>2, <3>3, <3>4, FS_RemoveElement
      <4> QED
        BY <3>1, <3>4, <4>1 DEF ReplyHeld
    <3>5. CASE local[s].id # e
      BY <3>1, <3>3, <3>5 DEF ReplyHeld
    <3> QED
      BY <3>4, <3>5
  <2>2. ASSUME P.platform = "line", NEW e \in ReplyEvents PROVE ReplyLineOf(P, e)'
    <3>1. ReplyLineOf(P, e)
      BY <2>2 DEF ReplyIInv, ReplyLineInv
    <3>2. /\ replyReplies[e] \in Nat /\ quotes[e] \in Nat /\ chat[e] \in P.chats /\ ReplyHeld(P, e) \in Nat
          /\ ReplyStored(P, e) \in Nat /\ ReplyFiltered(P, e) \in Nat
      BY ReplyNumbers, ReplyCountersAreNumbers DEF ReplyIInv
    <3>3. /\ chat'[e] = chat[e] /\ quotes'[e] = quotes[e]
          /\ replyReplies'[e] = replyReplies[e] + (IF local[s].id = e THEN 1 ELSE 0)
          /\ replyTokens' = replyTokens /\ quoteTokens' = quoteTokens
      BY <1>eff, <1>ty3
    <3> QED
      BY <1>count, <2>1, <3>1, <3>2, <3>3 DEF ReplyLineOf
  <2>3. ASSUME P.platform = "line"
        PROVE  (/\ \A y \in P.senders : replyPc[y] = "reply" <=> local[y].id # NoValue
                /\ \A z \in P.chats : /\ replyTokens[z] # NoValue => chat[replyTokens[z]] = z
                                      /\ quoteTokens[z] # NoValue => chat[quoteTokens[z]] = z)'
    BY <1>eff, <1>ty, <1>ty2, <2>3, Replies(P)!ConstantsAssumption DEF ReplyIInv,
         Replies!TypeOK, ReplyLineInv, Replies!Nothing, Replies!ConstantsAssumption
  <2> QED
    BY <2>2, <2>3 DEF ReplyLineInv
<1>4. ReplyTakenInv(P)'
  BY <1>plat DEF ReplyTakenInv
<1>5. ReplyNumberInv(P)'
  BY <1>plat DEF ReplyNumberInv
<1>6. ReplyAckInv(P)'
  BY <1>plat DEF ReplyAckInv
<1> QED
  BY <1>1, <1>2, <1>3, <1>4, <1>5, <1>6 DEF ReplyIInv

\* A number goes from the send into its post.
LEMMA ReplyPostKeeps ==
  ASSUME NEW P, Replies(P)!ConstantsAssumption, ReplyIInv(P), NEW s \in P.senders, Replies(P)!Post(s),
           P.platform = "qq"
  PROVE  ReplyIInv(P)'
<1> USE DEF Replies!Post, Replies!lineVars, Replies!qqVars, Replies!dedupVars, Replies!slackVars,
              Replies!inVars, Replies!seenVars, Replies!sendVars
<1>count. \A e \in ReplyEvents : /\ ReplyStored(P, e) \in Nat /\ ReplyStored(P, e)' = ReplyStored(P, e)
                                /\ ReplyFiltered(P, e) \in Nat /\ ReplyFiltered(P, e)' = ReplyFiltered(P, e)
                                /\ ReplyOpened(P, e) \in Nat /\ ReplyOpened(P, e)' = ReplyOpened(P, e)
  BY ReplyCountersAreNumbers DEF ReplyStored, ReplyFiltered, ReplyOpened
<1>plat. P.platform = "qq"
  BY DEF ReplyIInv, ReplyShape
<1>o. PICK o \in Replies(P)!Outcomes : Replies(P)!Show(s, o)
        /\ Replies(P)!Result(s, IF o.ok THEN "nil" ELSE "temporary")
  BY Zenon
<1>p. PICK stop \in {"done", "send", "failed"} : replyPc' = [replyPc EXCEPT ![s] = stop]
  BY <1>o, ReplyResultIs DEF ReplyIInv
<1> DEFINE new == [by |-> s, try |-> attempt[s], id |-> local[s].id, ctr |-> local[s].ctr, seq |-> local[s].seq]
<1>eff. /\ replyPc[s] = "post" /\ local' = [local EXCEPT ![s] = Replies(P)!Nothing]
        /\ posts' = posts \cup {new} \/ (posts' = posts /\ local[s].id = NoValue)
        /\ posts' = posts \/ local[s].id \in ReplyEvents
        /\ UNCHANGED <<to, replyReplies, quotes, accepted, Replies(P)!inVars, Replies(P)!lineVars,
             Replies(P)!qqVars, Replies(P)!dedupVars, Replies(P)!slackVars>>
  <2>1. /\ replyPc[s] = "post" /\ local' = [local EXCEPT ![s] = Replies(P)!Nothing]
        /\ UNCHANGED <<to, replyReplies, quotes, accepted, Replies(P)!inVars, Replies(P)!lineVars,
             Replies(P)!qqVars, Replies(P)!dedupVars, Replies(P)!slackVars>>
    BY <1>plat
  <2>2. posts' = posts \cup {[by |-> s, try |-> attempt[s], id |-> e, ctr |-> local[s].ctr,
          seq |-> local[s].seq] :
                                e \in {local[s].id} \ {NoValue}}
    OBVIOUS
  <2>3. local[s].id \in ReplyEvents \cup {NoValue}
    BY DEF ReplyIInv, Replies!TypeOK
  <2>4. CASE local[s].id = NoValue
    <3>1. {local[s].id} \ {NoValue} = {}
      BY <2>4
    <3>2. posts' = posts
      BY <2>2, <3>1
    <3> QED
      BY <2>1, <2>4, <3>2
  <2>5. CASE local[s].id # NoValue
    <3>1. {local[s].id} \ {NoValue} = {local[s].id}
      BY <2>5
    <3>2. posts' = posts \cup {new}
      BY <2>2, <3>1
    <3>3. local[s].id \in ReplyEvents
      BY <2>3, <2>5
    <3> HIDE DEF new
    <3> QED
      BY <2>1, <3>2, <3>3
  <2> QED
    BY <2>4, <2>5
<1>ty. /\ NoValue \notin Replies(P)!Handlers /\ local \in [P.senders -> [id : ReplyEvents \cup {NoValue},
            ctr : Replies(P)!Handlers \cup {NoValue}, seq : Nat]]
       /\ replyPc \in [P.senders -> {"send", "reply", "push", "counter", "post", "mark", "done", "failed"}]
       /\ attempt \in [P.senders -> 0..P.retries]
  BY Replies(P)!ConstantsAssumption DEF ReplyIInv, Replies!TypeOK,
       Replies!ConstantsAssumption
<1>ty2. /\ local' \in [P.senders -> [id : ReplyEvents \cup {NoValue},
             ctr : Replies(P)!Handlers \cup {NoValue}, seq : Nat]]
        /\ replyPc' \in [P.senders -> {"send", "reply", "push", "counter", "post", "mark", "done", "failed"}]
        /\ attempt' \in [P.senders -> 0..P.retries] /\ shownIn' \subseteq P.chats
  <2>1. local' \in [P.senders -> [id : ReplyEvents \cup {NoValue},
          ctr : Replies(P)!Handlers \cup {NoValue}, seq : Nat]]
    BY <1>eff, <1>ty DEF Replies!Nothing
  <2>2. replyPc' \in [P.senders -> {"send", "reply", "push", "counter", "post", "mark", "done", "failed"}]
    BY <1>p, <1>ty
  <2>3. attempt' \in [P.senders -> 0..P.retries] /\ shownIn' \subseteq P.chats
    BY <1>o, ReplyResultIs, ReplyShowIs DEF ReplyIInv
  <2> QED
    BY <2>1, <2>2, <2>3
<1>ty3. posts' \subseteq [by : P.senders, try : 0..P.retries, id : ReplyEvents,
          ctr : Replies(P)!Handlers \cup {NoValue}, seq : Nat]
  BY <1>eff, <1>ty DEF ReplyIInv, Replies!TypeOK
<1>ty4. /\ local'[s].ctr = NoValue /\ local'[s].id = NoValue
        /\ \A t \in P.senders : t # s => local'[t] = local[t] /\ replyPc'[t] = replyPc[t]
        /\ replyPc'[s] \notin {"post", "mark", "reply", "push"}
  BY <1>p, <1>eff, <1>ty DEF Replies!Nothing
<1> HIDE DEF Replies!Post
<1>1. Replies(P)!TypeOK'
  <2>1. UNCHANGED <<to, replyReplies, quotes, accepted, Replies(P)!inVars, Replies(P)!lineVars,
          Replies(P)!qqVars, Replies(P)!dedupVars, Replies(P)!slackVars>>
    BY <1>eff
  <2> QED
    BY <1>ty2, <1>ty3, <2>1 DEF ReplyIInv, Replies!TypeOK
<1>2. ReplyShape(P)'
  <2>1. UNCHANGED <<replyReplies, quotes, Replies(P)!inVars, Replies(P)!slackVars>>
    BY <1>eff
  <2>2. \A t \in P.senders : replyPc'[t] \notin {"mark", "reply", "push"}
    BY <1>plat, <1>ty4 DEF ReplyIInv, ReplyShape
  <2> QED
    BY <1>plat, <2>1, <2>2 DEF ReplyIInv, ReplyShape
<1>3. ReplyLineInv(P)'
  BY <1>plat DEF ReplyLineInv
<1>4. ReplyTakenInv(P)'
  <2>1. \A e \in ReplyEvents : ReplyAllowed(P, e) \in Nat /\ ReplyAllowed(P, e)' = ReplyAllowed(P, e)
    BY <1>eff, ReplyAllowedStays DEF ReplyIInv
  <2>2. ASSUME NEW e \in ReplyEvents PROVE ReplyTaker(P, e)' <= ReplyTaker(P, e)
    <3>1. ReplyTook(P, e)' \subseteq ReplyTook(P, e)
      BY <1>eff, Replies(P)!ConstantsAssumption DEF ReplyIInv, Replies!TypeOK, ReplyShape,
           ReplyTook, ReplyOpen, ReplyTakenInv, ReplyNumberInv, Replies!ConstantsAssumption
    <3> QED
      BY <3>1, ReplyCountersAreNumbers, ReplyFewer DEF ReplyTaker
  <2>3. ASSUME P.platform = "qq", NEW e \in ReplyEvents PROVE ReplyTakenOf(P, e)'
    <3>1. ReplyTakenOf(P, e)
      BY <2>3 DEF ReplyIInv, ReplyTakenInv
    <3>2. /\ published[e] \in Nat /\ ReplyTaker(P, e) \in Nat /\ ReplyTaker(P, e)' \in Nat
               /\ ReplyOpened(P, e) \in Nat
      BY ReplyNumbers, ReplyCountersAreNumbers DEF ReplyIInv
    <3>3. published'[e] <= published[e] /\ published'[e] \in Nat
      BY <1>eff, <3>2 DEF ReplyIInv, Replies!TypeOK, Replies!Count
    <3> QED
      BY <1>count, <2>1, <2>2, <3>1, <3>2, <3>3 DEF ReplyTakenOf
  <2>4. ASSUME P.platform = "qq" PROVE (\A z \in P.chats : msgSeqCounters[z] # NoValue
                 => chat[msgSeqCounters[z][1]] = z)'
    BY <1>eff, <2>4, Replies(P)!ConstantsAssumption DEF ReplyIInv, Replies!TypeOK,
         ReplyTakenInv, Replies!ConstantsAssumption
  <2> QED
    BY <2>3, <2>4 DEF ReplyTakenInv
<1>5. ReplyNumberInv(P)'
  <2>1. ReplyNumberInv(P) /\ UNCHANGED seqs
    BY <1>eff DEF ReplyIInv
  <2>2. \A t \in P.senders : /\ local'[t].ctr # NoValue => local'[t].seq \in 1..seqs[local'[t].ctr]
                             /\ replyPc'[t] # "post" => local'[t].ctr = NoValue
    BY <1>plat, <1>ty4, <2>1 DEF ReplyNumberInv
  <2>3. \A p \in posts' : p.ctr # NoValue => p.seq \in 1..seqs[p.ctr]
    BY <1>plat, <1>eff, <2>1 DEF ReplyNumberInv
  <2>4. \A t, u \in P.senders :
            local'[t].ctr # NoValue /\ local'[u].ctr = local'[t].ctr /\ local'[t].seq = local'[u].seq => t = u
    BY <1>plat, <1>ty4, <2>1 DEF ReplyNumberInv
  <2>5. \A t \in P.senders, p \in posts' :
            local'[t].ctr # NoValue /\ p.ctr = local'[t].ctr => p.seq # local'[t].seq
    <3> SUFFICES ASSUME NEW t \in P.senders, NEW p \in posts', local'[t].ctr # NoValue, p.ctr = local'[t].ctr
                 PROVE  p.seq # local'[t].seq
      BY Zenon
    <3>1. t # s /\ local'[t] = local[t]
      BY <1>ty4
    <3>2. CASE p \in posts
      BY <1>plat, <2>1, <3>1, <3>2 DEF ReplyNumberInv
    <3>3. CASE p = new
      BY <1>plat, <2>1, <3>1, <3>3 DEF ReplyNumberInv
    <3> QED
      BY <1>eff, <3>2, <3>3
  <2>6. \A p, q \in posts' : p.ctr # NoValue /\ p.ctr = q.ctr /\ p.seq = q.seq => p = q
    <3>1. \A p \in posts : local[s].ctr # NoValue /\ p.ctr = local[s].ctr => p.seq # local[s].seq
      BY <1>plat, <2>1 DEF ReplyNumberInv
    <3>2. \A p, q \in posts : p.ctr # NoValue /\ p.ctr = q.ctr /\ p.seq = q.seq => p = q
      BY <1>plat, <2>1 DEF ReplyNumberInv
    <3>3. new.ctr = local[s].ctr /\ new.seq = local[s].seq
      OBVIOUS
    <3> HIDE DEF new
    <3> QED
      BY <1>eff, <3>1, <3>2, <3>3
  <2> QED
    BY <2>1, <2>2, <2>3, <2>4, <2>5, <2>6 DEF ReplyNumberInv
<1>6. ReplyAckInv(P)'
  BY <1>plat DEF ReplyAckInv
<1> QED
  BY <1>1, <1>2, <1>3, <1>4, <1>5, <1>6 DEF ReplyIInv

\* A message was shown before it is marked.
LEMMA ReplySlackPostKeeps ==
  ASSUME NEW P, Replies(P)!ConstantsAssumption, ReplyIInv(P), NEW s \in P.senders, Replies(P)!Post(s),
           P.platform = "slack"
  PROVE  ReplyIInv(P)'
<1> USE DEF Replies!Post, Replies!lineVars, Replies!qqVars, Replies!dedupVars, Replies!slackVars,
              Replies!inVars, Replies!seenVars, Replies!sendVars
<1>count. \A e \in ReplyEvents : /\ ReplyStored(P, e) \in Nat /\ ReplyStored(P, e)' = ReplyStored(P, e)
                                /\ ReplyFiltered(P, e) \in Nat /\ ReplyFiltered(P, e)' = ReplyFiltered(P, e)
                                /\ ReplyOpened(P, e) \in Nat /\ ReplyOpened(P, e)' = ReplyOpened(P, e)
  BY ReplyCountersAreNumbers DEF ReplyStored, ReplyFiltered, ReplyOpened
<1>plat. P.platform = "slack"
  BY DEF ReplyIInv, ReplyShape
<1>o. PICK o \in Replies(P)!Outcomes :
          /\ Replies(P)!Show(s, o)
          /\ IF o.ok
             THEN replyPc' = [replyPc EXCEPT ![s] = "mark"] /\ UNCHANGED attempt
             ELSE Replies(P)!Result(s, "temporary")
  BY <1>plat
<1>p. PICK stop \in {"done", "send", "failed", "mark"} : replyPc' = [replyPc EXCEPT ![s] = stop]
        /\ (stop = "mark" => o.shown)
  <2>1. o.ok => o.shown
    BY DEF Replies!Outcomes
  <2>2. o.ok => replyPc' = [replyPc EXCEPT ![s] = "mark"]
    BY <1>o
  <2>3. ~o.ok => \E q \in {"done", "send", "failed"} : replyPc' = [replyPc EXCEPT ![s] = q]
    BY <1>o, ReplyResultIs DEF ReplyIInv
  <2> QED
    BY <2>1, <2>2, <2>3
<1>eff. /\ posts' = posts /\ local' = [local EXCEPT ![s] = Replies(P)!Nothing]
        /\ UNCHANGED <<to, replyReplies, quotes, accepted, Replies(P)!inVars, Replies(P)!lineVars,
             Replies(P)!qqVars, Replies(P)!dedupVars, Replies(P)!slackVars>>
  BY <1>plat DEF ReplyIInv, ReplyShape
<1>ty. /\ attempt' \in [P.senders -> 0..P.retries] /\ shownIn \subseteq shownIn' /\ shownIn' \subseteq P.chats
       /\ replyPc' \in [P.senders -> {"send", "reply", "push", "counter", "post", "mark", "done", "failed"}]
       /\ stop = "mark" => to[s] \in shownIn'
  BY <1>o, <1>p, ReplyResultIs, ReplyShowIs DEF ReplyIInv, Replies!TypeOK
<1>ty2. /\ local' \in [P.senders -> [id : ReplyEvents \cup {NoValue},
             ctr : Replies(P)!Handlers \cup {NoValue}, seq : Nat]]
        /\ \A t \in P.senders : local'[t].id = NoValue
        /\ \A t \in P.senders : replyPc'[t] = IF t = s THEN stop ELSE replyPc[t]
  BY <1>plat, <1>p, <1>eff DEF ReplyIInv, Replies!TypeOK, Replies!Nothing, ReplyShape
<1> HIDE DEF Replies!Post
<1>1. Replies(P)!TypeOK'
  <2>1. UNCHANGED <<to, replyReplies, quotes, accepted, Replies(P)!inVars, Replies(P)!lineVars,
          Replies(P)!qqVars, Replies(P)!dedupVars, Replies(P)!slackVars>> /\ posts' = posts
    BY <1>eff
  <2>2. local' \in [P.senders -> [id : ReplyEvents \cup {NoValue},
          ctr : Replies(P)!Handlers \cup {NoValue}, seq : Nat]]
    BY <1>ty2
  <2> QED
    BY <1>ty, <2>1, <2>2 DEF ReplyIInv, Replies!TypeOK
<1>2. ReplyShape(P)'
  <2>1. UNCHANGED <<replyReplies, quotes, Replies(P)!inVars, Replies(P)!slackVars>> /\ posts' = posts
    BY <1>eff
  <2>2. \A t \in P.senders : replyPc'[t] \notin {"post", "reply", "push"}
    BY <1>plat, <1>ty2 DEF ReplyIInv, ReplyShape
  <2> QED
    BY <1>plat, <1>ty2, <2>1, <2>2 DEF ReplyIInv, ReplyShape
<1>3. ReplyLineInv(P)'
  BY <1>plat DEF ReplyLineInv
<1>4. ReplyTakenInv(P)'
  BY <1>plat DEF ReplyTakenInv
<1>5. ReplyNumberInv(P)'
  BY <1>plat DEF ReplyNumberInv
<1>6. ReplyAckInv(P)'
  <2>1. ASSUME P.platform = "slack", NEW e \in ReplyEvents PROVE ReplyAckOf(P, e)'
    <3>1. ReplyAckOf(P, e)
      BY <2>1 DEF ReplyIInv, ReplyAckInv
    <3>2. marks[e] \in Nat /\ chat[e] \in P.chats /\ ReplyFiltered(P, e) \in Nat
      BY ReplyNumbers, ReplyCountersAreNumbers DEF ReplyIInv
    <3>3. chat'[e] = chat[e] /\ kind'[e] = kind[e] /\ marks'[e] = marks[e] /\ pendingAcks' = pendingAcks
          /\ shownIn \subseteq shownIn'
      BY <1>eff, <1>ty
    <3> QED
      BY <1>count, <2>1, <3>1, <3>2, <3>3 DEF ReplyAckOf
  <2>2. ASSUME P.platform = "slack"
        PROVE  (/\ \A z \in P.chats :
                     pendingAcks[z] # NoValue => chat[pendingAcks[z]] = z /\ kind[pendingAcks[z]] # "refused"
                /\ \A y \in P.senders : replyPc[y] = "mark" => to[y] \in shownIn)'
    BY <1>eff, <1>ty, <1>ty2, <2>2 DEF ReplyIInv, ReplyAckInv
  <2> QED
    BY <2>1, <2>2 DEF ReplyAckInv
<1> QED
  BY <1>1, <1>2, <1>3, <1>4, <1>5, <1>6 DEF ReplyIInv

\* What does not change stays.
LEMMA ReplyStutterKeeps ==
  ASSUME NEW P, Replies(P)!ConstantsAssumption, ReplyIInv(P), UNCHANGED Replies(P)!vars, TRUE
  PROVE  ReplyIInv(P)'
<1> USE DEF Replies!vars, Replies!lineVars, Replies!qqVars, Replies!dedupVars, Replies!slackVars,
              Replies!inVars, Replies!seenVars, Replies!sendVars
<1>count. \A e \in ReplyEvents : /\ ReplyStored(P, e) \in Nat /\ ReplyStored(P, e)' = ReplyStored(P, e)
                                /\ ReplyFiltered(P, e) \in Nat /\ ReplyFiltered(P, e)' = ReplyFiltered(P, e)
                                /\ ReplyOpened(P, e) \in Nat /\ ReplyOpened(P, e)' = ReplyOpened(P, e)
  BY ReplyCountersAreNumbers DEF ReplyStored, ReplyFiltered, ReplyOpened
<1>1. Replies(P)!TypeOK'
  BY Replies(P)!ConstantsAssumption DEF ReplyIInv, Replies!TypeOK, Replies!Count,
       Replies!ConstantsAssumption
<1>2. ReplyShape(P)'
  BY Replies(P)!ConstantsAssumption DEF ReplyIInv, Replies!TypeOK, ReplyShape,
       Replies!Nothing, Replies!Count, Replies!ConstantsAssumption
<1>3. ReplyLineInv(P)'
  <2>1. \A e \in ReplyEvents : ReplyHeld(P, e)' = ReplyHeld(P, e)
    BY  DEF ReplyHeld, ReplyHolding
  <2>2. ASSUME P.platform = "line", NEW e \in ReplyEvents PROVE ReplyLineOf(P, e)'
    <3>1. ReplyLineOf(P, e)
      BY <2>2 DEF ReplyIInv, ReplyLineInv
    <3>2. /\ replyReplies[e] \in Nat /\ quotes[e] \in Nat /\ chat[e] \in P.chats /\ ReplyHeld(P, e) \in Nat
          /\ ReplyStored(P, e) \in Nat /\ ReplyFiltered(P, e) \in Nat
      BY ReplyNumbers, ReplyCountersAreNumbers DEF ReplyIInv
    <3>3. chat'[e] = chat[e] /\ replyReplies'[e] = replyReplies[e] /\ quotes'[e] = quotes[e]
          /\ replyTokens' = replyTokens /\ quoteTokens' = quoteTokens
      OBVIOUS
    <3> QED
      BY <1>count, <2>1, <3>1, <3>2, <3>3 DEF ReplyLineOf
  <2>3. ASSUME P.platform = "line"
        PROVE  (/\ \A y \in P.senders : replyPc[y] = "reply" <=> local[y].id # NoValue
                /\ \A z \in P.chats : /\ replyTokens[z] # NoValue => chat[replyTokens[z]] = z
                                      /\ quoteTokens[z] # NoValue => chat[quoteTokens[z]] = z)'
    BY <2>3, Replies(P)!ConstantsAssumption DEF ReplyIInv, Replies!TypeOK, ReplyLineInv,
         Replies!Nothing, Replies!ConstantsAssumption
  <2> QED
    BY <2>2, <2>3 DEF ReplyLineInv
<1>4. ReplyTakenInv(P)'
  <2>1. \A e \in ReplyEvents : ReplyAllowed(P, e) \in Nat /\ ReplyAllowed(P, e)' = ReplyAllowed(P, e)
    BY ReplyAllowedStays DEF ReplyIInv
  <2>2. ASSUME NEW e \in ReplyEvents PROVE ReplyTaker(P, e)' <= ReplyTaker(P, e)
    <3>1. ReplyTook(P, e)' \subseteq ReplyTook(P, e)
      BY Replies(P)!ConstantsAssumption DEF ReplyIInv, Replies!TypeOK, ReplyShape,
           ReplyTook, ReplyOpen, ReplyTakenInv, ReplyNumberInv, Replies!ConstantsAssumption
    <3> QED
      BY <3>1, ReplyCountersAreNumbers, ReplyFewer DEF ReplyTaker
  <2>3. ASSUME P.platform = "qq", NEW e \in ReplyEvents PROVE ReplyTakenOf(P, e)'
    <3>1. ReplyTakenOf(P, e)
      BY <2>3 DEF ReplyIInv, ReplyTakenInv
    <3>2. /\ published[e] \in Nat /\ ReplyTaker(P, e) \in Nat /\ ReplyTaker(P, e)' \in Nat
               /\ ReplyOpened(P, e) \in Nat
      BY ReplyNumbers, ReplyCountersAreNumbers DEF ReplyIInv
    <3>3. published'[e] <= published[e] /\ published'[e] \in Nat
      BY <3>2 DEF ReplyIInv, Replies!TypeOK, Replies!Count
    <3> QED
      BY <1>count, <2>1, <2>2, <3>1, <3>2, <3>3 DEF ReplyTakenOf
  <2>4. ASSUME P.platform = "qq" PROVE (\A z \in P.chats : msgSeqCounters[z] # NoValue
                 => chat[msgSeqCounters[z][1]] = z)'
    BY <2>4, Replies(P)!ConstantsAssumption DEF ReplyIInv, Replies!TypeOK, ReplyTakenInv,
         Replies!ConstantsAssumption
  <2> QED
    BY <2>3, <2>4 DEF ReplyTakenInv
<1>5. ReplyNumberInv(P)'
  BY Replies(P)!ConstantsAssumption DEF ReplyIInv, Replies!TypeOK, ReplyNumberInv,
       ReplyShape, Replies!Nothing, Replies!ConstantsAssumption
<1>6. ReplyAckInv(P)'
  <2>1. ASSUME P.platform = "slack", NEW e \in ReplyEvents PROVE ReplyAckOf(P, e)'
    <3>1. ReplyAckOf(P, e)
      BY <2>1 DEF ReplyIInv, ReplyAckInv
    <3>2. marks[e] \in Nat /\ chat[e] \in P.chats /\ ReplyFiltered(P, e) \in Nat
      BY ReplyNumbers, ReplyCountersAreNumbers DEF ReplyIInv
    <3>3. chat'[e] = chat[e] /\ kind'[e] = kind[e] /\ marks'[e] = marks[e] /\ pendingAcks' = pendingAcks
          /\ shownIn \subseteq shownIn'
      BY  DEF Replies!Show
    <3> QED
      BY <1>count, <2>1, <3>1, <3>2, <3>3 DEF ReplyAckOf
  <2>2. ASSUME P.platform = "slack"
        PROVE  (/\ \A z \in P.chats :
                     pendingAcks[z] # NoValue => chat[pendingAcks[z]] = z /\ kind[pendingAcks[z]] # "refused"
                /\ \A y \in P.senders : replyPc[y] = "mark" => to[y] \in shownIn)'
    BY <2>2, Replies(P)!ConstantsAssumption DEF ReplyIInv, Replies!TypeOK, ReplyAckInv,
         Replies!Show, Replies!ConstantsAssumption
  <2> QED
    BY <2>1, <2>2 DEF ReplyAckInv
<1> QED
  BY <1>1, <1>2, <1>3, <1>4, <1>5, <1>6 DEF ReplyIInv

-----------------------------------------------------------------------------

\* Every step keeps the invariant, ...
LEMMA ReplyNextIInv ==
  ASSUME NEW P, Replies(P)!ConstantsAssumption, ReplyIInv(P), [Replies(P)!Next]_(Replies(P)!vars)
  PROVE  ReplyIInv(P)'
<1>1. ASSUME NEW h \in Replies(P)!Handlers, Replies(P)!Handle(h) PROVE ReplyIInv(P)'
  <2>1. CASE Replies(P)!SlackMessage(h)
    BY <2>1, ReplySlackMessageStoresKeeps, ReplySlackMessageRefusedKeeps
  <2>2. CASE Replies(P)!QQDedup(h)
    BY <2>2, ReplyQQDuplicateKeeps, ReplyQQIgnoredKeeps, ReplyQQTakenKeeps
  <2> QED
    BY <1>1, <2>1, <2>2, ReplyDeliverKeeps, ReplyLineTokenKeeps, ReplyLineQuoteKeeps,
         ReplyQQContextKeeps, ReplyQQCounterKeeps,
       ReplySlackCommandKeeps, ReplyHandleMessageKeeps DEF Replies!Handle
<1>2. ASSUME NEW s \in P.senders, Replies(P)!Send(s) PROVE ReplyIInv(P)'
  <2>1. CASE Replies(P)!QQNumber(s)
    <3>1. to[s] \in P.chats /\ msgSeqCounters[to[s]] \in Replies(P)!Handlers \cup {NoValue}
      BY DEF ReplyIInv, Replies!TypeOK
    <3> QED
      BY <2>1, <3>1, ReplyQQNumberNoneKeeps, ReplyQQNumberSomeKeeps
  <2>2. CASE Replies(P)!Post(s)
    BY <2>2, ReplyPostKeeps, ReplySlackPostKeeps DEF Replies!Post
  <2> QED
    BY <1>2, <2>1, <2>2, ReplyLineLoadQuoteKeeps, ReplyLineLoadTokenKeeps,
         ReplySendReplyKeeps, ReplySendPushKeeps, ReplyQQLoadIDKeeps,
       ReplySlackMarkKeeps DEF Replies!Send
<1>3. CASE (\E x \in ReplyEvents : Replies(P)!GrowStale(x)) \/ Replies(P)!dedupJanitor
  BY <1>3, ReplyAgeKeeps
<1>4. CASE UNCHANGED Replies(P)!vars
  BY <1>4, ReplyStutterKeeps
<1> QED
  BY <1>1, <1>2, <1>3, <1>4 DEF Replies!Next

\* ... which says what the replies promise.
LEMMA ReplyIInvImplies ==
  ASSUME NEW P, Replies(P)!ConstantsAssumption, ReplyIInv(P)
  PROVE  Replies(P)!ReplyInv
<1>1. ASSUME NEW e \in ReplyEvents
      PROVE  Replies(P)!Delivered(e) \in Nat /\ ReplyStored(P, e) <= Replies(P)!Delivered(e)
               /\ ReplyFiltered(P, e) <= Replies(P)!Delivered(e)
  <2> DEFINE D == {h \in Replies(P)!Handlers : h[1] = e /\ replyAt[h] # "none"}
  <2>1. IsFiniteSet(D)
    BY ReplyHandlersFinite, ReplyFewer
  <2>2. \A A : "none" \notin A => Cardinality(ReplyStanding(P, replyAt, e, A)) <= Cardinality(D)
          /\ Cardinality(D) \in Nat
    <3> SUFFICES ASSUME NEW A, "none" \notin A
                 PROVE  Cardinality(ReplyStanding(P, replyAt, e, A)) <= Cardinality(D) /\ Cardinality(D) \in Nat
      OBVIOUS
    <3>1. ReplyStanding(P, replyAt, e, A) \subseteq D
      BY DEF ReplyStanding
    <3> HIDE DEF D
    <3> QED
      BY <2>1, <3>1, ReplyFewer
  <2>3. "none" \notin {"quote", "filter", "done"} /\ "none" \notin {"filter", "done"}
    OBVIOUS
  <2> QED
    BY <2>2, <2>3, ReplySame DEF ReplyStored, ReplyFiltered, Replies!Delivered
<1>2. Replies(P)!TokensSpentOnce
  <2> SUFFICES ASSUME NEW e \in ReplyEvents PROVE replyReplies[e] <= Replies(P)!Delivered(e)
        /\ quotes[e] <= Replies(P)!Delivered(e)
    BY DEF Replies!TokensSpentOnce
  <2>1. /\ replyReplies[e] \in Nat /\ quotes[e] \in Nat /\ ReplyHeld(P, e) \in Nat
             /\ ReplyStored(P, e) \in Nat /\ ReplyFiltered(P, e) \in Nat
    BY ReplyNumbers, ReplyCountersAreNumbers DEF ReplyIInv
  <2>2. CASE P.platform = "line"
    <3>1. ReplyLineOf(P, e)
      BY <2>2 DEF ReplyIInv, ReplyLineInv
    <3> QED
      BY <1>1, <2>1, <3>1 DEF ReplyLineOf
  <2>3. CASE P.platform # "line"
    <3>1. replyReplies[e] = 0 /\ quotes[e] = 0
      BY <2>3 DEF ReplyIInv, ReplyShape
    <3> QED
      BY <1>1, <3>1
  <2> QED
    BY <2>2, <2>3
<1>3. ASSUME P.platform = "qq", NEW e \in ReplyEvents
      PROVE  ReplyTaker(P, e) <= 1 + forgotten[e] /\ published[e] <= 1 + forgotten[e]
  <2>1. ReplyTakenOf(P, e)
    BY <1>3 DEF ReplyIInv, ReplyTakenInv
  <2>2. /\ published[e] \in Nat /\ forgotten[e] \in Nat /\ ReplyTaker(P, e) \in Nat /\ ReplyOpened(P, e) \in Nat
    BY ReplyNumbers, ReplyCountersAreNumbers DEF ReplyIInv
  <2> QED
    BY <2>1, <2>2 DEF ReplyTakenOf, ReplyAllowed
<1>4. Replies(P)!PublishedOnce
  BY <1>3 DEF Replies!PublishedOnce
<1>5. Replies(P)!NumberedOnce
  <2> SUFFICES ASSUME NEW p \in posts, NEW q \in posts, p # q, p.id = q.id, p.seq = q.seq,
        ~Replies(P)!Torn(p), ~Replies(P)!Torn(q)
               PROVE  forgotten[p.id] > 0
    BY DEF Replies!NumberedOnce
  <2>1. P.platform = "qq"
    BY DEF ReplyIInv, ReplyShape
  <2>2. /\ p.id \in ReplyEvents /\ p.ctr \in Replies(P)!Handlers /\ q.ctr \in Replies(P)!Handlers
        /\ p.ctr[1] = p.id /\ q.ctr[1] = p.id /\ p.seq \in Nat /\ NoValue \notin Replies(P)!Handlers
    BY Replies(P)!ConstantsAssumption DEF ReplyIInv, Replies!TypeOK, Replies!Torn,
         Replies!ConstantsAssumption
  <2>3. p.ctr # q.ctr
    BY <2>1, <2>2 DEF ReplyIInv, ReplyNumberInv
  <2>4. seqs[p.ctr] > 0 /\ seqs[q.ctr] > 0
    <3>1. p.seq \in 1..seqs[p.ctr] /\ q.seq \in 1..seqs[q.ctr] /\ seqs[p.ctr] \in Nat /\ seqs[q.ctr] \in Nat
      BY <2>1, <2>2 DEF ReplyIInv, Replies!TypeOK, ReplyNumberInv
    <3> QED
      BY <3>1
  <2>5. {p.ctr, q.ctr} \subseteq ReplyTook(P, p.id)
    BY <2>2, <2>4 DEF ReplyTook
  <2>6. Cardinality({p.ctr, q.ctr}) = 2
    <3>1. IsFiniteSet({p.ctr}) /\ Cardinality({p.ctr}) = 1
      BY FS_Singleton
    <3>2. Cardinality({p.ctr} \cup {q.ctr}) = 1 + 1
      BY ZenonT(120), <2>3, <3>1, FS_AddElement
    <3>3. {p.ctr, q.ctr} = {p.ctr} \cup {q.ctr}
      OBVIOUS
    <3> QED
      BY <3>2, <3>3
  <2>7. 2 <= ReplyTaker(P, p.id)
    BY <2>5, <2>6, ReplyCountersAreNumbers, ReplyFewer DEF ReplyTaker
  <2>8. forgotten[p.id] \in Nat /\ ReplyTaker(P, p.id) \in Nat /\ ReplyTaker(P, p.id) <= 1 + forgotten[p.id]
    BY <1>3, <2>1, <2>2, ReplyNumbers, ReplyCountersAreNumbers DEF ReplyIInv
  <2> QED
    BY <2>7, <2>8
<1>6. Replies(P)!MarkedByReplies
  <2> SUFFICES ASSUME NEW e \in ReplyEvents
               PROVE  marks[e] <= Replies(P)!Delivered(e) /\ (marks[e] > 0 => kind[e] # "refused"
                        /\ chat[e] \in shownIn)
    BY DEF Replies!MarkedByReplies
  <2>1. marks[e] \in Nat /\ ReplyFiltered(P, e) \in Nat
    BY ReplyNumbers, ReplyCountersAreNumbers DEF ReplyIInv
  <2>2. CASE P.platform = "slack"
    <3>1. ReplyAckOf(P, e)
      BY <2>2 DEF ReplyIInv, ReplyAckInv
    <3> QED
      BY <1>1, <2>1, <3>1 DEF ReplyAckOf
  <2>3. CASE P.platform # "slack"
    <3>1. marks[e] = 0
      BY <2>3 DEF ReplyIInv, ReplyShape
    <3> QED
      BY <1>1, <3>1
  <2> QED
    BY <2>2, <2>3
<1> QED
  BY <1>2, <1>4, <1>5, <1>6 DEF Replies!ReplyInv

\* For any platform, events, chats and senders: tokens and quotes are spent once for
\* each delivery, a number is given once but for torn pairs and forgotten ids, and
\* check marks follow messages that were shown.
THEOREM RepliesKept ==
  ASSUME NEW P, Replies(P)!ConstantsAssumption
  PROVE  Replies(P)!Spec => [](Replies(P)!TypeOK /\ Replies(P)!ReplyInv)
<1>1. Replies(P)!Init => ReplyIInv(P)
  BY ReplyInitIInv
<1>2. ReplyIInv(P) /\ [Replies(P)!Next]_(Replies(P)!vars) => ReplyIInv(P)'
  BY ReplyNextIInv
<1>3. ReplyIInv(P) => Replies(P)!TypeOK /\ Replies(P)!ReplyInv
  BY ReplyIInvImplies DEF ReplyIInv
<1> QED
  BY <1>1, <1>2, <1>3, PTL DEF Replies!Spec

-----------------------------------------------------------------------------
(* The composition                                                         *)

\* Whoever takes the steps, the others stand still.
LEMMA PartSteps ==
    ASSUME [MCNext]_allVars
    PROVE  /\ part' = part
           /\ (part = "pico" /\ Next) \/ UNCHANGED vars
           /\ (part = "whatsapp" /\ WhatsApp!Next) \/ UNCHANGED waVars
           /\ part = "typingOwn" => Typing(Own)!Next \/ UNCHANGED tyVars
           /\ part = "typingSession" => Typing(Session)!Next \/ UNCHANGED tyVars
           /\ part = "typingByChat" => Typing(ByChat)!Next \/ UNCHANGED tyVars
           /\ part = "line" => Replies(Line)!Next \/ UNCHANGED replyVars
           /\ part = "qq" => Replies(QQ)!Next \/ UNCHANGED replyVars
           /\ part = "qqAgain" => Replies(QQAgain)!Next \/ UNCHANGED replyVars
           /\ part = "slack" => Replies(Slack)!Next \/ UNCHANGED replyVars
BY Zenon DEF MCNext, PicoRuns, WhatsappRuns, TypingOwnRuns, TypingSessionRuns, TypingByChatRuns,
             LineRuns, QqRuns, QqAgainRuns, SlackRuns, allVars

LEMMA PicoImplemented == MCSpec => Spec
<1>1. MCInit => Init
  BY DEF MCInit
<1>2. [MCNext]_allVars => [Next]_vars
  BY PartSteps, Zenon
<1> QED
  BY <1>1, <1>2, PTL DEF MCSpec, Spec

LEMMA WhatsAppImplemented == MCSpec => WhatsApp!Spec
<1>1. MCInit => WhatsApp!Init
  BY DEF MCInit
<1>2. [MCNext]_allVars => [WhatsApp!Next]_(WhatsApp!vars)
  <2>1. ASSUME UNCHANGED waVars PROVE UNCHANGED WhatsApp!vars
    BY <2>1 DEF waVars, WhatsApp!vars, WhatsApp!clientVars, WhatsApp!loopVars, WhatsApp!stopVars
  <2> QED
    BY <2>1, PartSteps, Zenon
<1> QED
  BY <1>1, <1>2, PTL DEF MCSpec, WhatsApp!Spec

\* One send reaches every connection of its session that was there throughout.
THEOREM EveryTabAlways == MCSpec => EveryTab
BY PicoImplemented, EveryTabReached, PTL

\* For any number of connections, sends and starts: nobody is sent a message
\* twice, Stop closes what it found; unless a Stop gave up waiting, one loop
\* reconnects and none is left after Stop.
THEOREM ConnectionsAlways == MCSpec => []ConnectionsInv
<1>1. MCSpec => [](TypeOK /\ PicoInv)
  BY PicoImplemented, PicoKept, PTL
<1>2. MCSpec => [](WhatsApp!TypeOK /\ WhatsApp!SafeToClose /\ WhatsApp!OneLoop /\ WhatsApp!DisconnectHeard)
  BY WhatsAppImplemented, WaKept, InstancesAssumption, PTL
<1>3. TypeOK /\ PicoInv /\ WhatsApp!TypeOK /\ WhatsApp!SafeToClose /\ WhatsApp!OneLoop
        /\ WhatsApp!DisconnectHeard => ConnectionsInv
  BY DEF ConnectionsInv
<1> QED
  BY <1>1, <1>2, <1>3, PTL

\* The three kinds of loops share their variables: which it is was decided at
\* the start.
TypingPart ==
    /\ part = "typingOwn" => TyIInv(Own)
    /\ part = "typingSession" => TyIInv(Session)
    /\ part = "typingByChat" => TyIInv(ByChat)

\* A loop that goes on has somebody who will stop it, but for the janitor's race, and
\* no other message's stop function ends it unless the channel looks it up by chat.
THEOREM TypingAlways == MCSpec => []TypingInv
<1>0. Typing(Own)!ConstantsAssumption /\ Typing(Session)!ConstantsAssumption
        /\ Typing(ByChat)!ConstantsAssumption
  BY InstancesAssumption
<1>1. MCInit => TypingPart
  <2> SUFFICES ASSUME MCInit PROVE TypingPart
    OBVIOUS
  <2>1. CASE part = "typingOwn"
    <3>1. Typing(Own)!Init
      BY <2>1 DEF MCInit
    <3> QED
      BY <1>0, <2>1, <3>1, TyInitIInv DEF TypingPart
  <2>2. CASE part = "typingSession"
    <3>1. Typing(Session)!Init
      BY <2>2 DEF MCInit
    <3> QED
      BY <1>0, <2>2, <3>1, TyInitIInv DEF TypingPart
  <2>3. CASE part = "typingByChat"
    <3>1. Typing(ByChat)!Init
      BY <2>3 DEF MCInit
    <3> QED
      BY <1>0, <2>3, <3>1, TyInitIInv DEF TypingPart
  <2> QED
    BY <2>1, <2>2, <2>3 DEF TypingPart
<1>2. TypingPart /\ [MCNext]_allVars => TypingPart'
  <2> SUFFICES ASSUME TypingPart, [MCNext]_allVars PROVE TypingPart'
    OBVIOUS
  <2>0. part' = part
    BY PartSteps, Zenon
  <2>1. CASE part = "typingOwn"
    <3>1. [Typing(Own)!Next]_(Typing(Own)!vars)
      <4>1. Typing(Own)!Next \/ UNCHANGED tyVars
        BY <2>1, PartSteps, Zenon
      <4> QED
        BY <4>1 DEF tyVars, Typing!vars, Typing!managerVars, Typing!channelVars, Typing!stopVars
    <3>2. TyIInv(Own)'
      BY <1>0, <2>1, <3>1, TyNextIInv DEF TypingPart
    <3> QED
      BY <2>0, <2>1, <3>2 DEF TypingPart
  <2>2. CASE part = "typingSession"
    <3>1. [Typing(Session)!Next]_(Typing(Session)!vars)
      <4>1. Typing(Session)!Next \/ UNCHANGED tyVars
        BY <2>2, PartSteps, Zenon
      <4> QED
        BY <4>1 DEF tyVars, Typing!vars, Typing!managerVars, Typing!channelVars, Typing!stopVars
    <3>2. TyIInv(Session)'
      BY <1>0, <2>2, <3>1, TyNextIInv DEF TypingPart
    <3> QED
      BY <2>0, <2>2, <3>2 DEF TypingPart
  <2>3. CASE part = "typingByChat"
    <3>1. [Typing(ByChat)!Next]_(Typing(ByChat)!vars)
      <4>1. Typing(ByChat)!Next \/ UNCHANGED tyVars
        BY <2>3, PartSteps, Zenon
      <4> QED
        BY <4>1 DEF tyVars, Typing!vars, Typing!managerVars, Typing!channelVars, Typing!stopVars
    <3>2. TyIInv(ByChat)'
      BY <1>0, <2>3, <3>1, TyNextIInv DEF TypingPart
    <3> QED
      BY <2>0, <2>3, <3>2 DEF TypingPart
  <2> QED
    BY <2>0, <2>1, <2>2, <2>3 DEF TypingPart
<1>3. TypingPart => TypingInv
  BY DEF TypingPart, TyIInv, TypingInv
<1> QED
  BY <1>1, <1>2, <1>3, PTL DEF MCSpec

\* The four platforms share their variables: which it is was decided at the
\* start.
ReplyPart ==
    /\ part = "line" => ReplyIInv(Line)
    /\ part = "qq" => ReplyIInv(QQ)
    /\ part = "qqAgain" => ReplyIInv(QQAgain)
    /\ part = "slack" => ReplyIInv(Slack)

\* Tokens are spent once for each delivery, numbers given once but for torn pairs and
\* forgotten ids, and check marks follow messages that were shown, for any number
\* of events, chats, sends and retries.
THEOREM RepliesAlways == MCSpec => []RepliesInv
<1>0. /\ Replies(Line)!ConstantsAssumption /\ Replies(QQ)!ConstantsAssumption
      /\ Replies(QQAgain)!ConstantsAssumption /\ Replies(Slack)!ConstantsAssumption
  BY InstancesAssumption
<1>1. MCInit => ReplyPart
  <2> SUFFICES ASSUME MCInit PROVE ReplyPart
    OBVIOUS
  <2>1. CASE part = "line"
    <3>1. Replies(Line)!Init
      BY <2>1 DEF MCInit
    <3> QED
      BY <1>0, <2>1, <3>1, ReplyInitIInv DEF ReplyPart
  <2>2. CASE part = "qq"
    <3>1. Replies(QQ)!Init
      BY <2>2 DEF MCInit
    <3> QED
      BY <1>0, <2>2, <3>1, ReplyInitIInv DEF ReplyPart
  <2>3. CASE part = "qqAgain"
    <3>1. Replies(QQAgain)!Init
      BY <2>3 DEF MCInit
    <3> QED
      BY <1>0, <2>3, <3>1, ReplyInitIInv DEF ReplyPart
  <2>4. CASE part = "slack"
    <3>1. Replies(Slack)!Init
      BY <2>4 DEF MCInit
    <3> QED
      BY <1>0, <2>4, <3>1, ReplyInitIInv DEF ReplyPart
  <2> QED
    BY <2>1, <2>2, <2>3, <2>4 DEF ReplyPart
<1>2. ReplyPart /\ [MCNext]_allVars => ReplyPart'
  <2> SUFFICES ASSUME ReplyPart, [MCNext]_allVars PROVE ReplyPart'
    OBVIOUS
  <2>0. part' = part
    BY PartSteps, Zenon
  <2>1. CASE part = "line"
    <3>1. [Replies(Line)!Next]_(Replies(Line)!vars)
      <4>1. Replies(Line)!Next \/ UNCHANGED replyVars
        BY <2>1, PartSteps, Zenon
      <4> QED
        BY <4>1 DEF replyVars, Replies!vars, Replies!inVars, Replies!lineVars, Replies!qqVars,
             Replies!dedupVars, Replies!slackVars, Replies!sendVars, Replies!seenVars
    <3>2. ReplyIInv(Line)'
      BY <1>0, <2>1, <3>1, ReplyNextIInv DEF ReplyPart
    <3> QED
      BY <2>0, <2>1, <3>2 DEF ReplyPart
  <2>2. CASE part = "qq"
    <3>1. [Replies(QQ)!Next]_(Replies(QQ)!vars)
      <4>1. Replies(QQ)!Next \/ UNCHANGED replyVars
        BY <2>2, PartSteps, Zenon
      <4> QED
        BY <4>1 DEF replyVars, Replies!vars, Replies!inVars, Replies!lineVars, Replies!qqVars,
             Replies!dedupVars, Replies!slackVars, Replies!sendVars, Replies!seenVars
    <3>2. ReplyIInv(QQ)'
      BY <1>0, <2>2, <3>1, ReplyNextIInv DEF ReplyPart
    <3> QED
      BY <2>0, <2>2, <3>2 DEF ReplyPart
  <2>3. CASE part = "qqAgain"
    <3>1. [Replies(QQAgain)!Next]_(Replies(QQAgain)!vars)
      <4>1. Replies(QQAgain)!Next \/ UNCHANGED replyVars
        BY <2>3, PartSteps, Zenon
      <4> QED
        BY <4>1 DEF replyVars, Replies!vars, Replies!inVars, Replies!lineVars, Replies!qqVars,
             Replies!dedupVars, Replies!slackVars, Replies!sendVars, Replies!seenVars
    <3>2. ReplyIInv(QQAgain)'
      BY <1>0, <2>3, <3>1, ReplyNextIInv DEF ReplyPart
    <3> QED
      BY <2>0, <2>3, <3>2 DEF ReplyPart
  <2>4. CASE part = "slack"
    <3>1. [Replies(Slack)!Next]_(Replies(Slack)!vars)
      <4>1. Replies(Slack)!Next \/ UNCHANGED replyVars
        BY <2>4, PartSteps, Zenon
      <4> QED
        BY <4>1 DEF replyVars, Replies!vars, Replies!inVars, Replies!lineVars, Replies!qqVars,
             Replies!dedupVars, Replies!slackVars, Replies!sendVars, Replies!seenVars
    <3>2. ReplyIInv(Slack)'
      BY <1>0, <2>4, <3>1, ReplyNextIInv DEF ReplyPart
    <3> QED
      BY <2>0, <2>4, <3>2 DEF ReplyPart
  <2> QED
    BY <2>0, <2>1, <2>2, <2>3, <2>4 DEF ReplyPart
<1>3. ReplyPart => RepliesInv
  <2>1. ReplyIInv(Line) => Replies(Line)!TypeOK /\ Replies(Line)!ReplyInv
    BY <1>0, ReplyIInvImplies DEF ReplyIInv
  <2>2. ReplyIInv(QQ) => Replies(QQ)!TypeOK /\ Replies(QQ)!ReplyInv
    BY <1>0, ReplyIInvImplies DEF ReplyIInv
  <2>3. ReplyIInv(QQAgain) => Replies(QQAgain)!TypeOK /\ Replies(QQAgain)!ReplyInv
    BY <1>0, ReplyIInvImplies DEF ReplyIInv
  <2>4. ReplyIInv(Slack) => Replies(Slack)!TypeOK /\ Replies(Slack)!ReplyInv
    BY <1>0, ReplyIInvImplies DEF ReplyIInv
  <2> QED
    BY <2>1, <2>2, <2>3, <2>4 DEF ReplyPart, RepliesInv
<1> QED
  BY <1>1, <1>2, <1>3, PTL DEF MCSpec
=============================================================================
