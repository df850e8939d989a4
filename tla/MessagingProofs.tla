-------------------------- MODULE MessagingProofs --------------------------
(***************************************************************************)
(* The way of a message, for any values of the constants: the bus (any     *)
(* publishers, consumers, callers of Close and buffer size), the channel   *)
(* manager (any channels, queue size and number of messages), what a       *)
(* channel admits, how a message of several parts reaches the chat, and at *)
(* the end what the run of MCMessaging checks.                             *)
(***************************************************************************)
EXTENDS MCMessaging, Sequences, SequenceTheorems, FiniteSetTheorems, TLAPS

-----------------------------------------------------------------------------
(* MessageBus                                                              *)

\* Taking the head of a buffer moves it from one side of the concatenation
\* to the other.
LEMMA MoveHead ==
    ASSUME NEW S, NEW t \in Seq(S), NEW b \in Seq(S), b # << >>
    PROVE  Append(t, Head(b)) \o Tail(b) = t \o b
OBVIOUS

\* Appending to the buffer appends to the concatenation.
LEMMA AppendRight ==
    ASSUME NEW S, NEW t \in Seq(S), NEW b \in Seq(S), NEW e \in S
    PROVE  t \o Append(b, e) = Append(t \o b, e)
OBVIOUS

-----------------------------------------------------------------------------

\* Type correctness: every variable of the bus keeps its type, for any number
\* of goroutines publishing, consuming and closing.
THEOREM BusTypeCorrect == Spec => []TypeOK
<1>1. Init => TypeOK
  <2>1. [q \in Queues |-> << >>] \in [Queues -> Seq(Messages)]
    OBVIOUS
  <2>2. "inbound" \in Queues /\ "idle" \in PubStates /\ "idle" \in ConStates
        /\ "idle" \in CloseStates
    BY DEF Queues, PubStates, ConStates, CloseStates
  <2>3. Init => /\ buf \in [Queues -> Seq(Messages)]
                /\ accepted \in [Queues -> Seq(Messages)]
                /\ taken \in [Queues -> Seq(Messages)]
    BY <2>1 DEF Init
  <2>4. Init => /\ pubN \in [Publishers -> Nat]
                /\ atClose \in [Publishers -> Nat]
    BY DEF Init
  <2>5. Init => closed \in BOOLEAN /\ done \in BOOLEAN
    BY Zenon DEF Init
  <2>7. Init => pubCtx \subseteq Publishers /\ conCtx \subseteq Consumers
    BY DEF Init
  <2>6. Init => /\ pubPC \in [Publishers -> PubStates]
                /\ pubQueue \in [Publishers -> Queues]
                /\ conPC \in [Consumers -> ConStates]
                /\ conQueue \in [Consumers -> Queues]
                /\ closePC \in [Closers -> CloseStates]
    BY <2>2 DEF Init
  <2> QED BY <2>3, <2>4, <2>5, <2>6, <2>7 DEF TypeOK
<1>2. TypeOK /\ [Next]_vars => TypeOK'
  <2> SUFFICES ASSUME TypeOK, [Next]_vars PROVE TypeOK'
    OBVIOUS
  <2> USE DEF TypeOK, busVars, pubVars, conVars, histVars
  <2>1. ASSUME NEW p \in Publishers, NEW q \in Queues, Call(p, q) PROVE TypeOK'
    BY <2>1 DEF Call, PubStates
  <2>2. ASSUME NEW p \in Publishers, CheckClosed(p) PROVE TypeOK'
    BY <2>2 DEF CheckClosed, PublishReturns, PublishGoesOn, PubStates, Queues
  <2>3. ASSUME NEW p \in Publishers, CheckCtx(p) PROVE TypeOK'
    BY <2>3 DEF CheckCtx, PublishReturns, PublishGoesOn, PubStates, Queues
  <2>4. ASSUME NEW p \in Publishers, Enqueue(p) PROVE TypeOK'
    <3>1. <<p, pubN[p]>> \in Messages BY DEF Messages
    <3>2. buf' \in [Queues -> Seq(Messages)]
      BY <2>4, <3>1 DEF Enqueue
    <3>3. accepted' \in [Queues -> Seq(Messages)]
      BY <2>4, <3>1 DEF Enqueue
    <3> QED BY <2>4, <3>2, <3>3 DEF Enqueue, PublishReturns, PubStates, Queues
  <2>5. ASSUME NEW p \in Publishers, PublishAborts(p) PROVE TypeOK'
    BY <2>5 DEF PublishAborts, PublishReturns, PubStates, Queues
  <2>6. ASSUME NEW p \in Publishers, CancelPublish(p) PROVE TypeOK'
    BY <2>6 DEF CancelPublish
  <2>7. ASSUME NEW c \in Consumers, NEW q \in Queues, Consume(c, q) PROVE TypeOK'
    BY <2>7 DEF Consume, ConStates
  <2>8. ASSUME NEW c \in Consumers, Receive(c) PROVE TypeOK'
    BY <2>8, SMTT(30) DEF Receive, Take, ConsumeReturns, ConStates, Queues
  <2>9. ASSUME NEW c \in Consumers, ConsumeAborts(c) PROVE TypeOK'
    BY <2>9 DEF ConsumeAborts, ConsumeReturns, ConStates, Queues
  <2>10. ASSUME NEW c \in Consumers, CancelConsume(c) PROVE TypeOK'
    BY <2>10 DEF CancelConsume
  <2>11. ASSUME NEW k \in Closers, Swap(k) PROVE TypeOK'
    BY <2>11 DEF Swap, CloseStates
  <2>12. ASSUME NEW k \in Closers, CloseDone(k) PROVE TypeOK'
    BY <2>12 DEF CloseDone, CloseStates, Queues
  <2>13. ASSUME NEW k \in Closers, Drain(k) PROVE TypeOK'
    BY <2>13 DEF Drain, Take
  <2>14. ASSUME NEW k \in Closers, QueueDrained(k) PROVE TypeOK'
    BY <2>14 DEF QueueDrained, AfterDrain, CloseStates, Queues
  <2>15. CASE UNCHANGED vars
    BY <2>15 DEF vars
  <2> QED
    BY <2>1, <2>2, <2>3, <2>4, <2>5, <2>6, <2>7, <2>8, <2>9, <2>10, <2>11,
       <2>12, <2>13, <2>14, <2>15
    DEF Next, PublishStep, ConsumeStep, CloseStep
<1> QED BY <1>1, <1>2, PTL DEF Spec

\* Exactly-once, in-order delivery of what Publish accepted, whatever the
\* interleaving of publishers, consumers and the drain of Close.
THEOREM BusConserved == Spec => []Conservation
<1>1. Init => Conservation
  BY DEF Init, Conservation, Queues
<1>2. TypeOK /\ Conservation /\ [Next]_vars => Conservation'
  <2> SUFFICES ASSUME TypeOK, Conservation, [Next]_vars PROVE Conservation'
    OBVIOUS
  <2>1. ASSUME NEW p \in Publishers, Enqueue(p) PROVE Conservation'
    <3>1. PICK m \in Messages : m = <<p, pubN[p]>> BY DEF Messages, TypeOK
    <3>2. /\ buf' = [buf EXCEPT ![pubQueue[p]] = Append(@, m)]
          /\ accepted' = [accepted EXCEPT ![pubQueue[p]] = Append(@, m)]
          /\ taken' = taken
      BY <2>1, <3>1 DEF Enqueue
    <3>3. ASSUME NEW q \in Queues PROVE accepted'[q] = taken'[q] \o buf'[q]
      <4>1. buf[q] \in Seq(Messages) /\ taken[q] \in Seq(Messages)
        BY DEF TypeOK
      <4>2. accepted[q] = taken[q] \o buf[q] BY DEF Conservation
      <4>3. CASE q = pubQueue[p]
        <5>1. /\ buf'[q] = Append(buf[q], m)
              /\ accepted'[q] = Append(accepted[q], m)
              /\ taken'[q] = taken[q]
          BY <3>2, <4>3 DEF TypeOK
        <5>2. taken[q] \o Append(buf[q], m) = Append(taken[q] \o buf[q], m)
          <6>1. PICK t \in Seq(Messages) : t = taken[q] BY <4>1
          <6>2. PICK b \in Seq(Messages) : b = buf[q] BY <4>1
          <6>3. t \o Append(b, m) = Append(t \o b, m) BY AppendRight
          <6> QED BY <6>1, <6>2, <6>3
        <5> QED BY <5>1, <5>2, <4>2
      <4>4. CASE q # pubQueue[p]
        BY <3>2, <4>2, <4>4 DEF TypeOK
      <4> QED BY <4>3, <4>4
    <3> QED BY <3>3 DEF Conservation
  <2>2. ASSUME NEW r \in Queues, Take(r), accepted' = accepted PROVE Conservation'
    <3>1. ASSUME NEW q \in Queues PROVE accepted'[q] = taken'[q] \o buf'[q]
      <4>1. buf[q] \in Seq(Messages) /\ taken[q] \in Seq(Messages)
        BY DEF TypeOK
      <4>2. accepted[q] = taken[q] \o buf[q] BY DEF Conservation
      <4>3. CASE q = r
        <5>1. /\ buf[q] # << >>
              /\ buf'[q] = Tail(buf[q])
              /\ taken'[q] = Append(taken[q], Head(buf[q]))
              /\ accepted'[q] = accepted[q]
          BY <2>2, <4>3 DEF Take, TypeOK
        <5>2. Append(taken[q], Head(buf[q])) \o Tail(buf[q]) = taken[q] \o buf[q]
          BY <5>1, <4>1, MoveHead
        <5> QED BY <5>1, <5>2, <4>2
      <4>4. CASE q # r
        BY <2>2, <4>2, <4>4 DEF Take, TypeOK
      <4> QED BY <4>3, <4>4
    <3> QED BY <3>1 DEF Conservation
  <2>3. ASSUME NEW c \in Consumers, Receive(c) PROVE Conservation'
    BY <2>2, <2>3 DEF Receive, TypeOK
  <2>4. ASSUME NEW k \in Closers, Drain(k) PROVE Conservation'
    BY <2>2, <2>4 DEF Drain
  <2>5. CASE UNCHANGED <<buf, accepted, taken>>
    BY <2>5 DEF Conservation
  <2> QED
    BY <2>1, <2>3, <2>4, <2>5
    DEF Next, PublishStep, ConsumeStep, CloseStep, Call, CheckClosed, CheckCtx,
        PublishAborts, CancelPublish, Consume, ConsumeAborts, CancelConsume,
        Swap, CloseDone, QueueDrained, vars, busVars, histVars
<1> QED BY <1>1, <1>2, BusTypeCorrect, PTL DEF Spec

-----------------------------------------------------------------------------

\* The race between Publish and Close: calls begun after the swap are refused,
\* and what a drained queue still holds are messages of calls that overlapped
\* the swap, one per publisher.
THEOREM BusCloseRaceBounded == Spec => [](LatePublishRefused /\ StrandedOnlyByRace)
<1>1. Init => CloseInv
  <2> SUFFICES ASSUME Init PROVE CloseInv
    OBVIOUS
  <2>1. AcceptedHasBegun
    BY DEF Init, AcceptedHasBegun
  <2>2. ~closed
    BY DEF Init
  <2> QED BY <2>1, <2>2 DEF CloseInv, RacingCallIsLast, LatePublishRefused,
             StrandedOnlyByRace, Drained
<1>2. TypeOK /\ CloseInv /\ [Next]_vars => CloseInv'
  <2> SUFFICES ASSUME TypeOK, CloseInv, [Next]_vars PROVE CloseInv'
    OBVIOUS
  <2>a. \A q \in Queues : \A i \in DOMAIN accepted[q] :
            accepted[q][i][1] \in Publishers /\ accepted[q][i][2] \in Nat
    <3>1. \A q \in Queues : \A i \in DOMAIN accepted[q] : accepted[q][i] \in Messages
      BY DEF TypeOK
    <3>2. \A item \in Messages : item[1] \in Publishers /\ item[2] \in Nat
      BY DEF Messages
    <3> QED BY <3>1, <3>2
  <2>b. \A q \in Queues : \A i \in DOMAIN buf[q] : buf[q][i][1] \in Publishers
    BY DEF TypeOK, Messages
  <2>1. ASSUME NEW p \in Publishers, NEW q \in Queues, Call(p, q) PROVE CloseInv'
    <3> USE <2>1 DEF Call, busVars, histVars
    <3>1. AcceptedHasBegun'
      <4>1. \A r \in Publishers : pubN'[r] \in Nat /\ pubN[r] \in Nat /\ pubN[r] <= pubN'[r]
        BY DEF TypeOK
      <4> QED BY <4>1, <2>a DEF CloseInv, AcceptedHasBegun
    <3>2. RacingCallIsLast'
      BY DEF TypeOK, CloseInv, RacingCallIsLast
    <3>3. LatePublishRefused' /\ StrandedOnlyByRace'
      BY DEF CloseInv, LatePublishRefused, StrandedOnlyByRace, Drained
    <3> QED BY <3>1, <3>2, <3>3 DEF CloseInv
  <2>2. ASSUME NEW p \in Publishers, CheckClosed(p) \/ CheckCtx(p) \/ PublishAborts(p)
        PROVE  CloseInv'
    <3>1. /\ UNCHANGED <<busVars, pubN, closePC, histVars>>
          /\ pubPC' \in [Publishers -> PubStates]
          /\ \A r \in Publishers : pubPC'[r] \in {"checked", "select"} =>
                (pubPC[r] \in {"checked", "select"} \/ ~closed)
      BY <2>2 DEF CheckClosed, CheckCtx, PublishAborts, PublishReturns,
                  PublishGoesOn, PubStates, TypeOK
    <3>2. RacingCallIsLast'
      BY <3>1 DEF CloseInv, RacingCallIsLast, busVars, histVars
    <3> QED BY <3>1, <3>2 DEF CloseInv, AcceptedHasBegun, LatePublishRefused,
               StrandedOnlyByRace, Drained, busVars, histVars
  <2>3. ASSUME NEW p \in Publishers, Enqueue(p) PROVE CloseInv'
    <3> DEFINE m == <<p, pubN[p]>>
    <3> DEFINE r == pubQueue[p]
    <3>1. /\ r \in Queues
          /\ UNCHANGED <<closed, closePC, atClose, pubN>>
          /\ pubPC[p] = "select"
          /\ pubPC' = [pubPC EXCEPT ![p] = "idle"]
          /\ buf' = [buf EXCEPT ![r] = Append(buf[r], m)]
          /\ accepted' = [accepted EXCEPT ![r] = Append(accepted[r], m)]
      BY <2>3 DEF Enqueue, PublishReturns, TypeOK
    <3>2. m[1] = p /\ m[2] = pubN[p] /\ m \in Messages
      BY DEF TypeOK, Messages
    <3>3. \A q \in Queues : \A i \in DOMAIN accepted'[q] :
             (i \in DOMAIN accepted[q] /\ accepted'[q][i] = accepted[q][i])
             \/ accepted'[q][i] = m
      BY <3>1, <3>2 DEF TypeOK
    <3>4. \A q \in Queues : \A i \in DOMAIN buf'[q] :
             (i \in DOMAIN buf[q] /\ buf'[q][i] = buf[q][i])
             \/ buf'[q][i] = m
      BY <3>1, <3>2 DEF TypeOK
    <3> HIDE DEF m, r
    <3>5. closed => pubN[p] = atClose[p]
      BY <3>1 DEF CloseInv, RacingCallIsLast
    <3>6. AcceptedHasBegun'
      <4>1. pubN[p] \in Nat BY DEF TypeOK
      <4>2. \A q \in Queues : \A i \in DOMAIN accepted'[q] :
               accepted'[q][i][2] <= pubN[accepted'[q][i][1]]
        BY <3>2, <3>3, <4>1 DEF CloseInv, AcceptedHasBegun
      <4> QED BY <4>2, <3>1 DEF AcceptedHasBegun
    <3>7. RacingCallIsLast'
      BY <3>1 DEF CloseInv, RacingCallIsLast, TypeOK
    <3>8. LatePublishRefused'
      BY <3>1, <3>2, <3>3, <3>5, SMTT(30) DEF CloseInv, LatePublishRefused, TypeOK
    <3>9. StrandedOnlyByRace'
      BY <3>1, <3>2, <3>4, <3>5 DEF CloseInv, StrandedOnlyByRace, Drained
    <3> QED BY <3>6, <3>7, <3>8, <3>9 DEF CloseInv
  <2>4. ASSUME NEW q \in Queues, Take(q),
               UNCHANGED <<closed, pubVars, closePC, accepted, atClose>>
        PROVE  CloseInv'
    <3>1. \A r \in Queues : \A i \in DOMAIN buf'[r] :
             \E j \in DOMAIN buf[r] : buf'[r][i] = buf[r][j]
      <4> SUFFICES ASSUME NEW r \in Queues, NEW i \in DOMAIN buf'[r]
                   PROVE  \E j \in DOMAIN buf[r] : buf'[r][i] = buf[r][j]
        OBVIOUS
      <4>1. CASE r = q
        <5>1. buf[q] \in Seq(Messages) /\ buf[q] # << >> /\ buf'[r] = Tail(buf[q])
          BY <2>4, <4>1 DEF Take, TypeOK
        <5>2. i + 1 \in DOMAIN buf[r] /\ buf'[r][i] = buf[r][i + 1]
          BY <5>1, <4>1
        <5> QED BY <5>2
      <4>2. CASE r # q
        BY <2>4, <4>2 DEF Take, TypeOK
      <4> QED BY <4>1, <4>2
    <3>2. StrandedOnlyByRace'
      BY <2>4, <3>1 DEF CloseInv, StrandedOnlyByRace, Drained
    <3> QED BY <2>4, <3>2 DEF CloseInv, AcceptedHasBegun, RacingCallIsLast,
               LatePublishRefused, pubVars
  <2>5. ASSUME NEW c \in Consumers, Receive(c) PROVE CloseInv'
    BY <2>4, <2>5 DEF Receive, TypeOK
  <2>6. ASSUME NEW k \in Closers, Drain(k) PROVE CloseInv'
    BY <2>4, <2>6 DEF Drain
  <2>7. ASSUME NEW k \in Closers, Swap(k) PROVE CloseInv'
    <3>1. AcceptedHasBegun'
      BY <2>7 DEF Swap, pubVars, CloseInv, AcceptedHasBegun
    <3>2. CASE closed
      <4>1. \A q \in Queues : Drained(q)' => Drained(q)
        BY <2>7, <3>2 DEF Swap, Drained, TypeOK
      <4> QED BY <2>7, <3>1, <3>2, <4>1 DEF Swap, pubVars, CloseInv,
                 RacingCallIsLast, LatePublishRefused, StrandedOnlyByRace
    <3>3. CASE ~closed
      <4>1. \A q \in Queues : ~Drained(q)'
        BY <2>7, <3>3 DEF Swap, Drained, TypeOK
      <4>2. atClose' = pubN /\ pubN' = pubN /\ accepted' = accepted
        BY <2>7, <3>3 DEF Swap, pubVars
      <4> QED BY <3>1, <4>1, <4>2 DEF CloseInv, AcceptedHasBegun,
                 RacingCallIsLast, LatePublishRefused, StrandedOnlyByRace
    <3> QED BY <3>2, <3>3
  <2>8. ASSUME NEW k \in Closers, CloseDone(k) PROVE CloseInv'
    <3>1. \A q \in Queues : Drained(q)' => Drained(q)
      BY <2>8 DEF CloseDone, Drained, TypeOK
    <3> QED BY <2>8, <3>1 DEF CloseDone, pubVars, histVars, CloseInv, AcceptedHasBegun,
               RacingCallIsLast, LatePublishRefused, StrandedOnlyByRace
  <2>9. ASSUME NEW k \in Closers, QueueDrained(k) PROVE CloseInv'
    <3>1. ASSUME NEW q \in Queues, Drained(q)' PROVE Drained(q) \/ buf'[q] = << >>
      BY <2>9, <3>1 DEF QueueDrained, AfterDrain, busVars, Drained, Queues, TypeOK
    <3>2. StrandedOnlyByRace'
      BY <2>9, <3>1 DEF QueueDrained, busVars, histVars, CloseInv, StrandedOnlyByRace
    <3> QED BY <2>9, <3>2 DEF QueueDrained, CloseInv, AcceptedHasBegun,
               RacingCallIsLast, LatePublishRefused, busVars, pubVars, histVars
  <2>10. CASE UNCHANGED <<busVars, pubPC, pubN, closePC, histVars>>
    BY <2>10 DEF busVars, histVars, Drained, CloseInv, AcceptedHasBegun,
       RacingCallIsLast, LatePublishRefused, StrandedOnlyByRace
  <2> QED
    BY <2>1, <2>2, <2>3, <2>5, <2>6, <2>7, <2>8, <2>9, <2>10
    DEF Next, PublishStep, ConsumeStep, CloseStep, CancelPublish, Consume,
        ConsumeAborts, CancelConsume, vars, pubVars
<1>3. CloseInv => LatePublishRefused /\ StrandedOnlyByRace
  BY DEF CloseInv
<1> QED BY <1>1, <1>2, <1>3, BusTypeCorrect, PTL DEF Spec

-----------------------------------------------------------------------------
(* ChannelManager                                                          *)

\* What EXCEPT ![a][b] does to a function of functions.
LEMMA ManagerSetAt ==
    ASSUME NEW A, NEW B, NEW S, NEW f \in [A -> [B -> S]], NEW a \in A, NEW b \in B, NEW v \in S,
           NEW g, g = [f EXCEPT ![a][b] = v]
    PROVE  /\ g \in [A -> [B -> S]]
           /\ g[a][b] = v
           /\ \A x \in A, y \in B : x # a \/ y # b => g[x][y] = f[x][y]
OBVIOUS

\* What is appended to the last part is appended to the whole.
LEMMA ManagerAppendLast ==
    ASSUME NEW s \in Seq(Manager!Messages), NEW t \in Seq(Manager!Messages), NEW u \in Seq(Manager!Messages),
           NEW e \in Manager!Messages
    PROVE  s \o t \o Append(u, e) = Append(s \o t \o u, e)
OBVIOUS

\* Receive: the head of the queue goes from the last part to the middle.
LEMMA ManagerMoveHead ==
    ASSUME NEW s \in Seq(Manager!Messages), NEW u \in Seq(Manager!Messages), u # << >>
    PROVE  s \o << >> \o u = s \o << Head(u) >> \o Tail(u)
OBVIOUS

\* Send: what is in the middle goes to the end of the first part.
LEMMA ManagerMoveMiddle ==
    ASSUME NEW s \in Seq(Manager!Messages), NEW u \in Seq(Manager!Messages), NEW e \in Manager!Messages
    PROVE  s \o << e >> \o u = Append(s, e) \o << >> \o u
OBVIOUS

\* The first part of a concatenation is its prefix of that length.
LEMMA ManagerPrefixOfConcat ==
    ASSUME NEW s \in Seq(Manager!Messages), NEW t \in Seq(Manager!Messages), NEW u \in Seq(Manager!Messages)
    PROVE  SubSeq(s \o t \o u, 1, Len(s)) = s
OBVIOUS

\* NoMsg stands for no message at all.
LEMMA ManagerNoMsgIsNone == Manager!NoMsg \notin Manager!Messages
BY DEF Manager!NoMsg, Manager!Messages

\* The types of one worker and its queue.
LEMMA ManagerTypesAt ==
    ASSUME Manager!TypeOK, NEW k \in Manager!Kinds, NEW c \in Channels
    PROVE  /\ sent[k][c] \in Seq(Manager!Messages) /\ enq[k][c] \in Seq(Manager!Messages)
           /\ queue[k][c] \in Seq(Manager!Messages)
           /\ wmsg[k][c] \in Manager!Messages \cup {Manager!NoMsg}
           /\ wpc[k][c] \in {"none", "select", "limiter", "send", "exited"}
           /\ qclosed[k] \in SUBSET Channels
<1>1. /\ sent \in [Manager!Kinds -> [Channels -> Seq(Manager!Messages)]]
      /\ enq \in [Manager!Kinds -> [Channels -> Seq(Manager!Messages)]]
      /\ queue \in [Manager!Kinds -> [Channels -> Seq(Manager!Messages)]]
      /\ wmsg \in [Manager!Kinds -> [Channels -> Manager!Messages \cup {Manager!NoMsg}]]
      /\ wpc \in [Manager!Kinds -> [Channels -> {"none", "select", "limiter", "send", "exited"}]]
      /\ qclosed \in [Manager!Kinds -> SUBSET Channels]
  BY Zenon DEF Manager!TypeOK
<1> QED
  BY <1>1

-----------------------------------------------------------------------------
ManagerSending(k, c) == IF wpc[k][c] = "send" THEN << wmsg[k][c] >> ELSE << >>

\* A worker's queue: what it has handed over, is handing over and has before it
\* is what it was given, until a cancelled context lets it drop messages; even
\* then what it has handed over is what it was given first.
ManagerOrder(k, c) ==
    /\ wpc[k][c] \in {"limiter", "send"} <=> wmsg[k][c] # Manager!NoMsg
    /\ ctx # "cancelled" => enq[k][c] = sent[k][c] \o Manager!InFlight(k, c) \o queue[k][c]
    /\ \E rest \in Seq(Manager!Messages) : enq[k][c] = sent[k][c] \o ManagerSending(k, c) \o rest
    /\ wpc[k][c] = "exited" /\ ctx # "cancelled" => queue[k][c] = << >> /\ c \in qclosed[k]
    /\ ctx = "none" => wpc[k][c] = "none"

ManagerDispatcherHolds == \A k \in Manager!Kinds : dpc[k] \in {"lookup", "enqueue"} => dmsg[k] \in Manager!Messages

ManagerOrderInv == Manager!TypeOK /\ ManagerDispatcherHolds /\ \A k \in Manager!Kinds, c \in Channels : ManagerOrder(k, c)

-----------------------------------------------------------------------------
\* Nothing has been given to anybody.
LEMMA ManagerInitOrderInv ==
  ASSUME Manager!ConstantsAssumption, Manager!Init
  PROVE  ManagerOrderInv
<1>1. Manager!TypeOK
  <2>1. [k \in Manager!Kinds |-> [c \in Channels |-> << >>]] \in [Manager!Kinds -> [Channels -> Seq(Manager!Messages)]]
    OBVIOUS
  <2>2. count \in 0..MaxMsgs
    BY DEF Manager!ConstantsAssumption, Manager!Init
  <2>3. /\ [k \in Manager!Kinds |-> [c \in Channels |-> "none"]]
               \in [Manager!Kinds -> [Channels -> {"none", "select", "limiter", "send", "exited"}]]
        /\ [k \in Manager!Kinds |-> [c \in Channels |-> Manager!NoMsg]]
               \in [Manager!Kinds -> [Channels -> Manager!Messages \cup {Manager!NoMsg}]]
        /\ [k \in Manager!Kinds |-> << >>] \in [Manager!Kinds -> Seq(Manager!Messages)]
    OBVIOUS
  <2>4. /\ queue \in [Manager!Kinds -> [Channels -> Seq(Manager!Messages)]]
        /\ enq \in [Manager!Kinds -> [Channels -> Seq(Manager!Messages)]]
        /\ sent \in [Manager!Kinds -> [Channels -> Seq(Manager!Messages)]]
        /\ wpc \in [Manager!Kinds -> [Channels -> {"none", "select", "limiter", "send", "exited"}]]
        /\ wmsg \in [Manager!Kinds -> [Channels -> Manager!Messages \cup {Manager!NoMsg}]]
        /\ busq \in [Manager!Kinds -> Seq(Manager!Messages)]
    BY <2>1, <2>3, Zenon DEF Manager!Init
  <2>5. /\ dpc \in [Manager!Kinds -> {"none", "subscribe", "lookup", "enqueue", "exited"}]
        /\ dmsg \in [Manager!Kinds -> Manager!Messages \cup {Manager!NoMsg}]
        /\ qclosed \in [Manager!Kinds -> SUBSET Channels]
    BY DEF Manager!Init
  <2>6. /\ channels \subseteq Channels /\ workers \subseteq Channels /\ mgrSet \subseteq Channels
        /\ ctx \in {"none", "live", "cancelled"} /\ busDone \in BOOLEAN
        /\ api \in {Manager!NoCall} \cup [op : {"enqueue", "send"}, msg : Manager!Messages]
        /\ mgrOp \in {"none", "StopAll", "UnregisterChannel"}
        /\ mgrPC \in {"none", "cancelled", "waitText", "waitMedia"}
        /\ panicked \in {"no", "send on closed channel", "close of closed channel"}
    BY DEF Manager!Init
  <2> QED
    BY <2>2, <2>4, <2>5, <2>6, Zenon DEF Manager!TypeOK
<1>2. ManagerDispatcherHolds
  BY DEF Manager!Init, ManagerDispatcherHolds
<1>3. ASSUME NEW k \in Manager!Kinds, NEW c \in Channels PROVE ManagerOrder(k, c)
  <2>1. /\ sent[k][c] = << >> /\ enq[k][c] = << >> /\ queue[k][c] = << >>
        /\ wpc[k][c] = "none" /\ wmsg[k][c] = Manager!NoMsg /\ ctx = "none"
    BY DEF Manager!Init
  <2>2. << >> \in Seq(Manager!Messages) /\ << >> = << >> \o << >> \o << >>
    OBVIOUS
  <2> QED
    BY <2>1, <2>2 DEF ManagerOrder, Manager!InFlight, ManagerSending
<1> QED
  BY <1>1, <1>2, <1>3 DEF ManagerOrderInv

\* Workers and queues are left alone; the context may be cancelled and queues
\* may be closed.
LEMMA ManagerOrderKept ==
    ASSUME NEW k \in Manager!Kinds, NEW c \in Channels, ManagerOrder(k, c),
           UNCHANGED <<sent[k][c], enq[k][c], queue[k][c], wpc[k][c], wmsg[k][c]>>,
           c \in qclosed[k] => c \in qclosed'[k],
           ctx' = ctx \/ ctx' = "cancelled"
    PROVE  ManagerOrder(k, c)'
BY DEF ManagerOrder, Manager!InFlight, ManagerSending

\* One more message for a worker that leaves its queue alone
ManagerGiven(k, c, m) ==
    /\ c \notin qclosed[k] /\ qclosed' = qclosed /\ ctx' = ctx
    /\ queue'[k][c] = Append(queue[k][c], m) /\ enq'[k][c] = Append(enq[k][c], m)
    /\ UNCHANGED <<sent[k][c], wpc[k][c], wmsg[k][c]>>

\* A message given to c is the last of what c was given and of what waits.
LEMMA ManagerEnqueueKeepsOrder ==
    ASSUME Manager!TypeOK, NEW k \in Manager!Kinds, NEW c \in Channels, ManagerOrder(k, c), NEW m \in Manager!Messages,
           ManagerGiven(k, c, m)
    PROVE  ManagerOrder(k, c)'
<1> DEFINE s == sent[k][c]
           q == queue[k][c]
           f == Manager!InFlight(k, c)
           g == ManagerSending(k, c)
<1>1. s \in Seq(Manager!Messages) /\ q \in Seq(Manager!Messages)
  BY ManagerTypesAt
<1>2. f \in Seq(Manager!Messages) /\ g \in Seq(Manager!Messages)
  BY ManagerTypesAt DEF Manager!InFlight, ManagerSending, ManagerOrder
<1>3. PICK r \in Seq(Manager!Messages) : enq[k][c] = s \o g \o r
  BY DEF ManagerOrder
<1>4. ctx # "cancelled" => enq[k][c] = s \o f \o q
  BY DEF ManagerOrder
<1> HIDE DEF s, q, f, g
<1>5. /\ s \o f \o Append(q, m) = Append(s \o f \o q, m)
      /\ s \o g \o Append(r, m) = Append(s \o g \o r, m)
      /\ Append(r, m) \in Seq(Manager!Messages)
  <2>1. s \o f \o Append(q, m) = Append(s \o f \o q, m)
    BY <1>1, <1>2, ManagerAppendLast, ZenonT(60)
  <2>2. s \o g \o Append(r, m) = Append(s \o g \o r, m)
    BY <1>1, <1>2, ManagerAppendLast, ZenonT(60)
  <2>3. Append(r, m) \in Seq(Manager!Messages)
    OBVIOUS
  <2> QED BY <2>1, <2>2, <2>3
<1>6. /\ ctx # "cancelled" => enq'[k][c] = s \o f \o Append(q, m)
      /\ enq'[k][c] = s \o g \o Append(r, m)
  BY <1>3, <1>4, <1>5 DEF ManagerGiven
<1>7. Manager!InFlight(k, c)' = f /\ ManagerSending(k, c)' = g /\ sent'[k][c] = s /\ queue'[k][c] = Append(q, m)
  BY DEF Manager!InFlight, ManagerSending, s, q, f, g, ManagerGiven
<1> QED
  BY <1>5, <1>6, <1>7 DEF ManagerOrder, ManagerGiven

\* What a step does at one worker
ManagerGoesTo(k, c, pc, item) ==
    /\ wpc'[k][c] = pc /\ wmsg'[k][c] = item
    /\ enq'[k][c] = enq[k][c] /\ ctx' = ctx /\ qclosed' = qclosed

\* A worker takes the first message that waits.
LEMMA ManagerReceiveKeepsOrder ==
    ASSUME Manager!TypeOK, NEW k \in Manager!Kinds, NEW c \in Channels, ManagerOrder(k, c),
           wpc[k][c] = "select", queue[k][c] # << >>,
           ManagerGoesTo(k, c, "limiter", Head(queue[k][c])),
           queue'[k][c] = Tail(queue[k][c]), sent'[k][c] = sent[k][c]
    PROVE  ManagerOrder(k, c)'
<1> DEFINE s == sent[k][c]
           q == queue[k][c]
<1>1. s \in Seq(Manager!Messages) /\ q \in Seq(Manager!Messages) /\ q # << >>
  BY ManagerTypesAt
<1>2. Manager!InFlight(k, c) = << >> /\ ManagerSending(k, c) = << >>
  BY DEF ManagerOrder, Manager!InFlight, ManagerSending
<1>3. Head(q) \in Manager!Messages /\ Tail(q) \in Seq(Manager!Messages)
  BY <1>1
<1>4. s \o << >> \o q = s \o << Head(q) >> \o Tail(q)
  BY <1>1, ManagerMoveHead
<1>5. Manager!InFlight(k, c)' = << Head(q) >> /\ ManagerSending(k, c)' = << >>
  BY <1>3, ManagerNoMsgIsNone DEF Manager!InFlight, ManagerSending, ManagerGoesTo
<1>6. ctx' # "cancelled" => enq'[k][c] = s \o Manager!InFlight(k, c)' \o Tail(q)
  BY <1>2, <1>4, <1>5 DEF ManagerOrder, ManagerGoesTo
<1> QED
  BY <1>2, <1>3, <1>5, <1>6, ManagerNoMsgIsNone DEF ManagerOrder, ManagerGoesTo

\* A worker exits with an empty closed queue or under a cancelled context.
LEMMA ManagerWorkerExitsKeepsOrder ==
    ASSUME NEW k \in Manager!Kinds, NEW c \in Channels, ManagerOrder(k, c),
           wpc[k][c] = "select",
           ctx = "cancelled" \/ (c \in qclosed[k] /\ queue[k][c] = << >>),
           ManagerGoesTo(k, c, "exited", Manager!NoMsg),
           queue'[k][c] = queue[k][c], sent'[k][c] = sent[k][c]
    PROVE  ManagerOrder(k, c)'
BY DEF ManagerOrder, Manager!InFlight, ManagerSending, ManagerGoesTo

\* A worker drops its message only under a cancelled context.
LEMMA ManagerWaitKeepsOrder ==
    ASSUME Manager!TypeOK, NEW k \in Manager!Kinds, NEW c \in Channels, ManagerOrder(k, c),
           wpc[k][c] = "limiter",
           IF ctx = "cancelled" THEN ManagerGoesTo(k, c, "select", Manager!NoMsg)
                                ELSE ManagerGoesTo(k, c, "send", wmsg[k][c]),
           queue'[k][c] = queue[k][c], sent'[k][c] = sent[k][c]
    PROVE  ManagerOrder(k, c)'
<1>1. CASE ctx = "cancelled"
  BY <1>1 DEF ManagerOrder, Manager!InFlight, ManagerSending, ManagerGoesTo
<1>2. CASE ctx # "cancelled"
  <2>1. queue[k][c] \in Seq(Manager!Messages) /\ wmsg[k][c] # Manager!NoMsg
    BY ManagerTypesAt DEF ManagerOrder
  <2>2. enq[k][c] = sent[k][c] \o << wmsg[k][c] >> \o queue[k][c]
    BY <1>2, <2>1 DEF ManagerOrder, Manager!InFlight
  <2>3. Manager!InFlight(k, c)' = << wmsg[k][c] >> /\ ManagerSending(k, c)' = << wmsg[k][c] >>
    BY <1>2, <2>1 DEF Manager!InFlight, ManagerSending, ManagerGoesTo
  <2> QED
    BY <1>2, <2>1, <2>2, <2>3 DEF ManagerOrder, ManagerGoesTo
<1> QED
  BY <1>1, <1>2

\* The message that was being sent is the last one handed over.
LEMMA ManagerSendKeepsOrder ==
    ASSUME Manager!TypeOK, NEW k \in Manager!Kinds, NEW c \in Channels, ManagerOrder(k, c),
           wpc[k][c] = "send", ManagerGoesTo(k, c, "select", Manager!NoMsg),
           queue'[k][c] = queue[k][c], sent'[k][c] = Append(sent[k][c], wmsg[k][c])
    PROVE  ManagerOrder(k, c)'
<1> DEFINE s == sent[k][c]
           q == queue[k][c]
           m == wmsg[k][c]
<1>1. s \in Seq(Manager!Messages) /\ q \in Seq(Manager!Messages) /\ m \in Manager!Messages
  BY ManagerTypesAt DEF ManagerOrder
<1>2. Manager!InFlight(k, c) = << m >> /\ ManagerSending(k, c) = << m >>
  BY <1>1, ManagerNoMsgIsNone DEF Manager!InFlight, ManagerSending
<1>3. PICK r \in Seq(Manager!Messages) : enq[k][c] = s \o << m >> \o r
  BY <1>2 DEF ManagerOrder
<1>4. ctx # "cancelled" => enq[k][c] = s \o << m >> \o q
  BY <1>2 DEF ManagerOrder
<1>5. Manager!InFlight(k, c)' = << >> /\ ManagerSending(k, c)' = << >>
  BY DEF Manager!InFlight, ManagerSending, ManagerGoesTo
<1>6. s \o << m >> \o r = Append(s, m) \o << >> \o r
  BY <1>1, ManagerMoveMiddle
<1>7. s \o << m >> \o q = Append(s, m) \o << >> \o q
  BY <1>1, ManagerMoveMiddle
<1>8. /\ enq'[k][c] = Append(s, m) \o << >> \o r
      /\ ctx' # "cancelled" => enq'[k][c] = Append(s, m) \o << >> \o q
  BY <1>3, <1>4, <1>6, <1>7 DEF ManagerGoesTo
<1> QED
  BY <1>5, <1>8 DEF ManagerOrder, ManagerGoesTo

-----------------------------------------------------------------------------
(* Types                                                                   *)

ManagerWpcSet == {"none", "select", "limiter", "send", "exited"}

ManagerQueueTypes ==
    /\ queue \in [Manager!Kinds -> [Channels -> Seq(Manager!Messages)]]
    /\ enq \in [Manager!Kinds -> [Channels -> Seq(Manager!Messages)]]
    /\ sent \in [Manager!Kinds -> [Channels -> Seq(Manager!Messages)]]
    /\ wpc \in [Manager!Kinds -> [Channels -> ManagerWpcSet]]
    /\ wmsg \in [Manager!Kinds -> [Channels -> Manager!Messages \cup {Manager!NoMsg}]]

ManagerBusTypes ==
    /\ busq \in [Manager!Kinds -> Seq(Manager!Messages)]
    /\ busDone \in BOOLEAN
    /\ count \in 0..MaxMsgs
    /\ dpc \in [Manager!Kinds -> {"none", "subscribe", "lookup", "enqueue", "exited"}]
    /\ dmsg \in [Manager!Kinds -> Manager!Messages \cup {Manager!NoMsg}]
    /\ api \in {Manager!NoCall} \cup [op : {"enqueue", "send"}, msg : Manager!Messages]

ManagerMgrTypes ==
    /\ channels \subseteq Channels
    /\ workers \subseteq Channels
    /\ ctx \in {"none", "live", "cancelled"}
    /\ qclosed \in [Manager!Kinds -> SUBSET Channels]
    /\ mgrOp \in {"none", "StopAll", "UnregisterChannel"}
    /\ mgrPC \in {"none", "cancelled", "waitText", "waitMedia"}
    /\ mgrSet \subseteq Channels
    /\ panicked \in {"no", "send on closed channel", "close of closed channel"}

\* TypeOK in the three parts that steps disturb separately.
LEMMA ManagerTypeParts == Manager!TypeOK <=> ManagerQueueTypes /\ ManagerBusTypes /\ ManagerMgrTypes
BY Zenon DEF Manager!TypeOK, ManagerQueueTypes, ManagerBusTypes, ManagerMgrTypes,
     ManagerWpcSet

\* There is a message of the next number.
LEMMA ManagerNewMessage ==
    ASSUME Manager!ConstantsAssumption, ManagerBusTypes, NEW c \in Channels, count < MaxMsgs
    PROVE  count + 1 \in 0..MaxMsgs /\ <<c, count + 1>> \in Manager!Messages
BY DEF Manager!ConstantsAssumption, ManagerBusTypes, Manager!Messages

\* A step that changes one queue or one worker keeps their types.
LEMMA ManagerQueueTypesKept ==
    ASSUME ManagerQueueTypes, NEW k \in Manager!Kinds, NEW c \in Channels,
           NEW q \in Seq(Manager!Messages), NEW e \in Seq(Manager!Messages), NEW s \in Seq(Manager!Messages),
           NEW p \in ManagerWpcSet, NEW m \in Manager!Messages \cup {Manager!NoMsg},
           queue' \in {queue, [queue EXCEPT ![k][c] = q]},
           enq' \in {enq, [enq EXCEPT ![k][c] = e]},
           sent' \in {sent, [sent EXCEPT ![k][c] = s]},
           wpc' \in {wpc, [wpc EXCEPT ![k][c] = p]},
           wmsg' \in {wmsg, [wmsg EXCEPT ![k][c] = m]}
    PROVE  ManagerQueueTypes'
<1>1. [queue EXCEPT ![k][c] = q] \in [Manager!Kinds -> [Channels -> Seq(Manager!Messages)]]
  BY DEF ManagerQueueTypes
<1>2. [enq EXCEPT ![k][c] = e] \in [Manager!Kinds -> [Channels -> Seq(Manager!Messages)]]
  BY DEF ManagerQueueTypes
<1>3. [sent EXCEPT ![k][c] = s] \in [Manager!Kinds -> [Channels -> Seq(Manager!Messages)]]
  BY DEF ManagerQueueTypes
<1>4. [wpc EXCEPT ![k][c] = p] \in [Manager!Kinds -> [Channels -> ManagerWpcSet]]
  BY DEF ManagerQueueTypes
<1>5. [wmsg EXCEPT ![k][c] = m] \in [Manager!Kinds -> [Channels -> Manager!Messages \cup {Manager!NoMsg}]]
  BY DEF ManagerQueueTypes
<1> QED
  BY <1>1, <1>2, <1>3, <1>4, <1>5, Zenon DEF ManagerQueueTypes

-----------------------------------------------------------------------------
(* Steps                                                                   *)

ManagerworkerVars == <<queue, enq, sent, wpc, wmsg>>

\* Steps of dispatchers, callers and the manager itself leave workers alone.
LEMMA ManagerWorkersAlone ==
    ASSUME ManagerOrderInv, UNCHANGED ManagerworkerVars,
           \A k \in Manager!Kinds : qclosed[k] \subseteq qclosed'[k],
           ctx' = ctx \/ ctx' = "cancelled",
           ManagerBusTypes', ManagerMgrTypes', ManagerDispatcherHolds'
    PROVE  ManagerOrderInv'
<1>1. Manager!TypeOK'
  BY ManagerTypeParts DEF ManagerOrderInv, ManagerQueueTypes, ManagerBusTypes,
       ManagerMgrTypes, Manager!TypeOK, ManagerworkerVars, ManagerWpcSet
<1>2. ASSUME NEW k \in Manager!Kinds, NEW c \in Channels PROVE ManagerOrder(k, c)'
  BY ManagerOrderKept DEF ManagerOrderInv, ManagerworkerVars
<1> QED
  BY <1>1, <1>2 DEF ManagerOrderInv

\* A panic changes nothing else.
LEMMA ManagerPanicStep ==
    ASSUME ManagerOrderInv, NEW why \in {"send on closed channel", "close of closed channel"}, Manager!Panic(why)
    PROVE  ManagerOrderInv'
<1>1. ManagerBusTypes /\ ManagerMgrTypes
  BY ManagerTypeParts DEF ManagerOrderInv
<1>2. ManagerBusTypes' /\ ManagerMgrTypes' /\ ManagerDispatcherHolds'
  BY <1>1 DEF ManagerOrderInv, ManagerBusTypes, ManagerMgrTypes, ManagerDispatcherHolds,
       Manager!Panic, Manager!dispVars, Manager!workVars, Manager!mgrVars
<1> QED
  BY <1>2, ManagerWorkersAlone DEF Manager!Panic, ManagerworkerVars, Manager!workVars,
       Manager!mgrVars, Manager!histVars

\* What is published or called has a number below the bound.
LEMMA ManagerBusSteps ==
    ASSUME Manager!ConstantsAssumption, ManagerOrderInv,
           \/ \E k \in Manager!Kinds, c \in Channels : Manager!Publish(k, c)
           \/ \E c \in Channels : Manager!SendToChannel(c) \/ Manager!SendMessage(c)
           \/ Manager!CloseBus \/ Manager!CallerReturns
    PROVE  ManagerOrderInv'
<1>1. ManagerBusTypes /\ ManagerMgrTypes /\ ManagerDispatcherHolds
  BY ManagerTypeParts DEF ManagerOrderInv
<1>2. UNCHANGED <<dpc, dmsg, Manager!workVars, Manager!mgrVars, panicked, Manager!histVars>>
  BY DEF Manager!Publish, Manager!SendToChannel, Manager!SendMessage, Manager!NewCall,
       Manager!CloseBus, Manager!CallerReturns, Manager!dispVars
<1>3. ManagerMgrTypes' /\ ManagerDispatcherHolds' /\ UNCHANGED <<dpc, dmsg, ManagerworkerVars, qclosed, ctx>>
  BY <1>1, <1>2 DEF ManagerMgrTypes, ManagerDispatcherHolds, Manager!workVars,
       Manager!mgrVars, Manager!histVars, ManagerworkerVars
<1>4. ManagerBusTypes'
  <2>1. CASE \E k \in Manager!Kinds, c \in Channels : Manager!Publish(k, c)
    <3>1. PICK k \in Manager!Kinds, c \in Channels : Manager!Publish(k, c)
      BY <2>1
    <3>2. count + 1 \in 0..MaxMsgs /\ <<c, count + 1>> \in Manager!Messages
      BY <1>1, <3>1, ManagerNewMessage DEF Manager!Publish
    <3> QED
      BY <1>1, <3>1, <3>2 DEF ManagerBusTypes, Manager!Publish
  <2>2. CASE \E c \in Channels : Manager!SendToChannel(c) \/ Manager!SendMessage(c)
    <3>1. PICK c \in Channels, op \in {"enqueue", "send"} : Manager!NewCall(op, c)
      BY <2>2 DEF Manager!SendToChannel, Manager!SendMessage
    <3>2. count + 1 \in 0..MaxMsgs /\ <<c, count + 1>> \in Manager!Messages
      BY <1>1, <3>1, ManagerNewMessage DEF Manager!NewCall
    <3> QED
      BY <1>1, <3>1, <3>2 DEF ManagerBusTypes, Manager!NewCall
  <2>3. CASE Manager!CloseBus \/ Manager!CallerReturns
    BY <1>1, <2>3 DEF ManagerBusTypes, Manager!CloseBus, Manager!CallerReturns,
         Manager!dispVars
  <2> QED
    BY <2>1, <2>2, <2>3
<1> QED
  BY <1>3, <1>4, ManagerWorkersAlone

\* The manager closes queues and cancels the context, and undoes neither.
LEMMA ManagerSteps ==
    ASSUME ManagerOrderInv,
           \/ \E c \in Channels : Manager!RegisterChannel(c) \/ Manager!UnregisterChannel(c)
           \/ Manager!StopAll \/ Manager!MgrStep
    PROVE  ManagerOrderInv'
<1>1. ManagerBusTypes /\ ManagerMgrTypes /\ ManagerDispatcherHolds
  BY ManagerTypeParts DEF ManagerOrderInv
<1>2. CASE panicked' = "close of closed channel" /\ Manager!Panic("close of closed channel")
  BY <1>2, ManagerPanicStep
<1>3. CASE ~Manager!Panic("close of closed channel")
  <2>1. UNCHANGED <<Manager!dispVars, api, panicked, ManagerworkerVars>>
    BY <1>3 DEF Manager!RegisterChannel, Manager!UnregisterChannel, Manager!StopAll,
         Manager!MgrStep, Manager!StopAllClosesQueues,
               Manager!WaitText, Manager!WaitMedia, Manager!workVars, Manager!histVars, ManagerworkerVars
  <2>2. ManagerBusTypes' /\ ManagerDispatcherHolds'
    BY <1>1, <2>1 DEF ManagerBusTypes, ManagerDispatcherHolds, Manager!dispVars
  <2>3. ManagerMgrTypes' /\ (ctx' = ctx \/ ctx' = "cancelled")
        /\ \A k \in Manager!Kinds : qclosed[k] \subseteq qclosed'[k]
    <3>1. CASE \E c \in Channels : Manager!RegisterChannel(c)
      BY <1>1, <3>1 DEF ManagerMgrTypes, Manager!RegisterChannel, Manager!workVars
    <3>2. CASE \E c \in Channels : Manager!UnregisterChannel(c)
      BY <1>1, <1>3, <3>2 DEF ManagerMgrTypes, Manager!UnregisterChannel,
           Manager!CloseQueues, Manager!Kinds
    <3>3. CASE Manager!StopAll
      BY <1>1, <3>3 DEF ManagerMgrTypes, Manager!StopAll, Manager!workVars
    <3>4. CASE Manager!StopAllClosesQueues
      BY <1>1, <1>3, <3>4 DEF ManagerMgrTypes, Manager!StopAllClosesQueues,
           Manager!CloseQueues, Manager!Kinds
    <3>5. CASE Manager!WaitText
      BY <1>1, <3>5 DEF ManagerMgrTypes, Manager!WaitText, Manager!CloseQueues,
           Manager!Kinds
    <3>6. CASE Manager!WaitMedia
      BY <1>1, <3>6 DEF ManagerMgrTypes, Manager!WaitMedia, Manager!workVars
    <3> QED
      BY <3>1, <3>2, <3>3, <3>4, <3>5, <3>6 DEF Manager!MgrStep
  <2> QED
    BY <2>1, <2>2, <2>3, ManagerWorkersAlone
<1> QED
  BY <1>2, <1>3 DEF Manager!Panic

\* A dispatcher that goes on to look up or enqueue holds a message.
LEMMA ManagerDispatcherSteps ==
    ASSUME ManagerOrderInv, NEW k \in Manager!Kinds, Manager!Subscribe(k) \/ Manager!Lookup(k) \/ Manager!DispatcherExits(k)
    PROVE  ManagerOrderInv'
<1>1. ManagerBusTypes /\ ManagerMgrTypes /\ ManagerDispatcherHolds
  BY ManagerTypeParts DEF ManagerOrderInv
<1>2. UNCHANGED <<busDone, count, Manager!workVars, Manager!mgrVars, api, panicked, Manager!histVars>>
  BY DEF Manager!Subscribe, Manager!Lookup, Manager!DispatcherExits
<1>3. ManagerMgrTypes' /\ UNCHANGED <<ManagerworkerVars, qclosed, ctx>>
  BY <1>1, <1>2 DEF ManagerMgrTypes, Manager!workVars, Manager!mgrVars, Manager!histVars,
       ManagerworkerVars
<1>4. ManagerBusTypes' /\ ManagerDispatcherHolds'
  <2>1. CASE Manager!Subscribe(k)
    <3>1. busq[k] \in Seq(Manager!Messages) /\ busq[k] # << >>
      BY <1>1, <2>1 DEF ManagerBusTypes, Manager!Subscribe
    <3>2. Head(busq[k]) \in Manager!Messages /\ Tail(busq[k]) \in Seq(Manager!Messages)
      BY <3>1
    <3> QED
      BY <1>1, <1>2, <2>1, <3>2 DEF ManagerBusTypes, ManagerDispatcherHolds,
           Manager!Subscribe, Manager!DispatcherGoesTo
  <2>2. CASE Manager!Lookup(k)
    BY <1>1, <1>2, <2>2 DEF ManagerBusTypes, ManagerDispatcherHolds, Manager!Lookup,
         Manager!DispatcherGoesTo
  <2>3. CASE Manager!DispatcherExits(k)
    BY <1>1, <1>2, <2>3 DEF ManagerBusTypes, ManagerDispatcherHolds,
         Manager!DispatcherExits, Manager!DispatcherGoesTo
  <2> QED
    BY <2>1, <2>2, <2>3
<1> QED
  BY <1>3, <1>4, ManagerWorkersAlone

\* A message is put into the queue of c: other queues stay.
LEMMA ManagerPutKeeps ==
    ASSUME ManagerOrderInv, NEW k \in Manager!Kinds, NEW c \in Channels, NEW m \in Manager!Messages,
           c \notin qclosed[k], Manager!PutInQueue(k, c, m),
           UNCHANGED <<sent, wpc, wmsg, qclosed, ctx>>,
           ManagerBusTypes', ManagerMgrTypes', ManagerDispatcherHolds'
    PROVE  ManagerOrderInv'
<1>1. ManagerQueueTypes /\ queue[k][c] \in Seq(Manager!Messages) /\ enq[k][c] \in Seq(Manager!Messages)
  BY ManagerTypeParts, ManagerTypesAt DEF ManagerOrderInv
<1>2. Append(queue[k][c], m) \in Seq(Manager!Messages) /\ Append(enq[k][c], m) \in Seq(Manager!Messages)
  BY <1>1
<1>3. /\ queue' = [queue EXCEPT ![k][c] = Append(queue[k][c], m)]
      /\ enq' = [enq EXCEPT ![k][c] = Append(enq[k][c], m)]
  BY DEF Manager!PutInQueue
<1>4. ManagerQueueTypes'
  <2>1. "none" \in ManagerWpcSet /\ << >> \in Seq(Manager!Messages) /\ Manager!NoMsg \in Manager!Messages \cup {Manager!NoMsg}
    BY DEF ManagerWpcSet
  <2> QED
    BY <1>1, <1>2, <1>3, <2>1, ManagerQueueTypesKept
<1>5. ASSUME NEW z \in Manager!Kinds, NEW d \in Channels PROVE ManagerOrder(z, d)'
  <2>1. CASE z = k /\ d = c
    <3>1. queue'[k][c] = Append(queue[k][c], m) /\ enq'[k][c] = Append(enq[k][c], m)
      BY <1>1, <1>3 DEF ManagerQueueTypes
    <3>2. ManagerGiven(k, c, m)
      BY <3>1 DEF ManagerGiven
    <3> QED
      BY <2>1, <3>2, ManagerEnqueueKeepsOrder DEF ManagerOrderInv
  <2>2. CASE z # k \/ d # c
    <3>1. queue'[z][d] = queue[z][d] /\ enq'[z][d] = enq[z][d]
      BY <1>1, <1>3, <2>2 DEF ManagerQueueTypes
    <3> QED
      BY <3>1, ManagerOrderKept DEF ManagerOrderInv
  <2> QED
    BY <2>1, <2>2
<1>6. Manager!TypeOK'
  BY <1>4, ManagerTypeParts DEF ManagerQueueTypes, ManagerBusTypes, ManagerMgrTypes,
       Manager!TypeOK, ManagerWpcSet
<1> QED
  BY <1>5, <1>6 DEF ManagerOrderInv

\* A send on a closed queue is a panic, so a queue that is closed is given nothing.
LEMMA ManagerEnqueueSteps ==
    ASSUME ManagerOrderInv, Manager!CallerEnqueues \/ \E k \in Manager!Kinds : Manager!Enqueue(k)
    PROVE  ManagerOrderInv'
<1>1. ManagerBusTypes /\ ManagerMgrTypes /\ ManagerDispatcherHolds
  BY ManagerTypeParts DEF ManagerOrderInv
<1>2. CASE \E k \in Manager!Kinds : Manager!Enqueue(k)
  <2>1. PICK k \in Manager!Kinds : Manager!Enqueue(k)
    BY <1>2
  <2>2. dmsg[k] \in Manager!Messages /\ dmsg[k][1] \in Channels
    BY <1>1, <2>1 DEF ManagerDispatcherHolds, Manager!Enqueue, Manager!Messages
  <2>3. CASE dmsg[k][1] \in qclosed[k]
    BY <2>1, <2>3, ManagerPanicStep DEF Manager!Enqueue
  <2>4. CASE dmsg[k][1] \notin qclosed[k]
    <3>1. ManagerBusTypes' /\ ManagerMgrTypes' /\ ManagerDispatcherHolds'
      BY <1>1, <2>1, <2>4, ZenonT(60)
         DEF ManagerBusTypes, ManagerMgrTypes, ManagerDispatcherHolds, Manager!Enqueue, Manager!DispatcherGoesTo, Manager!mgrVars
    <3> QED
      BY <2>1, <2>2, <2>4, <3>1, ManagerPutKeeps DEF Manager!Enqueue, Manager!mgrVars
  <2> QED
    BY <2>3, <2>4
<1>3. CASE Manager!CallerEnqueues
  <2>1. api.msg \in Manager!Messages /\ api.msg[1] \in Channels
    <3>1. api # Manager!NoCall
      <4>1. api.op = "enqueue"
        BY <1>3 DEF Manager!CallerEnqueues
      <4>2. Manager!NoCall.op = "none"
        BY DEF Manager!NoCall
      <4> QED
        BY <4>1, <4>2
    <3>2. api.msg \in Manager!Messages
      BY <1>1, <3>1 DEF ManagerBusTypes
    <3> QED
      BY <3>2 DEF Manager!Messages
  <2>2. CASE api.msg[1] \in qclosed["text"]
    BY <1>3, <2>2, ManagerPanicStep DEF Manager!CallerEnqueues
  <2>3. CASE api.msg[1] \notin qclosed["text"]
    <3>1. ManagerBusTypes' /\ ManagerMgrTypes' /\ ManagerDispatcherHolds'
      BY <1>1, <1>3, <2>3 DEF ManagerBusTypes, ManagerMgrTypes, ManagerDispatcherHolds,
           Manager!CallerEnqueues, Manager!dispVars, Manager!mgrVars
    <3> QED
      BY <1>3, <2>1, <2>3, <3>1, ManagerPutKeeps DEF Manager!CallerEnqueues,
           Manager!mgrVars, Manager!Kinds
  <2> QED
    BY <2>2, <2>3
<1> QED
  BY <1>2, <1>3

\* A step of one worker, one lemma for each of its kinds.
LEMMA ManagerWorkerSteps ==
    ASSUME ManagerOrderInv, NEW k \in Manager!Kinds, NEW c \in Channels, Manager!WorkerStep(k, c)
    PROVE  ManagerOrderInv'
<1>1. ManagerQueueTypes /\ ManagerBusTypes /\ ManagerMgrTypes /\ ManagerDispatcherHolds /\ ManagerOrder(k, c)
  BY ManagerTypeParts DEF ManagerOrderInv
<1>2. /\ sent[k][c] \in Seq(Manager!Messages) /\ queue[k][c] \in Seq(Manager!Messages)
      /\ wmsg[k][c] \in Manager!Messages \cup {Manager!NoMsg}
  BY ManagerTypesAt DEF ManagerOrderInv
<1>3. UNCHANGED <<Manager!dispVars, qclosed, Manager!mgrVars, api, panicked, enq>>
  BY DEF Manager!WorkerStep, Manager!Receive, Manager!WorkerExits, Manager!Wait,
       Manager!Send, Manager!histVars
<1>4. ManagerBusTypes' /\ ManagerMgrTypes' /\ ManagerDispatcherHolds' /\ ctx' = ctx
  BY <1>1, <1>3 DEF ManagerBusTypes, ManagerMgrTypes, ManagerDispatcherHolds,
       Manager!dispVars, Manager!mgrVars
<1>5. PICK p \in ManagerWpcSet, m \in Manager!Messages \cup {Manager!NoMsg} : Manager!WorkerGoesTo(k, c, p, m)
  <2>1. CASE Manager!Receive(k, c)
    <3>1. Head(queue[k][c]) \in Manager!Messages
      BY <1>2, <2>1 DEF Manager!Receive
    <3> QED
      BY <2>1, <3>1 DEF Manager!Receive, ManagerWpcSet
  <2>2. CASE ~Manager!Receive(k, c)
    BY <1>2, <2>2 DEF Manager!WorkerStep, Manager!WorkerExits, Manager!Wait, Manager!Send,
         ManagerWpcSet
  <2> QED
    BY <2>1, <2>2
<1>6. PICK q \in Seq(Manager!Messages) : queue' \in {queue, [queue EXCEPT ![k][c] = q]}
  <2>1. CASE Manager!Receive(k, c)
    <3>1. Tail(queue[k][c]) \in Seq(Manager!Messages)
      BY <1>2, <2>1 DEF Manager!Receive
    <3> QED
      BY <2>1, <3>1 DEF Manager!Receive
  <2>2. CASE ~Manager!Receive(k, c)
    BY <1>2, <2>2 DEF Manager!WorkerStep, Manager!WorkerExits, Manager!Wait, Manager!Send
  <2> QED
    BY <2>1, <2>2
<1>7. PICK s \in Seq(Manager!Messages) : sent' \in {sent, [sent EXCEPT ![k][c] = s]}
  <2>1. CASE Manager!Send(k, c)
    <3>1. Append(sent[k][c], wmsg[k][c]) \in Seq(Manager!Messages)
      BY <1>1, <1>2, <2>1 DEF Manager!Send, ManagerOrder
    <3> QED
      BY <2>1, <3>1 DEF Manager!Send
  <2>2. CASE ~Manager!Send(k, c)
    BY <1>2, <2>2 DEF Manager!WorkerStep, Manager!Receive, Manager!WorkerExits,
         Manager!Wait, Manager!histVars
  <2> QED
    BY <2>1, <2>2
<1>8. ManagerQueueTypes'
  <2>1. << >> \in Seq(Manager!Messages) /\ enq' \in {enq, [enq EXCEPT ![k][c] = << >>]}
    BY <1>3
  <2> QED
    BY <1>1, <1>5, <1>6, <1>7, <2>1, ManagerQueueTypesKept DEF Manager!WorkerGoesTo
<1>9. ASSUME NEW z \in Manager!Kinds, NEW d \in Channels, z # k \/ d # c PROVE ManagerOrder(z, d)'
  <2>1. /\ queue'[z][d] = queue[z][d] /\ sent'[z][d] = sent[z][d] /\ enq'[z][d] = enq[z][d]
        /\ wpc'[z][d] = wpc[z][d] /\ wmsg'[z][d] = wmsg[z][d]
    BY <1>1, <1>3, <1>5, <1>6, <1>7, <1>9 DEF ManagerQueueTypes, Manager!WorkerGoesTo
  <2> QED
    BY <1>3, <1>4, <2>1, ManagerOrderKept DEF ManagerOrderInv
<1>10. ManagerOrder(k, c)'
  <2>1. ASSUME NEW pc, NEW item, Manager!WorkerGoesTo(k, c, pc, item) PROVE ManagerGoesTo(k, c, pc, item)
    BY <1>1, <1>3, <1>4, <2>1 DEF ManagerGoesTo, Manager!WorkerGoesTo, ManagerQueueTypes
  <2>2. CASE Manager!Receive(k, c)
    <3>1. queue'[k][c] = Tail(queue[k][c]) /\ sent' = sent
      BY <1>1, <2>2 DEF Manager!Receive, ManagerQueueTypes, Manager!histVars
    <3> QED
      BY <1>1, <2>1, <2>2, <3>1, ManagerReceiveKeepsOrder DEF Manager!Receive,
           ManagerOrderInv
  <2>3. CASE Manager!WorkerExits(k, c)
    BY <1>1, <2>1, <2>3, ManagerWorkerExitsKeepsOrder DEF Manager!WorkerExits,
         Manager!histVars
  <2>4. CASE Manager!Wait(k, c)
    BY <1>1, <2>1, <2>4, ManagerWaitKeepsOrder DEF Manager!Wait, ManagerOrderInv,
         Manager!histVars
  <2>5. CASE Manager!Send(k, c)
    <3>1. sent'[k][c] = Append(sent[k][c], wmsg[k][c]) /\ queue' = queue
      BY <1>1, <2>5 DEF Manager!Send, ManagerQueueTypes
    <3> QED
      BY <1>1, <2>1, <2>5, <3>1, ManagerSendKeepsOrder DEF Manager!Send, ManagerOrderInv
  <2> QED
    BY <2>2, <2>3, <2>4, <2>5 DEF Manager!WorkerStep
<1>11. Manager!TypeOK'
  BY <1>4, <1>8, ManagerTypeParts DEF ManagerQueueTypes, ManagerBusTypes, ManagerMgrTypes,
       Manager!TypeOK, ManagerWpcSet
<1> QED
  BY <1>4, <1>9, <1>10, <1>11 DEF ManagerOrderInv

\* Before StartAll no worker has begun.
LEMMA ManagerStartAllStep ==
  ASSUME ManagerOrderInv, Manager!StartAll
  PROVE  ManagerOrderInv'
<1>1. ManagerQueueTypes /\ ManagerBusTypes /\ ManagerMgrTypes /\ ManagerDispatcherHolds
  BY ManagerTypeParts DEF ManagerOrderInv
<1>2. PICK started \in SUBSET channels :
        /\ workers' = workers \cup started
        /\ wpc' = [k \in Manager!Kinds |-> [c \in Channels |->
                     IF c \in started THEN "select" ELSE wpc[k][c]]]
  BY DEF Manager!StartAll
<1>3. wpc' \in [Manager!Kinds -> [Channels -> ManagerWpcSet]]
  BY <1>1, <1>2 DEF ManagerQueueTypes, ManagerWpcSet
<1>4. ManagerQueueTypes'
  BY <1>1, <1>3 DEF ManagerQueueTypes, Manager!StartAll, Manager!histVars
<1>5. ManagerBusTypes' /\ ManagerMgrTypes' /\ ManagerDispatcherHolds'
  BY <1>1, <1>2 DEF ManagerBusTypes, ManagerMgrTypes, ManagerDispatcherHolds,
       Manager!StartAll
<1>6. ASSUME NEW k \in Manager!Kinds, NEW c \in Channels PROVE ManagerOrder(k, c)'
  <2>1. ManagerOrder(k, c) /\ wpc[k][c] = "none" /\ wpc'[k][c] \in {"none", "select"}
    BY <1>2 DEF ManagerOrderInv, ManagerOrder, Manager!StartAll
  <2>2. ctx' = "live" /\ ctx = "none" /\ UNCHANGED <<queue, wmsg, enq, sent>>
    BY DEF Manager!StartAll, Manager!histVars
  <2> QED
    BY <2>1, <2>2 DEF ManagerOrder, Manager!InFlight, ManagerSending
<1>7. Manager!TypeOK'
  BY <1>4, <1>5, ManagerTypeParts DEF ManagerQueueTypes, ManagerBusTypes, ManagerMgrTypes,
       Manager!TypeOK, ManagerWpcSet
<1> QED
  BY <1>5, <1>6, <1>7 DEF ManagerOrderInv

\* OrderInv is inductive.
LEMMA ManagerNextOrderInv ==
  ASSUME Manager!ConstantsAssumption, ManagerOrderInv, [Manager!Next]_(Manager!vars)
  PROVE  ManagerOrderInv'
<1>1. CASE UNCHANGED Manager!vars
  <2>1. ManagerBusTypes /\ ManagerMgrTypes /\ ManagerDispatcherHolds
    BY ManagerTypeParts DEF ManagerOrderInv
  <2>2. ManagerBusTypes' /\ ManagerMgrTypes' /\ ManagerDispatcherHolds'
    BY <1>1, <2>1 DEF Manager!vars, Manager!dispVars, Manager!workVars, Manager!mgrVars,
         ManagerBusTypes, ManagerMgrTypes, ManagerDispatcherHolds
  <2> QED
    BY <1>1, <2>2, ManagerWorkersAlone DEF Manager!vars, Manager!workVars,
         Manager!mgrVars, Manager!histVars, ManagerworkerVars
<1>2. CASE Manager!Next
  BY <1>2, ManagerBusSteps, ManagerSteps, ManagerDispatcherSteps, ManagerEnqueueSteps,
       ManagerWorkerSteps, ManagerStartAllStep
     DEF Manager!Next, Manager!DispatcherStep, Manager!ApiStep
<1> QED
  BY <1>1, <1>2

\* Type correctness, for any channels, queue sizes and numbers of messages.
THEOREM ManagerTypeCorrect ==
  ASSUME Manager!ConstantsAssumption
  PROVE  Manager!Spec => []Manager!TypeOK
<1>1. Manager!Init => ManagerOrderInv
  BY ManagerInitOrderInv
<1>2. ManagerOrderInv /\ [Manager!Next]_(Manager!vars) => ManagerOrderInv'
  BY ManagerNextOrderInv
<1>3. ManagerOrderInv => Manager!TypeOK
  BY DEF ManagerOrderInv
<1> QED
  BY <1>1, <1>2, <1>3, PTL DEF Manager!Spec

\* Whatever starts, stops, is registered or fails meanwhile: a worker hands over
\* what it was given, in order and once, and nothing is lost before a StopAll.
THEOREM ManagerSentInOrder ==
  ASSUME Manager!ConstantsAssumption
  PROVE  Manager!Spec => []Manager!AcceptedIsSentInOrder
<1>1. Manager!Init => ManagerOrderInv
  BY ManagerInitOrderInv
<1>2. ManagerOrderInv /\ [Manager!Next]_(Manager!vars) => ManagerOrderInv'
  BY ManagerNextOrderInv
<1>3. ManagerOrderInv => Manager!AcceptedIsSentInOrder
  <2> SUFFICES ASSUME ManagerOrderInv, NEW k \in Manager!Kinds, NEW c \in Channels
               PROVE  /\ sent[k][c] = SubSeq(enq[k][c], 1, Len(sent[k][c]))
                      /\ ctx # "cancelled" =>
                          /\ enq[k][c] = sent[k][c] \o Manager!InFlight(k, c) \o queue[k][c]
                          /\ wpc[k][c] = "exited" => queue[k][c] = << >>
    BY DEF Manager!AcceptedIsSentInOrder
  <2> DEFINE s == sent[k][c]
             g == ManagerSending(k, c)
  <2>1. ManagerOrder(k, c) /\ s \in Seq(Manager!Messages) /\ wmsg[k][c] \in Manager!Messages \cup {Manager!NoMsg}
    BY ManagerTypesAt DEF ManagerOrderInv
  <2>2. g \in Seq(Manager!Messages)
    BY <2>1 DEF ManagerSending, ManagerOrder
  <2>3. PICK r \in Seq(Manager!Messages) : enq[k][c] = s \o g \o r
    BY <2>1 DEF ManagerOrder
  <2> HIDE DEF s, g
  <2>4. SubSeq(s \o g \o r, 1, Len(s)) = s
    BY <2>1, <2>2, ManagerPrefixOfConcat
  <2>5. SubSeq(enq[k][c], 1, Len(s)) = s
    BY <2>3, <2>4
  <2> QED
    BY <2>1, <2>5 DEF ManagerOrder, s
<1> QED
  BY <1>1, <1>2, <1>3, PTL DEF Manager!Spec

-----------------------------------------------------------------------------
\* A worker whose queue was closed has exited, or the operation that closed it
\* holds the lock and waits for it; before StartAll there is no worker.
ManagerReleaseInv ==
    /\ \A c \in qclosed["text"] :
          \/ \A k \in Manager!Kinds : wpc[k][c] = "exited"
          \/ /\ c \in mgrSet \cap workers
             /\ \/ mgrPC = "waitText"
                \/ mgrPC = "waitMedia" /\ wpc["text"][c] = "exited"
    /\ mgrOp = "none" <=> mgrPC = "none"
    /\ mgrPC = "cancelled" => mgrSet \subseteq workers
    /\ ctx = "none" => workers = {} /\ qclosed["text"] = {}

\* Steps that close nothing and let workers exit keep it.
LEMMA ManagerReleaseKept ==
    ASSUME ManagerReleaseInv, UNCHANGED Manager!mgrVars, qclosed' = qclosed,
           \A k \in Manager!Kinds, c \in Channels : wpc[k][c] = "exited" => wpc'[k][c] = "exited",
           qclosed["text"] \subseteq Channels
    PROVE  ManagerReleaseInv'
BY DEF ManagerReleaseInv, Manager!mgrVars, Manager!Kinds

\* ReleaseInv is inductive given the types.
LEMMA ManagerNextReleaseInv ==
    ASSUME ManagerOrderInv, ManagerReleaseInv, [Manager!Next]_(Manager!vars)
    PROVE  ManagerReleaseInv'
<1>1. ManagerQueueTypes /\ ManagerMgrTypes /\ qclosed["text"] \subseteq Channels
  BY ManagerTypeParts DEF ManagerOrderInv, ManagerMgrTypes, Manager!Kinds
<1>2. CASE UNCHANGED <<Manager!mgrVars, qclosed, wpc>>
  BY <1>1, <1>2, ManagerReleaseKept
<1>3. ASSUME NEW k \in Manager!Kinds, NEW c \in Channels, Manager!WorkerStep(k, c) PROVE ManagerReleaseInv'
  <2>1. /\ UNCHANGED <<Manager!mgrVars, qclosed>> /\ wpc[k][c] # "exited"
        /\ \E p : wpc' = [wpc EXCEPT ![k][c] = p]
    BY <1>3 DEF Manager!WorkerStep, Manager!Receive, Manager!WorkerExits, Manager!Wait,
         Manager!Send, Manager!WorkerGoesTo
  <2>2. \A z \in Manager!Kinds, d \in Channels : wpc[z][d] = "exited" => wpc'[z][d] = "exited"
    BY <1>1, <2>1 DEF ManagerQueueTypes
  <2> QED
    BY <1>1, <2>1, <2>2, ManagerReleaseKept
<1>4. CASE Manager!StartAll
  BY <1>4 DEF Manager!StartAll, ManagerReleaseInv
<1>5. CASE \E c \in Channels : Manager!RegisterChannel(c)
  BY <1>5 DEF Manager!RegisterChannel, ManagerReleaseInv, Manager!workVars
<1>6. CASE \E c \in Channels : Manager!UnregisterChannel(c) /\ ~Manager!Panic("close of closed channel")
  <2>1. PICK c \in Channels : Manager!UnregisterChannel(c) /\ ~Manager!Panic("close of closed channel")
    BY <1>6
  <2>2. /\ mgrPC = "none" /\ mgrPC' = "waitText" /\ mgrOp' = "UnregisterChannel" /\ mgrSet' = {c}
        /\ qclosed'["text"] = qclosed["text"] \cup ({c} \cap workers)
        /\ UNCHANGED <<workers, ctx, wpc>>
    BY <1>1, <2>1 DEF Manager!UnregisterChannel, Manager!CloseQueues, ManagerReleaseInv,
         Manager!Unlocked, ManagerMgrTypes, Manager!Kinds
  <2> QED
    BY <2>2 DEF ManagerReleaseInv
<1>7. CASE Manager!StopAll
  BY <1>7 DEF Manager!StopAll, ManagerReleaseInv, Manager!Unlocked, Manager!workVars
<1>8. CASE Manager!StopAllClosesQueues /\ ~Manager!Panic("close of closed channel")
  <2>1. /\ mgrPC = "cancelled" /\ mgrPC' = "waitText" /\ mgrSet \subseteq workers
        /\ qclosed'["text"] = qclosed["text"] \cup mgrSet
        /\ UNCHANGED <<workers, ctx, wpc, mgrOp, mgrSet>>
    BY <1>1, <1>8 DEF Manager!StopAllClosesQueues, Manager!CloseQueues, ManagerReleaseInv,
         ManagerMgrTypes, Manager!Kinds
  <2> QED
    BY <2>1 DEF ManagerReleaseInv
<1>9. CASE Manager!WaitText
  <2>1. /\ mgrPC = "waitText" /\ mgrPC' = "waitMedia"
        /\ \A c \in mgrSet \cap workers : wpc["text"][c] = "exited"
        /\ qclosed'["text"] = qclosed["text"]
        /\ UNCHANGED <<workers, ctx, wpc, mgrOp, mgrSet>>
    BY <1>1, <1>9 DEF Manager!WaitText, Manager!WorkersExited, Manager!CloseQueues,
         ManagerMgrTypes, Manager!Kinds
  <2> QED
    BY <2>1 DEF ManagerReleaseInv
<1>10. CASE Manager!WaitMedia
  <2>1. /\ mgrPC = "waitMedia" /\ mgrPC' = "none" /\ mgrOp' = "none" /\ workers' \subseteq workers
        /\ \A c \in mgrSet \cap workers : wpc["media"][c] = "exited"
        /\ UNCHANGED <<ctx, wpc, qclosed>>
    BY <1>10 DEF Manager!WaitMedia, Manager!WorkersExited, Manager!workVars
  <2> QED
    BY <2>1 DEF ManagerReleaseInv, Manager!Kinds
<1> QED
  <2>1. CASE Manager!Panic("close of closed channel")
    BY <1>2, <2>1 DEF Manager!Panic, Manager!workVars
  <2>2. CASE UNCHANGED Manager!vars \/ Manager!CloseBus \/ Manager!ApiStep
    BY <1>2, <2>2 DEF Manager!vars, Manager!CloseBus, Manager!ApiStep,
         Manager!CallerEnqueues, Manager!CallerReturns, Manager!Panic, Manager!workVars
  <2>3. CASE \E k \in Manager!Kinds, c \in Channels : Manager!Publish(k, c)
    BY <1>2, <2>3 DEF Manager!Publish, Manager!workVars
  <2>4. CASE \E k \in Manager!Kinds : Manager!DispatcherStep(k)
    BY <1>2, <2>4 DEF Manager!DispatcherStep, Manager!Subscribe, Manager!Lookup,
         Manager!Enqueue, Manager!DispatcherExits, Manager!Panic, Manager!workVars
  <2>5. CASE \E c \in Channels : Manager!SendToChannel(c) \/ Manager!SendMessage(c)
    BY <1>2, <2>5 DEF Manager!SendToChannel, Manager!SendMessage, Manager!NewCall,
         Manager!workVars
  <2> QED
    BY <1>3, <1>4, <1>5, <1>6, <1>7, <1>8, <1>9, <1>10, <2>1, <2>2, <2>3, <2>4, <2>5
       DEF Manager!Next, Manager!MgrStep

\* Once StopAll or UnregisterChannel has let go of the lock, no worker whose
\* queue it closed runs: the channel's Stop is not called under a sender.
THEOREM ManagerNoSenderAfterRelease ==
    ASSUME Manager!ConstantsAssumption PROVE Manager!Spec => []Manager!NoWorkerAfterRelease
<1>1. Manager!Init => ManagerOrderInv /\ ManagerReleaseInv
  BY ManagerInitOrderInv DEF Manager!Init, ManagerReleaseInv, Manager!Kinds
<1>2. ManagerOrderInv /\ ManagerReleaseInv /\ [Manager!Next]_(Manager!vars) => (ManagerOrderInv /\ ManagerReleaseInv)'
  BY ManagerNextOrderInv, ManagerNextReleaseInv
<1>3. ManagerReleaseInv => Manager!NoWorkerAfterRelease
  BY DEF ManagerReleaseInv, Manager!NoWorkerAfterRelease, Manager!Unlocked
<1> QED
  BY <1>1, <1>2, <1>3, PTL DEF Manager!Spec

-----------------------------------------------------------------------------
\* Every worker in the map runs or has exited, and the queues that the holder of
\* the lock waits to see drained are closed.
ManagerWaitInv ==
    /\ \A k \in Manager!Kinds, c \in workers : wpc[k][c] # "none"
    /\ mgrPC = "waitText" => mgrSet \cap workers \subseteq qclosed["text"]
    /\ mgrPC = "waitMedia" => mgrSet \cap workers \subseteq qclosed["media"]

\* Steps that close nothing keep it, unless a worker is born.
LEMMA ManagerWaitKept ==
    ASSUME ManagerWaitInv, UNCHANGED Manager!mgrVars, qclosed' = qclosed, workers \subseteq Channels,
           \A k \in Manager!Kinds, c \in Channels : wpc[k][c] # "none" => wpc'[k][c] # "none"
    PROVE  ManagerWaitInv'
BY DEF ManagerWaitInv, Manager!mgrVars, Manager!Kinds

\* WaitInv is inductive, given the types and how far the holder of the lock is.
LEMMA ManagerNextWaitInv ==
    ASSUME ManagerOrderInv, ManagerReleaseInv, ManagerWaitInv, [Manager!Next]_(Manager!vars)
    PROVE  ManagerWaitInv'
<1>1. ManagerQueueTypes /\ ManagerMgrTypes /\ workers \subseteq Channels
  BY ManagerTypeParts DEF ManagerOrderInv, ManagerMgrTypes
<1>2. CASE UNCHANGED <<Manager!mgrVars, qclosed, wpc>>
  BY <1>1, <1>2, ManagerWaitKept
<1>3. ASSUME NEW k \in Manager!Kinds, NEW c \in Channels, Manager!WorkerStep(k, c) PROVE ManagerWaitInv'
  <2>1. /\ UNCHANGED <<Manager!mgrVars, qclosed>>
        /\ \E p : p # "none" /\ wpc' = [wpc EXCEPT ![k][c] = p]
    BY <1>3 DEF Manager!WorkerStep, Manager!Receive, Manager!WorkerExits, Manager!Wait,
         Manager!Send, Manager!WorkerGoesTo
  <2>2. \A z \in Manager!Kinds, d \in Channels : wpc[z][d] # "none" => wpc'[z][d] # "none"
    BY <1>1, <2>1 DEF ManagerQueueTypes
  <2> QED
    BY <1>1, <2>1, <2>2, ManagerWaitKept
<1>4. CASE Manager!StartAll
  <2>1. workers = {} /\ channels \subseteq Channels /\ UNCHANGED <<mgrPC, mgrSet, qclosed>>
    BY <1>1, <1>4 DEF Manager!StartAll, ManagerReleaseInv, ManagerMgrTypes
  <2>2. PICK started \in SUBSET channels :
          /\ workers' = workers \cup started
          /\ wpc' = [k \in Manager!Kinds |-> [c \in Channels |->
                       IF c \in started THEN "select" ELSE wpc[k][c]]]
    BY <1>4 DEF Manager!StartAll
  <2>3. \A k \in Manager!Kinds, c \in workers' : wpc'[k][c] = "select"
    BY <2>1, <2>2
  <2>4. mgrPC' = "none"
    BY <1>1, <1>4, <2>1 DEF Manager!StartAll, Manager!Unlocked, ManagerReleaseInv,
         ManagerMgrTypes
  <2> QED
    BY <2>3, <2>4 DEF ManagerWaitInv
<1>5. CASE \E c \in Channels : Manager!RegisterChannel(c)
  BY <1>5 DEF Manager!RegisterChannel, ManagerWaitInv, Manager!workVars
<1>6. CASE \E c \in Channels : Manager!UnregisterChannel(c) /\ ~Manager!Panic("close of closed channel")
  <2>1. PICK c \in Channels : Manager!UnregisterChannel(c) /\ ~Manager!Panic("close of closed channel")
    BY <1>6
  <2>2. /\ mgrPC' = "waitText" /\ mgrSet' = {c}
        /\ qclosed'["text"] = qclosed["text"] \cup ({c} \cap workers)
        /\ UNCHANGED <<workers, wpc>>
    BY <1>1, <2>1 DEF Manager!UnregisterChannel, Manager!CloseQueues, ManagerMgrTypes,
         Manager!Kinds
  <2> QED
    BY <2>2 DEF ManagerWaitInv
<1>7. CASE Manager!StopAll
  BY <1>7 DEF Manager!StopAll, ManagerWaitInv, Manager!workVars
<1>8. CASE Manager!StopAllClosesQueues /\ ~Manager!Panic("close of closed channel")
  <2>1. /\ mgrPC' = "waitText"
        /\ qclosed'["text"] = qclosed["text"] \cup mgrSet
        /\ UNCHANGED <<workers, wpc, mgrSet>>
    BY <1>1, <1>8 DEF Manager!StopAllClosesQueues, Manager!CloseQueues, ManagerMgrTypes,
         Manager!Kinds
  <2> QED
    BY <2>1 DEF ManagerWaitInv
<1>9. CASE Manager!WaitText
  <2>1. /\ mgrPC' = "waitMedia"
        /\ qclosed'["media"] = qclosed["media"] \cup (mgrSet \cap workers)
        /\ UNCHANGED <<workers, wpc, mgrSet>>
    BY <1>1, <1>9 DEF Manager!WaitText, Manager!CloseQueues, ManagerMgrTypes, Manager!Kinds
  <2> QED
    BY <2>1 DEF ManagerWaitInv
<1>10. CASE Manager!WaitMedia
  <2>1. mgrPC' = "none" /\ workers' \subseteq workers /\ UNCHANGED <<wpc, qclosed>>
    BY <1>10 DEF Manager!WaitMedia, Manager!workVars
  <2> QED
    BY <2>1 DEF ManagerWaitInv
<1> QED
  <2>1. CASE Manager!Panic("close of closed channel")
    BY <1>2, <2>1 DEF Manager!Panic, Manager!workVars
  <2>2. CASE UNCHANGED Manager!vars \/ Manager!CloseBus \/ Manager!ApiStep
    BY <1>2, <2>2 DEF Manager!vars, Manager!CloseBus, Manager!ApiStep,
         Manager!CallerEnqueues, Manager!CallerReturns, Manager!Panic, Manager!workVars
  <2>3. CASE \E k \in Manager!Kinds, c \in Channels : Manager!Publish(k, c)
    BY <1>2, <2>3 DEF Manager!Publish, Manager!workVars
  <2>4. CASE \E k \in Manager!Kinds : Manager!DispatcherStep(k)
    BY <1>2, <2>4 DEF Manager!DispatcherStep, Manager!Subscribe, Manager!Lookup,
         Manager!Enqueue, Manager!DispatcherExits, Manager!Panic, Manager!workVars
  <2>5. CASE \E c \in Channels : Manager!SendToChannel(c) \/ Manager!SendMessage(c)
    BY <1>2, <2>5 DEF Manager!SendToChannel, Manager!SendMessage, Manager!NewCall,
         Manager!workVars
  <2> QED
    BY <1>3, <1>4, <1>5, <1>6, <1>7, <1>8, <1>9, <1>10, <2>1, <2>2, <2>3, <2>4, <2>5
       DEF Manager!Next, Manager!MgrStep

\* Who holds the write lock while it waits for workers can go on, or one of the
\* workers can: each of them runs or has exited, its queue is closed, and nothing
\* it does needs the lock.
THEOREM ManagerLockHolderNotStuck ==
    ASSUME Manager!ConstantsAssumption PROVE Manager!Spec => []Manager!WorkersNeedNoLock
<1>1. Manager!Init => ManagerOrderInv /\ ManagerReleaseInv /\ ManagerWaitInv
  BY ManagerInitOrderInv DEF Manager!Init, ManagerReleaseInv, ManagerWaitInv, Manager!Kinds
<1>2. ManagerOrderInv /\ ManagerReleaseInv /\ ManagerWaitInv /\ [Manager!Next]_(Manager!vars) => (ManagerOrderInv /\ ManagerReleaseInv /\ ManagerWaitInv)'
  BY ManagerNextOrderInv, ManagerNextReleaseInv, ManagerNextWaitInv
<1>3. ManagerOrderInv /\ ManagerReleaseInv /\ ManagerWaitInv => Manager!WorkersNeedNoLock
  <2> SUFFICES ASSUME ManagerOrderInv, ManagerReleaseInv, ManagerWaitInv, mgrOp # "none", ~Manager!MgrCanStep
               PROVE  \E k \in Manager!Kinds, c \in mgrSet \cap workers : Manager!WorkerCanStep(k, c)
    BY DEF Manager!WorkersNeedNoLock
  <2>1. ManagerQueueTypes /\ ManagerMgrTypes /\ workers \subseteq Channels
    BY ManagerTypeParts DEF ManagerOrderInv, ManagerMgrTypes
  <2>2. PICK k \in Manager!Kinds, c \in mgrSet \cap workers : wpc[k][c] # "exited" /\ c \in qclosed[k]
    BY <2>1 DEF Manager!MgrCanStep, Manager!WorkersExited, ManagerReleaseInv,
         ManagerWaitInv, ManagerMgrTypes, Manager!Kinds
  <2>3. wpc[k][c] \in {"select", "limiter", "send"}
    BY <2>1, <2>2 DEF ManagerQueueTypes, ManagerWpcSet, ManagerWaitInv
  <2> QED
    BY <2>2, <2>3 DEF Manager!WorkerCanStep
<1> QED
  BY <1>1, <1>2, <1>3, PTL DEF Manager!Spec

-----------------------------------------------------------------------------
(* ChannelInbound                                                          *)

\* What the orders of the handlers have in common: publishing is the last step,
\* duplicates are looked for once, the attachment is taken before a message can
\* be found empty, and four look at the allowlist before they download.
InboundOrdered(p, s) ==
    /\ Len(s) \in 2..7 /\ DOMAIN s = 1..Len(s)
    /\ \A i \in DOMAIN s : s[i] = "publish" <=> i = Len(s)
    /\ \A i, j \in DOMAIN s : s[i] = "dedup" /\ s[j] = "dedup" => i = j
    /\ \A i, j \in DOMAIN s : s[i] = "media" /\ s[j] = "empty" => i < j
    /\ p \in {"telegram", "discord", "feishu", "slack"} =>
          \A j \in DOMAIN s : s[j] = "media" => \E i \in DOMAIN s : s[i] = "allow" /\ i < j

LEMMA InboundOrdersOfSteps ==
  ASSUME NEW p \in DOMAIN Inbound!Steps
  PROVE  InboundOrdered(p, Inbound!Steps[p])
<1>1. InboundOrdered("telegram", Inbound!TelegramSteps)
  BY DEF InboundOrdered, Inbound!TelegramSteps
<1>2. InboundOrdered("discord", Inbound!DiscordSteps)
  BY DEF InboundOrdered, Inbound!DiscordSteps
<1>3. InboundOrdered("matrix", Inbound!MatrixSteps)
  BY DEF InboundOrdered, Inbound!MatrixSteps
<1>4. InboundOrdered("feishu", Inbound!FeishuSteps)
  BY DEF InboundOrdered, Inbound!FeishuSteps
<1>5. InboundOrdered("onebot", Inbound!OneBotSteps)
  BY DEF InboundOrdered, Inbound!OneBotSteps
<1>6. InboundOrdered("line", Inbound!LINESteps)
  BY DEF InboundOrdered, Inbound!LINESteps
<1>7. InboundOrdered("slack", Inbound!SlackSteps)
  BY DEF InboundOrdered, Inbound!SlackSteps
<1>8. InboundOrdered("qq", Inbound!QQSteps)
  BY DEF InboundOrdered, Inbound!QQSteps
<1>9. InboundOrdered("dingtalk", Inbound!DingTalkSteps)
  BY DEF InboundOrdered, Inbound!DingTalkSteps
<1>10. InboundOrdered("irc", Inbound!IRCSteps)
  BY DEF InboundOrdered, Inbound!IRCSteps
<1>11. InboundOrdered("wecom", Inbound!WeComSteps)
  BY DEF InboundOrdered, Inbound!WeComSteps
<1>12. InboundOrdered("wecom_app", Inbound!WeComAppSteps)
  BY DEF InboundOrdered, Inbound!WeComAppSteps
<1>13. InboundOrdered("whatsapp", Inbound!WhatsAppSteps)
  BY DEF InboundOrdered, Inbound!WhatsAppSteps
<1>14. InboundOrdered("whatsapp_native", Inbound!WhatsAppNativeSteps)
  BY DEF InboundOrdered, Inbound!WhatsAppNativeSteps
<1>15. InboundOrdered("maixcam", Inbound!MaixCamSteps)
  BY DEF InboundOrdered, Inbound!MaixCamSteps
<1> QED
  BY <1>1, <1>2, <1>3, <1>4, <1>5, <1>6, <1>7, <1>8, <1>9, <1>10, <1>11, <1>12, <1>13,
       <1>14, <1>15 DEF Inbound!Steps

-----------------------------------------------------------------------------
\* The handler of d is past step s, and goes on.
InboundPassed(d, s) ==
    at[d] # Inbound!Done /\ \E i \in DOMAIN Inbound!Steps[inPlatform] : i < at[d] /\ Inbound!Steps[inPlatform][i] = s

InboundPlaceInv ==
    /\ trigger # "all" => event.group /\ Inbound!HasStep(inPlatform, "trigger")
    /\ event.media => Inbound!HasStep(inPlatform, "media")
    /\ \A d \in Inbound!Deliveries : at[d] = Inbound!Done \/ at[d] <= Len(Inbound!Steps[inPlatform])

\* Who is past the allowlist is on it; what is published is for the bot; who is
\* past "context" has left it; a path that is referred to exists.
InboundAllowInv ==
    /\ \A d \in Inbound!Deliveries : InboundPassed(d, "allow") => Inbound!IsAllowedSender
    /\ published # {} => Inbound!IsAllowedSender
    /\ Inbound!RefusedDownloadsNothing

InboundTriggerInv ==
    \A d \in Inbound!Deliveries : InboundPassed(d, "trigger") \/ d \in published => Inbound!ForBot \/ d \in assumed

InboundContextInv ==
    \A d \in Inbound!Deliveries :
        InboundPassed(d, "context") \/ (d \in published /\ Inbound!HasStep(inPlatform, "context")) => context

\* What must be in the text.
InboundTextInv ==
    \A d \in Inbound!Deliveries :
        /\ at[d] # 0 /\ event.words => "words" \in inText[d]
        /\ InboundPassed(d, "media") /\ event.media => d \in failed \/ "marker" \in inText[d]

\* One delivery is past the look for duplicates, and no other goes on after it.
InboundSurvivor(d) == InboundPassed(d, "dedup") \/ (d \in published /\ Inbound!HasStep(inPlatform, "dedup"))

InboundDedupInv ==
    /\ dedup => \E first \in Inbound!Deliveries, i \in DOMAIN Inbound!Steps[inPlatform] :
                    Inbound!Steps[inPlatform][i] = "dedup" /\ at[first] > i
    /\ \A d \in Inbound!Deliveries : InboundSurvivor(d) => dedup
    /\ \A d, e \in Inbound!Deliveries : InboundSurvivor(d) /\ InboundSurvivor(e) => d = e

InboundIInv ==
    /\ Inbound!TypeOK /\ InboundPlaceInv /\ InboundAllowInv /\ InboundTriggerInv /\ InboundContextInv /\ InboundTextInv /\ InboundDedupInv
    /\ Inbound!NothingLost /\ Inbound!RefHasFile

-----------------------------------------------------------------------------
\* MatchAllowed accepts what the table says, and all of it where ids have no colon.
LEMMA InboundAllowedIsMeant ==
    ASSUME Inbound!TypeOK
    PROVE  /\ Inbound!IsAllowedSender => Inbound!Admitted
           /\ Inbound!Admitted /\ inPlatform \notin Inbound!ColonIDs => Inbound!IsAllowedSender
<1>1. \A entry \in Inbound!Entries : Inbound!MatchAllowed(entry) => Inbound!Means(entry)
  BY DEF Inbound!Entries, Inbound!Forms, Inbound!MatchAllowed, Inbound!Means
<1>2. \A entry \in Inbound!Entries : inPlatform \notin Inbound!ColonIDs /\ Inbound!Means(entry) => Inbound!MatchAllowed(entry)
  BY DEF Inbound!Entries, Inbound!Forms, Inbound!MatchAllowed, Inbound!Means
<1> QED
  BY <1>1, <1>2 DEF Inbound!TypeOK, Inbound!IsAllowedSender, Inbound!Admitted

\* Who answers in a group answers a call, and a call that is known for one.
LEMMA InboundCallsAreKnown ==
    /\ Inbound!ShouldRespondInGroup => event.call # "none" \/ trigger = "all"
    /\ Inbound!SaidToBe /\ event.group => Inbound!ShouldRespondInGroup
<1>1. inPlatform \in DOMAIN Inbound!Mentions => "none" \notin Inbound!Mentions[inPlatform]
  BY DEF Inbound!Mentions, Inbound!TelegramMentions, Inbound!DiscordMentions,
       Inbound!MatrixMentions, Inbound!FeishuMentions, Inbound!LINEMentions,
         Inbound!OneBotMentions, Inbound!IRCMentions
<1>2. inPlatform \in DOMAIN Inbound!Mentions \ {"irc"} => "entity" \in Inbound!Mentions[inPlatform]
  BY DEF Inbound!Mentions, Inbound!TelegramMentions, Inbound!DiscordMentions,
       Inbound!MatrixMentions, Inbound!FeishuMentions, Inbound!LINEMentions,
         Inbound!OneBotMentions, Inbound!IRCMentions
<1> QED
  BY <1>1, <1>2 DEF Inbound!ShouldRespondInGroup, Inbound!isBotMentioned, Inbound!SaidToBe

LEMMA InboundInitIInv ==
  ASSUME Inbound!ConstantsAssumption, Inbound!Init
  PROVE  InboundIInv
<1>1. Inbound!TypeOK
  <2>1. inPlatform \in AllPlatforms /\ allowList \subseteq Inbound!Entries /\ event \in Inbound!Event
        /\ trigger \in {"all", "mention", "prefix"}
    BY DEF Inbound!Init
  <2>2. /\ at \in [Inbound!Deliveries -> 0..Inbound!Done]
        /\ inText \in [Inbound!Deliveries -> SUBSET {"call", "words", "marker"}]
        /\ {refs, files, failed, assumed, published, refused} \subseteq SUBSET Inbound!Deliveries
    BY DEF Inbound!Init, Inbound!Done
  <2>3. knowsSelf \in BOOLEAN /\ dedup \in BOOLEAN /\ context \in BOOLEAN
    BY Zenon DEF Inbound!Init
  <2> QED
    BY <2>1, <2>2, <2>3 DEF Inbound!TypeOK
<1>2. InboundOrdered(inPlatform, Inbound!Steps[inPlatform])
  BY InboundOrdersOfSteps DEF Inbound!ConstantsAssumption, Inbound!Init
<1>3. \A d \in Inbound!Deliveries : at[d] = 0 /\ inText[d] = {}
  BY DEF Inbound!Init
<1>4. \A d \in Inbound!Deliveries : \A s : ~InboundPassed(d, s)
  BY <1>2, <1>3 DEF InboundPassed, InboundOrdered
<1>5. InboundPlaceInv
  BY <1>2, <1>3 DEF Inbound!Init, InboundPlaceInv, InboundOrdered
<1> QED
  BY <1>1, <1>3, <1>4, <1>5 DEF InboundIInv, Inbound!Init, InboundAllowInv,
       InboundTriggerInv, InboundContextInv, InboundTextInv, InboundDedupInv, InboundSurvivor,
     Inbound!NothingLost, Inbound!RefHasFile, Inbound!RefusedDownloadsNothing, Inbound!Done

-----------------------------------------------------------------------------
\* A step of a handler: it goes one step on or returns, the others stand still,
\* and so it is past nothing but the step it just took.
LEMMA InboundOneHandlerMoves ==
    ASSUME Inbound!ConstantsAssumption, InboundIInv, NEW d \in Inbound!Deliveries, Inbound!Handle(d) \/ Inbound!CleanExpired(d)
    PROVE  /\ InboundOrdered(inPlatform, Inbound!Steps[inPlatform])
           /\ UNCHANGED Inbound!eventVars
           /\ \A e \in Inbound!Deliveries \ {d} : at'[e] = at[e] /\ inText'[e] = inText[e]
           /\ \/ at'[d] = Inbound!Done
              \/ at'[d] = at[d] + 1 /\ at[d] < Len(Inbound!Steps[inPlatform])
           /\ at[d] = Inbound!Done => Inbound!CleanExpired(d)
<1>1. InboundOrdered(inPlatform, Inbound!Steps[inPlatform])
  BY InboundOrdersOfSteps DEF Inbound!ConstantsAssumption, InboundIInv, Inbound!TypeOK
<1>2. /\ at \in [Inbound!Deliveries -> 0..Inbound!Done]
      /\ inText \in [Inbound!Deliveries -> SUBSET {"call", "words", "marker"}]
      /\ at[d] = Inbound!Done \/ at[d] <= Len(Inbound!Steps[inPlatform])
  BY DEF InboundIInv, Inbound!TypeOK, InboundPlaceInv
<1>3. CASE Inbound!CleanExpired(d)
  <2>1. UNCHANGED <<Inbound!eventVars, at, inText>> /\ at[d] = Inbound!Done
    BY <1>3 DEF Inbound!CleanExpired
  <2> QED
    BY <1>1, <1>3, <2>1
<1>4. CASE Inbound!Deliver(d)
  <2>1. /\ at[d] = 0 /\ UNCHANGED Inbound!eventVars
        /\ at' = [at EXCEPT ![d] = 1]
        /\ \E t : inText' = [inText EXCEPT ![d] = t]
    BY <1>4 DEF Inbound!Deliver
  <2>2. 0 < Len(Inbound!Steps[inPlatform])
    BY <1>1 DEF InboundOrdered
  <2> QED
    BY <1>1, <1>2, <2>1, <2>2 DEF Inbound!Done
<1>5. CASE Inbound!HandleMessage(d)
  BY <1>1, <1>2, <1>5 DEF Inbound!HandleMessage, Inbound!Return, Inbound!Step,
       InboundOrdered, Inbound!Done
<1>6. CASE Inbound!Allow(d) \/ Inbound!Trigger(d) \/ Inbound!Empty(d) \/ Inbound!Fill(d) \/ Inbound!Dedup(d) \/ Inbound!Context(d) \/ Inbound!Media(d)
  <2>1. /\ Inbound!Step(d) \in {"allow", "trigger", "empty", "fill", "dedup", "context", "media"}
        /\ Inbound!Advance(d) \/ Inbound!Return(d)
        /\ UNCHANGED Inbound!eventVars
        /\ inText' = inText \/ \E t : inText' = [inText EXCEPT ![d] = t]
    BY <1>6, Zenon DEF Inbound!Allow, Inbound!Trigger, Inbound!Empty, Inbound!Fill,
         Inbound!Dedup, Inbound!Context, Inbound!Media, Inbound!Check, Inbound!mediaVars
  <2>2. at[d] # Inbound!Done /\ at[d] < Len(Inbound!Steps[inPlatform])
    BY <1>1, <1>2, <2>1 DEF Inbound!Step, InboundOrdered, Inbound!Done
  <2> QED
    BY <1>1, <1>2, <2>1, <2>2 DEF Inbound!Advance, Inbound!Return, InboundOrdered
<1> QED
  BY <1>3, <1>4, <1>5, <1>6 DEF Inbound!Handle

LEMMA InboundNextPlaceInv ==
    ASSUME Inbound!ConstantsAssumption, InboundIInv, NEW d \in Inbound!Deliveries, Inbound!Handle(d) \/ Inbound!CleanExpired(d)
    PROVE  InboundPlaceInv'
BY InboundOneHandlerMoves, SMTT(30) DEF InboundIInv, InboundPlaceInv, Inbound!eventVars,
     Inbound!HasStep, Inbound!TypeOK, InboundOrdered

LEMMA InboundPassesOne ==
    ASSUME Inbound!ConstantsAssumption, InboundIInv, NEW d \in Inbound!Deliveries, Inbound!Handle(d) \/ Inbound!CleanExpired(d),
           NEW e \in Inbound!Deliveries, NEW s, InboundPassed(e, s)'
    PROVE  \/ InboundPassed(e, s)
           \/ e = d /\ Inbound!Step(d) = s /\ at'[d] = at[d] + 1 /\ at[d] # Inbound!Done
<1>1. /\ InboundOrdered(inPlatform, Inbound!Steps[inPlatform]) /\ inPlatform' = inPlatform
      /\ e # d => at'[e] = at[e]
      /\ \/ at'[d] = Inbound!Done
         \/ at'[d] = at[d] + 1 /\ at[d] < Len(Inbound!Steps[inPlatform])
  BY InboundOneHandlerMoves DEF Inbound!eventVars
<1>2. at[d] \in Nat /\ at[e] \in Nat
  BY DEF InboundIInv, Inbound!TypeOK, Inbound!Done
<1>3. CASE e # d
  BY <1>1, <1>3 DEF InboundPassed
<1>4. CASE e = d
  <2>1. at'[d] # Inbound!Done /\ at'[d] = at[d] + 1 /\ at[d] < Len(Inbound!Steps[inPlatform])
    BY <1>1, <1>4 DEF InboundPassed
  <2>2. PICK i \in DOMAIN Inbound!Steps[inPlatform] : i < at[d] + 1 /\ Inbound!Steps[inPlatform][i] = s
    BY <1>1, <1>4, <2>1 DEF InboundPassed
  <2>3. at[d] # Inbound!Done
    BY <1>1, <1>2, <2>1, SMTT(30) DEF Inbound!Done, InboundOrdered
  <2> QED
    BY <1>1, <1>2, <1>4, <2>1, <2>2, <2>3 DEF InboundPassed, Inbound!Step, InboundOrdered
<1> QED
  BY <1>3, <1>4

\* The step that a handler is at is the one it takes.
LEMMA InboundStepTaken ==
    ASSUME Inbound!ConstantsAssumption, InboundIInv, NEW d \in Inbound!Deliveries, Inbound!Handle(d) \/ Inbound!CleanExpired(d)
    PROVE  /\ at[d] # Inbound!Done /\ Inbound!Step(d) = "allow" => Inbound!Allow(d)
           /\ at[d] # Inbound!Done /\ Inbound!Step(d) = "trigger" => Inbound!Trigger(d)
           /\ at[d] # Inbound!Done /\ Inbound!Step(d) = "context" => Inbound!Context(d)
           /\ at[d] # Inbound!Done /\ Inbound!Step(d) = "media" => Inbound!Media(d)
           /\ at[d] # Inbound!Done /\ Inbound!Step(d) = "dedup" => Inbound!Dedup(d)
<1>1. at[d] = 0 => Inbound!Step(d) = "none"
  BY InboundOneHandlerMoves DEF Inbound!Step, InboundOrdered
<1>2. CASE Inbound!CleanExpired(d)
  BY <1>2 DEF Inbound!CleanExpired
<1>3. CASE Inbound!Deliver(d)
  BY <1>1, <1>3 DEF Inbound!Deliver
<1>4. CASE Inbound!Handle(d) /\ ~Inbound!Deliver(d)
  BY <1>4, Zenon DEF Inbound!Handle, Inbound!Allow, Inbound!Trigger, Inbound!Empty,
       Inbound!Fill, Inbound!Dedup, Inbound!Context, Inbound!Media, Inbound!HandleMessage
<1> QED
  BY <1>2, <1>3, <1>4

LEMMA InboundNextTypeOK ==
    ASSUME Inbound!ConstantsAssumption, InboundIInv, NEW d \in Inbound!Deliveries, Inbound!Handle(d) \/ Inbound!CleanExpired(d)
    PROVE  Inbound!TypeOK'
<1>1. Inbound!TypeOK /\ Inbound!eventVars' = Inbound!eventVars
  BY InboundOneHandlerMoves DEF InboundIInv
<1>2. inPlatform' \in AllPlatforms /\ allowList' \subseteq Inbound!Entries /\ trigger' \in {"all", "mention", "prefix"}
      /\ knowsSelf' \in BOOLEAN /\ event' \in Inbound!Event
  BY <1>1 DEF Inbound!TypeOK, Inbound!eventVars
<1>3. at' \in [Inbound!Deliveries -> 0..Inbound!Done]
  <2>1. at' = at \/ \E n : at' = [at EXCEPT ![d] = n]
    BY Zenon DEF Inbound!Handle, Inbound!Deliver, Inbound!Allow, Inbound!Trigger,
         Inbound!Empty, Inbound!Fill, Inbound!Dedup, Inbound!Context, Inbound!Media,
         Inbound!HandleMessage,
       Inbound!CleanExpired, Inbound!Check, Inbound!Advance, Inbound!Return
  <2>2. at'[d] \in 0..Inbound!Done
    BY <1>1, InboundOneHandlerMoves, SMTT(30) DEF Inbound!TypeOK, InboundOrdered, Inbound!Done
  <2> QED
    BY <1>1, <2>1, <2>2 DEF Inbound!TypeOK
<1>4. inText' \in [Inbound!Deliveries -> SUBSET {"call", "words", "marker"}]
  <2>1. inText' = inText \/ \E t \in SUBSET {"call", "words", "marker"} : inText' = [inText EXCEPT ![d] = t]
    <3>1. inText[d] \in SUBSET {"call", "words", "marker"}
      BY <1>1 DEF Inbound!TypeOK
    <3>2. CASE Inbound!Deliver(d)
      BY <3>2 DEF Inbound!Deliver
    <3>3. CASE Inbound!Trigger(d) \/ Inbound!Fill(d)
      BY <1>1, <3>1, <3>3 DEF Inbound!Trigger, Inbound!Fill, Inbound!TypeOK
    <3>4. CASE Inbound!Media(d)
      BY <1>1, <3>1, <3>4 DEF Inbound!Media, Inbound!TypeOK
    <3> QED
      BY <3>2, <3>3, <3>4 DEF Inbound!Handle, Inbound!Allow, Inbound!Empty, Inbound!Dedup,
           Inbound!Context, Inbound!HandleMessage, Inbound!CleanExpired
  <2> QED
    BY <1>1, <2>1 DEF Inbound!TypeOK
<1>5. {refs', files', failed', assumed', published', refused'} \subseteq SUBSET Inbound!Deliveries
  <2>1. Inbound!Path(d) \in Inbound!Deliveries
    BY DEF Inbound!Path, Inbound!Deliveries, Inbound!ConstantsAssumption
  <2>2. CASE UNCHANGED <<refs, files, failed, published, refused>> /\ assumed' \subseteq assumed \cup {d}
    BY <1>1, <2>2 DEF Inbound!TypeOK
  <2>3. CASE Inbound!Media(d)
    BY <1>1, <2>1, <2>3 DEF Inbound!TypeOK, Inbound!Media, Inbound!mediaVars
  <2>4. CASE Inbound!HandleMessage(d)
    BY <1>1, <2>4 DEF Inbound!TypeOK, Inbound!HandleMessage, Inbound!mediaVars
  <2>5. CASE Inbound!CleanExpired(d)
    BY <1>1, <2>5 DEF Inbound!TypeOK, Inbound!CleanExpired
  <2>6. CASE Inbound!Trigger(d)
    BY <2>2, <2>6 DEF Inbound!Trigger, Inbound!mediaVars
  <2> QED
    BY <2>2, <2>3, <2>4, <2>5, <2>6
       DEF Inbound!Handle, Inbound!Deliver, Inbound!Allow, Inbound!Empty, Inbound!Fill, Inbound!Dedup, Inbound!Context, Inbound!mediaVars
<1>6. dedup' \in {TRUE, FALSE} /\ context' \in {TRUE, FALSE}
  <2>1. dedup \in {TRUE, FALSE} /\ context \in {TRUE, FALSE}
    BY <1>1 DEF Inbound!TypeOK
  <2> QED
    BY <2>1, Zenon DEF Inbound!Handle, Inbound!Deliver, Inbound!Allow, Inbound!Trigger,
         Inbound!Empty, Inbound!Fill, Inbound!Dedup, Inbound!Context, Inbound!Media,
       Inbound!HandleMessage, Inbound!CleanExpired
<1> QED
  BY <1>2, <1>3, <1>4, <1>5, <1>6 DEF Inbound!TypeOK

\* Who publishes is at the last step, returns from it, and is allowed.
LEMMA InboundWhoPublishes ==
    ASSUME Inbound!ConstantsAssumption, InboundIInv, NEW d \in Inbound!Deliveries, Inbound!Handle(d) \/ Inbound!CleanExpired(d),
           NEW e \in Inbound!Deliveries, e \in published'
    PROVE  \/ e \in published
           \/ e = d /\ Inbound!Step(d) = "publish" /\ at[d] # Inbound!Done /\ Inbound!HandleMessage(d) /\ Inbound!IsAllowedSender
<1>1. CASE Inbound!HandleMessage(d)
  BY <1>1, InboundOneHandlerMoves DEF Inbound!HandleMessage, Inbound!CleanExpired,
       InboundIInv, Inbound!TypeOK
<1>2. CASE ~Inbound!HandleMessage(d)
  BY <1>2, Zenon DEF Inbound!Handle, Inbound!Deliver, Inbound!Allow, Inbound!Trigger,
       Inbound!Empty, Inbound!Fill, Inbound!Dedup, Inbound!Context, Inbound!Media,
       Inbound!CleanExpired
<1> QED
  BY <1>1, <1>2

LEMMA InboundNextAllowInv ==
    ASSUME Inbound!ConstantsAssumption, InboundIInv, NEW d \in Inbound!Deliveries, Inbound!Handle(d) \/ Inbound!CleanExpired(d)
    PROVE  InboundAllowInv'
<1>1. (Inbound!IsAllowedSender <=> Inbound!IsAllowedSender') /\ inPlatform' = inPlatform
  BY InboundOneHandlerMoves DEF Inbound!eventVars, Inbound!IsAllowedSender,
       Inbound!MatchAllowed
<1>2. ASSUME NEW e \in Inbound!Deliveries, InboundPassed(e, "allow")' PROVE Inbound!IsAllowedSender'
  <2>1. CASE InboundPassed(e, "allow")
    BY <1>1, <2>1 DEF InboundIInv, InboundAllowInv
  <2>2. CASE Inbound!Step(d) = "allow" /\ at'[d] = at[d] + 1 /\ at[d] # Inbound!Done
    <3>1. Inbound!Allow(d)
      BY <2>2, InboundStepTaken
    <3>2. at[d] \in Nat /\ at[d] + 1 # Inbound!Done
      BY <2>2, InboundOneHandlerMoves DEF InboundIInv, Inbound!TypeOK, InboundPlaceInv,
           InboundOrdered, Inbound!Done
    <3>3. Inbound!IsAllowedSender
      BY <2>2, <3>1, <3>2 DEF Inbound!Allow, Inbound!Check, Inbound!Return, InboundIInv,
           Inbound!TypeOK
    <3> QED
      BY <1>1, <3>3
  <2> QED
    BY <1>2, <2>1, <2>2, InboundPassesOne
<1>3. published' # {} => Inbound!IsAllowedSender'
  <2>1. published' \subseteq Inbound!Deliveries
    BY InboundNextTypeOK DEF Inbound!TypeOK
  <2> QED
    BY <1>1, <2>1, InboundWhoPublishes DEF InboundIInv, InboundAllowInv
<1>4. Inbound!RefusedDownloadsNothing'
  <2>1. SUFFICES ASSUME inPlatform \in {"telegram", "discord", "feishu", "slack"}, ~Inbound!IsAllowedSender,
                        files' # {}
                 PROVE  FALSE
    BY <1>1 DEF Inbound!RefusedDownloadsNothing
  <2>2. files = {}
    BY <2>1 DEF InboundIInv, InboundAllowInv, Inbound!RefusedDownloadsNothing
  <2>3. Inbound!Media(d)
    BY <2>1, <2>2 DEF Inbound!Handle, Inbound!Deliver, Inbound!Allow, Inbound!Trigger,
         Inbound!Empty, Inbound!Fill, Inbound!Dedup, Inbound!Context,
       Inbound!HandleMessage, Inbound!CleanExpired, Inbound!mediaVars
  <2>4. InboundPassed(d, "allow")
    BY <2>1, <2>3, InboundOneHandlerMoves DEF Inbound!Media, Inbound!Step, InboundPassed,
         InboundOrdered, Inbound!Done
  <2> QED
    BY <2>1, <2>4 DEF InboundIInv, InboundAllowInv
<1> QED
  BY <1>2, <1>3, <1>4 DEF InboundAllowInv

LEMMA InboundNextTriggerInv ==
    ASSUME Inbound!ConstantsAssumption, InboundIInv, NEW d \in Inbound!Deliveries, Inbound!Handle(d) \/ Inbound!CleanExpired(d)
    PROVE  InboundTriggerInv'
<1>1. (Inbound!ForBot <=> Inbound!ForBot') /\ UNCHANGED <<inPlatform, event, trigger>>
  BY InboundOneHandlerMoves DEF Inbound!eventVars, Inbound!ForBot
<1>2. assumed \subseteq assumed'
  BY DEF Inbound!Handle, Inbound!Deliver, Inbound!Allow, Inbound!Trigger, Inbound!Empty,
       Inbound!Fill, Inbound!Dedup, Inbound!Context, Inbound!Media, Inbound!HandleMessage,
       Inbound!CleanExpired
<1>3. ASSUME NEW e \in Inbound!Deliveries, InboundPassed(e, "trigger")' PROVE Inbound!ForBot \/ e \in assumed'
  <2>1. CASE InboundPassed(e, "trigger")
    BY <1>2, <2>1 DEF InboundIInv, InboundTriggerInv
  <2>2. CASE e = d /\ Inbound!Step(d) = "trigger" /\ at'[d] = at[d] + 1 /\ at[d] # Inbound!Done
    <3>1. PICK group \in {event.group} \cup (IF inPlatform = "matrix" THEN {FALSE} ELSE {}) :
            /\ assumed' = IF group # event.group THEN assumed \cup {d} ELSE assumed
            /\ Inbound!Check(d, group => Inbound!ShouldRespondInGroup)
      BY <2>2, InboundStepTaken DEF Inbound!Trigger
    <3>2. at[d] \in Nat /\ at[d] + 1 # Inbound!Done
      BY <2>2, InboundOneHandlerMoves, SMTT(30) DEF InboundIInv, Inbound!TypeOK, InboundPlaceInv,
           InboundOrdered, Inbound!Done
    <3>3. group => Inbound!ShouldRespondInGroup
      BY <2>2, <3>1, <3>2 DEF Inbound!Check, Inbound!Return, InboundIInv, Inbound!TypeOK
    <3> QED
      BY <2>2, <3>1, <3>3, InboundCallsAreKnown DEF Inbound!ForBot
  <2> QED
    BY <1>3, <2>1, <2>2, InboundPassesOne
<1>4. ASSUME NEW e \in Inbound!Deliveries, e \in published' PROVE Inbound!ForBot \/ e \in assumed'
  <2>1. CASE e \in published
    BY <1>2, <2>1 DEF InboundIInv, InboundTriggerInv
  <2>2. CASE e = d /\ Inbound!Step(d) = "publish" /\ at[d] # Inbound!Done
    <3>1. Inbound!HasStep(inPlatform, "trigger") => InboundPassed(d, "trigger")
      <4>1. at[d] = Len(Inbound!Steps[inPlatform])
        BY <2>2, InboundOneHandlerMoves DEF Inbound!Step, InboundOrdered
      <4>2. \A i \in DOMAIN Inbound!Steps[inPlatform] : Inbound!Steps[inPlatform][i] = "trigger" => i < at[d]
        BY <2>2, <4>1, InboundOneHandlerMoves DEF Inbound!Step, InboundOrdered
      <4> QED
        BY <2>2, <4>2 DEF Inbound!HasStep, InboundPassed
    <3> QED
      BY <1>2, <2>2, <3>1 DEF InboundIInv, InboundTriggerInv, InboundPlaceInv,
           Inbound!ForBot
  <2> QED
    BY <1>4, <2>1, <2>2, InboundWhoPublishes
<1> QED
  BY <1>1, <1>3, <1>4 DEF InboundTriggerInv

LEMMA InboundNextContextInv ==
    ASSUME Inbound!ConstantsAssumption, InboundIInv, NEW d \in Inbound!Deliveries, Inbound!Handle(d) \/ Inbound!CleanExpired(d)
    PROVE  InboundContextInv'
<1>1. inPlatform' = inPlatform
  BY InboundOneHandlerMoves DEF Inbound!eventVars
<1>2. context => context'
  BY Zenon DEF Inbound!Handle, Inbound!Deliver, Inbound!Allow, Inbound!Trigger,
       Inbound!Empty, Inbound!Fill, Inbound!Dedup, Inbound!Context, Inbound!Media,
       Inbound!HandleMessage,
     Inbound!CleanExpired
<1>3. ASSUME NEW e \in Inbound!Deliveries, InboundPassed(e, "context")' PROVE context'
  <2>1. CASE InboundPassed(e, "context")
    BY <1>2, <2>1 DEF InboundIInv, InboundContextInv
  <2>2. CASE Inbound!Step(d) = "context" /\ at[d] # Inbound!Done
    BY <2>2, InboundStepTaken DEF Inbound!Context
  <2> QED
    BY <1>3, <2>1, <2>2, InboundPassesOne
<1>4. ASSUME NEW e \in Inbound!Deliveries, e \in published', Inbound!HasStep(inPlatform, "context") PROVE context'
  <2>1. CASE e \in published
    BY <1>2, <1>4, <2>1 DEF InboundIInv, InboundContextInv
  <2>2. CASE e = d /\ Inbound!Step(d) = "publish" /\ at[d] # Inbound!Done
    <3>1. at[d] = Len(Inbound!Steps[inPlatform])
      BY <2>2, InboundOneHandlerMoves DEF Inbound!Step, InboundOrdered
    <3>2. \A i \in DOMAIN Inbound!Steps[inPlatform] : Inbound!Steps[inPlatform][i] = "context" => i < at[d]
      BY <2>2, <3>1, InboundOneHandlerMoves DEF Inbound!Step, InboundOrdered
    <3>3. InboundPassed(d, "context")
      BY <1>4, <2>2, <3>2 DEF Inbound!HasStep, InboundPassed
    <3> QED
      BY <1>2, <3>3 DEF InboundIInv, InboundContextInv
  <2> QED
    BY <1>4, <2>1, <2>2, InboundWhoPublishes
<1> QED
  BY <1>1, <1>3, <1>4 DEF InboundContextInv, Inbound!HasStep

LEMMA InboundNextTextInv ==
    ASSUME Inbound!ConstantsAssumption, InboundIInv, NEW d \in Inbound!Deliveries, Inbound!Handle(d) \/ Inbound!CleanExpired(d)
    PROVE  InboundTextInv'
<1>1. /\ event' = event /\ inPlatform' = inPlatform /\ failed \subseteq failed'
      /\ \A e \in Inbound!Deliveries \ {d} : at'[e] = at[e] /\ inText'[e] = inText[e]
  <2>1. failed \subseteq failed'
    BY DEF Inbound!Handle, Inbound!Deliver, Inbound!Allow, Inbound!Trigger, Inbound!Empty,
         Inbound!Fill, Inbound!Dedup, Inbound!Context, Inbound!Media, Inbound!HandleMessage,
       Inbound!CleanExpired, Inbound!mediaVars
  <2> QED
    BY <2>1, InboundOneHandlerMoves DEF Inbound!eventVars
<1>2. inText \in [Inbound!Deliveries -> SUBSET {"call", "words", "marker"}]
  BY DEF InboundIInv, Inbound!TypeOK
<1>3. ASSUME ~Inbound!Deliver(d) PROVE inText[d] \ {"call"} \subseteq inText'[d]
  BY <1>2, <1>3 DEF Inbound!Handle, Inbound!Allow, Inbound!Trigger, Inbound!Empty,
       Inbound!Fill, Inbound!Dedup, Inbound!Context, Inbound!Media, Inbound!HandleMessage,
     Inbound!CleanExpired, Inbound!mediaVars
<1>4. ASSUME NEW e \in Inbound!Deliveries, at'[e] # 0, event.words PROVE "words" \in inText'[e]
  <2>1. CASE e # d
    BY <1>1, <1>4, <2>1 DEF InboundIInv, InboundTextInv
  <2>2. CASE e = d /\ Inbound!Deliver(d)
    BY <1>2, <1>4, <2>2 DEF Inbound!Deliver
  <2>3. CASE e = d /\ ~Inbound!Deliver(d)
    <3>1. at[d] # 0
      <4>1. at[d] = 0 => Inbound!Step(d) = "none"
        BY InboundOneHandlerMoves DEF Inbound!Step, InboundOrdered
      <4>2. Inbound!CleanExpired(d) => at[d] # 0
        BY DEF Inbound!CleanExpired, Inbound!Done
      <4> QED
        BY <2>3, <4>1, <4>2, Zenon DEF Inbound!Handle, Inbound!Allow, Inbound!Trigger,
             Inbound!Empty, Inbound!Fill, Inbound!Dedup, Inbound!Context, Inbound!Media,
           Inbound!HandleMessage
    <3> QED
      BY <1>3, <1>4, <2>3, <3>1 DEF InboundIInv, InboundTextInv
  <2> QED
    BY <2>1, <2>2, <2>3
<1>5. ASSUME NEW e \in Inbound!Deliveries, InboundPassed(e, "media")', event.media
      PROVE  e \in failed' \/ "marker" \in inText'[e]
  <2>1. CASE Inbound!Step(d) = "media" /\ at[d] # Inbound!Done /\ e = d
    BY <1>2, <1>5, <2>1, InboundStepTaken DEF Inbound!Media
  <2>2. CASE InboundPassed(e, "media")
    <3>1. ~(e = d /\ Inbound!Deliver(d))
      BY <2>2, InboundOneHandlerMoves DEF Inbound!Deliver, InboundPassed, InboundOrdered
    <3> QED
      BY <1>1, <1>3, <1>5, <2>2, <3>1 DEF InboundIInv, InboundTextInv
  <2> QED
    BY <1>5, <2>1, <2>2, InboundPassesOne
<1> QED
  BY <1>1, <1>4, <1>5 DEF InboundTextInv

LEMMA InboundNextDedupInv ==
    ASSUME Inbound!ConstantsAssumption, InboundIInv, NEW d \in Inbound!Deliveries, Inbound!Handle(d) \/ Inbound!CleanExpired(d)
    PROVE  InboundDedupInv'
<1>1. /\ inPlatform' = inPlatform
      /\ \A e \in Inbound!Deliveries : at[e] \in Nat /\ at'[e] \in Nat /\ at'[e] >= at[e]
  BY InboundOneHandlerMoves, InboundNextTypeOK, SMTT(30) DEF InboundIInv, Inbound!TypeOK,
       InboundPlaceInv, InboundOrdered, Inbound!Done, Inbound!eventVars
<1>2. dedup => dedup'
  BY Zenon DEF Inbound!Handle, Inbound!Deliver, Inbound!Allow, Inbound!Trigger,
       Inbound!Empty, Inbound!Fill, Inbound!Dedup, Inbound!Context, Inbound!Media,
       Inbound!HandleMessage,
     Inbound!CleanExpired
<1>3. dedup' => dedup \/ Inbound!Dedup(d)
  BY Zenon DEF Inbound!Handle, Inbound!Deliver, Inbound!Allow, Inbound!Trigger,
       Inbound!Empty, Inbound!Fill, Inbound!Dedup, Inbound!Context, Inbound!Media,
       Inbound!HandleMessage,
     Inbound!CleanExpired
<1>4. ASSUME Inbound!Dedup(d)
      PROVE  \E i \in DOMAIN Inbound!Steps[inPlatform] : Inbound!Steps[inPlatform][i] = "dedup" /\ at'[d] > i
  <2>1. /\ at[d] \in DOMAIN Inbound!Steps[inPlatform] /\ Inbound!Steps[inPlatform][at[d]] = "dedup"
        /\ at[d] \in Nat /\ at[d] # Inbound!Done
    BY <1>4, InboundOneHandlerMoves DEF Inbound!Dedup, Inbound!Step, InboundOrdered,
         Inbound!Done
  <2>2. at[d] <= 7
    BY <2>1, InboundOneHandlerMoves, SMTT(30) DEF InboundOrdered
  <2>3. at'[d] > at[d]
    BY <2>1, <2>2, InboundOneHandlerMoves DEF Inbound!Done
  <2> QED
    BY <2>1, <2>3
<1>5. ASSUME dedup'
      PROVE  \E first \in Inbound!Deliveries, i \in DOMAIN Inbound!Steps[inPlatform] :
                Inbound!Steps[inPlatform][i] = "dedup" /\ at'[first] > i
  <2>1. CASE dedup
    <3>1. PICK first \in Inbound!Deliveries, i \in DOMAIN Inbound!Steps[inPlatform] :
            Inbound!Steps[inPlatform][i] = "dedup" /\ at[first] > i
      BY <2>1 DEF InboundIInv, InboundDedupInv
    <3>2. i \in Nat
      BY InboundOneHandlerMoves DEF InboundOrdered
    <3> QED
      BY <1>1, <3>1, <3>2
  <2> QED
    BY <1>3, <1>4, <1>5, <2>1
\* A delivery that newly survives has just found the id unknown.
<1>6. ASSUME NEW e \in Inbound!Deliveries, InboundSurvivor(e)'
      PROVE  \/ InboundSurvivor(e)
             \/ e = d /\ ~dedup /\ dedup'
  <2>1. CASE InboundPassed(e, "dedup")'
    <3>1. CASE e = d /\ Inbound!Step(d) = "dedup" /\ at'[d] = at[d] + 1 /\ at[d] # Inbound!Done
      <4>1. Inbound!Dedup(d)
        BY <3>1, InboundStepTaken
      <4>2. at[d] + 1 # Inbound!Done
        BY <3>1, InboundOneHandlerMoves DEF InboundIInv, Inbound!TypeOK, InboundPlaceInv,
             InboundOrdered, Inbound!Done
      <4> QED
        BY <3>1, <4>1, <4>2 DEF Inbound!Dedup, Inbound!Check, Inbound!Return, InboundIInv,
             Inbound!TypeOK
    <3> QED
      BY <2>1, <3>1, InboundPassesOne DEF InboundSurvivor
  <2>2. CASE e \in published' /\ Inbound!HasStep(inPlatform, "dedup")
    <3>1. CASE e = d /\ Inbound!Step(d) = "publish" /\ at[d] # Inbound!Done
      <4>1. at[d] = Len(Inbound!Steps[inPlatform])
        BY <3>1, InboundOneHandlerMoves DEF Inbound!Step, InboundOrdered
      <4>2. \A i \in DOMAIN Inbound!Steps[inPlatform] : Inbound!Steps[inPlatform][i] = "dedup" => i < at[d]
        BY <3>1, <4>1, InboundOneHandlerMoves DEF Inbound!Step, InboundOrdered
      <4>3. InboundPassed(d, "dedup")
        BY <2>2, <3>1, <4>2 DEF Inbound!HasStep, InboundPassed
      <4> QED
        BY <3>1, <4>3 DEF InboundSurvivor
    <3> QED
      BY <2>2, <3>1, InboundWhoPublishes DEF InboundSurvivor
  <2> QED
    BY <1>1, <1>6, <2>1, <2>2 DEF InboundSurvivor, Inbound!HasStep
<1>7. \A e \in Inbound!Deliveries : InboundSurvivor(e) => dedup
  BY DEF InboundIInv, InboundDedupInv
<1>8. \A e, f \in Inbound!Deliveries : InboundSurvivor(e) /\ InboundSurvivor(f) => e = f
  BY DEF InboundIInv, InboundDedupInv
<1> QED
  BY <1>1, <1>2, <1>5, <1>6, <1>7, <1>8 DEF InboundDedupInv

LEMMA InboundNextNothingLost ==
    ASSUME Inbound!ConstantsAssumption, InboundIInv, NEW d \in Inbound!Deliveries, Inbound!Handle(d) \/ Inbound!CleanExpired(d)
    PROVE  Inbound!NothingLost'
<1>1. /\ UNCHANGED <<inPlatform, allowList, trigger, knowsSelf, event>>
      /\ \A e \in Inbound!Deliveries \ {d} : at'[e] = at[e] /\ inText'[e] = inText[e]
  BY InboundOneHandlerMoves DEF Inbound!eventVars
<1>2. failed \subseteq failed' /\ published \subseteq published' /\ refused \subseteq refused'
  BY DEF Inbound!Handle, Inbound!Deliver, Inbound!Allow, Inbound!Trigger, Inbound!Empty,
       Inbound!Fill, Inbound!Dedup, Inbound!Context, Inbound!Media, Inbound!HandleMessage,
     Inbound!CleanExpired, Inbound!mediaVars
<1>3. \A e \in Inbound!Deliveries : at[e] \in Nat /\ at'[e] \in Nat /\ at'[e] >= at[e]
  BY InboundOneHandlerMoves, InboundNextTypeOK DEF InboundIInv, Inbound!TypeOK,
       InboundPlaceInv, InboundOrdered, Inbound!Done
<1> SUFFICES ASSUME NEW e \in Inbound!Deliveries,
                    at'[e] = Inbound!Done, e \notin published' \cup refused',
                    Inbound!Admitted, inPlatform \notin Inbound!ColonIDs, Inbound!SaidToBe
             PROVE  \/ /\ Inbound!HasStep(inPlatform, "dedup")
                       /\ \E first \in Inbound!Deliveries \ {e} : at'[first] > 1
                    \/ inText'[e] = {} /\ ~event.words /\ (event.media => e \in failed')
  BY <1>1 DEF Inbound!NothingLost, Inbound!Admitted, Inbound!Means, Inbound!SaidToBe,
       Inbound!HasStep
<1>4. Inbound!IsAllowedSender
  BY InboundAllowedIsMeant DEF InboundIInv
\* It had returned before, or does so now, in one of the steps that may end it.
<1>5. CASE at[e] = Inbound!Done
  <2>1. inText'[e] = inText[e]
    BY <1>1, <1>5, InboundOneHandlerMoves DEF Inbound!CleanExpired
  <2>2. \/ Inbound!HasStep(inPlatform, "dedup") /\ \E first \in Inbound!Deliveries \ {e} : at[first] > 1
        \/ inText[e] = {} /\ ~event.words /\ (event.media => e \in failed)
    BY <1>2, <1>5 DEF InboundIInv, Inbound!NothingLost
  <2> QED
    BY <1>2, <1>3, <2>1, <2>2
<1>6. CASE at[e] # Inbound!Done
  <2>1. e = d /\ at'[d] = Inbound!Done
    BY <1>1, <1>6
  <2>2. at[d] \in Nat /\ at[d] + 1 # Inbound!Done
    BY <1>6, <2>1, InboundOneHandlerMoves DEF InboundIInv, Inbound!TypeOK,
         InboundPlaceInv, InboundOrdered, Inbound!Done
  <2>3. ~Inbound!Advance(d) /\ at \in [Inbound!Deliveries -> 0..Inbound!Done]
    BY <2>1, <2>2 DEF Inbound!Advance, InboundIInv, Inbound!TypeOK
  <2>4. Inbound!Trigger(d) \/ Inbound!Empty(d) \/ Inbound!Dedup(d)
    <3>1. ~Inbound!Deliver(d) /\ ~Inbound!CleanExpired(d)
      BY <1>6, <2>1, <2>3 DEF Inbound!Deliver, Inbound!CleanExpired, Inbound!Done
    <3>2. ~Inbound!HandleMessage(d)
      BY <1>4, <2>1 DEF Inbound!HandleMessage
    <3> QED
      BY <1>4, <2>3, <3>1, <3>2 DEF Inbound!Handle, Inbound!Allow, Inbound!Fill,
           Inbound!Context, Inbound!Media, Inbound!Check
  <2>5. CASE Inbound!Trigger(d)
    <3>1. PICK group \in {event.group} \cup (IF inPlatform = "matrix" THEN {FALSE} ELSE {}) :
            Inbound!Check(d, group => Inbound!ShouldRespondInGroup)
      BY <2>5 DEF Inbound!Trigger
    <3>2. group /\ ~Inbound!ShouldRespondInGroup
      BY <2>3, <3>1, Zenon DEF Inbound!Check
    <3> QED
      BY <3>1, <3>2, InboundCallsAreKnown
  <2>6. CASE Inbound!Empty(d)
    <3>1. inText[d] = {} /\ inText' = inText /\ failed' = failed /\ Inbound!Step(d) = "empty"
      BY <2>3, <2>6 DEF Inbound!Empty, Inbound!Check, Inbound!mediaVars
    <3>2. at[d] # 0
      BY <3>1, InboundOneHandlerMoves DEF Inbound!Step, InboundOrdered
    <3>3. ~event.words
      BY <3>1, <3>2 DEF InboundIInv, InboundTextInv
    <3>4. ASSUME event.media PROVE d \in failed
      <4>1. \A i \in DOMAIN Inbound!Steps[inPlatform] : Inbound!Steps[inPlatform][i] = "media" => i < at[d]
        BY <3>1, InboundOneHandlerMoves DEF Inbound!Step, InboundOrdered
      <4>2. InboundPassed(d, "media")
        BY <1>6, <2>1, <3>4, <4>1 DEF InboundIInv, InboundPlaceInv, Inbound!HasStep,
             InboundPassed
      <4> QED
        BY <3>1, <3>4, <4>2 DEF InboundIInv, InboundTextInv
    <3> QED
      BY <2>1, <3>1, <3>3, <3>4
  <2>7. CASE Inbound!Dedup(d)
    <3>1. dedup /\ Inbound!Step(d) = "dedup"
      BY <2>3, <2>7, Zenon DEF Inbound!Dedup, Inbound!Check
    <3>2. PICK first \in Inbound!Deliveries, i \in DOMAIN Inbound!Steps[inPlatform] :
            Inbound!Steps[inPlatform][i] = "dedup" /\ at[first] > i
      BY <3>1 DEF InboundIInv, InboundDedupInv
    <3>3. at[d] = i /\ i \in Nat /\ i >= 1
      BY <3>1, <3>2, InboundOneHandlerMoves DEF Inbound!Step, InboundOrdered
    <3>4. first # d /\ at[first] > 1
      BY <1>3, <3>2, <3>3
    <3> QED
      BY <1>3, <2>1, <3>2, <3>4 DEF Inbound!HasStep
  <2> QED
    BY <2>4, <2>5, <2>6, <2>7
<1> QED
  BY <1>5, <1>6

LEMMA InboundNextRefHasFile ==
    ASSUME Inbound!ConstantsAssumption, InboundIInv, NEW d \in Inbound!Deliveries, Inbound!Handle(d) \/ Inbound!CleanExpired(d)
    PROVE  Inbound!RefHasFile'
<1> SUFFICES ASSUME inPlatform # "feishu", NEW e \in refs' PROVE e \in files'
  BY InboundOneHandlerMoves DEF Inbound!RefHasFile, Inbound!Path, Inbound!eventVars
<1>1. refs \subseteq files
  BY DEF InboundIInv, Inbound!RefHasFile, Inbound!Path
<1> QED
  BY <1>1 DEF Inbound!Handle, Inbound!Deliver, Inbound!Allow, Inbound!Trigger,
       Inbound!Empty, Inbound!Fill, Inbound!Dedup, Inbound!Context, Inbound!Media,
       Inbound!HandleMessage,
     Inbound!CleanExpired, Inbound!mediaVars, Inbound!Path

LEMMA InboundNextIInv ==
  ASSUME Inbound!ConstantsAssumption, InboundIInv, [Inbound!Next]_(Inbound!vars)
  PROVE  InboundIInv'
<1>1. CASE UNCHANGED Inbound!vars
  <2>1. UNCHANGED <<inPlatform, allowList, trigger, knowsSelf, event, at, inText, refs, files, failed,
                    dedup, context, assumed, published, refused>>
    BY <1>1 DEF Inbound!vars, Inbound!eventVars, Inbound!mediaVars
  <2>2. Inbound!TypeOK' /\ InboundPlaceInv'
    BY <2>1 DEF InboundIInv, Inbound!TypeOK, InboundPlaceInv, Inbound!HasStep
  <2>3. InboundAllowInv'
    BY <2>1 DEF InboundIInv, InboundAllowInv, InboundPassed, Inbound!IsAllowedSender,
         Inbound!MatchAllowed, Inbound!RefusedDownloadsNothing
  <2>4. InboundTriggerInv' /\ InboundContextInv' /\ InboundTextInv'
    BY <2>1 DEF InboundIInv, InboundTriggerInv, InboundContextInv, InboundTextInv,
         InboundPassed, Inbound!HasStep, Inbound!ForBot
  <2>5. InboundDedupInv'
    BY <2>1 DEF InboundIInv, InboundDedupInv, InboundSurvivor, InboundPassed,
         Inbound!HasStep
  <2>6. Inbound!NothingLost'
    BY <2>1 DEF InboundIInv, Inbound!NothingLost, Inbound!Admitted, Inbound!Means,
         Inbound!SaidToBe, Inbound!HasStep
  <2>7. Inbound!RefHasFile'
    BY <2>1 DEF InboundIInv, Inbound!RefHasFile, Inbound!Path
  <2> QED
    BY <2>2, <2>3, <2>4, <2>5, <2>6, <2>7 DEF InboundIInv
<1>2. ASSUME NEW d \in Inbound!Deliveries, Inbound!Handle(d) \/ Inbound!CleanExpired(d) PROVE InboundIInv'
  BY <1>2, InboundNextTypeOK, InboundNextPlaceInv, InboundNextAllowInv,
       InboundNextTriggerInv, InboundNextContextInv, InboundNextTextInv,
     InboundNextDedupInv, InboundNextNothingLost, InboundNextRefHasFile DEF InboundIInv
<1> QED
  BY <1>1, <1>2 DEF Inbound!Next

\* Fifteen handlers with fifteen orders of their checks, any deliveries of an event
\* at once: only admitted messages for the bot are published, none of them is lost,
\* an id is published once, nothing is downloaded for who is refused early, a reply
\* finds its context, and a reference its file.
THEOREM InboundAdmits ==
  ASSUME Inbound!ConstantsAssumption
  PROVE  Inbound!Spec => [](Inbound!TypeOK /\ Inbound!InboundInv)
<1>1. Inbound!Init => InboundIInv
  BY InboundInitIInv
<1>2. InboundIInv /\ [Inbound!Next]_(Inbound!vars) => InboundIInv'
  BY InboundNextIInv
<1>3. InboundIInv => Inbound!TypeOK /\ Inbound!InboundInv
  <2> SUFFICES ASSUME InboundIInv PROVE Inbound!InboundInv
    BY DEF InboundIInv
  <2>1. Inbound!OnlyAdmitted
    BY InboundAllowedIsMeant DEF InboundIInv, InboundAllowInv, InboundTriggerInv,
         Inbound!OnlyAdmitted, Inbound!TypeOK
  <2>2. ASSUME Inbound!HasStep(inPlatform, "dedup") PROVE Cardinality(published) <= 1
    <3>1. \A d, e \in published : d = e
      BY <2>2 DEF InboundIInv, Inbound!TypeOK, InboundDedupInv, InboundSurvivor
    <3>2. CASE published = {}
      BY <3>2, FS_EmptySet
    <3>3. CASE published # {}
      <4>1. PICK d \in published : published = {d}
        BY <3>1, <3>3
      <4> QED
        BY <4>1, FS_Singleton
    <3> QED
      BY <3>2, <3>3
  <2>3. ASSUME Inbound!HasStep(inPlatform, "context"), published # {} PROVE context
    <3>1. PICK d \in Inbound!Deliveries : d \in published
      BY <2>3 DEF InboundIInv, Inbound!TypeOK
    <3> QED
      BY <2>3, <3>1, Zenon DEF InboundIInv, InboundContextInv
  <2>4. Inbound!Answerable
    BY <2>3, Zenon DEF Inbound!Answerable
  <2>5. Inbound!OncePerID
    BY <2>2, Zenon DEF Inbound!OncePerID, Inbound!Cardinality, Cardinality
  <2> QED
    BY <2>1, <2>4, <2>5 DEF InboundIInv, Inbound!InboundInv, InboundAllowInv
<1> QED
  BY <1>1, <1>2, <1>3, PTL DEF Inbound!Spec

-----------------------------------------------------------------------------
(* ChannelOutbound                                                         *)

\* What the platforms have in common: one call or two, the last of which shows
\* the part; those that take all parts in one call make only that one.
OutTraitOf(t) ==
    /\ t.calls \in Seq({"send", "upload", "html", "plain"}) /\ Len(t.calls) \in 1..2
    /\ t.calls[1] = "html" => Len(t.calls) = 2 /\ ~t.whole
    /\ Len(t.calls) = 2 => t.calls[1] \in {"upload", "html"} /\ ~t.whole
    /\ t.calls[Len(t.calls)] \notin {"upload", "html"}
    /\ t.whole \in BOOLEAN
    /\ t.errors \subseteq Outbound!Classified

LEMMA OutTraits ==
    ASSUME Outbound!ConstantsAssumption, Outbound!TypeOK
    PROVE  /\ OutTraitOf(Outbound!Trait)
           /\ outPlatform \in {"discord", "discord_text"} => Outbound!Trait.whole
           /\ outPlatform = "wecom_app" => ~Outbound!Trait.whole
<1>1. outPlatform \in DOMAIN Outbound!Traits
  BY DEF Outbound!ConstantsAssumption, Outbound!TypeOK
<1>2. DOMAIN Outbound!Traits =
          {"telegram", "telegram_text", "discord", "discord_text", "matrix", "slack",
           "line", "feishu", "onebot", "qq", "wecom_app"}
  BY DEF Outbound!Traits
<1>3. Outbound!Trait = Outbound!Traits[outPlatform]
  BY DEF Outbound!Trait
<1>a. CASE outPlatform = "telegram"
  <2>1. Outbound!Trait = Outbound!TelegramMedia
    BY <1>3, <1>a DEF Outbound!Traits
  <2>2. OutTraitOf(Outbound!TelegramMedia)
    BY DEF OutTraitOf, Outbound!TelegramMedia, Outbound!Classified, Outbound!Temporary
  <2> QED
    BY <1>a, <2>1, <2>2 DEF Outbound!TelegramMedia
<1>b. CASE outPlatform = "telegram_text"
  <2>1. Outbound!Trait = Outbound!TelegramText
    BY <1>3, <1>b DEF Outbound!Traits
  <2>2. OutTraitOf(Outbound!TelegramText)
    BY DEF OutTraitOf, Outbound!TelegramText, Outbound!Classified, Outbound!Temporary
  <2> QED
    BY <1>b, <2>1, <2>2 DEF Outbound!TelegramText
<1>c. CASE outPlatform = "discord"
  <2>1. Outbound!Trait = Outbound!DiscordMedia
    BY <1>3, <1>c DEF Outbound!Traits
  <2>2. OutTraitOf(Outbound!DiscordMedia)
    BY DEF OutTraitOf, Outbound!DiscordMedia, Outbound!Classified, Outbound!Temporary
  <2> QED
    BY <1>c, <2>1, <2>2 DEF Outbound!DiscordMedia
<1>d. CASE outPlatform = "discord_text"
  <2>1. Outbound!Trait = Outbound!DiscordText
    BY <1>3, <1>d DEF Outbound!Traits
  <2>2. OutTraitOf(Outbound!DiscordText)
    BY DEF OutTraitOf, Outbound!DiscordText, Outbound!Classified, Outbound!Temporary
  <2> QED
    BY <1>d, <2>1, <2>2 DEF Outbound!DiscordText
<1>e. CASE outPlatform = "matrix"
  <2>1. Outbound!Trait = Outbound!MatrixMedia
    BY <1>3, <1>e DEF Outbound!Traits
  <2>2. OutTraitOf(Outbound!MatrixMedia)
    BY DEF OutTraitOf, Outbound!MatrixMedia, Outbound!Classified, Outbound!Temporary
  <2> QED
    BY <1>e, <2>1, <2>2 DEF Outbound!MatrixMedia
<1>f. CASE outPlatform = "slack"
  <2>1. Outbound!Trait = Outbound!SlackMedia
    BY <1>3, <1>f DEF Outbound!Traits
  <2>2. OutTraitOf(Outbound!SlackMedia)
    BY DEF OutTraitOf, Outbound!SlackMedia, Outbound!Classified, Outbound!Temporary
  <2> QED
    BY <1>f, <2>1, <2>2 DEF Outbound!SlackMedia
<1>g. CASE outPlatform = "line"
  <2>1. Outbound!Trait = Outbound!LINEMedia
    BY <1>3, <1>g DEF Outbound!Traits
  <2>2. OutTraitOf(Outbound!LINEMedia)
    BY DEF OutTraitOf, Outbound!LINEMedia, Outbound!Classified, Outbound!Temporary
  <2> QED
    BY <1>g, <2>1, <2>2 DEF Outbound!LINEMedia
<1>h. CASE outPlatform = "feishu"
  <2>1. Outbound!Trait = Outbound!FeishuMedia
    BY <1>3, <1>h DEF Outbound!Traits
  <2>2. OutTraitOf(Outbound!FeishuMedia)
    BY DEF OutTraitOf, Outbound!FeishuMedia, Outbound!Classified, Outbound!Temporary
  <2> QED
    BY <1>h, <2>1, <2>2 DEF Outbound!FeishuMedia
<1>i. CASE outPlatform = "onebot"
  <2>1. Outbound!Trait = Outbound!OneBotMedia
    BY <1>3, <1>i DEF Outbound!Traits
  <2>2. OutTraitOf(Outbound!OneBotMedia)
    BY DEF OutTraitOf, Outbound!OneBotMedia, Outbound!Classified, Outbound!Temporary
  <2> QED
    BY <1>i, <2>1, <2>2 DEF Outbound!OneBotMedia
<1>j. CASE outPlatform = "qq"
  <2>1. Outbound!Trait = Outbound!QQMedia
    BY <1>3, <1>j DEF Outbound!Traits
  <2>2. OutTraitOf(Outbound!QQMedia)
    BY DEF OutTraitOf, Outbound!QQMedia, Outbound!Classified, Outbound!Temporary
  <2> QED
    BY <1>j, <2>1, <2>2 DEF Outbound!QQMedia
<1>k. CASE outPlatform = "wecom_app"
  <2>1. Outbound!Trait = Outbound!WeComAppMedia
    BY <1>3, <1>k DEF Outbound!Traits
  <2>2. OutTraitOf(Outbound!WeComAppMedia)
    BY DEF OutTraitOf, Outbound!WeComAppMedia, Outbound!Classified, Outbound!Temporary
  <2> QED
    BY <1>k, <2>1, <2>2 DEF Outbound!WeComAppMedia
<1> QED
  BY <1>1, <1>2, <1>a, <1>b, <1>c, <1>d, <1>e, <1>f, <1>g, <1>h, <1>i, <1>j, <1>k

-----------------------------------------------------------------------------
\* The parts of a call in order: each of them once, the smaller ones first.
LEMMA OutInOrderOf ==
    ASSUME NEW b \in SUBSET Nat, IsFiniteSet(b)
    PROVE  /\ Cardinality(b) \in Nat
           /\ Outbound!InOrderOf(b) \in [1..Cardinality(b) -> b]
           /\ \A i, j \in 1..Cardinality(b) : i < j => Outbound!InOrderOf(b)[i] < Outbound!InOrderOf(b)[j]
           /\ \A p \in b : \E i \in 1..Cardinality(b) : Outbound!InOrderOf(b)[i] = p
<1> DEFINE upTo(p) == {q \in b : q <= p}
           rank == [p \in b |-> Cardinality(upTo(p))]
           n == Cardinality(b)
           s == Outbound!InOrderOf(b)
           choice(i) == CHOOSE p \in b : Outbound!Cardinality({q \in b : q <= p}) = i
<1>1. n \in Nat
  BY FS_CardinalityType
<1>2. \A p \in b : /\ IsFiniteSet(upTo(p)) /\ Cardinality(upTo(p)) \in 1..n
  <2> TAKE p \in b
  <2>1. IsFiniteSet(upTo(p)) /\ Cardinality(upTo(p)) <= n
    BY FS_Subset
  <2>2. upTo(p) # {}
    OBVIOUS
  <2> QED
    BY <1>1, <2>1, <2>2, FS_CardinalityType, FS_EmptySet
<1>3. \A p, q \in b : p < q => Cardinality(upTo(p)) < Cardinality(upTo(q))
  <2> TAKE p, q \in b
  <2> HAVE p < q
  <2>1. upTo(p) \subseteq upTo(q) /\ upTo(p) # upTo(q)
    <3>1. p \in Nat /\ q \in Nat /\ q \in upTo(q) /\ q \notin upTo(p)
      OBVIOUS
    <3>2. ASSUME NEW x \in upTo(p) PROVE x \in upTo(q)
      <4>1. x \in b /\ x \in Nat /\ x <= p
        BY <3>2
      <4> QED
        BY <3>1, <4>1
    <3> QED
      BY <3>1, <3>2
  <2>2. Cardinality(upTo(p)) <= Cardinality(upTo(q)) /\ Cardinality(upTo(p)) # Cardinality(upTo(q))
    BY <1>2, <2>1, FS_Subset
  <2> QED
    BY <1>2, <2>2
<1>4. rank \in Injection(b, 1..n)
  <2>1. rank \in [b -> 1..n]
    BY <1>2
  <2>2. \A p, q \in b : rank[p] = rank[q] => p = q
    BY <1>2, <1>3
  <2> QED
    BY <2>1, <2>2 DEF Injection, IsInjective
<1>5. rank \in Surjection(b, 1..n)
  <2>1. IsFiniteSet(1..n) /\ Cardinality(1..n) = n
    BY <1>1, FS_Interval
  <2> HIDE DEF rank, n
  <2> QED
    BY <1>4, <2>1, FS_Injection DEF n
<1>6. \A i \in 1..n : \E p \in b : rank[p] = i
  BY <1>5 DEF Surjection
<1>c. \A i \in 1..n : choice(i) \in b /\ rank[choice(i)] = i
  <2>1. \A c : Outbound!Cardinality(c) = Cardinality(c)
    BY Zenon DEF Outbound!Cardinality, Cardinality
  <2>2. \A p \in b : rank[p] = Outbound!Cardinality({q \in b : q <= p})
    BY <2>1
  <2> HIDE DEF rank, n
  <2> TAKE i \in 1..n
  <2>3. \E p \in b : Outbound!Cardinality({q \in b : q <= p}) = i
    BY <1>6, <2>2, Zenon
  <2>4. choice(i) \in b /\ Outbound!Cardinality({q \in b : q <= choice(i)}) = i
    BY <2>3, Zenon
  <2> HIDE DEF choice
  <2> QED
    BY <2>2, <2>4, Zenon
<1>d. Outbound!Cardinality(b) = n
  BY Zenon DEF Outbound!Cardinality, Cardinality
<1>e. s = [i \in 1..Outbound!Cardinality(b) |-> choice(i)]
  BY Zenon DEF Outbound!InOrderOf
<1>12. s \in [1..n -> b]
  <2> HIDE DEF s, choice, rank, n
  <2> QED
    BY <1>c, <1>d, <1>e
<1>7. \A i \in 1..n : s[i] \in b /\ rank[s[i]] = i
  <2> HIDE DEF s, choice, rank, n
  <2> QED
    BY <1>c, <1>d, <1>e
<1>8. \A i \in 1..n : \A p \in b : rank[p] = i => s[i] = p
  BY <1>4, <1>7 DEF Injection, IsInjective
<1>10. \A i, j \in 1..n : i < j => s[i] < s[j]
  <2> TAKE i, j \in 1..n
  <2> HAVE i < j
  <2>1. s[i] \in b /\ s[j] \in b /\ rank[s[i]] = i /\ rank[s[j]] = j
    BY <1>7
  <2>2. rank[s[i]] = Cardinality(upTo(s[i])) /\ rank[s[j]] = Cardinality(upTo(s[j]))
    BY <2>1
  <2>4. \A p, q \in b : p < q => rank[p] < rank[q]
    BY <1>3
  <2>5. s[i] \in Nat /\ s[j] \in Nat
    BY <2>1
  <2> HIDE DEF s, rank
  <2>6. s[i] # s[j]
    BY <2>1
  <2>7. ~(s[j] < s[i])
    <3> SUFFICES ASSUME s[j] < s[i] PROVE FALSE
      OBVIOUS
    <3>1. rank[s[j]] < rank[s[i]]
      BY <2>1, <2>4
    <3> QED
      BY <1>1, <2>1, <3>1
  <2> QED
    BY <2>5, <2>6, <2>7
<1>11. \A p \in b : \E i \in 1..n : s[i] = p
  <2> TAKE p \in b
  <2>1. rank[p] \in 1..n
    BY <1>2
  <2> HIDE DEF s, rank
  <2> QED
    BY <1>8, <2>1
<1> HIDE DEF s, rank
<1> QED
  BY <1>1, <1>10, <1>11, <1>12 DEF s

\* What a call of message m in attempt a puts into the chat.
OutPiece(e, m, a, b) ==
    /\ e \in Seq(Outbound!Shown) /\ b \subseteq Nat
    /\ \A i \in 1..Len(e) : e[i].msg = m /\ e[i].attempt = a /\ e[i].part \in b
    /\ \A i, j \in 1..Len(e) : i < j => e[i].part < e[j].part
    /\ \A p \in b : \E i \in 1..Len(e) : e[i].part = p

\* Whether a piece was shown by a call still out after its attempt.
OutAllLate(e, isLate) == \A i \in 1..Len(e) : e[i].late = isLate

LEMMA OutPartsFinite ==
    ASSUME Outbound!ConstantsAssumption, NEW b \in SUBSET Outbound!Parts
    PROVE  IsFiniteSet(b) /\ b \subseteq Nat
<1>1. MaxParts \in Nat
  BY DEF Outbound!ConstantsAssumption
<1>2. IsFiniteSet(1..MaxParts)
  BY <1>1, FS_Interval
<1>3. b \subseteq 1..MaxParts
  BY DEF Outbound!Parts
<1>4. IsFiniteSet(b)
  BY <1>2, <1>3, FS_Subset
<1> QED
  BY <1>1, <1>3, <1>4

LEMMA OutEntries ==
    ASSUME Outbound!ConstantsAssumption, NEW m \in Outbound!Msgs, NEW a \in 0..maxRetries,
           NEW b \in SUBSET Outbound!Parts, NEW isLate \in BOOLEAN
    PROVE  /\ OutPiece(Outbound!Entries(m, a, b, isLate), m, a, b)
           /\ OutAllLate(Outbound!Entries(m, a, b, isLate), isLate)
<1> DEFINE n == Cardinality(b)
           s == Outbound!InOrderOf(b)
           e == Outbound!Entries(m, a, b, isLate)
<1>1. /\ n \in Nat /\ s \in [1..n -> b]
      /\ \A i, j \in 1..n : i < j => s[i] < s[j]
      /\ \A p \in b : \E i \in 1..n : s[i] = p
  BY OutInOrderOf, OutPartsFinite
<1> HIDE DEF n, s
<1>2. Outbound!Cardinality(b) = n
  BY Zenon DEF Outbound!Cardinality, Cardinality, n
<1>3. e = [i \in 1..n |-> [msg |-> m, attempt |-> a, part |-> s[i], late |-> isLate]]
  BY <1>2, Zenon DEF Outbound!Entries, s
<1>4. e \in Seq(Outbound!Shown) /\ Len(e) = n
  <2> DEFINE T == Outbound!Shown
  <2>1. \A i \in 1..n : [msg |-> m, attempt |-> a, part |-> s[i], late |-> isLate] \in T
    BY <1>1 DEF Outbound!Shown
  <2> HIDE DEF T, e
  <2>2. e \in [1..n -> T]
    BY <1>3, <2>1
  <2>3. e \in Seq(T) /\ Len(e) = n
    BY <1>1, <2>2
  <2> QED
    BY <2>3 DEF T
<1>5. \A i \in 1..n : e[i] = [msg |-> m, attempt |-> a, part |-> s[i], late |-> isLate]
  BY <1>3, Zenon
<1> HIDE DEF e
<1>6. \A i \in 1..n : e[i].msg = m /\ e[i].attempt = a /\ e[i].part = s[i] /\ e[i].late = isLate
  <2> TAKE i \in 1..n
  <2> DEFINE x == s[i]
             r == [msg |-> m, attempt |-> a, part |-> x, late |-> isLate]
  <2>1. e[i] = r
    BY <1>5
  <2> HIDE DEF x
  <2>2. r.msg = m /\ r.attempt = a /\ r.part = x /\ r.late = isLate
    OBVIOUS
  <2> HIDE DEF r
  <2> QED
    BY <2>1, <2>2 DEF x
<1>7. b \subseteq Nat
  BY OutPartsFinite
<1>8. /\ \A i \in 1..n : e[i].part \in b
      /\ \A i, j \in 1..n : i < j => e[i].part < e[j].part
      /\ \A p \in b : \E i \in 1..n : e[i].part = p
  BY <1>1, <1>6
<1>9. OutPiece(e, m, a, b)
  BY <1>4, <1>6, <1>7, <1>8 DEF OutPiece
<1> QED
  BY <1>4, <1>6, <1>9 DEF e, OutAllLate

LEMMA OutNoEntries ==
    ASSUME NEW m, NEW a
    PROVE  OutPiece(<< >>, m, a, {})
BY DEF OutPiece

OutAt(s, m, p) == {i \in 1..Len(s) : s[i].msg = m /\ s[i].part = p}

OutCopies(s, m, p) == Cardinality(OutAt(s, m, p))

OutAdds(t, s, e, m, a, b) == OutPiece(e, m, a, b) /\ t = s \o e

\* Appending a piece adds a copy of each of its parts and of no other.
LEMMA OutCopiesGrow ==
    ASSUME NEW s \in Seq(Outbound!Shown), NEW e, NEW m, NEW a, NEW b,
           NEW t, OutAdds(t, s, e, m, a, b), NEW mm, NEW p
    PROVE  /\ OutCopies(s, mm, p) \in Nat
           /\ mm = m /\ p \in b => OutCopies(t, mm, p) = OutCopies(s, mm, p) + 1
           /\ ~(mm = m /\ p \in b) => OutCopies(t, mm, p) = OutCopies(s, mm, p)
<1> USE DEF OutCopies, OutAdds
<1> DEFINE A == OutAt(s, mm, p)
           B == {i \in 1..Len(e) : e[i].msg = mm /\ e[i].part = p}
<1>1. Len(s) \in Nat /\ Len(e) \in Nat /\ e \in Seq(Outbound!Shown) /\ Len(s \o e) = Len(s) + Len(e)
  BY DEF OutPiece
<1>2. IsFiniteSet(A) /\ Cardinality(A) \in Nat
  <2>1. IsFiniteSet(1..Len(s))
    BY <1>1, FS_Interval
  <2> QED
    BY <2>1, FS_Subset, FS_CardinalityType DEF OutAt
<1>3. \A i \in 1..Len(s) + Len(e) :
          (s \o e)[i] = IF i <= Len(s) THEN s[i] ELSE e[i - Len(s)]
  BY <1>1
<1>4. CASE mm = m /\ p \in b
  <2>1. PICK k \in 1..Len(e) : e[k].part = p
    BY <1>4 DEF OutPiece
  <2>2. \A i \in 1..Len(e) : e[i].part = p => i = k
    <3> TAKE i \in 1..Len(e)
    <3> HAVE e[i].part = p
    <3>1. e[k].part = p /\ p \in Nat
      <4>1. e[k].part \in b /\ b \subseteq Nat
        BY <2>1 DEF OutPiece
      <4> QED
        BY <2>1, <4>1
    <3>2. \A l, n \in 1..Len(e) : l < n => e[l].part < e[n].part
      BY DEF OutPiece
    <3>3. ~(i < k) /\ ~(k < i)
      BY <3>1, <3>2
    <3> QED
      BY <1>1, <3>3
  <2>3. e[k].msg = mm
    BY <1>4 DEF OutPiece
  <2>4. OutAt(s \o e, mm, p) = A \cup {Len(s) + k}
    <3>1. ASSUME NEW i \in OutAt(s \o e, mm, p) PROVE i \in A \cup {Len(s) + k}
      <4>1. i \in 1..Len(s) + Len(e) /\ (s \o e)[i].msg = mm /\ (s \o e)[i].part = p
        BY <1>1, <3>1 DEF OutAt
      <4>2. CASE i <= Len(s)
        BY <1>1, <1>3, <4>1, <4>2 DEF OutAt
      <4>3. CASE ~(i <= Len(s))
        <5>1. i - Len(s) \in 1..Len(e) /\ e[i - Len(s)].part = p
          BY <1>1, <1>3, <4>1, <4>3
        <5>2. i - Len(s) = k
          BY <2>2, <5>1
        <5> QED
          BY <1>1, <4>1, <5>2
      <4> QED
        BY <4>2, <4>3
    <3>2. ASSUME NEW i \in A PROVE i \in OutAt(s \o e, mm, p)
      <4>1. i \in 1..Len(s) /\ s[i].msg = mm /\ s[i].part = p
        BY <3>2 DEF OutAt
      <4>2. i \in 1..Len(s) + Len(e) /\ i <= Len(s)
        BY <1>1, <4>1
      <4> QED
        BY <1>1, <1>3, <4>1, <4>2 DEF OutAt
    <3>3. Len(s) + k \in OutAt(s \o e, mm, p)
      <4>1. Len(s) + k \in 1..Len(s) + Len(e) /\ ~(Len(s) + k <= Len(s)) /\ Len(s) + k - Len(s) = k
        BY <1>1, <2>1
      <4>2. (s \o e)[Len(s) + k] = e[k]
        BY <1>3, <4>1
      <4> QED
        BY <1>1, <2>1, <2>3, <4>1, <4>2 DEF OutAt
    <3> QED
      BY <3>1, <3>2, <3>3
  <2>5. Len(s) + k \notin A
    BY <1>1, <2>1 DEF OutAt
  <2> HIDE DEF A
  <2>6. Cardinality(A \cup {Len(s) + k}) = Cardinality(A) + 1
    BY <1>2, <2>5, FS_AddElement
  <2> QED
    BY <1>2, <1>4, <2>4, <2>6 DEF A
<1>5. CASE ~(mm = m /\ p \in b)
  <2>1. \A i \in 1..Len(e) : ~(e[i].msg = mm /\ e[i].part = p)
    BY <1>5 DEF OutPiece
  <2>2. OutAt(s \o e, mm, p) = A
    <3>1. ASSUME NEW i \in OutAt(s \o e, mm, p) PROVE i \in A
      <4>1. i \in 1..Len(s) + Len(e) /\ (s \o e)[i].msg = mm /\ (s \o e)[i].part = p
        BY <1>1, <3>1 DEF OutAt
      <4>2. i <= Len(s)
        <5> SUFFICES ASSUME ~(i <= Len(s)) PROVE FALSE
          OBVIOUS
        <5>1. i - Len(s) \in 1..Len(e) /\ (s \o e)[i] = e[i - Len(s)]
          BY <1>1, <1>3, <4>1
        <5> QED
          BY <2>1, <4>1, <5>1
      <4> QED
        BY <1>1, <1>3, <4>1, <4>2 DEF OutAt
    <3>2. ASSUME NEW i \in A PROVE i \in OutAt(s \o e, mm, p)
      <4>1. i \in 1..Len(s) /\ s[i].msg = mm /\ s[i].part = p
        BY <3>2 DEF OutAt
      <4>2. i \in 1..Len(s) + Len(e) /\ i <= Len(s)
        BY <1>1, <4>1
      <4> QED
        BY <1>1, <1>3, <4>1, <4>2 DEF OutAt
    <3> QED
      BY <3>1, <3>2
  <2> QED
    BY <1>2, <1>5, <2>2
<1> QED
  BY <1>4, <1>5

-----------------------------------------------------------------------------
\* Where the worker is: a call is about one part, or about all of them.
OutPlace ==
    /\ outPc # "stopped" => msg \in Outbound!Msgs
    /\ outPc = "part" => call = 1 /\ (~Outbound!Trait.whole => batch = {})
    /\ outPc = "call" =>
          /\ call \in 1..Len(Outbound!Trait.calls) /\ outPart \in Outbound!Parts
          /\ IF Outbound!Trait.whole THEN outPart = MaxParts ELSE batch = {outPart}

OutExcused(m, p) == <<m, p>> \in gone \cup giveUps

\* The attempt has shown each part it has passed, or is about to.
OutDelivered ==
    /\ \A m \in Outbound!Msgs, p \in Outbound!Parts :
          result[m] = "nil" /\ ~OutExcused(m, p) => OutCopies(shown, m, p) > 0
    /\ outPc \in {"part", "call"} =>
          \A p \in Outbound!Parts :
              p <= outPart /\ ~OutExcused(msg, p) => p \in batch \/ OutCopies(shown, msg, p) > 0

\* The late calls that may show a part yet.
OutLate(m, p) == {c \in late : c.msg = m /\ p \in c.batch}

OutSum(m, p) == OutCopies(shown, m, p) + Cardinality(OutLate(m, p))

\* The part has yet to be shown in this attempt, if the attempt gets there.
OutAhead(m, p) ==
    \/ m > msg
    \/ m = msg /\ (outPc = "begin" \/ p > outPart \/ p \in batch)

OutCounted ==
    /\ IsFiniteSet(late)
    /\ \A m \in Outbound!Msgs, p \in Outbound!Parts :
          /\ OutSum(m, p) <= 1 + failures[m]
          /\ OutAhead(m, p) => OutSum(m, p) <= failures[m]

\* What the chat shows, late parts aside, lies behind the worker.
OutBehind(x) ==
    \/ x.msg < msg
    \/ x.msg = msg /\ x.attempt < attempt
    \/ /\ x.msg = msg /\ x.attempt = attempt /\ x.part <= outPart
       /\ outPc \in {"part", "call"} /\ ~Outbound!Trait.whole

OutOrdered ==
    /\ \A i, j \in 1..Len(shown) :
          i < j /\ ~shown[i].late /\ ~shown[j].late => Outbound!Before(shown[i], shown[j])
    /\ \A i \in 1..Len(shown) : ~shown[i].late => OutBehind(shown[i])

OutIInv == Outbound!TypeOK /\ OutPlace /\ OutDelivered /\ OutCounted /\ OutOrdered

LEMMA OutNumbers ==
    ASSUME Outbound!ConstantsAssumption, Outbound!TypeOK
    PROVE  /\ PartMsgs \in Nat /\ MaxParts \in Nat /\ maxRetries \in Nat /\ PartMsgs > 0 /\ MaxParts > 0
           /\ msg \in Nat /\ attempt \in Nat /\ outPart \in Nat /\ batch \subseteq Nat
           /\ Outbound!Msgs = 1..PartMsgs /\ Outbound!Parts = 1..MaxParts
           /\ Len(shown) \in Nat /\ DOMAIN shown = 1..Len(shown)
           /\ \A i \in 1..Len(shown) :
                 /\ shown[i].msg \in Nat /\ shown[i].attempt \in Nat /\ shown[i].part \in Nat
                 /\ shown[i].late \in BOOLEAN
           /\ \A m \in Outbound!Msgs : failures[m] \in Nat
<1>1. PartMsgs \in Nat /\ MaxParts \in Nat /\ maxRetries \in Nat /\ PartMsgs > 0 /\ MaxParts > 0
  BY DEF Outbound!ConstantsAssumption
<1>2. Outbound!Msgs = 1..PartMsgs /\ Outbound!Parts = 1..MaxParts
  BY DEF Outbound!Msgs, Outbound!Parts
<1>3. /\ msg \in 1..(PartMsgs + 1) /\ attempt \in 0..maxRetries /\ outPart \in 0..MaxParts
      /\ batch \subseteq 1..MaxParts /\ shown \in Seq(Outbound!Shown)
      /\ failures \in [1..PartMsgs -> Nat]
  BY <1>2 DEF Outbound!TypeOK
<1>4. msg \in Nat /\ attempt \in Nat /\ outPart \in Nat /\ batch \subseteq Nat
  BY <1>1, <1>3
<1>5. Len(shown) \in Nat /\ DOMAIN shown = 1..Len(shown) /\ \A i \in 1..Len(shown) : shown[i] \in Outbound!Shown
  BY <1>3
<1>6. \A x \in Outbound!Shown : x.msg \in Nat /\ x.attempt \in Nat /\ x.part \in Nat /\ x.late \in BOOLEAN
  BY <1>1, <1>2 DEF Outbound!Shown
<1> QED
  BY <1>1, <1>2, <1>3, <1>4, <1>5, <1>6

LEMMA OutCopiesNat ==
    ASSUME Outbound!ConstantsAssumption, Outbound!TypeOK, IsFiniteSet(late), NEW m, NEW p
    PROVE  /\ OutCopies(shown, m, p) \in Nat
           /\ IsFiniteSet(OutLate(m, p)) /\ Cardinality(OutLate(m, p)) \in Nat
           /\ OutSum(m, p) \in Nat
<1>1. IsFiniteSet(1..Len(shown))
  BY OutNumbers, FS_Interval
<1>2. OutAt(shown, m, p) \subseteq 1..Len(shown) /\ OutLate(m, p) \subseteq late
  BY DEF OutAt, OutLate
<1>3. OutCopies(shown, m, p) \in Nat
  BY <1>1, <1>2, FS_Subset, FS_CardinalityType DEF OutCopies
<1>4. IsFiniteSet(OutLate(m, p)) /\ Cardinality(OutLate(m, p)) \in Nat
  BY <1>2, FS_Subset, FS_CardinalityType
<1> QED
  BY <1>3, <1>4 DEF OutSum

\* The invariant says what the run checks.
LEMMA OutIInvImplies ==
    ASSUME Outbound!ConstantsAssumption, OutIInv
    PROVE  Outbound!TypeOK /\ Outbound!OutboundInv
<1> USE DEF OutIInv
<1>1. \A m, p : Outbound!Copies(m, p) = OutCopies(shown, m, p)
  <2>1. \A c : Outbound!Cardinality(c) = Cardinality(c)
    BY Zenon DEF Outbound!Cardinality, Cardinality
  <2>2. DOMAIN shown = 1..Len(shown)
    BY OutNumbers
  <2> QED
    BY <2>1, <2>2 DEF Outbound!Copies, OutCopies, OutAt
<1>2. Outbound!SentIsShown
  BY <1>1 DEF Outbound!SentIsShown, OutDelivered, OutExcused
<1>3. Outbound!RepeatedForCause
  <2> SUFFICES ASSUME NEW m \in Outbound!Msgs, NEW p \in Outbound!Parts
               PROVE  OutCopies(shown, m, p) <= 1 + failures[m]
    BY <1>1 DEF Outbound!RepeatedForCause
  <2>1. OutSum(m, p) <= 1 + failures[m]
    BY DEF OutCounted
  <2>2. IsFiniteSet(late)
    BY DEF OutCounted
  <2>3. OutCopies(shown, m, p) \in Nat /\ Cardinality(OutLate(m, p)) \in Nat /\ failures[m] \in Nat
    BY <2>2, OutCopiesNat, OutNumbers
  <2> QED
    BY <2>1, <2>3 DEF OutSum
<1>4. Outbound!InOrder
  <2>1. DOMAIN shown = 1..Len(shown)
    BY OutNumbers
  <2> QED
    BY <2>1 DEF Outbound!InOrder, OutOrdered
<1> QED
  BY <1>2, <1>3, <1>4 DEF Outbound!OutboundInv

LEMMA OutInitInv ==
    ASSUME Outbound!ConstantsAssumption, Outbound!Init
    PROVE  OutIInv
<1> USE DEF Outbound!Init
<1>0. PartMsgs \in Nat /\ MaxParts \in Nat /\ maxRetries \in Nat /\ PartMsgs > 0 /\ MaxParts > 0
  BY DEF Outbound!ConstantsAssumption
<1>1. Outbound!TypeOK
  BY <1>0 DEF Outbound!TypeOK, Outbound!Msgs, Outbound!Parts
<1>2. OutPlace
  BY <1>0 DEF OutPlace, Outbound!Msgs
<1>3. OutDelivered
  BY DEF OutDelivered
<1>4. OutCounted
  <2>1. \A m, p : OutAt(shown, m, p) = {} /\ OutLate(m, p) = {}
    BY DEF OutAt, OutLate
  <2>2. \A m, p : OutSum(m, p) = 0
    <3>1. Cardinality({}) = 0
      BY FS_EmptySet
    <3>2. \A m, p : OutCopies(shown, m, p) = 0 /\ Cardinality(OutLate(m, p)) = 0
      BY <2>1, <3>1 DEF OutCopies
    <3> QED
      BY <3>2 DEF OutSum
  <2>3. IsFiniteSet(late)
    BY FS_EmptySet
  <2> QED
    BY <2>2, <2>3 DEF OutCounted
<1>5. OutOrdered
  BY DEF OutOrdered
<1> QED
  BY <1>1, <1>2, <1>3, <1>4, <1>5 DEF OutIInv

-----------------------------------------------------------------------------
\* After an attempt the worker begins again, or begins the next message.
LEMMA OutReturns ==
    ASSUME Outbound!ConstantsAssumption, Outbound!TypeOK, msg \in Outbound!Msgs, NEW err, Outbound!Return(err)
    PROVE  /\ msg' \in 1..(PartMsgs + 1) /\ attempt' \in 0..maxRetries
           /\ outPc' \in {"begin", "stopped"} /\ (outPc' # "stopped" => msg' \in Outbound!Msgs)
           /\ result' \in [Outbound!Msgs -> {"waiting", "nil", "failed"}]
           /\ \A m \in Outbound!Msgs : result'[m] = "nil" => result[m] = "nil" \/ (m = msg /\ err = "nil")
           /\ \/ msg' = msg /\ attempt' = attempt + 1 /\ outPc' = "begin"
              \/ msg' = msg + 1 /\ attempt' = 0
<1>1. /\ msg \in 1..PartMsgs /\ PartMsgs \in Nat /\ maxRetries \in Nat /\ attempt \in 0..maxRetries
      /\ Outbound!Msgs = 1..PartMsgs /\ outPc \in {"begin", "part", "call", "stopped"}
      /\ result \in [1..PartMsgs -> {"waiting", "nil", "failed"}]
  BY OutNumbers DEF Outbound!TypeOK
<1>2. CASE err = "temporary" /\ attempt < maxRetries
  BY <1>1, <1>2 DEF Outbound!Return
<1>3. CASE ~(err = "temporary" /\ attempt < maxRetries)
  BY <1>1, <1>3 DEF Outbound!Return
<1> QED
  BY <1>2, <1>3

LEMMA OutReturnsTypes ==
    ASSUME Outbound!ConstantsAssumption, Outbound!TypeOK, msg \in Outbound!Msgs, NEW err, Outbound!Return(err),
           failures' = failures \/ failures' = [failures EXCEPT ![msg] = @ + 1],
           UNCHANGED <<outPlatform, gone, outPart, giveUps>>, call' \in 1..2, batch' \subseteq Outbound!Parts,
           late' \subseteq [msg : Outbound!Msgs, attempt : 0..maxRetries, batch : SUBSET Outbound!Parts],
           shown' \in Seq(Outbound!Shown)
    PROVE  Outbound!TypeOK'
<1>1. /\ msg' \in 1..(PartMsgs + 1) /\ attempt' \in 0..maxRetries
      /\ outPc' \in {"begin", "stopped"}
      /\ result' \in [Outbound!Msgs -> {"waiting", "nil", "failed"}]
  BY OutReturns
<1>2. failures' \in [Outbound!Msgs -> Nat]
  BY DEF Outbound!TypeOK
<1>3. /\ outPlatform' \in PartSenders /\ {gone', giveUps'} \subseteq SUBSET (Outbound!Msgs \X Outbound!Parts)
      /\ outPart' \in 0..MaxParts
  BY DEF Outbound!TypeOK
<1> QED
  BY <1>1, <1>2, <1>3 DEF Outbound!TypeOK

\* What is behind the worker stays behind it when an attempt ends.
LEMMA OutReturnsBehind ==
    ASSUME Outbound!ConstantsAssumption, Outbound!TypeOK, msg \in Outbound!Msgs, NEW err, Outbound!Return(err),
           NEW x, x.msg \in Nat, x.attempt \in Nat, OutBehind(x) \/ (x.msg = msg /\ x.attempt = attempt)
    PROVE  OutBehind(x)'
<1>1. msg \in Nat /\ attempt \in Nat
  BY OutNumbers
<1>2. \/ msg' = msg /\ attempt' = attempt + 1
      \/ msg' = msg + 1 /\ attempt' = 0
  BY OutReturns
<1>3. x.msg < msg \/ (x.msg = msg /\ x.attempt <= attempt)
  BY <1>1 DEF OutBehind
<1>4. x.msg < msg' \/ (x.msg = msg' /\ x.attempt < attempt')
  BY <1>1, <1>2, <1>3
<1> QED
  BY <1>4 DEF OutBehind

\* What lies ahead when an attempt has ended is the rest of the messages.
LEMMA OutReturnsAhead ==
    ASSUME Outbound!ConstantsAssumption, Outbound!TypeOK, msg \in Outbound!Msgs, NEW err, Outbound!Return(err),
           NEW m \in Outbound!Msgs, NEW p, OutAhead(m, p)'
    PROVE  m > msg \/ (m = msg /\ msg' = msg)
<1>1. msg \in Nat /\ m \in Nat
  BY OutNumbers
<1>2. msg' = msg \/ msg' = msg + 1
  BY OutReturns
<1>3. m > msg' \/ m = msg'
  BY DEF OutAhead
<1> QED
  BY <1>1, <1>2, <1>3

-----------------------------------------------------------------------------
LEMMA OutBegin ==
    ASSUME Outbound!ConstantsAssumption, OutIInv, Outbound!Begin
    PROVE  OutIInv'
<1> USE DEF OutIInv, Outbound!Begin
<1>n. PartMsgs \in Nat /\ MaxParts \in Nat /\ Outbound!Msgs = 1..PartMsgs /\ Outbound!Parts = 1..MaxParts
  BY OutNumbers
<1>t. Outbound!Trait' = Outbound!Trait
  BY DEF Outbound!Trait
<1>1. Outbound!TypeOK'
  BY <1>n DEF Outbound!TypeOK
<1>2. OutPlace'
  BY <1>t DEF OutPlace
<1>3. OutDelivered'
  BY <1>n DEF OutDelivered, OutExcused
<1>4. OutCounted'
  <2>1. \A m \in Outbound!Msgs, p \in Outbound!Parts : OutSum(m, p)' = OutSum(m, p) /\ (OutAhead(m, p)' => OutAhead(m, p))
    BY DEF OutSum, OutLate, OutAhead
  <2> QED
    BY <2>1 DEF OutCounted
<1>5. OutOrdered'
  <2>1. \A x : OutBehind(x) => OutBehind(x)'
    BY DEF OutBehind
  <2> QED
    BY <2>1 DEF OutOrdered
<1> QED
  BY <1>1, <1>2, <1>3, <1>4, <1>5

LEMMA OutNotReady ==
    ASSUME Outbound!ConstantsAssumption, OutIInv, NEW err \in Outbound!Classified, Outbound!NotReady(err)
    PROVE  OutIInv'
<1> USE DEF OutIInv
<1>n. PartMsgs \in Nat /\ MaxParts \in Nat /\ Outbound!Msgs = 1..PartMsgs /\ Outbound!Parts = 1..MaxParts
  BY OutNumbers
<1>a. /\ outPc = "begin" /\ Outbound!Return(err) /\ msg \in Outbound!Msgs /\ err # "nil"
      /\ failures' = [failures EXCEPT ![msg] = @ + 1]
      /\ UNCHANGED <<outPlatform, gone, outPart, call, batch, late, shown, giveUps>>
  BY DEF Outbound!NotReady, OutPlace, Outbound!Classified
<1>1. Outbound!TypeOK'
  <2>1. /\ call' \in 1..2 /\ batch' \subseteq Outbound!Parts /\ shown' \in Seq(Outbound!Shown)
        /\ late' \subseteq [msg : Outbound!Msgs, attempt : 0..maxRetries, batch : SUBSET Outbound!Parts]
    BY <1>a DEF Outbound!TypeOK
  <2> QED
    BY <1>a, <2>1, OutReturnsTypes
<1>2. OutPlace'
  BY <1>a, OutReturns DEF OutPlace
<1>3. OutDelivered'
  BY <1>a, OutReturns DEF OutDelivered, OutExcused
<1>4. OutCounted'
  <2>1. IsFiniteSet(late)
    BY DEF OutCounted
  <2> SUFFICES ASSUME NEW m \in Outbound!Msgs, NEW p \in Outbound!Parts
               PROVE  /\ OutSum(m, p)' <= 1 + failures'[m]
                      /\ OutAhead(m, p)' => OutSum(m, p)' <= failures'[m]
    BY <1>a, <2>1 DEF OutCounted
  <2>2. OutSum(m, p)' = OutSum(m, p) /\ OutSum(m, p) \in Nat /\ failures[m] \in Nat
    BY <1>a, <2>1, OutCopiesNat, OutNumbers DEF OutSum, OutLate
  <2>3. failures'[m] = IF m = msg THEN failures[m] + 1 ELSE failures[m]
    BY <1>a DEF Outbound!TypeOK
  <2>4. OutSum(m, p) <= 1 + failures[m]
    BY DEF OutCounted
  <2>5. OutAhead(m, p)' /\ m # msg => OutSum(m, p) <= failures[m]
    <3> SUFFICES ASSUME OutAhead(m, p)', m # msg PROVE OutSum(m, p) <= failures[m]
      OBVIOUS
    <3>1. m > msg
      BY <1>a, OutReturnsAhead
    <3>2. OutAhead(m, p)
      BY <3>1 DEF OutAhead
    <3> QED
      BY <3>2 DEF OutCounted
  <2> QED
    BY <2>2, <2>3, <2>4, <2>5
<1>5. OutOrdered'
  <2>1. \A i \in 1..Len(shown) : ~shown[i].late => OutBehind(shown[i])'
    <3> TAKE i \in 1..Len(shown)
    <3> HAVE ~shown[i].late
    <3>1. shown[i].msg \in Nat /\ shown[i].attempt \in Nat /\ OutBehind(shown[i])
      BY OutNumbers DEF OutOrdered
    <3>2. \A x : x.msg \in Nat /\ x.attempt \in Nat /\ OutBehind(x) => OutBehind(x)'
      BY <1>a, OutReturnsBehind
    <3> QED
      BY <1>a, <3>1, <3>2
  <2> QED
    BY <1>a, <2>1 DEF OutOrdered
<1> QED
  BY <1>1, <1>2, <1>3, <1>4, <1>5

LEMMA OutResolvePart ==
    ASSUME Outbound!ConstantsAssumption, OutIInv, Outbound!ResolvePart
    PROVE  OutIInv'
<1> USE DEF OutIInv
<1> DEFINE R == Outbound!Resolved(outPart + 1)
<1>n. /\ PartMsgs \in Nat /\ MaxParts \in Nat /\ Outbound!Msgs = 1..PartMsgs /\ Outbound!Parts = 1..MaxParts
      /\ outPart \in Nat /\ batch \subseteq Nat /\ msg \in Nat
  BY OutNumbers
<1>a. /\ outPc = "part" /\ outPart < MaxParts /\ outPart' = outPart + 1
      /\ batch' = IF R THEN batch \cup {outPart + 1} ELSE batch
      /\ outPc' = IF R /\ ~Outbound!Trait.whole THEN "call" ELSE "part"
      /\ UNCHANGED <<outPlatform, gone, msg, attempt, call, result, late, shown, failures, giveUps>>
  BY DEF Outbound!ResolvePart, Outbound!NextPart
<1>r. ~R => <<msg, outPart + 1>> \in gone
  BY DEF Outbound!Resolved
<1>t. Outbound!Trait' = Outbound!Trait /\ OutTraitOf(Outbound!Trait)
  BY <1>a, OutTraits DEF Outbound!Trait
<1> HIDE DEF R
<1>1. Outbound!TypeOK'
  <2>1. outPart' \in 0..MaxParts /\ batch' \subseteq Outbound!Parts
    BY <1>n, <1>a DEF Outbound!TypeOK
  <2> QED
    BY <1>a, <2>1 DEF Outbound!TypeOK
<1>2. OutPlace'
  <2>1. msg \in Outbound!Msgs /\ call = 1 /\ (~Outbound!Trait.whole => batch = {})
    BY <1>a DEF OutPlace
  <2>2. 1 \in 1..Len(Outbound!Trait.calls)
    BY <1>t DEF OutTraitOf
  <2>3. outPart' \in Outbound!Parts
    BY <1>n, <1>a
  <2> QED
    BY <1>a, <1>t, <2>1, <2>2, <2>3 DEF OutPlace
<1>3. OutDelivered'
  <2>1. ASSUME NEW p \in Outbound!Parts, p <= outPart', ~OutExcused(msg, p)
        PROVE  p \in batch' \/ OutCopies(shown, msg, p) > 0
    <3>1. CASE p <= outPart
      <4>1. p \in batch \/ OutCopies(shown, msg, p) > 0
        BY <1>a, <2>1, <3>1 DEF OutDelivered
      <4> QED
        BY <1>a, <4>1
    <3>2. CASE ~(p <= outPart)
      <4>1. p = outPart + 1
        BY <1>n, <1>a, <2>1, <3>2
      <4> QED
        BY <1>a, <1>r, <2>1, <4>1 DEF OutExcused
    <3> QED
      BY <3>1, <3>2
  <2> QED
    BY <1>a, <2>1 DEF OutDelivered, OutExcused
<1>4. OutCounted'
  <2>1. \A m \in Outbound!Msgs, p \in Outbound!Parts : OutSum(m, p)' = OutSum(m, p) /\ (OutAhead(m, p)' => OutAhead(m, p))
    BY <1>n, <1>a DEF OutSum, OutLate, OutAhead
  <2> QED
    BY <1>a, <2>1 DEF OutCounted
<1>5. OutOrdered'
  <2>1. \A i \in 1..Len(shown) : OutBehind(shown[i]) => OutBehind(shown[i])'
    <3> TAKE i \in 1..Len(shown)
    <3>1. shown[i].part \in Nat
      BY OutNumbers
    <3> QED
      BY <1>n, <1>a, <1>t, <3>1 DEF OutBehind
  <2> QED
    BY <1>a, <2>1 DEF OutOrdered
<1> QED
  BY <1>1, <1>2, <1>3, <1>4, <1>5

LEMMA OutPartsEnd ==
    ASSUME Outbound!ConstantsAssumption, OutIInv, Outbound!PartsEnd
    PROVE  OutIInv'
<1> USE DEF OutIInv
<1>n. /\ PartMsgs \in Nat /\ MaxParts \in Nat /\ MaxParts > 0 /\ Outbound!Msgs = 1..PartMsgs
      /\ Outbound!Parts = 1..MaxParts /\ msg \in Nat
  BY OutNumbers
<1>a. /\ outPc = "part" /\ outPart = MaxParts /\ msg \in Outbound!Msgs /\ call = 1
      /\ UNCHANGED <<outPlatform, gone, outPart, call, batch, late, shown, failures, giveUps>>
  BY DEF Outbound!PartsEnd, OutPlace
<1>t. Outbound!Trait' = Outbound!Trait /\ OutTraitOf(Outbound!Trait)
  BY <1>a, OutTraits DEF Outbound!Trait
<1>s. \A m \in Outbound!Msgs, p \in Outbound!Parts : OutSum(m, p)' = OutSum(m, p)
  BY <1>a DEF OutSum, OutLate
<1>w. CASE Outbound!Trait.whole /\ outPc' = "call" /\ UNCHANGED <<msg, attempt, result>>
  <2>1. Outbound!TypeOK'
    BY <1>a, <1>w DEF Outbound!TypeOK
  <2>2. OutPlace'
    <3>1. 1 \in 1..Len(Outbound!Trait.calls) /\ MaxParts \in Outbound!Parts
      BY <1>n, <1>t DEF OutTraitOf
    <3> QED
      BY <1>a, <1>t, <1>w, <3>1 DEF OutPlace
  <2>3. OutDelivered'
    BY <1>a, <1>w DEF OutDelivered, OutExcused
  <2>4. OutCounted'
    <3>1. \A m \in Outbound!Msgs, p \in Outbound!Parts : OutAhead(m, p)' => OutAhead(m, p)
      BY <1>a, <1>w DEF OutAhead
    <3> QED
      BY <1>a, <1>s, <3>1 DEF OutCounted
  <2>5. OutOrdered'
    <3>1. \A x : OutBehind(x) => OutBehind(x)'
      BY <1>a, <1>t, <1>w DEF OutBehind
    <3> QED
      BY <1>a, <3>1 DEF OutOrdered
  <2> QED
    BY <2>1, <2>2, <2>3, <2>4, <2>5
<1>r. CASE ~(Outbound!Trait.whole /\ batch # {}) /\ Outbound!Return("nil")
  <2>b. batch = {}
    BY <1>a, <1>r DEF OutPlace
  <2>1. Outbound!TypeOK'
    <3>1. /\ call' \in 1..2 /\ batch' \subseteq Outbound!Parts /\ shown' \in Seq(Outbound!Shown)
          /\ late' \subseteq [msg : Outbound!Msgs, attempt : 0..maxRetries, batch : SUBSET Outbound!Parts]
      BY <1>a DEF Outbound!TypeOK
    <3> QED
      BY <1>a, <1>r, <3>1, OutReturnsTypes
  <2>2. OutPlace'
    BY <1>a, <1>r, OutReturns DEF OutPlace
  <2>3. OutDelivered'
    <3>1. ASSUME NEW m \in Outbound!Msgs, NEW p \in Outbound!Parts, result'[m] = "nil", ~OutExcused(m, p)
          PROVE  OutCopies(shown, m, p) > 0
      <4>1. result[m] = "nil" \/ m = msg
        BY <1>a, <1>r, <3>1, OutReturns
      <4>2. m = msg => p \in batch \/ OutCopies(shown, msg, p) > 0
        <5>1. p <= outPart
          BY <1>n, <1>a
        <5> QED
          BY <1>a, <3>1, <5>1 DEF OutDelivered
      <4> QED
        BY <2>b, <3>1, <4>1, <4>2 DEF OutDelivered
    <3>2. outPc' \notin {"part", "call"}
      BY <1>a, <1>r, OutReturns
    <3> QED
      BY <1>a, <3>1, <3>2 DEF OutDelivered, OutExcused
  <2>4. OutCounted'
    <3>1. \A m \in Outbound!Msgs, p \in Outbound!Parts : OutAhead(m, p)' => OutAhead(m, p)
      <4> SUFFICES ASSUME NEW m \in Outbound!Msgs, NEW p \in Outbound!Parts, OutAhead(m, p)' PROVE OutAhead(m, p)
        OBVIOUS
      <4>1. msg' = msg + 1
        BY <1>a, <1>r DEF Outbound!Return
      <4>2. m > msg
        BY <1>n, <4>1 DEF OutAhead
      <4> QED
        BY <4>2 DEF OutAhead
    <3> QED
      BY <1>a, <1>s, <3>1 DEF OutCounted
  <2>5. OutOrdered'
    <3>1. \A i \in 1..Len(shown) : ~shown[i].late => OutBehind(shown[i])'
      <4> TAKE i \in 1..Len(shown)
      <4> HAVE ~shown[i].late
      <4>1. shown[i].msg \in Nat /\ shown[i].attempt \in Nat /\ OutBehind(shown[i])
        BY OutNumbers DEF OutOrdered
      <4>2. \A x : x.msg \in Nat /\ x.attempt \in Nat /\ OutBehind(x) => OutBehind(x)'
        BY <1>a, <1>r, OutReturnsBehind
      <4> QED
        BY <1>a, <4>1, <4>2
    <3> QED
      BY <1>a, <3>1 DEF OutOrdered
  <2> QED
    BY <2>1, <2>2, <2>3, <2>4, <2>5
<1> QED
  BY <1>w, <1>r DEF Outbound!PartsEnd

LEMMA OutCleanExpired ==
    ASSUME Outbound!ConstantsAssumption, OutIInv, NEW m \in Outbound!Msgs, NEW p \in Outbound!Parts,
           Outbound!CleanExpired(m, p)
    PROVE  OutIInv'
<1> USE DEF OutIInv
<1>a. /\ gone' = gone \cup {<<m, p>>}
      /\ UNCHANGED <<outPlatform, msg, attempt, outPc, outPart, call, batch, result, late, shown, failures, giveUps>>
  BY DEF Outbound!CleanExpired
<1>t. Outbound!Trait' = Outbound!Trait
  BY <1>a DEF Outbound!Trait
<1>1. Outbound!TypeOK'
  BY <1>a DEF Outbound!TypeOK
<1>2. OutPlace'
  BY <1>a, <1>t DEF OutPlace
<1>3. OutDelivered'
  <2>1. \A k, q : OutExcused(k, q) => OutExcused(k, q)'
    BY <1>a DEF OutExcused
  <2> QED
    BY <1>a, <2>1 DEF OutDelivered
<1>4. OutCounted'
  BY <1>a DEF OutCounted, OutSum, OutLate, OutAhead
<1>5. OutOrdered'
  <2>1. \A x : OutBehind(x) => OutBehind(x)'
    BY <1>a, <1>t DEF OutBehind
  <2> QED
    BY <1>a, <2>1 DEF OutOrdered
<1> QED
  BY <1>1, <1>2, <1>3, <1>4, <1>5

\* An attempt that failed: what it has put into the chat, or left to a late call,
\* counts for the error that is counted.
LEMMA OutFailureCounts ==
    ASSUME Outbound!ConstantsAssumption, OutIInv, outPc = "call",
           failures' = [failures EXCEPT ![msg] = @ + 1],
           IsFiniteSet(late'),
           \A m \in Outbound!Msgs, p \in Outbound!Parts :
               OutSum(m, p)' <= OutSum(m, p) + (IF m = msg /\ p \in batch THEN 1 ELSE 0) /\ OutSum(m, p)' \in Nat,
           \A m \in Outbound!Msgs, p \in Outbound!Parts : OutAhead(m, p)' => m >= msg
    PROVE  OutCounted'
<1> USE DEF OutIInv
<1>1. IsFiniteSet(late) /\ msg \in Nat /\ Outbound!Msgs = 1..PartMsgs /\ PartMsgs \in Nat
  BY OutNumbers DEF OutCounted
<1> SUFFICES ASSUME NEW m \in Outbound!Msgs, NEW p \in Outbound!Parts
             PROVE  OutSum(m, p)' <= 1 + failures'[m] /\ (OutAhead(m, p)' => OutSum(m, p)' <= failures'[m])
  BY DEF OutCounted
<1>2. OutSum(m, p) \in Nat /\ failures[m] \in Nat /\ OutSum(m, p)' \in Nat
  BY <1>1, OutCopiesNat, OutNumbers
<1>3. failures'[m] = IF m = msg THEN failures[m] + 1 ELSE failures[m]
  BY DEF Outbound!TypeOK
<1>4. OutSum(m, p) <= 1 + failures[m] /\ (OutAhead(m, p) => OutSum(m, p) <= failures[m])
  BY DEF OutCounted
<1>5. m > msg \/ (m = msg /\ p \in batch) => OutAhead(m, p)
  BY DEF OutAhead
<1>6. OutSum(m, p)' <= OutSum(m, p) + (IF m = msg /\ p \in batch THEN 1 ELSE 0)
  OBVIOUS
<1>7. OutAhead(m, p)' => m = msg \/ m > msg
  BY <1>1
<1>8. CASE m = msg /\ p \in batch
  BY <1>2, <1>3, <1>4, <1>5, <1>6, <1>8
<1>9. CASE ~(m = msg /\ p \in batch)
  <2>1. OutSum(m, p)' <= OutSum(m, p)
    BY <1>2, <1>6, <1>9
  <2> QED
    BY <1>2, <1>3, <1>4, <1>5, <1>7, <2>1
<1> QED
  BY <1>8, <1>9

LEMMA OutTimesOut ==
    ASSUME Outbound!ConstantsAssumption, OutIInv, Outbound!TimesOut
    PROVE  OutIInv'
<1> USE DEF OutIInv
<1> DEFINE c == [msg |-> msg, attempt |-> attempt, batch |-> batch]
<1>a. /\ outPc = "call" /\ msg \in Outbound!Msgs /\ Outbound!Return("temporary")
      /\ failures' = [failures EXCEPT ![msg] = @ + 1] /\ late' = late \cup {c}
      /\ UNCHANGED <<outPlatform, gone, outPart, call, batch, shown, giveUps>>
  BY DEF Outbound!TimesOut, OutPlace
<1>c. c \in [msg : Outbound!Msgs, attempt : 0..maxRetries, batch : SUBSET Outbound!Parts]
  BY <1>a DEF Outbound!TypeOK
<1>d. c.msg = msg /\ c.batch = batch
  OBVIOUS
<1>l. IsFiniteSet(late)
  BY DEF OutCounted
<1> HIDE DEF c
<1>1. Outbound!TypeOK'
  <2>1. /\ call' \in 1..2 /\ batch' \subseteq Outbound!Parts /\ shown' \in Seq(Outbound!Shown)
        /\ late \subseteq [msg : Outbound!Msgs, attempt : 0..maxRetries, batch : SUBSET Outbound!Parts]
    BY <1>a DEF Outbound!TypeOK
  <2>2. late' \subseteq [msg : Outbound!Msgs, attempt : 0..maxRetries, batch : SUBSET Outbound!Parts]
    BY <1>a, <1>c, <2>1
  <2> QED
    BY <1>a, <2>1, <2>2, OutReturnsTypes
<1>2. OutPlace'
  BY <1>a, OutReturns DEF OutPlace
<1>3. OutDelivered'
  <2>1. \A m \in Outbound!Msgs : result'[m] = "nil" => result[m] = "nil"
    BY <1>a, OutReturns
  <2>2. outPc' \notin {"part", "call"}
    BY <1>a, OutReturns
  <2> QED
    BY <1>a, <2>1, <2>2 DEF OutDelivered, OutExcused
<1>4. OutCounted'
  <2>1. IsFiniteSet(late')
    BY <1>a, <1>l, FS_AddElement
  <2>2. ASSUME NEW m \in Outbound!Msgs, NEW p \in Outbound!Parts
        PROVE  OutSum(m, p)' <= OutSum(m, p) + (IF m = msg /\ p \in batch THEN 1 ELSE 0) /\ OutSum(m, p)' \in Nat
    <3>1. /\ OutCopies(shown, m, p) \in Nat /\ IsFiniteSet(OutLate(m, p))
          /\ Cardinality(OutLate(m, p)) \in Nat
      BY <1>l, OutCopiesNat
    <3>2. OutLate(m, p)' = IF m = msg /\ p \in batch THEN OutLate(m, p) \cup {c} ELSE OutLate(m, p)
      BY <1>a, <1>d DEF OutLate
    <3>3. /\ Cardinality(OutLate(m, p) \cup {c}) <= Cardinality(OutLate(m, p)) + 1
          /\ Cardinality(OutLate(m, p) \cup {c}) \in Nat
      <4>1. CASE c \in OutLate(m, p)
        <5>1. OutLate(m, p) \cup {c} = OutLate(m, p)
          BY <4>1
        <5> QED
          BY <3>1, <5>1
      <4>2. CASE c \notin OutLate(m, p)
        <5>1. Cardinality(OutLate(m, p) \cup {c}) = Cardinality(OutLate(m, p)) + 1
          BY <3>1, <4>2, FS_AddElement
        <5> QED
          BY <3>1, <5>1
      <4> QED
        BY <4>1, <4>2
    <3>4. OutSum(m, p)' = OutCopies(shown, m, p) + Cardinality(OutLate(m, p)')
      BY <1>a DEF OutSum
    <3>5. OutSum(m, p) = OutCopies(shown, m, p) + Cardinality(OutLate(m, p))
      BY DEF OutSum
    <3>6. CASE m = msg /\ p \in batch
      <4>1. OutLate(m, p)' = OutLate(m, p) \cup {c}
        BY <3>2, <3>6
      <4> HIDE DEF c
      <4> QED
        BY <3>1, <3>3, <3>4, <3>5, <3>6, <4>1
    <3>7. CASE ~(m = msg /\ p \in batch)
      <4>1. OutLate(m, p)' = OutLate(m, p)
        BY <3>2, <3>7
      <4> QED
        BY <3>1, <3>4, <3>5, <3>7, <4>1
    <3> QED
      BY <3>6, <3>7
  <2>3. \A m \in Outbound!Msgs, p \in Outbound!Parts : OutAhead(m, p)' => m >= msg
    <3>1. msg \in Nat /\ Outbound!Msgs = 1..PartMsgs /\ PartMsgs \in Nat
      BY OutNumbers
    <3>2. \A m \in Outbound!Msgs, p \in Outbound!Parts : OutAhead(m, p)' => m > msg \/ m = msg
      BY <1>a, OutReturnsAhead
    <3> QED
      BY <3>1, <3>2
  <2> QED
    BY <1>a, <2>1, <2>2, <2>3, OutFailureCounts
<1>5. OutOrdered'
  <2>1. \A i \in 1..Len(shown) : ~shown[i].late => OutBehind(shown[i])'
    <3> TAKE i \in 1..Len(shown)
    <3> HAVE ~shown[i].late
    <3>1. shown[i].msg \in Nat /\ shown[i].attempt \in Nat /\ OutBehind(shown[i])
      BY OutNumbers DEF OutOrdered
    <3>2. \A x : x.msg \in Nat /\ x.attempt \in Nat /\ OutBehind(x) => OutBehind(x)'
      BY <1>a, OutReturnsBehind
    <3> QED
      BY <1>a, <3>1, <3>2
  <2> QED
    BY <1>a, <2>1 DEF OutOrdered
<1> QED
  BY <1>1, <1>2, <1>3, <1>4, <1>5

-----------------------------------------------------------------------------
\* What stands in the chat after a piece was appended.
LEMMA OutAppended ==
    ASSUME NEW s \in Seq(Outbound!Shown), NEW e \in Seq(Outbound!Shown)
    PROVE  /\ s \o e \in Seq(Outbound!Shown)
           /\ Len(s) \in Nat /\ Len(e) \in Nat /\ Len(s \o e) = Len(s) + Len(e)
           /\ \A i \in 1..Len(s \o e) :
                 \/ i \in 1..Len(s) /\ (s \o e)[i] = s[i]
                 \/ i - Len(s) \in 1..Len(e) /\ (s \o e)[i] = e[i - Len(s)]
<1>1. /\ s \o e \in Seq(Outbound!Shown)
      /\ Len(s) \in Nat /\ Len(e) \in Nat /\ Len(s \o e) = Len(s) + Len(e)
  OBVIOUS
<1>2. \A i \in 1..Len(s) + Len(e) :
          (s \o e)[i] = IF i <= Len(s) THEN s[i] ELSE e[i - Len(s)]
  OBVIOUS
<1>3. ASSUME NEW i \in 1..Len(s \o e)
      PROVE  \/ i \in 1..Len(s) /\ (s \o e)[i] = s[i]
             \/ i - Len(s) \in 1..Len(e) /\ (s \o e)[i] = e[i - Len(s)]
  BY <1>1, <1>2
<1> QED
  BY <1>1, <1>3

LEMMA OutLateCallEnds ==
    ASSUME Outbound!ConstantsAssumption, OutIInv, NEW c \in late, Outbound!LateCallEnds(c)
    PROVE  OutIInv'
<1> USE DEF OutIInv
<1>c. /\ c \in [msg : Outbound!Msgs, attempt : 0..maxRetries, batch : SUBSET Outbound!Parts]
      /\ c.msg \in Outbound!Msgs /\ c.attempt \in 0..maxRetries /\ c.batch \in SUBSET Outbound!Parts
  BY DEF Outbound!TypeOK
<1>a. PICK b \in {{}, c.batch}, e \in Seq(Outbound!Shown) :
         /\ OutPiece(e, c.msg, c.attempt, b) /\ shown' = shown \o e
         /\ \A i \in 1..Len(e) : e[i].late
  <2>1. CASE shown' = shown \o Outbound!Entries(c.msg, c.attempt, c.batch, TRUE)
    <3> DEFINE e == Outbound!Entries(c.msg, c.attempt, c.batch, TRUE)
    <3>1. OutPiece(e, c.msg, c.attempt, c.batch) /\ OutAllLate(e, TRUE)
      BY <1>c, OutEntries
    <3>2. e \in Seq(Outbound!Shown)
      BY <3>1 DEF OutPiece
    <3> HIDE DEF e
    <3>3. shown' = shown \o e
      BY <2>1 DEF e
    <3>4. \A i \in 1..Len(e) : e[i].late
      BY <3>1 DEF OutAllLate
    <3> QED
      BY <3>1, <3>2, <3>3, <3>4
  <2>2. CASE UNCHANGED shown
    <3>1. shown' = shown \o << >>
      BY <2>2 DEF Outbound!TypeOK
    <3> QED
      BY <3>1, OutNoEntries DEF OutPiece
  <2> QED
    BY <2>1, <2>2 DEF Outbound!LateCallEnds
<1>b. /\ late' = late \ {c}
      /\ UNCHANGED <<outPlatform, gone, msg, attempt, outPc, outPart, call, batch, result, failures, giveUps>>
  BY DEF Outbound!LateCallEnds
<1>t. Outbound!Trait' = Outbound!Trait
  BY <1>b DEF Outbound!Trait
<1>l. IsFiniteSet(late)
  BY DEF OutCounted
<1>s. shown \in Seq(Outbound!Shown) /\ e \in Seq(Outbound!Shown)
  BY DEF Outbound!TypeOK
<1>1. Outbound!TypeOK'
  <2>1. shown' \in Seq(Outbound!Shown)
    BY <1>a, <1>s, OutAppended
  <2>2. late' \subseteq [msg : Outbound!Msgs, attempt : 0..maxRetries, batch : SUBSET Outbound!Parts]
    BY <1>b DEF Outbound!TypeOK
  <2> QED
    BY <1>b, <2>1, <2>2 DEF Outbound!TypeOK
<1>2. OutPlace'
  BY <1>b, <1>t DEF OutPlace
<1>g. \A m, p : /\ OutCopies(shown, m, p) \in Nat
                /\ m = c.msg /\ p \in b => OutCopies(shown', m, p) = OutCopies(shown, m, p) + 1
                /\ ~(m = c.msg /\ p \in b) => OutCopies(shown', m, p) = OutCopies(shown, m, p)
  <2> DEFINE k == c.msg
             a == c.attempt
             t == shown'
  <2>1. OutAdds(t, shown, e, k, a, b) /\ shown \in Seq(Outbound!Shown)
    BY <1>a, <1>s DEF OutAdds
  <2> HIDE DEF k, a, t
  <2> TAKE m, p
  <2>2. OutCopies(shown, m, p) \in Nat
    BY <2>1, OutCopiesGrow
  <2>3. m = k /\ p \in b => OutCopies(t, m, p) = OutCopies(shown, m, p) + 1
    BY <2>1, OutCopiesGrow
  <2>4. ~(m = k /\ p \in b) => OutCopies(t, m, p) = OutCopies(shown, m, p)
    BY <2>1, OutCopiesGrow
  <2> QED
    BY <2>2, <2>3, <2>4 DEF k, t
<1>3. OutDelivered'
  <2>1. \A m, p : OutCopies(shown, m, p) > 0 => OutCopies(shown', m, p) > 0
    BY <1>g
  <2> QED
    BY <1>b, <2>1 DEF OutDelivered, OutExcused
<1>4. OutCounted'
  <2>1. IsFiniteSet(late')
    BY <1>b, <1>l, FS_RemoveElement
  <2>2. ASSUME NEW m \in Outbound!Msgs, NEW p \in Outbound!Parts
        PROVE  OutSum(m, p)' <= OutSum(m, p) /\ OutSum(m, p)' \in Nat /\ OutSum(m, p) \in Nat
    <3>1. /\ OutCopies(shown, m, p) \in Nat /\ IsFiniteSet(OutLate(m, p))
          /\ Cardinality(OutLate(m, p)) \in Nat
      BY <1>l, OutCopiesNat
    <3>2. OutSum(m, p) = OutCopies(shown, m, p) + Cardinality(OutLate(m, p))
      BY DEF OutSum
    <3>3. OutSum(m, p)' = OutCopies(shown', m, p) + Cardinality(OutLate(m, p)')
      BY DEF OutSum
    <3>4. CASE m = c.msg /\ p \in c.batch
      <4>1. OutLate(m, p)' = OutLate(m, p) \ {c} /\ c \in OutLate(m, p)
        BY <1>b, <3>4 DEF OutLate
      <4>2. Cardinality(OutLate(m, p) \ {c}) = Cardinality(OutLate(m, p)) - 1
        BY <3>1, <4>1, FS_RemoveElement
      <4>3. OutCopies(shown', m, p) \in Nat /\ OutCopies(shown', m, p) <= OutCopies(shown, m, p) + 1
        BY <1>g, <3>1
      <4>4. Cardinality(OutLate(m, p)) - 1 \in Nat
        <5>1. Cardinality(OutLate(m, p) \ {c}) \in Nat
          BY <3>1, FS_RemoveElement, FS_CardinalityType
        <5> QED
          BY <4>2, <5>1
      <4> QED
        BY <3>1, <3>2, <3>3, <4>1, <4>2, <4>3, <4>4
    <3>5. CASE ~(m = c.msg /\ p \in c.batch)
      <4>1. OutLate(m, p)' = OutLate(m, p)
        BY <1>b, <3>5 DEF OutLate
      <4>2. OutCopies(shown', m, p) = OutCopies(shown, m, p)
        BY <1>a, <1>g, <3>5
      <4> QED
        BY <3>1, <3>2, <3>3, <4>1, <4>2
    <3> QED
      BY <3>4, <3>5
  <2>3. \A m \in Outbound!Msgs : failures[m] \in Nat
    BY OutNumbers
  <2>4. ASSUME NEW m \in Outbound!Msgs, NEW p \in Outbound!Parts
        PROVE  OutSum(m, p)' <= 1 + failures[m] /\ (OutAhead(m, p)' => OutSum(m, p)' <= failures[m])
    <3>1. OutSum(m, p) <= 1 + failures[m] /\ (OutAhead(m, p) => OutSum(m, p) <= failures[m])
      BY DEF OutCounted
    <3>2. OutAhead(m, p)' <=> OutAhead(m, p)
      BY <1>b DEF OutAhead
    <3> QED
      BY <2>2, <2>3, <3>1, <3>2
  <2> QED
    BY <1>b, <2>1, <2>4 DEF OutCounted
<1>5. OutOrdered'
  <2>1. \A x : OutBehind(x) => OutBehind(x)'
    BY <1>b, <1>t DEF OutBehind
  <2>2. \A i \in 1..Len(shown') : ~shown'[i].late => i \in 1..Len(shown) /\ shown'[i] = shown[i]
    BY <1>a, <1>s, OutAppended DEF OutPiece
  <2>3. \A x, y : Outbound!Before(x, y) <=> Outbound!Before(x, y)'
    BY DEF Outbound!Before
  <2>4. ASSUME NEW i \in 1..Len(shown'), NEW j \in 1..Len(shown'), i < j, ~shown'[i].late, ~shown'[j].late
        PROVE  Outbound!Before(shown'[i], shown'[j])
    BY <2>2, <2>4 DEF OutOrdered
  <2>5. ASSUME NEW i \in 1..Len(shown'), ~shown'[i].late
        PROVE  OutBehind(shown[i])'
    <3>1. i \in 1..Len(shown) /\ shown'[i] = shown[i] /\ ~shown[i].late
      BY <2>2, <2>5
    <3>2. OutBehind(shown[i])
      BY <3>1 DEF OutOrdered
    <3> QED
      BY <1>b, <1>t, <3>1, <3>2 DEF OutBehind
  <2> QED
    BY <2>4, <2>5 DEF OutOrdered
<1> QED
  BY <1>1, <1>2, <1>3, <1>4, <1>5

-----------------------------------------------------------------------------
\* What a call puts into the chat.
LEMMA OutShows ==
    ASSUME Outbound!ConstantsAssumption, OutIInv, outPc = "call"
    PROVE  \E b \in SUBSET batch, e \in Seq(Outbound!Shown) :
              /\ e = Outbound!Shows /\ OutPiece(e, msg, attempt, b)
              /\ \A i \in 1..Len(e) : ~e[i].late
              /\ Outbound!Name = "upload" => b = {}
              /\ Outbound!Name # "upload" => \A p \in batch : p \in b \/ <<msg, p>> \in gone
<1> USE DEF OutIInv
<1>a. msg \in Outbound!Msgs /\ attempt \in 0..maxRetries /\ batch \subseteq Outbound!Parts
  BY DEF OutPlace, Outbound!TypeOK
<1>1. CASE Outbound!Name = "upload"
  <2>1. << >> = Outbound!Shows
    BY <1>1 DEF Outbound!Shows
  <2>2. OutPiece(<< >>, msg, attempt, {}) /\ << >> \in Seq(Outbound!Shown)
    BY OutNoEntries
  <2>3. \A i \in 1..Len(<< >>) : ~(<< >>)[i].late
    OBVIOUS
  <2> DEFINE e == << >>
  <2>4. e \in Seq(Outbound!Shown) /\ e = Outbound!Shows /\ OutPiece(e, msg, attempt, {}) /\ \A i \in 1..Len(e) : ~e[i].late
    BY <2>1, <2>2, <2>3
  <2> HIDE DEF e
  <2> QED
    BY <1>1, <2>4
<1>2. CASE Outbound!Name # "upload"
  <2>0. PICK isLate \in BOOLEAN : isLate = FALSE
    OBVIOUS
  <2> DEFINE b == Outbound!Readable
             e == Outbound!Entries(msg, attempt, b, isLate)
  <2>1. b \in SUBSET batch /\ b \in SUBSET Outbound!Parts /\ \A p \in batch : p \in b \/ <<msg, p>> \in gone
    BY <1>a DEF Outbound!Readable
  <2>5. Outbound!Shows = Outbound!Entries(msg, attempt, b, FALSE)
    BY <1>2, Zenon DEF Outbound!Shows
  <2> HIDE DEF b
  <2>2. e = Outbound!Shows
    BY <2>0, <2>5, Zenon
  <2>3. OutPiece(e, msg, attempt, b) /\ \A i \in 1..Len(e) : ~e[i].late
    <3>1. OutPiece(e, msg, attempt, b) /\ OutAllLate(e, isLate)
      BY <1>a, <2>1, OutEntries
    <3> HIDE DEF e
    <3> QED
      BY <2>0, <3>1 DEF OutAllLate
  <2> HIDE DEF e
  <2>4. e \in Seq(Outbound!Shown)
    BY <2>3 DEF OutPiece
  <2> QED
    BY <1>2, <2>1, <2>2, <2>3, <2>4
<1> QED
  BY <1>1, <1>2

LEMMA OutShownSum ==
    ASSUME Outbound!ConstantsAssumption, Outbound!TypeOK, IsFiniteSet(late),
           NEW e, NEW k, NEW a, NEW b, OutAdds(shown', shown, e, k, a, b), late' = late,
           NEW m, NEW p
    PROVE  /\ OutCopies(shown, m, p) \in Nat /\ OutSum(m, p) \in Nat
           /\ m = k /\ p \in b => /\ OutCopies(shown', m, p) = OutCopies(shown, m, p) + 1
                                 /\ OutSum(m, p)' = OutSum(m, p) + 1
           /\ ~(m = k /\ p \in b) => /\ OutCopies(shown', m, p) = OutCopies(shown, m, p)
                                    /\ OutSum(m, p)' = OutSum(m, p)
<1>1. shown \in Seq(Outbound!Shown)
  BY DEF Outbound!TypeOK
<1>2. /\ OutCopies(shown, m, p) \in Nat /\ Cardinality(OutLate(m, p)) \in Nat /\ OutSum(m, p) \in Nat
  BY OutCopiesNat
<1>3. m = k /\ p \in b => OutCopies(shown', m, p) = OutCopies(shown, m, p) + 1
  BY <1>1, OutCopiesGrow
<1>4. ~(m = k /\ p \in b) => OutCopies(shown', m, p) = OutCopies(shown, m, p)
  BY <1>1, OutCopiesGrow
<1>5. OutSum(m, p) = OutCopies(shown, m, p) + Cardinality(OutLate(m, p))
  BY DEF OutSum
<1>6. OutSum(m, p)' = OutCopies(shown', m, p) + Cardinality(OutLate(m, p))
  BY DEF OutSum, OutLate
<1> QED
  BY <1>2, <1>3, <1>4, <1>5, <1>6

LEMMA OutShownOrder ==
    ASSUME Outbound!ConstantsAssumption, OutIInv, outPc = "call",
           NEW e, NEW b, b \subseteq batch, OutAdds(shown', shown, e, msg, attempt, b),
           \A i \in 1..Len(e) : ~e[i].late,
           \A x : /\ x.msg \in Nat /\ x.attempt \in Nat
                  /\ OutBehind(x) \/ (x.msg = msg /\ x.attempt = attempt /\ x.part \in batch)
                  => OutBehind(x)'
    PROVE  OutOrdered'
<1> USE DEF OutIInv
<1>e. /\ e \in Seq(Outbound!Shown) /\ shown' = shown \o e /\ shown \in Seq(Outbound!Shown)
      /\ \A i \in 1..Len(e) : e[i].msg = msg /\ e[i].attempt = attempt /\ e[i].part \in batch
      /\ \A i, j \in 1..Len(e) : i < j => e[i].part < e[j].part
  BY DEF OutAdds, OutPiece, Outbound!TypeOK
<1>l. /\ Len(shown) \in Nat /\ Len(e) \in Nat /\ Len(shown') = Len(shown) + Len(e)
      /\ \A i \in 1..Len(shown') :
            \/ i \in 1..Len(shown) /\ shown'[i] = shown[i]
            \/ i - Len(shown) \in 1..Len(e) /\ shown'[i] = e[i - Len(shown)]
  BY <1>e, OutAppended
<1>n. /\ msg \in Nat /\ attempt \in Nat /\ batch \subseteq Nat /\ outPart \in Nat
      /\ \A i \in 1..Len(shown) : shown[i].msg \in Nat /\ shown[i].attempt \in Nat /\ shown[i].part \in Nat
  BY OutNumbers
<1>1. ASSUME NEW i \in 1..Len(shown'), ~shown'[i].late
      PROVE  OutBehind(shown[i])'
  <2>1. PICK x : x = shown'[i]
    OBVIOUS
  <2>2. x.msg \in Nat /\ x.attempt \in Nat /\ (OutBehind(x) \/ (x.msg = msg /\ x.attempt = attempt /\ x.part \in batch))
    <3>1. CASE i \in 1..Len(shown) /\ shown'[i] = shown[i]
      <4>1. OutBehind(shown[i])
        BY <1>1, <3>1 DEF OutOrdered
      <4>2. x = shown[i]
        BY <2>1, <3>1
      <4> QED
        BY <1>n, <3>1, <4>1, <4>2
    <3>2. CASE i - Len(shown) \in 1..Len(e) /\ shown'[i] = e[i - Len(shown)]
      BY <1>e, <1>n, <2>1, <3>2
    <3> QED
      BY <1>l, <3>1, <3>2
  <2>3. OutBehind(x)'
    BY <2>2
  <2> QED
    BY <2>1, <2>3, Zenon DEF OutBehind
<1>2. ASSUME NEW i \in 1..Len(shown'), NEW j \in 1..Len(shown'), i < j, ~shown'[i].late, ~shown'[j].late
      PROVE  Outbound!Before(shown'[i], shown'[j])
  <2>1. CASE i \in 1..Len(shown) /\ shown'[i] = shown[i] /\ j \in 1..Len(shown) /\ shown'[j] = shown[j]
    BY <1>2, <2>1 DEF OutOrdered
  <2>2. CASE /\ i \in 1..Len(shown) /\ shown'[i] = shown[i]
             /\ j - Len(shown) \in 1..Len(e) /\ shown'[j] = e[j - Len(shown)]
    <3>1. PICK x : x = shown[i]
      OBVIOUS
    <3>2. PICK y : y = e[j - Len(shown)]
      OBVIOUS
    <3>3. OutBehind(x) /\ x.msg \in Nat /\ x.attempt \in Nat /\ x.part \in Nat
      <4>1. OutBehind(shown[i])
        BY <1>2, <2>2 DEF OutOrdered
      <4> QED
        BY <1>n, <2>2, <3>1, <4>1
    <3>4. y.msg = msg /\ y.attempt = attempt /\ y.part \in batch
      BY <1>e, <2>2, <3>2
    <3>5. ~Outbound!Trait.whole => batch = {outPart}
      BY DEF OutPlace
    <3>6. Outbound!Before(x, y)
      <4>1. CASE x.msg < msg
        BY <3>4, <4>1 DEF Outbound!Before
      <4>2. CASE x.msg = msg /\ x.attempt < attempt
        BY <3>4, <4>2 DEF Outbound!Before
      <4>3. CASE x.msg = msg /\ x.attempt = attempt /\ x.part <= outPart /\ ~Outbound!Trait.whole
        <5>1. y.part = outPart
          BY <3>4, <3>5, <4>3
        <5> QED
          BY <3>4, <4>3, <5>1 DEF Outbound!Before
      <4> QED
        BY <3>3, <4>1, <4>2, <4>3 DEF OutBehind
    <3> QED
      BY <2>2, <3>1, <3>2, <3>6
  <2>3. CASE /\ i - Len(shown) \in 1..Len(e) /\ shown'[i] = e[i - Len(shown)]
             /\ j \in 1..Len(shown)
    BY <1>2, <1>l, <2>3
  <2>4. CASE /\ i - Len(shown) \in 1..Len(e) /\ shown'[i] = e[i - Len(shown)]
             /\ j - Len(shown) \in 1..Len(e) /\ shown'[j] = e[j - Len(shown)]
    <3>1. i - Len(shown) < j - Len(shown)
      BY <1>2, <1>l
    <3>2. PICK k, l : k = i - Len(shown) /\ l = j - Len(shown)
      OBVIOUS
    <3>3. k \in 1..Len(e) /\ l \in 1..Len(e) /\ k < l
      BY <2>4, <3>1, <3>2
    <3>4. /\ e[k].part < e[l].part /\ e[k].msg = msg /\ e[l].msg = msg
          /\ e[k].attempt = attempt /\ e[l].attempt = attempt
          /\ e[k].part \in Nat /\ e[l].part \in Nat
      BY <1>e, <1>n, <3>3
    <3>5. Outbound!Before(e[k], e[l])
      BY <3>4 DEF Outbound!Before
    <3> QED
      BY <2>4, <3>2, <3>5
  <2> QED
    BY <1>l, <2>1, <2>2, <2>3, <2>4
<1> QED
  BY <1>1, <1>2 DEF OutOrdered

LEMMA OutCallSucceeds ==
    ASSUME Outbound!ConstantsAssumption, OutIInv, Outbound!CallSucceeds
    PROVE  OutIInv'
<1> USE DEF OutIInv
<1> DEFINE whole == Outbound!Trait.whole
           n == Len(Outbound!Trait.calls)
<1>n. /\ PartMsgs \in Nat /\ MaxParts \in Nat /\ Outbound!Msgs = 1..PartMsgs /\ Outbound!Parts = 1..MaxParts
      /\ outPart \in Nat /\ msg \in Nat /\ attempt \in Nat
  BY OutNumbers
<1>a. /\ outPc = "call" /\ msg \in Outbound!Msgs /\ call \in 1..n /\ outPart \in Outbound!Parts
      /\ IF whole THEN outPart = MaxParts ELSE batch = {outPart}
      /\ shown' = shown \o Outbound!Shows
      /\ UNCHANGED <<outPlatform, gone, outPart, late, failures, giveUps>>
  BY DEF Outbound!CallSucceeds, OutPlace
<1>t. Outbound!Trait' = Outbound!Trait /\ OutTraitOf(Outbound!Trait)
  BY <1>a, OutTraits DEF Outbound!Trait
<1>w. /\ n \in 1..2 /\ whole \in BOOLEAN
      /\ Outbound!Name = "html" => n = 2 /\ ~whole
      /\ call = n => Outbound!Name \notin {"upload", "html"}
      /\ call # n => Outbound!Name \in {"upload", "html"} /\ ~whole
  BY <1>a, <1>t DEF OutTraitOf, Outbound!Name
<1>b. PICK b \in SUBSET batch, e \in Seq(Outbound!Shown) :
         /\ OutAdds(shown', shown, e, msg, attempt, b)
         /\ \A i \in 1..Len(e) : ~e[i].late
         /\ Outbound!Name = "upload" => b = {}
         /\ Outbound!Name # "upload" => \A p \in batch : p \in b \/ <<msg, p>> \in gone
  <2>1. PICK b \in SUBSET batch, e \in Seq(Outbound!Shown) :
           /\ e = Outbound!Shows /\ OutPiece(e, msg, attempt, b)
           /\ \A i \in 1..Len(e) : ~e[i].late
           /\ Outbound!Name = "upload" => b = {}
           /\ Outbound!Name # "upload" => \A p \in batch : p \in b \/ <<msg, p>> \in gone
    BY <1>a, OutShows
  <2>2. OutAdds(shown', shown, e, msg, attempt, b)
    BY <1>a, <2>1 DEF OutAdds
  <2> QED
    BY <2>1, <2>2
<1>l. IsFiniteSet(late) /\ \A m \in Outbound!Msgs : failures[m] \in Nat
  BY OutNumbers DEF OutCounted
<1>g. \A m, p :
         /\ OutCopies(shown, m, p) \in Nat /\ OutSum(m, p) \in Nat
         /\ m = msg /\ p \in b => /\ OutCopies(shown', m, p) = OutCopies(shown, m, p) + 1
                                 /\ OutSum(m, p)' = OutSum(m, p) + 1
         /\ ~(m = msg /\ p \in b) => /\ OutCopies(shown', m, p) = OutCopies(shown, m, p)
                                    /\ OutSum(m, p)' = OutSum(m, p)
  BY <1>a, <1>b, <1>l, OutShownSum
<1>h. \A m, p : OutCopies(shown, m, p) > 0 \/ (m = msg /\ p \in b) => OutCopies(shown', m, p) > 0
  BY <1>g
<1>s. shown' \in Seq(Outbound!Shown)
  BY <1>b, OutAppended DEF OutAdds, Outbound!TypeOK
\* A part was passed: it is shown, or excused.
<1>d. ASSUME Outbound!Name # "upload", NEW p \in Outbound!Parts, p <= outPart, ~OutExcused(msg, p)
      PROVE  OutCopies(shown', msg, p) > 0
  <2>1. p \in batch \/ OutCopies(shown, msg, p) > 0
    BY <1>a, <1>d DEF OutDelivered
  <2>2. p \in batch => p \in b
    BY <1>b, <1>d DEF OutExcused
  <2> QED
    BY <1>h, <2>1, <2>2
\* What is counted, where nothing that lies ahead was shown.
<1>c. ASSUME \A m \in Outbound!Msgs, p \in Outbound!Parts :
                OutAhead(m, p)' => OutAhead(m, p) /\ ~(m = msg /\ p \in b)
      PROVE  OutCounted'
  <2> SUFFICES ASSUME NEW m \in Outbound!Msgs, NEW p \in Outbound!Parts
               PROVE  OutSum(m, p)' <= 1 + failures[m] /\ (OutAhead(m, p)' => OutSum(m, p)' <= failures[m])
    BY <1>a, <1>l DEF OutCounted
  <2>1. OutSum(m, p) <= 1 + failures[m] /\ (OutAhead(m, p) => OutSum(m, p) <= failures[m])
    BY DEF OutCounted
  <2>2. CASE m = msg /\ p \in b
    <3>1. OutAhead(m, p) /\ ~OutAhead(m, p)'
      BY <1>b, <1>c, <2>2 DEF OutAhead
    <3>2. OutSum(m, p)' = OutSum(m, p) + 1 /\ OutSum(m, p) \in Nat /\ failures[m] \in Nat
      BY <1>g, <1>l, <2>2
    <3> QED
      BY <2>1, <3>1, <3>2
  <2>3. CASE ~(m = msg /\ p \in b)
    <3>1. OutSum(m, p)' = OutSum(m, p)
      BY <1>g, <2>3
    <3> QED
      BY <1>c, <2>1, <3>1
  <2> QED
    BY <2>2, <2>3
<1> HIDE DEF whole, n
<1>1. CASE ~Outbound!PartDone
  <2>a. call' = call + 1 /\ UNCHANGED <<outPc, batch, msg, attempt, result>>
    BY <1>1 DEF Outbound!CallSucceeds
  <2>b. call # n /\ Outbound!Name = "upload"
    BY <1>1, <1>w DEF Outbound!PartDone, n
  <2>c. b = {} /\ call' \in 1..n /\ call' \in 1..2 /\ ~whole
    BY <1>a, <1>b, <1>w, <2>a, <2>b
  <2>1. Outbound!TypeOK'
    BY <1>a, <1>s, <2>a, <2>c DEF Outbound!TypeOK
  <2>2. OutPlace'
    BY <1>a, <1>t, <2>a, <2>c DEF OutPlace, n, whole
  <2>3. OutDelivered'
    BY <1>a, <1>h, <2>a DEF OutDelivered, OutExcused
  <2>4. OutCounted'
    <3>1. \A m \in Outbound!Msgs, p \in Outbound!Parts :
             OutAhead(m, p)' => OutAhead(m, p) /\ ~(m = msg /\ p \in b)
      BY <1>a, <2>a, <2>c DEF OutAhead
    <3> QED
      BY <1>c, <3>1
  <2>5. OutOrdered'
    <3>1. \A x : OutBehind(x) \/ (x.msg = msg /\ x.attempt = attempt /\ x.part \in batch) => OutBehind(x)'
      BY <1>a, <1>n, <1>t, <2>a, <2>c DEF OutBehind, whole
    <3> QED
      BY <1>a, <1>b, <3>1, OutShownOrder
  <2> QED
    BY <2>1, <2>2, <2>3, <2>4, <2>5
<1>2. CASE Outbound!PartDone /\ ~whole
  <2>a. call' = 1 /\ batch' = {} /\ outPc' = "part" /\ UNCHANGED <<msg, attempt, result>>
    BY <1>2 DEF Outbound!CallSucceeds, whole
  <2>b. Outbound!Name # "upload" /\ b \subseteq {outPart}
    BY <1>2, <1>a, <1>w DEF Outbound!PartDone, n, whole
  <2>1. Outbound!TypeOK'
    BY <1>a, <1>s, <2>a DEF Outbound!TypeOK
  <2>2. OutPlace'
    BY <1>a, <2>a DEF OutPlace
  <2>3. OutDelivered'
    <3>1. \A m \in Outbound!Msgs, p \in Outbound!Parts :
             result[m] = "nil" /\ ~OutExcused(m, p) => OutCopies(shown', m, p) > 0
      BY <1>h DEF OutDelivered
    <3> QED
      BY <1>a, <1>d, <2>a, <2>b, <3>1 DEF OutDelivered, OutExcused
  <2>4. OutCounted'
    <3>1. \A m \in Outbound!Msgs, p \in Outbound!Parts :
             OutAhead(m, p)' => OutAhead(m, p) /\ ~(m = msg /\ p \in b)
      BY <1>a, <1>n, <2>a, <2>b DEF OutAhead
    <3> QED
      BY <1>c, <3>1
  <2>5. OutOrdered'
    <3>1. \A x : OutBehind(x) \/ (x.msg = msg /\ x.attempt = attempt /\ x.part \in batch) => OutBehind(x)'
      BY <1>2, <1>a, <1>n, <1>t, <2>a DEF OutBehind, whole
    <3> QED
      BY <1>a, <1>b, <3>1, OutShownOrder
  <2> QED
    BY <2>1, <2>2, <2>3, <2>4, <2>5
<1>3. CASE Outbound!PartDone /\ whole
  <2>a. call' = 1 /\ batch' = {} /\ Outbound!Return("nil")
    BY <1>3 DEF Outbound!CallSucceeds, whole
  <2>b. Outbound!Name # "upload" /\ outPart = MaxParts
    BY <1>3, <1>a, <1>w DEF Outbound!PartDone, n, whole
  <2>1. Outbound!TypeOK'
    <3>1. /\ call' \in 1..2 /\ batch' \subseteq Outbound!Parts
          /\ late' \subseteq [msg : Outbound!Msgs, attempt : 0..maxRetries, batch : SUBSET Outbound!Parts]
      BY <1>a, <2>a DEF Outbound!TypeOK
    <3> QED
      BY <1>a, <1>s, <2>a, <3>1, OutReturnsTypes
  <2>2. OutPlace'
    BY <1>a, <2>a, OutReturns DEF OutPlace
  <2>3. OutDelivered'
    <3>1. ASSUME NEW m \in Outbound!Msgs, NEW p \in Outbound!Parts, result'[m] = "nil", ~OutExcused(m, p)
          PROVE  OutCopies(shown', m, p) > 0
      <4>1. result[m] = "nil" \/ m = msg
        BY <1>a, <2>a, <3>1, OutReturns
      <4>2. CASE m = msg
        <5>1. p <= outPart
          BY <1>n, <2>b
        <5> QED
          BY <1>d, <2>b, <3>1, <4>2, <5>1
      <4>3. CASE result[m] = "nil"
        BY <1>h, <3>1, <4>3 DEF OutDelivered
      <4> QED
        BY <4>1, <4>2, <4>3
    <3>2. outPc' \notin {"part", "call"}
      BY <1>a, <2>a, OutReturns
    <3> QED
      BY <1>a, <3>1, <3>2 DEF OutDelivered, OutExcused
  <2>4. OutCounted'
    <3>1. \A m \in Outbound!Msgs, p \in Outbound!Parts :
             OutAhead(m, p)' => OutAhead(m, p) /\ ~(m = msg /\ p \in b)
      <4> SUFFICES ASSUME NEW m \in Outbound!Msgs, NEW p \in Outbound!Parts, OutAhead(m, p)'
                   PROVE  OutAhead(m, p) /\ m # msg
        OBVIOUS
      <4>1. msg' = msg + 1
        BY <2>a DEF Outbound!Return
      <4>2. m > msg
        BY <1>n, <4>1 DEF OutAhead
      <4> QED
        BY <1>n, <4>2 DEF OutAhead
    <3> QED
      BY <1>c, <3>1
  <2>5. OutOrdered'
    <3>1. \A x : /\ x.msg \in Nat /\ x.attempt \in Nat
                 /\ OutBehind(x) \/ (x.msg = msg /\ x.attempt = attempt /\ x.part \in batch)
                 => OutBehind(x)'
      BY <1>a, <2>a, OutReturnsBehind
    <3> QED
      BY <1>a, <1>b, <3>1, OutShownOrder
  <2> QED
    BY <2>1, <2>2, <2>3, <2>4, <2>5
<1> QED
  BY <1>1, <1>2, <1>3

LEMMA OutCallFails ==
    ASSUME Outbound!ConstantsAssumption, OutIInv, NEW err \in Outbound!Classified, Outbound!CallFails(err)
    PROVE  OutIInv'
<1> USE DEF OutIInv
<1> DEFINE whole == Outbound!Trait.whole
           n == Len(Outbound!Trait.calls)
<1>n. /\ PartMsgs \in Nat /\ MaxParts \in Nat /\ Outbound!Msgs = 1..PartMsgs /\ Outbound!Parts = 1..MaxParts
      /\ outPart \in Nat /\ msg \in Nat /\ attempt \in Nat
  BY OutNumbers
<1>a. /\ outPc = "call" /\ msg \in Outbound!Msgs /\ call \in 1..n /\ outPart \in Outbound!Parts
      /\ IF whole THEN outPart = MaxParts ELSE batch = {outPart}
      /\ failures' = [failures EXCEPT ![msg] = @ + 1]
      /\ shown' = shown \o Outbound!Shows \/ UNCHANGED shown
      /\ UNCHANGED <<outPlatform, gone, outPart, late>> /\ err # "nil"
  BY DEF Outbound!CallFails, OutPlace, Outbound!Classified
<1>t. /\ Outbound!Trait' = Outbound!Trait /\ OutTraitOf(Outbound!Trait)
      /\ outPlatform = "wecom_app" => ~whole
  BY <1>a, OutTraits DEF Outbound!Trait
<1>w. /\ n \in 1..2 /\ whole \in BOOLEAN
      /\ Outbound!Name = "html" => n = 2 /\ ~whole
  BY <1>a, <1>t DEF OutTraitOf, Outbound!Name
<1>b. PICK b \in SUBSET batch, e \in Seq(Outbound!Shown) :
         OutAdds(shown', shown, e, msg, attempt, b) /\ \A i \in 1..Len(e) : ~e[i].late
  <2>1. CASE shown' = shown \o Outbound!Shows
    <3>1. PICK b \in SUBSET batch, e \in Seq(Outbound!Shown) :
             e = Outbound!Shows /\ OutPiece(e, msg, attempt, b) /\ \A i \in 1..Len(e) : ~e[i].late
      BY <1>a, OutShows
    <3>2. OutAdds(shown', shown, e, msg, attempt, b)
      BY <2>1, <3>1 DEF OutAdds
    <3> QED
      BY <3>1, <3>2
  <2>2. CASE UNCHANGED shown
    <3> DEFINE e == << >>
    <3>1. e \in Seq(Outbound!Shown) /\ OutPiece(e, msg, attempt, {}) /\ \A i \in 1..Len(e) : ~e[i].late
      BY OutNoEntries
    <3>2. shown' = shown \o e
      BY <2>2 DEF Outbound!TypeOK
    <3> HIDE DEF e
    <3>3. OutAdds(shown', shown, e, msg, attempt, {})
      BY <3>1, <3>2 DEF OutAdds
    <3> QED
      BY <3>1, <3>3
  <2> QED
    BY <1>a, <2>1, <2>2
<1>l. IsFiniteSet(late)
  BY DEF OutCounted
<1>g. \A m, p :
         /\ OutCopies(shown, m, p) \in Nat /\ OutSum(m, p) \in Nat
         /\ m = msg /\ p \in b => /\ OutCopies(shown', m, p) = OutCopies(shown, m, p) + 1
                                 /\ OutSum(m, p)' = OutSum(m, p) + 1
         /\ ~(m = msg /\ p \in b) => /\ OutCopies(shown', m, p) = OutCopies(shown, m, p)
                                    /\ OutSum(m, p)' = OutSum(m, p)
  BY <1>a, <1>b, <1>l, OutShownSum
<1>h. \A m, p : OutCopies(shown, m, p) > 0 => OutCopies(shown', m, p) > 0
  BY <1>g
<1>s. shown' \in Seq(Outbound!Shown)
  BY <1>b, OutAppended DEF OutAdds, Outbound!TypeOK
<1>f. failures' \in [Outbound!Msgs -> Nat]
  BY <1>a DEF Outbound!TypeOK
<1>c. ASSUME \A m \in Outbound!Msgs, p \in Outbound!Parts : OutAhead(m, p)' => m >= msg
      PROVE  OutCounted'
  <2>1. ASSUME NEW m \in Outbound!Msgs, NEW p \in Outbound!Parts
        PROVE  OutSum(m, p)' <= OutSum(m, p) + (IF m = msg /\ p \in batch THEN 1 ELSE 0) /\ OutSum(m, p)' \in Nat
    <3>1. OutSum(m, p) \in Nat
      BY <1>g
    <3>2. CASE m = msg /\ p \in b
      <4>1. OutSum(m, p)' = OutSum(m, p) + 1 /\ p \in batch
        BY <1>g, <3>2
      <4> QED
        BY <3>1, <3>2, <4>1
    <3>3. CASE ~(m = msg /\ p \in b)
      <4>1. OutSum(m, p)' = OutSum(m, p)
        BY <1>g, <3>3
      <4> QED
        BY <3>1, <4>1
    <3> QED
      BY <3>2, <3>3
  <2> QED
    BY <1>a, <1>c, <1>l, <2>1, OutFailureCounts
<1> HIDE DEF whole, n
<1>1. CASE Outbound!Name = "html" /\ call' = 2 /\ UNCHANGED <<outPc, batch, msg, attempt, result, giveUps>>
  <2>w. ~whole /\ 2 \in 1..n
    BY <1>1, <1>w
  <2>1. Outbound!TypeOK'
    BY <1>a, <1>f, <1>s, <1>1 DEF Outbound!TypeOK
  <2>2. OutPlace'
    BY <1>a, <1>t, <1>1, <2>w DEF OutPlace, n, whole
  <2>3. OutDelivered'
    BY <1>a, <1>h, <1>1 DEF OutDelivered, OutExcused
  <2>4. OutCounted'
    <3>1. \A m \in Outbound!Msgs, p \in Outbound!Parts : OutAhead(m, p)' => m >= msg
      BY <1>n, <1>1 DEF OutAhead
    <3> QED
      BY <1>c, <3>1
  <2>5. OutOrdered'
    <3>1. \A x : OutBehind(x) \/ (x.msg = msg /\ x.attempt = attempt /\ x.part \in batch) => OutBehind(x)'
      BY <1>a, <1>n, <1>t, <1>1, <2>w DEF OutBehind, whole
    <3> QED
      BY <1>a, <1>b, <3>1, OutShownOrder
  <2> QED
    BY <2>1, <2>2, <2>3, <2>4, <2>5
<1>2. CASE /\ outPlatform = "wecom_app" /\ giveUps' = giveUps \cup {<<msg, outPart>>}
           /\ outPc' = "part" /\ batch' = {} /\ call' = 1 /\ UNCHANGED <<msg, attempt, result>>
  <2>w. ~whole /\ batch = {outPart}
    BY <1>2, <1>a, <1>t, <1>w
  <2>1. Outbound!TypeOK'
    <3>1. giveUps' \in SUBSET (Outbound!Msgs \X Outbound!Parts)
      BY <1>2, <1>a DEF Outbound!TypeOK
    <3> QED
      BY <1>a, <1>f, <1>s, <1>2, <3>1 DEF Outbound!TypeOK
  <2>2. OutPlace'
    BY <1>a, <1>2 DEF OutPlace
  <2>3. OutDelivered'
    <3>1. \A m, p : OutExcused(m, p) \/ (m = msg /\ p = outPart) => OutExcused(m, p)'
      BY <1>a, <1>2 DEF OutExcused
    <3>2. \A m \in Outbound!Msgs, p \in Outbound!Parts :
             result'[m] = "nil" /\ ~OutExcused(m, p)' => OutCopies(shown', m, p) > 0
      BY <1>h, <1>2, <3>1 DEF OutDelivered
    <3>3. ASSUME NEW p \in Outbound!Parts, p <= outPart, ~OutExcused(msg, p)'
          PROVE  OutCopies(shown', msg, p) > 0
      <4>1. ~OutExcused(msg, p) /\ p # outPart
        BY <1>a, <1>2, <3>3 DEF OutExcused
      <4>2. p \in batch \/ OutCopies(shown, msg, p) > 0
        BY <1>a, <3>3, <4>1 DEF OutDelivered
      <4> QED
        BY <1>h, <2>w, <4>1, <4>2
    <3> QED
      BY <1>a, <1>2, <3>2, <3>3 DEF OutDelivered, OutExcused
  <2>4. OutCounted'
    <3>1. \A m \in Outbound!Msgs, p \in Outbound!Parts : OutAhead(m, p)' => m >= msg
      BY <1>n, <1>2 DEF OutAhead
    <3> QED
      BY <1>c, <3>1
  <2>5. OutOrdered'
    <3>1. \A x : OutBehind(x) \/ (x.msg = msg /\ x.attempt = attempt /\ x.part \in batch) => OutBehind(x)'
      BY <1>a, <1>n, <1>t, <1>2, <2>w DEF OutBehind, whole
    <3> QED
      BY <1>a, <1>b, <3>1, OutShownOrder
  <2> QED
    BY <2>1, <2>2, <2>3, <2>4, <2>5
<1>3. CASE Outbound!Return(err) /\ UNCHANGED <<call, batch, giveUps>>
  <2>1. Outbound!TypeOK'
    <3>1. /\ call' \in 1..2 /\ batch' \subseteq Outbound!Parts
          /\ late' \subseteq [msg : Outbound!Msgs, attempt : 0..maxRetries, batch : SUBSET Outbound!Parts]
      BY <1>a, <1>3 DEF Outbound!TypeOK
    <3> QED
      BY <1>a, <1>s, <1>3, <3>1, OutReturnsTypes
  <2>2. OutPlace'
    BY <1>a, <1>3, OutReturns DEF OutPlace
  <2>3. OutDelivered'
    <3>1. \A m \in Outbound!Msgs : result'[m] = "nil" => result[m] = "nil"
      BY <1>a, <1>3, OutReturns
    <3>2. outPc' \notin {"part", "call"}
      BY <1>a, <1>3, OutReturns
    <3> QED
      BY <1>a, <1>h, <1>3, <3>1, <3>2 DEF OutDelivered, OutExcused
  <2>4. OutCounted'
    <3>1. \A m \in Outbound!Msgs, p \in Outbound!Parts : OutAhead(m, p)' => m > msg \/ m = msg
      BY <1>a, <1>3, OutReturnsAhead
    <3>2. \A m \in Outbound!Msgs, p \in Outbound!Parts : OutAhead(m, p)' => m >= msg
      BY <1>n, <3>1
    <3> QED
      BY <1>c, <3>2
  <2>5. OutOrdered'
    <3>1. \A x : /\ x.msg \in Nat /\ x.attempt \in Nat
                 /\ OutBehind(x) \/ (x.msg = msg /\ x.attempt = attempt /\ x.part \in batch)
                 => OutBehind(x)'
      BY <1>a, <1>3, OutReturnsBehind
    <3> QED
      BY <1>a, <1>b, <3>1, OutShownOrder
  <2> QED
    BY <2>1, <2>2, <2>3, <2>4, <2>5
<1> QED
  BY <1>1, <1>2, <1>3, Zenon DEF Outbound!CallFails

-----------------------------------------------------------------------------
\* A message of several parts, for any of the eleven senders, any number of
\* messages, parts and retries, calls that fail before or after the chat showed what
\* was sent, calls that go on late, and files that are taken at any time: what is
\* reported as sent is in the chat with each part whose file is left, a part is
\* repeated only for an error, and what is not late is in order.
THEOREM OutboundHolds == ASSUME Outbound!ConstantsAssumption
                         PROVE  Outbound!Spec => [](Outbound!TypeOK /\ Outbound!OutboundInv)
<1>1. Outbound!Init => OutIInv
  BY OutInitInv
<1>2. OutIInv /\ [Outbound!Next]_(Outbound!vars) => OutIInv'
  <2> SUFFICES ASSUME OutIInv, [Outbound!Next]_(Outbound!vars) PROVE OutIInv'
    OBVIOUS
  <2>1. CASE Outbound!Next
    <3>1. CASE Outbound!Begin
      BY <3>1, OutBegin
    <3>2. CASE Outbound!ResolvePart
      BY <3>2, OutResolvePart
    <3>3. CASE Outbound!PartsEnd
      BY <3>3, OutPartsEnd
    <3>4. CASE Outbound!CallSucceeds
      BY <3>4, OutCallSucceeds
    <3>5. CASE Outbound!TimesOut
      BY <3>5, OutTimesOut
    <3>6. ASSUME NEW err \in Outbound!Classified, Outbound!CallFails(err) PROVE OutIInv'
      BY <3>6, OutCallFails
    <3>7. ASSUME NEW err \in Outbound!Classified, Outbound!NotReady(err) PROVE OutIInv'
      BY <3>7, OutNotReady
    <3>8. ASSUME NEW c \in late, Outbound!LateCallEnds(c) PROVE OutIInv'
      BY <3>8, OutLateCallEnds
    <3>9. ASSUME NEW m \in Outbound!Msgs, NEW p \in Outbound!Parts, Outbound!CleanExpired(m, p) PROVE OutIInv'
      BY <3>9, OutCleanExpired
    <3> QED
      BY <2>1, <3>1, <3>2, <3>3, <3>4, <3>5, <3>6, <3>7, <3>8, <3>9 DEF Outbound!Next
  <2>2. CASE UNCHANGED Outbound!vars
    <3>a. UNCHANGED <<outPlatform, gone, msg, attempt, outPc, outPart, call, batch, result, late, shown, failures, giveUps>>
      BY <2>2 DEF Outbound!vars
    <3>t. Outbound!Trait' = Outbound!Trait
      BY <3>a DEF Outbound!Trait
    <3>1. Outbound!TypeOK'
      BY <3>a DEF OutIInv, Outbound!TypeOK
    <3>2. OutPlace'
      BY <3>a, <3>t DEF OutIInv, OutPlace
    <3>3. OutDelivered'
      BY <3>a DEF OutIInv, OutDelivered, OutExcused
    <3>4. OutCounted'
      BY <3>a DEF OutIInv, OutCounted, OutSum, OutLate, OutAhead
    <3>5. OutOrdered'
      BY <3>a, <3>t DEF OutIInv, OutOrdered, OutBehind
    <3> QED
      BY <3>1, <3>2, <3>3, <3>4, <3>5 DEF OutIInv
  <2> QED
    BY <2>1, <2>2
<1>3. OutIInv => Outbound!TypeOK /\ Outbound!OutboundInv
  BY OutIInvImplies
<1> QED
  BY <1>1, <1>2, <1>3, PTL DEF Outbound!Spec

-----------------------------------------------------------------------------
(* The composition                                                         *)

\* Whichever component takes the steps, the others stand still: the composition
\* implements each of them.
LEMMA BusImplemented == MCSpec => Spec
<1>1. MCInit => Init
  BY DEF MCInit
<1>2. [MCNext]_allVars => [Next]_vars
  BY DEF MCNext, BusRuns, ManagerRuns, InboundRuns, OutboundRuns, SplitRuns, allVars
<1> QED
  BY <1>1, <1>2, PTL DEF MCSpec, Spec

LEMMA ManagerImplemented == MCSpec => Manager!Spec
<1>1. MCInit => Manager!Init
  BY DEF MCInit
<1>2. [MCNext]_allVars => [Manager!Next]_(Manager!vars)
  BY DEF MCNext, BusRuns, ManagerRuns, InboundRuns, OutboundRuns, SplitRuns, allVars, mgrVars,
         Manager!vars, Manager!dispVars, Manager!workVars, Manager!mgrVars, Manager!histVars
<1> QED
  BY <1>1, <1>2, PTL DEF MCSpec, Manager!Spec

LEMMA InboundImplemented == MCSpec => Inbound!Spec
<1>1. MCInit => Inbound!Init
  BY DEF MCInit
<1>2. [MCNext]_allVars => [Inbound!Next]_(Inbound!vars)
  BY DEF MCNext, BusRuns, ManagerRuns, InboundRuns, OutboundRuns, SplitRuns, allVars, inVars,
         Inbound!vars, Inbound!eventVars, Inbound!mediaVars
<1> QED
  BY <1>1, <1>2, PTL DEF MCSpec, Inbound!Spec

LEMMA OutboundImplemented == MCSpec => Outbound!Spec
<1>1. MCInit => Outbound!Init
  BY DEF MCInit
<1>2. [MCNext]_allVars => [Outbound!Next]_(Outbound!vars)
  BY DEF MCNext, BusRuns, ManagerRuns, InboundRuns, OutboundRuns, SplitRuns, allVars, outVars, Outbound!vars
<1> QED
  BY <1>1, <1>2, PTL DEF MCSpec, Outbound!Spec

\* What consumers have taken from a queue and what it still holds is what Publish
\* accepted for it, in that order.
THEOREM NothingLostOnTheBus == MCSpec => []Conservation
BY BusImplemented, BusConserved, PTL

\* A Publish that is called after Close returned is refused, and a message is
\* stranded on the closed bus only by a Publish that was under way at the close.
THEOREM BusAlways == MCSpec => []BusInv
<1>1. TypeOK /\ LatePublishRefused /\ StrandedOnlyByRace => BusInv
  BY DEF BusInv
<1> QED
  BY <1>1, BusImplemented, BusTypeCorrect, BusCloseRaceBounded, PTL

\* The manager under starts, stops, unregistrations and direct sends: what a
\* worker is given it hands over in order and once, nothing is lost before a
\* StopAll, no worker sends after its release, and the holder of the write lock
\* waits for workers that can go on.
THEOREM ManagerAlways == MCSpec => []ManagerInv
<1>1. /\ Manager!TypeOK /\ Manager!AcceptedIsSentInOrder
      /\ Manager!NoWorkerAfterRelease /\ Manager!WorkersNeedNoLock
      => ManagerInv
  BY DEF ManagerInv
<1> QED
  BY <1>1, ManagerImplemented, ManagerTypeCorrect, ManagerSentInOrder, ManagerNoSenderAfterRelease,
     ManagerLockHolderNotStuck, InstancesAssumption, PTL

\* Fifteen handlers, any number of deliveries of an event at once: they publish what
\* is admitted and for the bot, lose none of it, publish an id once, and download
\* nothing for a sender they refuse early.
THEOREM InboundAlways == MCSpec => []InboundInv
<1>1. Inbound!TypeOK /\ Inbound!InboundInv => InboundInv
  BY DEF InboundInv
<1> QED
  BY <1>1, InboundImplemented, InboundAdmits, InstancesAssumption, PTL

\* Eleven senders: a message that is reported as sent is in the chat with each part
\* whose file is left, in order, and a part is repeated only after a failure.
THEOREM OutboundAlways == MCSpec => []OutboundInv
<1>1. Outbound!TypeOK /\ Outbound!OutboundInv => OutboundInv
  BY DEF OutboundInv
<1> QED
  BY <1>1, OutboundImplemented, OutboundHolds, InstancesAssumption, PTL
=============================================================================
