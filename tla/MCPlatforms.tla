---------------------------- MODULE MCPlatforms -----------------------------
(***************************************************************************)
(* Channels that keep state of their own: typing indicators, what a        *)
(* message leaves behind for its answer, and their connections.            *)
(*                                                                         *)
(* The components share no variable (what one takes from another is said   *)
(* in the head of its module), so the steps of one of them, chosen at the  *)
(* start, tell all there is: `part` names it, the others stay where they   *)
(* began.                                                                  *)
(***************************************************************************)
EXTENDS PicoChannel

CONSTANTS
    NoValue,
    WaLoops, WaMaxRuns, WaMaxBreaks,                        \* WhatsApp
    TypingMessages, TypingRepliers, TypingReplies, Nobody,  \* typing indicators
    ReplyEvents, ReplyChats, ReplySenders, ReplyRetries     \* replies

VARIABLES
    part,    \* the component whose steps are taken, chosen at the start
    \* WhatsAppNative
    run, waCancelled, client, connected, closedStores, breaks, handle,
    reconnecting, stopping, waRunning, qr, waPc, waAt, startPc, waStopPc,
    took, alone, unheard,
    \* TypingLoops
    hpc, swapped, loop, told, current, entry, old, read, held, tyReplies,
    misfired, tyRunning, tyStopPc,
    \* ReplyContext
    chat, kind, replyAt, replyTokens, quoteTokens, lastMsgID, msgSeqCounters,
    seqs, dedup, stale, pendingAcks, published, forgotten, marks, replyPc, to,
    attempt, local, replyReplies, quotes, accepted, posts, shownIn

\* Two starts, three connections that break.
WhatsApp == INSTANCE WhatsAppNative WITH
    Loops <- WaLoops, MaxRuns <- WaMaxRuns, MaxBreaks <- WaMaxBreaks,
    cancelled <- waCancelled, running <- waRunning, pc <- waPc, at <- waAt,
    stopPc <- waStopPc

\* Telegram, QQ and LINE: three messages of a chat, handled at once.
Own == [kind |-> "own", overlap |-> TRUE, replies |-> TypingReplies]

\* Matrix, which handles its events in order.
Session == [kind |-> "session", overlap |-> FALSE, replies |-> TypingReplies + 1]

\* Discord, which handles each message in a goroutine.
ByChat == [kind |-> "byChat", overlap |-> TRUE, replies |-> TypingReplies]

\* The typing indicators of a platform
Typing(P) == INSTANCE TypingLoops WITH
    Inbound <- TypingMessages, Kind <- P.kind, Overlap <- P.overlap,
    Repliers <- TypingRepliers, MaxReplies <- P.replies, None <- Nobody,
    replies <- tyReplies, running <- tyRunning, stopPc <- tyStopPc

Some(S) == CHOOSE x \in S : TRUE

\* Two messages of a chat, two sends that overlap, one retry.
Line == [platform |-> "line", chats |-> {Some(ReplyChats)}, senders |-> ReplySenders,
         retries |-> ReplyRetries, capacity |-> 2, deliveries |-> 1]

\* The same for QQ.
QQ == [Line EXCEPT !.platform = "qq"]

\* Each event delivered twice, to a map that holds one id.
QQAgain == [QQ EXCEPT !.senders = {Some(ReplySenders)}, !.retries = 0, !.capacity = 1, !.deliveries = 2]

\* Two chats; messages may be empty or refused.
Slack == [Line EXCEPT !.platform = "slack", !.chats = ReplyChats]

\* The replies on a platform
Replies(P) == INSTANCE ReplyContext WITH
    Platform <- P.platform, Events <- ReplyEvents, Chats <- P.chats,
    Senders <- P.senders, maxRetries <- P.retries, dedupMaxSize <- P.capacity,
    MaxDeliveries <- P.deliveries, None <- NoValue, at <- replyAt,
    pc <- replyPc, replies <- replyReplies

ASSUME InstancesAssumption ==
    /\ WhatsApp!ConstantsAssumption
    /\ \A P \in {Own, Session, ByChat} : Typing(P)!ConstantsAssumption
    /\ \A P \in {Line, QQ, QQAgain, Slack} : Replies(P)!ConstantsAssumption

waVars ==
    <<run, waCancelled, client, connected, closedStores, breaks, handle,
      reconnecting, stopping, waRunning, qr, waPc, waAt, startPc, waStopPc,
      took, alone, unheard>>

tyVars ==
    <<hpc, swapped, loop, told, current, entry, old, read, held, tyReplies,
      misfired, tyRunning, tyStopPc>>

replyVars ==
    <<chat, kind, replyAt, replyTokens, quoteTokens, lastMsgID,
      msgSeqCounters, seqs, dedup, stale, pendingAcks, published, forgotten,
      marks, replyPc, to, attempt, local, replyReplies, quotes, accepted,
      posts, shownIn>>

Parts == {"pico", "whatsapp", "typingOwn", "typingSession", "typingByChat",
          "line", "qq", "qqAgain", "slack"}

allVars == <<part, vars, waVars, tyVars, replyVars>>

MCInit ==
    /\ part \in Parts
    /\ Init
    /\ WhatsApp!Init
    /\ part # "pico" => \A c \in Conns : session[c] = Some(Sessions)  \* the others start in one state
    /\ \A s \in Senders : send[s].to = Some(Sessions)   \* the sessions differ in their names only
    /\ IF part = "typingSession" THEN Typing(Session)!Init
       ELSE IF part = "typingByChat" THEN Typing(ByChat)!Init ELSE Typing(Own)!Init
    /\ IF part = "qq" THEN Replies(QQ)!Init
       ELSE IF part = "qqAgain" THEN Replies(QQAgain)!Init
       ELSE IF part = "slack" THEN Replies(Slack)!Init ELSE Replies(Line)!Init
    /\ part # "slack" => \A e \in ReplyEvents : kind[e] = "text"

PicoRuns ==
    part = "pico" /\ Next /\ UNCHANGED <<part, waVars, tyVars, replyVars>>

WhatsappRuns ==
    part = "whatsapp" /\ WhatsApp!Next /\ UNCHANGED <<part, vars, tyVars, replyVars>>

TypingOwnRuns ==
    part = "typingOwn" /\ Typing(Own)!Next /\ UNCHANGED <<part, vars, waVars, replyVars>>

TypingSessionRuns ==
    part = "typingSession" /\ Typing(Session)!Next /\ UNCHANGED <<part, vars, waVars, replyVars>>

TypingByChatRuns ==
    part = "typingByChat" /\ Typing(ByChat)!Next /\ UNCHANGED <<part, vars, waVars, replyVars>>

LineRuns ==
    part = "line" /\ Replies(Line)!Next /\ UNCHANGED <<part, vars, waVars, tyVars>>

QqRuns ==
    part = "qq" /\ Replies(QQ)!Next /\ UNCHANGED <<part, vars, waVars, tyVars>>

QqAgainRuns ==
    part = "qqAgain" /\ Replies(QQAgain)!Next /\ UNCHANGED <<part, vars, waVars, tyVars>>

SlackRuns ==
    part = "slack" /\ Replies(Slack)!Next /\ UNCHANGED <<part, vars, waVars, tyVars>>

MCNext ==
    \/ PicoRuns \/ WhatsappRuns \/ TypingOwnRuns \/ TypingSessionRuns \/ TypingByChatRuns
    \/ LineRuns \/ QqRuns \/ QqAgainRuns \/ SlackRuns

MCSpec == MCInit /\ [][MCNext]_allVars

-----------------------------------------------------------------------------
\* A typing indicator that is on will be stopped, by whoever holds its stop
\* function; where a stop function is its loop's own, nobody else's call turns
\* off the indicator of the message that is being answered.
TypingInv ==
    /\ part = "typingOwn" => Typing(Own)!TypeOK /\ Typing(Own)!TypingInv
    /\ part = "typingSession" => Typing(Session)!TypeOK /\ Typing(Session)!TypingInv
    /\ part = "typingByChat" => Typing(ByChat)!TypeOK /\ Typing(ByChat)!TypingInv

\* Sends, retries, handshakes and Stop on the connections of the Pico channel;
\* Start, Stop and disconnects of WhatsApp: one reconnect loop, none after Stop,
\* and one when it is needed.
ConnectionsInv ==
    /\ TypeOK /\ PicoInv
    /\ part = "whatsapp" => /\ WhatsApp!TypeOK /\ WhatsApp!SafeToClose
                            /\ WhatsApp!OneLoop /\ WhatsApp!DisconnectHeard

\* Reply tokens and quotes of LINE, message numbers of QQ and check marks of
\* Slack are used once, by the answer of a message of their chat, although
\* handlers, overlapping sends and retries share them without a common lock.
RepliesInv ==
    /\ part = "line" => Replies(Line)!TypeOK /\ Replies(Line)!ReplyInv
    /\ part = "qq" => Replies(QQ)!TypeOK /\ Replies(QQ)!ReplyInv
    /\ part = "qqAgain" => Replies(QQAgain)!TypeOK /\ Replies(QQAgain)!ReplyInv
    /\ part = "slack" => Replies(Slack)!TypeOK /\ Replies(Slack)!ReplyInv

=============================================================================
