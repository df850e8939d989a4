----------------------------- MODULE MCChannels -----------------------------
(***************************************************************************)
(* The channels' side: the delivery of replies into one chat, WeCom's      *)
(* deduplication and its AI bot, and the connection of OneBot.             *)
(*                                                                         *)
(* The components share no variable (what one takes from another is said   *)
(* in the head of its module), so the steps of one of them, chosen at the  *)
(* start, tell all there is: `part` names it, the others stay where they   *)
(* began.                                                                  *)
(***************************************************************************)
EXTENDS MessageDeduplicator

CONSTANTS
    Reactions, Loop, MaxConns, MaxEcho, Chats, MaxTasks, MaxParts,
    ReplyCounts, IndicatorMessages, IndicatorSenders, ChunkMessages,
    ChunkSenders, ChunksPerReply, maxRetries, MaxReplies

AChat == CHOOSE c \in Chats : TRUE

VARIABLES
    part,    \* the component whose steps are taken, chosen at the start
    \* OneBot
    link, conn, loop, listener, obCanceled, stop, call, sock, echo, pending,
    ch, echoCounter, wire,
    \* WeComAIBot
    asked, chat, streamTasks, chatTasks, answerCh, StreamClosed, Finished,
    aiCanceled, late, grace, hour, poll, outbox, heard, current, left, pc,
    task, streamClosed, posted, aiShown, running,
    \* MessageDelivery
    hpc, reg, active, old, jan, cancelled, spc, reply, chunk, attempt,
    chatCount, chatShown, refused, misfired

\* Three connections, a reaction beside fetchSelfID.
Bot == INSTANCE OneBot WITH
    Reactions <- Reactions, Loop <- Loop, MaxConns <- MaxConns,
    MaxEcho <- MaxEcho, canceled <- obCanceled

\* Two chats, questions with none, one or two replies.
AIBot == INSTANCE WeComAIBot WITH
    Chats <- Chats, MaxTasks <- MaxTasks, MaxParts <- MaxParts,
    Parts <- ReplyCounts, canceled <- aiCanceled, shown <- aiShown

\* Two inbound messages, their replies and the janitor.
Indicators == INSTANCE MessageDelivery WITH
    Inbound <- IndicatorMessages, Senders <- IndicatorSenders, Chunks <- 1,
    maxRetries <- 0, MaxReplies <- MaxReplies, count <- chatCount,
    shown <- chatShown

\* Two senders of two chunks each, one retry, one placeholder.
Chunks == INSTANCE MessageDelivery WITH
    Inbound <- ChunkMessages, Senders <- ChunkSenders,
    Chunks <- ChunksPerReply, maxRetries <- maxRetries,
    MaxReplies <- MaxReplies, count <- chatCount, shown <- chatShown

ASSUME InstancesAssumption ==
    /\ Bot!ConstantsAssumption
    /\ AIBot!ConstantsAssumption
    /\ Indicators!ConstantsAssumption
    /\ Chunks!ConstantsAssumption

obVars ==
    <<link, conn, loop, listener, obCanceled, stop, call, sock, echo, pending,
      ch, echoCounter, wire>>

aiVars ==
    <<asked, chat, streamTasks, chatTasks, answerCh, StreamClosed, Finished,
      aiCanceled, late, grace, hour, poll, outbox, heard, current, left, pc,
      task, streamClosed, posted, aiShown, running>>

chatVars ==
    <<hpc, reg, active, old, jan, cancelled, spc, reply, chunk, attempt,
      chatCount, chatShown, refused, misfired>>

Parts == {"dedup", "onebot", "aibot", "indicators", "chunks"}

allVars == <<part, vars, obVars, aiVars, chatVars>>

MCInit ==
    /\ part \in Parts
    /\ Init
    /\ Bot!Init
    /\ AIBot!Init
    /\ part # "aibot" => \A t \in DOMAIN chat : chat[t] = AChat   \* the others start in one state
    /\ IF part = "chunks" THEN Chunks!Init ELSE Indicators!Init

DedupRuns ==
    part = "dedup" /\ Next /\ UNCHANGED <<part, obVars, aiVars, chatVars>>

OnebotRuns ==
    part = "onebot" /\ Bot!Next /\ UNCHANGED <<part, vars, aiVars, chatVars>>

AibotRuns ==
    part = "aibot" /\ AIBot!Next /\ UNCHANGED <<part, vars, obVars, chatVars>>

IndicatorsRuns ==
    part = "indicators" /\ Indicators!Next /\ UNCHANGED <<part, vars, obVars, aiVars>>

ChunksRuns ==
    part = "chunks" /\ Chunks!Next /\ UNCHANGED <<part, vars, obVars, aiVars>>

MCNext == DedupRuns \/ OnebotRuns \/ AibotRuns \/ IndicatorsRuns \/ ChunksRuns

MCSpec == MCInit /\ [][MCNext]_allVars

-----------------------------------------------------------------------------
\* Handlers, senders and the janitor on maps without a common lock: a typing
\* indicator that is shown can be stopped.  Retries, permanent errors and edited
\* placeholders of two senders: the chunks of a reply appear in order and once,
\* and a refused one never.
DeliveryInv ==
    /\ part = "indicators" => Indicators!TypeOK /\ Indicators!TypingCanBeStopped
    /\ part = "chunks" => /\ Chunks!TypeOK
                          /\ Chunks!ChunksInOrder
                          /\ Chunks!RefusedIsFinal

\* The map of the deduplicator is its ring (MapIsRing).
DedupInv == part = "dedup" => TypeOK /\ MapIsRing

\* The connection in use has a reader, no other is open, and only requests that
\* wait are pending, through breaks, redials, late answers and Stop.
OneBotInv ==
    part = "onebot" => /\ Bot!TypeOK
                       /\ Bot!ConnectionIsRead
                       /\ Bot!OneConnection
                       /\ Bot!PendingWait

\* When Stop returns, every connection that was dialled is closed.
StopLeavesNoneOpen == Bot!StopLeavesNoneOpen

\* Polls, the worker and the cleanup agree on the tasks, and a response_url is
\* used once, although deadlines race with answers.
AIBotInv ==
    part = "aibot" => /\ AIBot!TypeOK
                      /\ AIBot!MapsAgree
                      /\ AIBot!ResponseURLUsedOnce

=============================================================================
