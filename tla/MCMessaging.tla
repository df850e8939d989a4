---------------------------- MODULE MCMessaging -----------------------------
(***************************************************************************)
(* The way of a message between channels and agents: what a channel        *)
(* admits, the bus, the channel manager with its dispatchers and workers,  *)
(* how a long reply is split, and what a channel does with a message of    *)
(* several parts.                                                          *)
(*                                                                         *)
(* The components share no variable (what one takes from another is said   *)
(* in the head of its module), so the steps of one of them, chosen at the  *)
(* start, tell all there is: `part` names it, the others stay where they   *)
(* began.                                                                  *)
(***************************************************************************)
EXTENDS MessageBus, TLC

CONSTANTS
    Channels, QueueSize, MaxMsgs, MaxDeliveries, PartMsgs, MaxParts, maxRetries

AllPlatforms == {"telegram", "discord", "matrix", "feishu", "onebot", "line", "slack", "qq",
                 "dingtalk", "irc", "wecom", "wecom_app", "whatsapp", "whatsapp_native", "maixcam"}

PartSenders == {"telegram", "telegram_text", "discord", "discord_text", "matrix", "slack",
                "line", "feishu", "onebot", "qq", "wecom_app"}

VARIABLES
    part,    \* the component whose steps are taken, chosen at the start
    \* ChannelManager
    channels, workers, ctx, busq, busDone, count, dpc, dmsg, queue, qclosed,
    wpc, wmsg, api, mgrOp, mgrPC, mgrSet, panicked, enq, sent,
    \* ChannelInbound
    inPlatform, allowList, trigger, knowsSelf, event, at, inText, refs, files,
    failed, dedup, context, assumed, published, refused,
    \* ChannelOutbound
    outPlatform, gone, msg, attempt, outPc, outPart, call, batch, result,
    late, shown, failures, giveUps,
    \* MessageSplit
    splitText, runes, start, messages, splitPc

\* Two channels whose queues hold one message.
Manager == INSTANCE ChannelManager WITH
    QueueSize <- QueueSize, MaxMsgs <- MaxMsgs

\* Fifteen platforms, an event that is delivered twice.
Inbound == INSTANCE ChannelInbound WITH
    Platforms <- AllPlatforms, MaxDeliveries <- MaxDeliveries,
    platform <- inPlatform, text <- inText

\* Eleven senders, messages of several parts, retries.
Outbound == INSTANCE ChannelOutbound WITH
    Platforms <- PartSenders, MaxMsgs <- PartMsgs,
    platform <- outPlatform, pc <- outPc, part <- outPart

\* Seven words, blanks and fences; chunks of sixteen runes.
Split == INSTANCE MessageSplit WITH
    Size <- 7, maxLen <- 16, minBuffer <- 3, newlineWindow <- 4,
    spaceWindow <- 3, few <- 2, text <- splitText, pc <- splitPc

ASSUME InstancesAssumption ==
    /\ Manager!ConstantsAssumption
    /\ Inbound!ConstantsAssumption
    /\ Outbound!ConstantsAssumption
    /\ Split!ConstantsAssumption

mgrVars ==
    <<channels, workers, ctx, busq, busDone, count, dpc, dmsg, queue, qclosed,
      wpc, wmsg, api, mgrOp, mgrPC, mgrSet, panicked, enq, sent>>

inVars ==
    <<inPlatform, allowList, trigger, knowsSelf, event, at, inText, refs,
      files, failed, dedup, context, assumed, published, refused>>

outVars ==
    <<outPlatform, gone, msg, attempt, outPc, outPart, call, batch, result,
      late, shown, failures, giveUps>>

splitVars ==
    <<splitText, runes, start, messages, splitPc>>

Parts == {"bus", "manager", "inbound", "outbound", "split"}

allVars == <<part, vars, mgrVars, inVars, outVars, splitVars>>

MCInit ==
    /\ part \in Parts
    /\ Init
    /\ Manager!Init
    /\ part # "manager" => channels = {}   \* the others start in one state
    /\ Inbound!Init
    /\ part # "inbound" => inPlatform = "maixcam" /\ allowList = {} /\ event.call = "none" /\ ~event.words
    /\ Outbound!Init
    /\ part # "outbound" => outPlatform = "qq"
    /\ IF part = "split"
       THEN Split!Init /\ Split!ShortFirstLines
       ELSE splitText = << >> /\ runes = << >> /\ start = 0 /\ messages = {} /\ splitPc = "loop"

BusRuns ==
    part = "bus" /\ Next /\ UNCHANGED <<part, mgrVars, inVars, outVars, splitVars>>

ManagerRuns ==
    part = "manager" /\ Manager!Next /\ UNCHANGED <<part, vars, inVars, outVars, splitVars>>

InboundRuns ==
    part = "inbound" /\ Inbound!Next /\ UNCHANGED <<part, vars, mgrVars, outVars, splitVars>>

OutboundRuns ==
    part = "outbound" /\ Outbound!Next /\ UNCHANGED <<part, vars, mgrVars, inVars, splitVars>>

SplitRuns ==
    part = "split" /\ Split!Next /\ UNCHANGED <<part, vars, mgrVars, inVars, outVars>>

MCNext == BusRuns \/ ManagerRuns \/ InboundRuns \/ OutboundRuns \/ SplitRuns

MCSpec == MCInit /\ [][MCNext]_allVars

\* Members of these sets differ in nothing but their names.
MCSymmetry == Permutations(Publishers) \cup Permutations(Channels)

-----------------------------------------------------------------------------
\* The bus, whoever publishes, takes, cancels and closes when: the types, and
\* what the race of Publish with Close can leave (LatePublishRefused,
\* StrandedOnlyByRace).
BusInv == part = "bus" => TypeOK /\ LatePublishRefused /\ StrandedOnlyByRace

\* The manager, with StartAll, StopAll, UnregisterChannel and direct sends at any
\* time: nothing a live queue accepted is lost or reordered, no worker uses a
\* channel that was released, and who waits under the write lock waits for
\* workers that can go on.
ManagerInv ==
    part = "manager" => /\ Manager!TypeOK
                        /\ Manager!AcceptedIsSentInOrder
                        /\ Manager!NoWorkerAfterRelease
                        /\ Manager!WorkersNeedNoLock

\* The chunks of a long reply respect the limit, hold all of it in order and close
\* the code blocks they open, and every iteration of SplitMessage leaves less to
\* split, as long as no block has a long first line.
SplitRight == [][part = "split" => Split!SplitInv']_splitVars /\ Split!Shortens

\* Fifteen handlers with fifteen orders of their checks admit the same messages,
\* lose none of them and download nothing for a sender they refuse early.
InboundInv == part = "inbound" => Inbound!TypeOK /\ Inbound!InboundInv

\* A message of several parts that is reported as sent is in the chat, with each
\* part whose file is left, in order, and a part is repeated only after a failure.
OutboundInv == part = "outbound" => Outbound!TypeOK /\ Outbound!OutboundInv

=============================================================================
