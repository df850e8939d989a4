--------------------------- MODULE ChannelInbound ---------------------------
(***************************************************************************)
(* What the channels do with a message of their platform before the agent  *)
(* sees it: who is admitted (identity.go, base.go), whether a group's      *)
(* message is for the bot, its media, duplicates, what a reply will need,  *)
(* and HandleMessage.  Each handler takes these steps in an order of its   *)
(* own: Steps[p] for platform p.  Deliveries of the same event may be      *)
(* under way at once; a channel that handles them one after the other has  *)
(* fewer behaviours.  One event is enough: handlers of different events    *)
(* only meet in maps by chat (ReplyContext) and by id.                     *)
(*                                                                         *)
(* A text is the set of what is in it: the call of the bot (a mention or a *)
(* prefix), words, and the marker of an attachment.                        *)
(***************************************************************************)
EXTENDS Naturals, FiniteSets

CONSTANTS
    Platforms,
    MaxDeliveries   \* bound on deliveries of the event

Deliveries == 1..MaxDeliveries

\* Orders of the handlers; "publish" is HandleMessage.
TelegramSteps == <<"allow", "media", "fill", "trigger", "publish">>
DiscordSteps == <<"allow", "trigger", "media", "empty", "publish">>
MatrixSteps == <<"media", "empty", "allow", "trigger", "empty", "publish">>
FeishuSteps == <<"allow", "media", "fill", "trigger", "publish">>
OneBotSteps == <<"media", "dedup", "empty", "trigger", "context", "allow", "publish">>
LINESteps == <<"context", "media", "empty", "trigger", "allow", "publish">>
\* Mutant: an attachment alone is taken for an empty message.
SlackStepsEmptyFirst == <<"allow", "context", "trigger", "empty", "media", "publish">>
SlackSteps == <<"allow", "context", "trigger", "media", "empty", "publish">>
QQSteps == <<"dedup", "empty", "trigger", "context", "allow", "publish">>
DingTalkSteps == <<"empty", "context", "trigger", "allow", "publish">>
IRCSteps == <<"allow", "trigger", "empty", "publish">>
WeComSteps == <<"dedup", "trigger", "allow", "publish">>
WeComAppSteps == <<"dedup", "publish">>
WhatsAppSteps == <<"allow", "publish">>
WhatsAppNativeSteps == <<"empty", "allow", "publish">>
MaixCamSteps == <<"allow", "publish">>

Steps == [
    telegram |-> TelegramSteps, discord |-> DiscordSteps, matrix |-> MatrixSteps,
    feishu |-> FeishuSteps, onebot |-> OneBotSteps, line |-> LINESteps, slack |-> SlackSteps,
    qq |-> QQSteps, dingtalk |-> DingTalkSteps, irc |-> IRCSteps, wecom |-> WeComSteps,
    wecom_app |-> WeComAppSteps, whatsapp |-> WhatsAppSteps,
    whatsapp_native |-> WhatsAppNativeSteps, maixcam |-> MaixCamSteps ]

ConstantsAssumption == MaxDeliveries \in Nat \ {0} /\ Platforms \subseteq DOMAIN Steps

HasStep(p, step) == \E i \in DOMAIN Steps[p] : Steps[p][i] = step

\* How a message may call the bot: an entity that names its id, its name in
\* the text, a mention of everyone, a command, the configured prefix.
Calls == {"none", "entity", "name", "all", "command", "prefix"}

\* What each isBotMentioned knows for a call.  The others pass FALSE, but QQ,
\* which is told of a group's messages only when they mention the bot.
TelegramMentions == {"entity", "command"}
DiscordMentions == {"entity"}
MatrixMentions == {"entity", "name"}
FeishuMentions == {"entity"}
LINEMentions == {"entity", "name", "all"}
OneBotMentions == {"entity", "all"}
IRCMentions == {"name"}

Mentions == [
    telegram |-> TelegramMentions, discord |-> DiscordMentions, matrix |-> MatrixMentions,
    feishu |-> FeishuMentions, line |-> LINEMentions, onebot |-> OneBotMentions,
    irc |-> IRCMentions, qq |-> {"entity"} ]

\* Platforms whose channel starts although it could not ask for its own id.
AsksForItself == {"feishu", "line"}

\* Platforms whose user ids have a colon; those that give a user name, and
\* those for which it is the id.
ColonIDs == {"matrix"}
Named == {"telegram", "discord", "matrix", "irc"}
NameIsID == {"matrix", "irc"}

Users == {"u1", "u2"}
Forms == {"id", "@name", "id|name", "platform:id"}
Entries == [form : Forms, user : Users]

VARIABLES
    platform,       \* the channel that is looked at
    allowList,      \* entries of allow_from
    trigger,        \* group_trigger: "all" messages, or those with a "mention" or a "prefix"
    knowsSelf,      \* whether the bot's own id is known
    event,          \* the event that is delivered, sent by u1
    at,             \* [Deliveries -> the step the handler is at, 0 before it]
    text,           \* [Deliveries -> what is in content]
    refs,           \* deliveries whose attachment is in the media store
    files,          \* attachments on disk, by the delivery that names the path
    failed,         \* deliveries whose download failed
    dedup,          \* whether the id of the event is remembered
    context,        \* whether the chat remembers what a reply needs
    assumed,        \* deliveries taken for direct because Matrix did not answer
    published,      \* deliveries that went to the bus
    refused         \* deliveries whose publish failed: the bus is closed

eventVars == <<platform, allowList, trigger, knowsSelf, event>>
mediaVars == <<refs, files, failed>>
vars == <<eventVars, at, text, mediaVars, dedup, context, assumed, published, refused>>

Event == [group : BOOLEAN, call : Calls, words : BOOLEAN, media : BOOLEAN]
Done == 9

TypeOK ==
    /\ platform \in Platforms /\ allowList \subseteq Entries
    /\ trigger \in {"all", "mention", "prefix"} /\ knowsSelf \in BOOLEAN /\ event \in Event
    /\ at \in [Deliveries -> 0..Done]
    /\ text \in [Deliveries -> SUBSET {"call", "words", "marker"}]
    /\ {refs, files, failed, assumed, published, refused} \subseteq SUBSET Deliveries
    /\ dedup \in BOOLEAN /\ context \in BOOLEAN

\* Events a platform can deliver, under settings that it has.
Init ==
    /\ platform \in Platforms
    /\ allowList \in {{}} \cup {{e} : e \in Entries}
    /\ trigger \in {"all", "mention", "prefix"} /\ knowsSelf \in BOOLEAN /\ event \in Event
    /\ ~knowsSelf => platform \in AsksForItself
    /\ trigger # "all" => event.group /\ HasStep(platform, "trigger")
    /\ event.media => HasStep(platform, "media")
    /\ (event.call = "command" => platform = "telegram") /\ (event.call = "prefix" => trigger = "prefix")
    /\ platform = "line" /\ event.media => event.call = "none" /\ ~event.words
    /\ platform = "qq" /\ event.group => event.call = "entity"
    /\ platform \in {"wecom_app", "maixcam"} => ~event.group
    /\ at = [d \in Deliveries |-> 0]
    /\ text = [d \in Deliveries |-> {}]
    /\ refs = {} /\ files = {} /\ failed = {}
    /\ dedup = FALSE /\ context = FALSE /\ assumed = {}
    /\ published = {} /\ refused = {}

-----------------------------------------------------------------------------
\* MatchAllowed for an event of u1.  An entry with a colon is split there, and
\* is canonical unless what comes before is a number.
\* Mutant: an entry matches if the user part does, whatever the platform.
MatchAllowedByName(entry) == entry.user = "u1" \/ entry.form = "@name"

MatchAllowed(entry) ==
    /\ entry.user = "u1"
    /\ CASE entry.form = "platform:id" -> TRUE
         [] entry.form \in {"id", "id|name"} -> platform \notin ColonIDs
         [] entry.form = "@name" ->
              platform \in Named /\ ~(platform \in ColonIDs /\ platform \in NameIsID)

IsAllowedSender == allowList = {} \/ \E entry \in allowList : MatchAllowed(entry)

isBotMentioned ==
    /\ platform \in DOMAIN Mentions /\ event.call \in Mentions[platform]
    /\ knowsSelf \/ event.call = "all"

\* Prefixes only count without mention_only; "all" is the permissive default.
ShouldRespondInGroup == isBotMentioned \/ trigger = "all" \/ event.call = "prefix"

-----------------------------------------------------------------------------
Step(d) == IF at[d] \in DOMAIN Steps[platform] THEN Steps[platform][at[d]] ELSE "none"

\* The handler goes on, or returns.
Advance(d) == at' = [at EXCEPT ![d] = @ + 1]
Return(d) == at' = [at EXCEPT ![d] = Done]
Check(d, ok) == IF ok THEN Advance(d) ELSE Return(d)

Deliver(d) ==
    /\ at[d] = 0
    /\ d > 1 => at[d - 1] # 0
    /\ at' = [at EXCEPT ![d] = 1]
    /\ text' = [text EXCEPT ![d] =
                  {part \in {"call", "words"} :
                     IF part = "words" THEN event.words
                     ELSE event.call # "none" /\ ~(platform = "line" /\ event.group /\ isBotMentioned)}]
    /\ UNCHANGED <<eventVars, assumed, mediaVars, dedup, context, published, refused>>

Allow(d) ==
    /\ Step(d) = "allow"
    /\ Check(d, IsAllowedSender)
    /\ UNCHANGED <<eventVars, assumed, text, mediaVars, dedup, context, published, refused>>

\* Matrix asks whether the room is a group; without an answer it is direct.
\* The call is cut out, in Discord and Matrix also of a direct message.
Trigger(d) ==
    /\ Step(d) = "trigger"
    /\ \E group \in {event.group} \cup (IF platform = "matrix" THEN {FALSE} ELSE {}) :
          /\ assumed' = IF group # event.group THEN assumed \cup {d} ELSE assumed
          /\ Check(d, group => ShouldRespondInGroup)
          /\ text' = [text EXCEPT ![d] =
                        IF group \/ platform \in {"discord", "matrix"} THEN @ \ {"call"} ELSE @]
    /\ UNCHANGED <<eventVars, mediaVars, dedup, context, published, refused>>

Empty(d) ==
    /\ Step(d) = "empty"
    /\ Check(d, text[d] # {})
    /\ UNCHANGED <<eventVars, assumed, text, mediaVars, dedup, context, published, refused>>

\* "[empty message]"
Fill(d) ==
    /\ Step(d) = "fill"
    /\ text' = [text EXCEPT ![d] = IF @ = {} THEN {"marker"} ELSE @]
    /\ Advance(d)
    /\ UNCHANGED <<eventVars, assumed, mediaVars, dedup, context, published, refused>>

\* isDuplicate and MarkMessageProcessed: one step under their lock.
Dedup(d) ==
    /\ Step(d) = "dedup"
    /\ Check(d, ~dedup)
    /\ dedup' = TRUE
    /\ UNCHANGED <<eventVars, assumed, text, mediaVars, context, published, refused>>

Context(d) ==
    /\ Step(d) = "context"
    /\ context' = TRUE
    /\ Advance(d)
    /\ UNCHANGED <<eventVars, assumed, text, mediaVars, dedup, published, refused>>

\* Feishu names the file for the message, the others anew for each download.
Path(d) == IF platform = "feishu" THEN 1 ELSE d

\* What cannot be downloaded is mentioned in the text by two of them.
TellsOfFailure == {"discord", "matrix"}

\* The attachment is downloaded and put in the store, with a marker in the text.
Media(d) ==
    /\ Step(d) = "media"
    /\ Advance(d)
    /\ IF ~event.media THEN UNCHANGED <<text, mediaVars>>
       ELSE \/ /\ files' = files \cup {Path(d)} /\ refs' = refs \cup {d}
               /\ text' = [text EXCEPT ![d] = @ \cup {"marker"}]
               /\ UNCHANGED failed
            \/ /\ failed' = failed \cup {d}
               /\ text' = [text EXCEPT ![d] =
                             IF platform \in TellsOfFailure THEN @ \cup {"marker"} ELSE @]
               /\ UNCHANGED <<refs, files>>
    /\ UNCHANGED <<eventVars, assumed, dedup, context, published, refused>>

\* HandleMessage looks at the allowlist again; the bus may be closed.
HandleMessage(d) ==
    /\ Step(d) = "publish"
    /\ Return(d)
    /\ \/ IsAllowedSender /\ published' = published \cup {d} /\ UNCHANGED refused
       \/ IsAllowedSender /\ refused' = refused \cup {d} /\ UNCHANGED published
       \/ ~IsAllowedSender /\ UNCHANGED <<published, refused>>
    /\ UNCHANGED <<eventVars, assumed, text, mediaVars, dedup, context>>

\* The store's cleanup, of an attachment that was there for its time.
CleanExpired(d) ==
    /\ d \in refs /\ at[d] = Done
    /\ refs' = refs \ {d} /\ files' = files \ {Path(d)}
    /\ UNCHANGED <<eventVars, assumed, at, text, failed, dedup, context, published, refused>>

Handle(d) ==
    \/ Deliver(d) \/ Allow(d) \/ Trigger(d) \/ Empty(d) \/ Fill(d) \/ Dedup(d) \/ Context(d)
    \/ Media(d) \/ HandleMessage(d)

Next == \E d \in Deliveries : Handle(d) \/ CleanExpired(d)

Spec == Init /\ [][Next]_vars

-----------------------------------------------------------------------------
\* What the table of formats above MatchAllowed says an entry means.
Means(entry) == entry.user = "u1" /\ (entry.form = "@name" => platform \in Named)

Admitted == allowList = {} \/ \E entry \in allowList : Means(entry)
\* The message is direct, or calls the bot, or all of a group's are for it.
ForBot == event.group => event.call # "none" \/ trigger = "all"

\* The platform says that the message is for the bot.
SaidToBe ==
    event.group /\ trigger # "all" =>
        \/ event.call = "prefix"
        \/ event.call = "entity" /\ knowsSelf /\ platform \in DOMAIN Mentions \ {"irc"}

\* Whatever the order of its steps, a handler gives the agent messages of
\* admitted users only, in groups only those for the bot, unless Matrix did not
\* say that the room is a group.
OnlyAdmitted == published # {} => Admitted /\ (ForBot \/ published \subseteq assumed)

\* And it drops none that is for the bot, except a duplicate, one without
\* words of which the attachment could not be downloaded, and one that found the
\* bus closed; where ids have colons only canonical entries count.
NothingLost ==
    \A d \in Deliveries :
        /\ at[d] = Done /\ d \notin published \cup refused
        /\ Admitted /\ platform \notin ColonIDs /\ SaidToBe
        => \/ HasStep(platform, "dedup") /\ \E first \in Deliveries \ {d} : at[first] > 1
           \/ text[d] = {} /\ ~event.words /\ (event.media => d \in failed)

\* An id that is remembered is published once.
OncePerID == HasStep(platform, "dedup") => Cardinality(published) <= 1

\* Nothing is downloaded for a refused sender by the handlers that look at the
\* allowlist early for that.
RefusedDownloadsNothing ==
    platform \in {"telegram", "discord", "feishu", "slack"} /\ ~IsAllowedSender => files = {}

\* A reply to a message the agent has finds what the chat must remember.
Answerable == HasStep(platform, "context") /\ published # {} => context

\* A reference in the store has its file, except where deliveries share it.
RefHasFile == platform # "feishu" => \A d \in refs : Path(d) \in files

InboundInv ==
    OnlyAdmitted /\ NothingLost /\ OncePerID /\ RefusedDownloadsNothing /\ Answerable /\ RefHasFile

\* A user whose id is in allow_from is admitted: the README of the Matrix
\* channel calls it "User whitelist (Matrix user IDs)".
ListedIsAllowed == [form |-> "id", user |-> "u1"] \in allowList => IsAllowedSender

\* Does not hold for Feishu: a second delivery's file goes with the first's.
EveryRefHasFile == \A d \in refs : Path(d) \in files
=============================================================================
