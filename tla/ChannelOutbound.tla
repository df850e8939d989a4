-------------------------- MODULE ChannelOutbound --------------------------
(***************************************************************************)
(* How a message of several parts reaches a chat: the media worker of the  *)
(* manager, its retries (sendMediaWithRetry, pkg/channels/manager.go) and  *)
(* SendMedia of nine platforms; likewise the text that Telegram cuts into  *)
(* pieces when its HTML is too long, and Discord's, whose calls go on in a *)
(* goroutine after the sender has given up waiting.                        *)
(*                                                                         *)
(* A platform is a record: the calls a part takes, whether all parts go in *)
(* one call, what becomes of the part's file ("open": it is opened before  *)
(* the calls; "path": the call reads it; "none": it is not needed), and    *)
(* the errors its calls return.  The cleanup of the media store may take a *)
(* file at any time.                                                       *)
(***************************************************************************)
EXTENDS Naturals, FiniteSets, Sequences

CONSTANTS
    Platforms,
    MaxMsgs,        \* messages in the worker's queue
    MaxParts,       \* parts of a message
    maxRetries

Msgs == 1..MaxMsgs
Parts == 1..MaxParts

Temporary == {"temporary"}
Classified == {"temporary", "permanent"}

TelegramMedia == [calls |-> <<"send">>, whole |-> FALSE, file |-> "open", errors |-> Temporary]
TelegramText == [calls |-> <<"html", "plain">>, whole |-> FALSE, file |-> "none", errors |-> Temporary]
DiscordMedia == [calls |-> <<"send">>, whole |-> TRUE, file |-> "open", errors |-> Temporary]
DiscordText == [calls |-> <<"send">>, whole |-> TRUE, file |-> "none", errors |-> Temporary]
MatrixMedia == [calls |-> <<"upload", "send">>, whole |-> FALSE, file |-> "open", errors |-> Temporary]
SlackMedia == [calls |-> <<"send">>, whole |-> FALSE, file |-> "path", errors |-> Temporary]
LINEMedia == [calls |-> <<"send">>, whole |-> FALSE, file |-> "none", errors |-> Classified]
FeishuMedia == [calls |-> <<"upload", "send">>, whole |-> FALSE, file |-> "open", errors |-> Temporary]
OneBotMedia == [calls |-> <<"send">>, whole |-> TRUE, file |-> "path", errors |-> Temporary]
QQMedia == [calls |-> <<"send">>, whole |-> FALSE, file |-> "none", errors |-> Temporary]
WeComAppMedia == [calls |-> <<"upload", "send">>, whole |-> FALSE, file |-> "path", errors |-> Classified]

Traits == [
    telegram |-> TelegramMedia, telegram_text |-> TelegramText, discord |-> DiscordMedia,
    discord_text |-> DiscordText, matrix |-> MatrixMedia, slack |-> SlackMedia,
    line |-> LINEMedia, feishu |-> FeishuMedia, onebot |-> OneBotMedia, qq |-> QQMedia,
    wecom_app |-> WeComAppMedia ]

ConstantsAssumption ==
    /\ Platforms \subseteq DOMAIN Traits
    /\ {MaxMsgs, MaxParts} \subseteq Nat \ {0} /\ maxRetries \in Nat

VARIABLES
    platform,
    gone,           \* <<message, part>> whose file the cleanup has taken
    msg, attempt,   \* what the worker is at
    pc,             \* "begin", "part", "call" or "stopped"
    part, call,     \* the part, or the last of those in the call, and the index of its call
    batch,          \* parts of the call
    result,         \* [Msgs -> "waiting", "nil" or "failed"]
    late,           \* Discord's calls nobody waits for any more
    shown,          \* history: parts in the order the chat shows them
    failures,       \* history: [Msgs -> calls that returned an error]
    giveUps         \* history: WeCom's parts whose upload failed

vars == <<platform, gone, msg, attempt, pc, part, call, batch, result, late, shown, failures, giveUps>>

Trait == Traits[platform]
Calls == DOMAIN Trait.calls
Shown == [msg : Msgs, attempt : 0..maxRetries, part : Parts, late : BOOLEAN]

TypeOK ==
    /\ platform \in Platforms
    /\ {gone, giveUps} \subseteq SUBSET (Msgs \X Parts)
    /\ msg \in 1..(MaxMsgs + 1) /\ attempt \in 0..maxRetries
    /\ pc \in {"begin", "part", "call", "stopped"}
    /\ part \in 0..MaxParts /\ call \in 1..2 /\ batch \subseteq Parts
    /\ result \in [Msgs -> {"waiting", "nil", "failed"}]
    /\ late \subseteq [msg : Msgs, attempt : 0..maxRetries, batch : SUBSET Parts]
    /\ shown \in Seq(Shown)
    /\ failures \in [Msgs -> Nat]

Init ==
    /\ platform \in Platforms
    /\ gone = {}
    /\ msg = 1 /\ attempt = 0 /\ pc = "begin"
    /\ part = 0 /\ call = 1 /\ batch = {}
    /\ result = [m \in Msgs |-> "waiting"]
    /\ late = {} /\ shown = << >>
    /\ failures = [m \in Msgs |-> 0] /\ giveUps = {}

-----------------------------------------------------------------------------
\* sendMediaWithRetry after an attempt: the next message, or the attempt again.
Return(err) ==
    IF err = "temporary" /\ attempt < maxRetries
    THEN /\ attempt' = attempt + 1 /\ pc' = "begin"
         /\ UNCHANGED <<msg, result>>
    ELSE /\ result' = [result EXCEPT ![msg] = IF err = "nil" THEN "nil" ELSE "failed"]
         /\ msg' = msg + 1 /\ attempt' = 0
         /\ pc' = IF msg = MaxMsgs THEN "stopped" ELSE "begin"

\* SendMedia begins with the first part, also when it is repeated.
\* Mutant: a repeated call goes on after the part that failed.
BeginAfterwards ==
    /\ pc = "begin"
    /\ part' = IF attempt = 0 THEN 0 ELSE part
    /\ batch' = {} /\ call' = 1 /\ pc' = "part"
    /\ UNCHANGED <<platform, gone, msg, attempt, result, late, shown, failures, giveUps>>

Begin ==
    /\ pc = "begin"
    /\ part' = 0 /\ batch' = {} /\ call' = 1 /\ pc' = "part"
    /\ UNCHANGED <<platform, gone, msg, attempt, result, late, shown, failures, giveUps>>

\* The channel is stopped; WeCom has no access token, OneBot no connection.
NotReady(err) ==
    /\ pc = "begin"
    /\ err = "permanent" \/ platform \in {"wecom_app", "onebot"}
    /\ failures' = [failures EXCEPT ![msg] = @ + 1]
    /\ Return(err)
    /\ UNCHANGED <<platform, gone, part, call, batch, late, shown, giveUps>>

\* The next part is resolved, and opened or not; one that is gone is skipped.
Resolved(p) == Trait.file = "none" \/ <<msg, p>> \notin gone

NextPart == part + 1

ResolvePart ==
    /\ pc = "part" /\ part < MaxParts
    /\ part' = NextPart
    /\ batch' = IF Resolved(NextPart) THEN batch \cup {NextPart} ELSE batch
    /\ pc' = IF Resolved(NextPart) /\ ~Trait.whole THEN "call" ELSE "part"
    /\ UNCHANGED <<platform, gone, msg, attempt, call, result, late, shown, failures, giveUps>>

\* After the last part: those that take all in one call begin it, unless
\* nothing is left; the others return nil.
PartsEnd ==
    /\ pc = "part" /\ part = MaxParts
    /\ IF Trait.whole /\ batch # {}
       THEN pc' = "call" /\ UNCHANGED <<msg, attempt, result>>
       ELSE Return("nil")
    /\ UNCHANGED <<platform, gone, part, call, batch, late, shown, failures, giveUps>>

\* The parts of a call appear in order.
InOrderOf(b) ==
    [i \in 1..Cardinality(b) |-> CHOOSE p \in b : Cardinality({q \in b : q <= p}) = i]

Entries(m, a, b, isLate) ==
    [i \in 1..Cardinality(b) |-> [msg |-> m, attempt |-> a, part |-> InOrderOf(b)[i], late |-> isLate]]

\* What a call that is not refused puts into the chat: uploads nothing, OneBot and
\* Slack what is still there to read.
Readable == {p \in batch : platform \in {"onebot", "slack"} => <<msg, p>> \notin gone}

Name == Trait.calls[call]
Shows == IF Name = "upload" THEN << >> ELSE Entries(msg, attempt, Readable, FALSE)

\* The last call of a part, or the piece that was accepted as HTML.
PartDone == call = Len(Trait.calls) \/ Name = "html"

CallSucceeds ==
    /\ pc = "call"
    /\ platform = "slack" \/ (platform = "wecom_app" /\ Name = "upload") => <<msg, part>> \notin gone
    /\ shown' = shown \o Shows
    /\ IF ~PartDone
       THEN call' = call + 1 /\ UNCHANGED <<pc, batch, msg, attempt, result>>
       ELSE /\ call' = 1 /\ batch' = {}
            /\ IF Trait.whole THEN Return("nil")
               ELSE pc' = "part" /\ UNCHANGED <<msg, attempt, result>>
    /\ UNCHANGED <<platform, gone, part, late, failures, giveUps>>

\* A call fails, perhaps after the chat showed what was sent.  A piece that is
\* refused as HTML is sent again as it was written; WeCom goes on without a part
\* it cannot upload, after its caption.
CallFails(err) ==
    /\ pc = "call" /\ err \in Trait.errors
    /\ failures' = [failures EXCEPT ![msg] = @ + 1]
    /\ \/ shown' = shown \o Shows /\ err = "temporary"
       \/ UNCHANGED shown
    /\ CASE Name = "html" ->
              call' = 2 /\ UNCHANGED <<pc, batch, msg, attempt, result, giveUps>>
         [] Name = "upload" /\ platform = "wecom_app" ->
              /\ giveUps' = giveUps \cup {<<msg, part>>}
              /\ pc' = "part" /\ batch' = {} /\ call' = 1
              /\ UNCHANGED <<msg, attempt, result>>
         [] OTHER -> Return(err) /\ UNCHANGED <<call, batch, giveUps>>
    /\ UNCHANGED <<platform, gone, part, late>>

\* Discord: sendTimeout passes, the call goes on.
TimesOut ==
    /\ pc = "call" /\ platform \in {"discord", "discord_text"}
    /\ failures' = [failures EXCEPT ![msg] = @ + 1]
    /\ late' = late \cup {[msg |-> msg, attempt |-> attempt, batch |-> batch]}
    /\ Return("temporary")
    /\ UNCHANGED <<platform, gone, part, call, batch, shown, giveUps>>

LateCallEnds(c) ==
    /\ c \in late
    /\ late' = late \ {c}
    /\ \/ shown' = shown \o Entries(c.msg, c.attempt, c.batch, TRUE)
       \/ UNCHANGED shown
    /\ UNCHANGED <<platform, gone, msg, attempt, pc, part, call, batch, result, failures, giveUps>>

\* The cleanup, which matters to the message that is sent now, or later.
CleanExpired(m, p) ==
    /\ Trait.file # "none" /\ pc # "stopped"
    /\ m >= msg /\ <<m, p>> \notin gone
    /\ gone' = gone \cup {<<m, p>>}
    /\ UNCHANGED <<platform, msg, attempt, pc, part, call, batch, result, late, shown, failures, giveUps>>

Next ==
    \/ Begin \/ ResolvePart \/ PartsEnd \/ CallSucceeds \/ TimesOut
    \/ \E err \in Classified : CallFails(err) \/ NotReady(err)
    \/ \E c \in late : LateCallEnds(c)
    \/ \E m \in Msgs, p \in Parts : CleanExpired(m, p)

Spec == Init /\ [][Next]_vars

-----------------------------------------------------------------------------
Copies(m, p) == Cardinality({i \in DOMAIN shown : shown[i].msg = m /\ shown[i].part = p})

\* A message that is reported as sent is in the chat with every part whose file
\* is still there: an attempt that failed in the middle is repeated as a whole,
\* a part is skipped only if its file is gone.  WeCom gives up parts it could
\* not upload.
SentIsShown ==
    \A m \in Msgs, p \in Parts :
        result[m] = "nil" /\ <<m, p>> \notin gone \cup giveUps => Copies(m, p) > 0

\* A part is repeated only because a call failed.
RepeatedForCause == \A m \in Msgs, p \in Parts : Copies(m, p) <= 1 + failures[m]

\* What is not shown late is shown in order: of messages, of attempts, of parts.
Before(x, y) ==
    \/ x.msg < y.msg
    \/ x.msg = y.msg /\ x.attempt < y.attempt
    \/ x.msg = y.msg /\ x.attempt = y.attempt /\ x.part <= y.part

InOrder ==
    \A i, j \in DOMAIN shown :
        i < j /\ ~shown[i].late /\ ~shown[j].late => Before(shown[i], shown[j])

OutboundInv == SentIsShown /\ RepeatedForCause /\ InOrder

\* Do not hold: a part is shown once; Discord's parts are in order; a message
\* that is reported as failed has not been shown.
ShownOnce == \A m \in Msgs, p \in Parts : Copies(m, p) <= 1
AllInOrder == \A i, j \in DOMAIN shown : i < j => Before(shown[i], shown[j])
FailedIsNotShown == \A m \in Msgs, p \in Parts : result[m] = "failed" => Copies(m, p) = 0
=============================================================================
