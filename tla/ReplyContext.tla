---------------------------- MODULE ReplyContext ----------------------------
(***************************************************************************)
(* What a reply needs of the message it answers, on the platforms where a  *)
(* channel remembers it by chat: reply and quote tokens (LINE,             *)
(* pkg/channels/line/line.go), the message id and the numbers of the       *)
(* replies to it (QQ, pkg/channels/qq/qq.go), the message that gets a      *)
(* check mark (Slack, pkg/channels/slack/slack.go).  Handlers store it     *)
(* before they filter; sends, with the retries of the manager, load it.    *)
(*                                                                         *)
(* An event is "ignored" when its text is empty or the group trigger does  *)
(* not respond to it, "refused" when the allowlist does not have its       *)
(* sender.  Downloads, the indicators and the worker's queue are not here. *)
(***************************************************************************)
EXTENDS Naturals, FiniteSets, Sequences

CONSTANTS
    Platform,       \* "line", "qq" or "slack"
    Events, Chats,
    Senders,        \* sends under way: the worker's and direct ones
    maxRetries,
    dedupMaxSize,   \* entries of QQ's map of message ids
    MaxDeliveries,  \* how often the platform may deliver one event
    None

Handlers == Events \X (1..MaxDeliveries)
Kinds == {"text", "ignored", "refused"}

ConstantsAssumption ==
    /\ Platform \in {"line", "qq", "slack"}
    /\ maxRetries \in Nat /\ {dedupMaxSize, MaxDeliveries} \subseteq Nat \ {0}
    /\ IsFiniteSet(Events) /\ IsFiniteSet(Senders)
    /\ None \notin Events \cup Handlers

VARIABLES
    chat, kind,     \* [Events -> ...], set once
    at,             \* [Handlers -> where the handler stands]
    replyTokens, quoteTokens,   \* LINE: [Chats -> the event whose token is stored, or None]
    lastMsgID, msgSeqCounters,  \* QQ: the event, and the handler that made the counter
    seqs,           \* QQ: [Handlers -> value of the counter it made]
    dedup, stale,   \* QQ: message ids by age, and those older than dedupTTL
    pendingAcks,    \* Slack
    published,      \* [Events -> how often it went to the bus]
    forgotten,      \* history: [Events -> how often its id left the map, or grew stale]
    marks,          \* Slack: check marks, [Events -> Nat]
    pc, to, attempt, local,     \* [Senders -> ...]
    replies, quotes,    \* history: [Events -> calls with its reply token, and attempts with its quote]
    accepted,       \* events whose reply token LINE has taken
    posts,          \* history: QQ's posts that name a message, each with its sender and attempt
    shownIn         \* history: chats in which a message was shown

lineVars == <<replyTokens, quoteTokens>>
qqVars == <<lastMsgID, msgSeqCounters, seqs>>
dedupVars == <<dedup, stale, forgotten>>
slackVars == <<pendingAcks, marks>>
inVars == <<chat, kind, at, published>>
seenVars == <<replies, quotes, accepted, posts, shownIn>>
sendVars == <<pc, to, attempt, local, seenVars>>
vars == <<inVars, lineVars, qqVars, dedupVars, slackVars, sendVars>>

\* What a Send has loaded: a token or an id, and QQ's counter and number.
Nothing == [id |-> None, ctr |-> None, seq |-> 0]

TypeOK ==
    /\ chat \in [Events -> Chats] /\ kind \in [Events -> Kinds]
    /\ at \in [Handlers -> {"none", "new", "quote", "context", "counter", "filter", "done"}]
    /\ {replyTokens, quoteTokens, lastMsgID, pendingAcks} \subseteq [Chats -> Events \cup {None}]
    /\ msgSeqCounters \in [Chats -> Handlers \cup {None}] /\ seqs \in [Handlers -> Nat]
    /\ dedup \in Seq(Events) /\ Len(dedup) <= dedupMaxSize /\ stale \subseteq Events
    /\ {published, forgotten, marks, replies, quotes} \subseteq [Events -> Nat]
    /\ pc \in [Senders -> {"send", "reply", "push", "counter", "post", "mark", "done", "failed"}]
    /\ to \in [Senders -> Chats] /\ attempt \in [Senders -> 0..maxRetries]
    /\ local \in [Senders -> [id : Events \cup {None}, ctr : Handlers \cup {None}, seq : Nat]]
    /\ accepted \subseteq Events /\ shownIn \subseteq Chats
    /\ posts \subseteq [by : Senders, try : 0..maxRetries, id : Events, ctr : Handlers \cup {None}, seq : Nat]

Init ==
    /\ chat \in [Events -> Chats] /\ kind \in [Events -> Kinds]
    /\ at = [h \in Handlers |-> "none"]
    /\ replyTokens = [c \in Chats |-> None] /\ quoteTokens = [c \in Chats |-> None]
    /\ lastMsgID = [c \in Chats |-> None] /\ msgSeqCounters = [c \in Chats |-> None]
    /\ seqs = [h \in Handlers |-> 0]
    /\ dedup = << >> /\ stale = {}
    /\ pendingAcks = [c \in Chats |-> None]
    /\ published = [e \in Events |-> 0] /\ forgotten = [e \in Events |-> 0]
    /\ marks = [e \in Events |-> 0]
    /\ pc = [s \in Senders |-> "send"] /\ to \in [Senders -> Chats]
    /\ attempt = [s \in Senders |-> 0] /\ local = [s \in Senders |-> Nothing]
    /\ replies = [e \in Events |-> 0] /\ quotes = [e \in Events |-> 0]
    /\ accepted = {} /\ posts = {} /\ shownIn = {}

-----------------------------------------------------------------------------
\* Handlers.  LINE and QQ start a goroutine for each delivery, Slack's event
\* loop handles one after the other.

Goto(h, place) == at' = [at EXCEPT ![h] = place]

Deliver(h) ==
    /\ at[h] = "none"
    /\ h[2] > 1 => at[<<h[1], h[2] - 1>>] # "none"
    /\ Platform = "slack" => \A g \in Handlers : at[g] \in {"none", "done"}
    /\ Goto(h, "new")
    /\ UNCHANGED <<chat, kind, published, lineVars, qqVars, dedupVars, slackVars, sendVars>>

\* LINE stores both tokens before it looks at the text or the sender.
LineToken(h) ==
    /\ Platform = "line" /\ at[h] = "new"
    /\ replyTokens' = [replyTokens EXCEPT ![chat[h[1]]] = h[1]]
    /\ Goto(h, "quote")
    /\ UNCHANGED <<chat, kind, published, quoteTokens, qqVars, dedupVars, slackVars, sendVars>>

LineQuote(h) ==
    /\ at[h] = "quote"
    /\ quoteTokens' = [quoteTokens EXCEPT ![chat[h[1]]] = h[1]]
    /\ Goto(h, "filter")
    /\ UNCHANGED <<chat, kind, published, replyTokens, qqVars, dedupVars, slackVars, sendVars>>

Count(f, E) == [e \in Events |-> f[e] + (IF e \in E THEN 1 ELSE 0)]

\* isDuplicate: a young id is refused; at capacity the oldest one goes.
Ids(s) == {s[i] : i \in DOMAIN s}
Duplicate(e) == e \in Ids(dedup) \ stale
Without(ids, S) ==
    LET kept[i \in 0..Len(ids)] ==
            IF i = 0 THEN << >> ELSE IF ids[i] \in S THEN kept[i - 1] ELSE Append(kept[i - 1], ids[i])
    IN  kept[Len(ids)]

\* Mutant: at capacity the new id is not stored
RememberUnlessFull(e) ==
    /\ dedup' = IF Len(dedup) >= dedupMaxSize THEN dedup ELSE Append(Without(dedup, {e}), e)
    /\ stale' = stale \ {e}
    /\ UNCHANGED forgotten

Remember(e) ==
    LET full == Len(dedup) >= dedupMaxSize
        kept == IF full THEN Tail(dedup) ELSE dedup
    IN  /\ dedup' = Append(Without(kept, {e}), e)
        /\ stale' = (IF full THEN stale \ {Head(dedup)} ELSE stale) \ {e}
        /\ forgotten' = Count(forgotten, IF full /\ Head(dedup) \notin stale THEN {Head(dedup)} ELSE {})

QQDedup(h) ==
    /\ Platform = "qq" /\ at[h] = "new"
    /\ IF Duplicate(h[1])
       THEN Goto(h, "done") /\ UNCHANGED dedupVars
       ELSE Remember(h[1]) /\ Goto(h, IF kind[h[1]] = "ignored" THEN "done" ELSE "context")
    /\ UNCHANGED <<chat, kind, published, lineVars, qqVars, slackVars, sendVars>>

\* The id and a new counter, in two stores.
QQContext(h) ==
    /\ at[h] = "context"
    /\ lastMsgID' = [lastMsgID EXCEPT ![chat[h[1]]] = h[1]]
    /\ Goto(h, "counter")
    /\ UNCHANGED <<chat, kind, published, lineVars, msgSeqCounters, seqs, dedupVars, slackVars, sendVars>>

QQCounter(h) ==
    /\ at[h] = "counter"
    /\ msgSeqCounters' = [msgSeqCounters EXCEPT ![chat[h[1]]] = h]
    /\ Goto(h, "filter")
    /\ UNCHANGED <<chat, kind, published, lineVars, lastMsgID, seqs, dedupVars, slackVars, sendVars>>

\* dedupTTL passes (for ids that are asked for again: others do not tell), and
\* the janitor removes what is older.
GrowStale(e) ==
    /\ Duplicate(e)
    /\ \E h \in Handlers : h[1] = e /\ at[h] = "none"
    /\ \A i, j \in DOMAIN dedup : dedup[j] = e /\ i < j => dedup[i] \in stale
    /\ stale' = stale \cup {e}
    /\ forgotten' = Count(forgotten, {e})
    /\ UNCHANGED <<dedup, inVars, lineVars, qqVars, slackVars, sendVars>>

dedupJanitor ==
    /\ stale # {}
    /\ dedup' = Without(dedup, stale)
    /\ stale' = {}
    /\ UNCHANGED <<forgotten, inVars, lineVars, qqVars, slackVars, sendVars>>

\* Messages and mentions: the allowlist, then the ack, then trigger and text.
SlackMessage(h) ==
    /\ Platform = "slack" /\ at[h] = "new"
    /\ IF kind[h[1]] = "refused"
       THEN UNCHANGED pendingAcks /\ Goto(h, "done")
       ELSE /\ pendingAcks' = [pendingAcks EXCEPT ![chat[h[1]]] = h[1]]
            /\ Goto(h, "filter")
    /\ UNCHANGED <<chat, kind, published, lineVars, qqVars, dedupVars, marks, sendVars>>

\* A slash command is no message: it leaves no ack, and "help" stands for no text.
SlackCommand(h) ==
    /\ Platform = "slack" /\ at[h] = "new"
    /\ published' = Count(published, {e \in {h[1]} : kind[e] # "refused"})
    /\ Goto(h, "done")
    /\ UNCHANGED <<chat, kind, lineVars, qqVars, dedupVars, slackVars, sendVars>>

\* The filters that come after the stores, and HandleMessage.
HandleMessage(h) ==
    /\ at[h] = "filter"
    /\ published' = Count(published, {e \in {h[1]} : kind[e] = "text"})
    /\ Goto(h, "done")
    /\ UNCHANGED <<chat, kind, lineVars, qqVars, dedupVars, slackVars, sendVars>>

-----------------------------------------------------------------------------
\* Sends.

\* sendWithRetry after an attempt: nil, an error worth another try, or a
\* permanent one.
Result(s, err) ==
    \/ err = "nil" /\ pc' = [pc EXCEPT ![s] = "done"] /\ UNCHANGED attempt
    \/ /\ err = "temporary" /\ attempt[s] < maxRetries
       /\ attempt' = [attempt EXCEPT ![s] = @ + 1]
       /\ pc' = [pc EXCEPT ![s] = "send"]
    \/ /\ err = "permanent" \/ (err = "temporary" /\ attempt[s] = maxRetries)
       /\ pc' = [pc EXCEPT ![s] = "failed"] /\ UNCHANGED attempt

\* Calls end in one of three ways: shown and answered, shown with the answer
\* lost, or refused.
Outcomes == {[shown |-> TRUE, ok |-> TRUE], [shown |-> TRUE, ok |-> FALSE], [shown |-> FALSE, ok |-> FALSE]}
Show(s, o) == shownIn' = shownIn \cup {c \in {to[s]} : o.shown}

\* LINE: LoadAndDelete of the quote token, then of the reply token; one that
\* is older than lineReplyTokenMaxAge is not tried.
LineLoadQuote(s) ==
    /\ Platform = "line" /\ pc[s] = "send"
    /\ quotes' = Count(quotes, {quoteTokens[to[s]]} \ {None})
    /\ quoteTokens' = [quoteTokens EXCEPT ![to[s]] = None]
    /\ pc' = [pc EXCEPT ![s] = "counter"]
    /\ UNCHANGED <<to, attempt, local, replies, accepted, posts, shownIn, inVars, replyTokens, qqVars, dedupVars, slackVars>>

\* Mutant: Load instead of LoadAndDelete
LineLoadTokenOnly(s) ==
    /\ Platform = "line" /\ pc[s] = "counter"
    /\ \E tried \in {None, replyTokens[to[s]]} :
          /\ local' = [local EXCEPT ![s].id = tried]
          /\ pc' = [pc EXCEPT ![s] = IF tried = None THEN "push" ELSE "reply"]
    /\ UNCHANGED <<to, attempt, seenVars, inVars, lineVars, qqVars, dedupVars, slackVars>>

LineLoadToken(s) ==
    /\ Platform = "line" /\ pc[s] = "counter"
    /\ replyTokens' = [replyTokens EXCEPT ![to[s]] = None]
    /\ \E tried \in {None, replyTokens[to[s]]} :
          /\ local' = [local EXCEPT ![s].id = tried]
          /\ pc' = [pc EXCEPT ![s] = IF tried = None THEN "push" ELSE "reply"]
    /\ UNCHANGED <<to, attempt, seenVars, inVars, quoteTokens, qqVars, dedupVars, slackVars>>

\* Whatever the error of the reply, the message is pushed.  LINE takes a token once.
sendReply(s) ==
    /\ pc[s] = "reply"
    /\ \E o \in Outcomes :
          /\ o.shown => local[s].id \notin accepted
          /\ accepted' = accepted \cup {e \in {local[s].id} : o.shown}
          /\ Show(s, o)
          /\ pc' = [pc EXCEPT ![s] = IF o.ok THEN "done" ELSE "push"]
    /\ replies' = Count(replies, {local[s].id})
    /\ local' = [local EXCEPT ![s] = Nothing]
    /\ UNCHANGED <<to, attempt, quotes, posts, inVars, lineVars, qqVars, dedupVars, slackVars>>

sendPush(s) ==
    /\ pc[s] = "push"
    /\ \E o \in Outcomes, err \in {"temporary", "permanent"} :
          /\ err = "permanent" => ~o.shown
          /\ Show(s, o)
          /\ Result(s, IF o.ok THEN "nil" ELSE err)
    /\ UNCHANGED <<to, local, replies, quotes, accepted, posts, inVars, lineVars, qqVars, dedupVars, slackVars>>

\* QQ: the id, then the counter of the chat and its next number.
QQLoadID(s) ==
    /\ Platform = "qq" /\ pc[s] = "send"
    /\ local' = [local EXCEPT ![s].id = lastMsgID[to[s]]]
    /\ pc' = [pc EXCEPT ![s] = IF lastMsgID[to[s]] = None THEN "post" ELSE "counter"]
    /\ UNCHANGED <<to, attempt, seenVars, inVars, lineVars, qqVars, dedupVars, slackVars>>

QQNumber(s) ==
    /\ Platform = "qq" /\ pc[s] = "counter"
    /\ LET ctr == msgSeqCounters[to[s]]
       IN  IF ctr = None
           THEN UNCHANGED <<seqs, local>>
           ELSE /\ seqs' = [seqs EXCEPT ![ctr] = @ + 1]
                /\ local' = [local EXCEPT ![s].ctr = ctr, ![s].seq = seqs[ctr] + 1]
    /\ pc' = [pc EXCEPT ![s] = "post"]
    /\ UNCHANGED <<to, attempt, seenVars, inVars, lineVars, lastMsgID, msgSeqCounters, dedupVars, slackVars>>

\* QQ and Slack call every error temporary.
Post(s) ==
    /\ \/ Platform = "qq" /\ pc[s] = "post"
       \/ Platform = "slack" /\ pc[s] = "send"
    /\ \E o \in Outcomes :
          /\ Show(s, o)
          /\ IF Platform = "slack" /\ o.ok
             THEN pc' = [pc EXCEPT ![s] = "mark"] /\ UNCHANGED attempt
             ELSE Result(s, IF o.ok THEN "nil" ELSE "temporary")
    /\ posts' = posts \cup {[by |-> s, try |-> attempt[s], id |-> e, ctr |-> local[s].ctr, seq |-> local[s].seq] :
                                e \in {local[s].id} \ {None}}
    /\ local' = [local EXCEPT ![s] = Nothing]
    /\ UNCHANGED <<to, replies, quotes, accepted, inVars, lineVars, qqVars, dedupVars, slackVars>>

\* Slack: the message the chat remembers gets a check mark.
SlackMark(s) ==
    /\ pc[s] = "mark"
    /\ marks' = Count(marks, {pendingAcks[to[s]]} \ {None})
    /\ pendingAcks' = [pendingAcks EXCEPT ![to[s]] = None]
    /\ pc' = [pc EXCEPT ![s] = "done"]
    /\ UNCHANGED <<to, attempt, local, seenVars, inVars, lineVars, qqVars, dedupVars>>

-----------------------------------------------------------------------------
Handle(h) ==
    \/ Deliver(h) \/ LineToken(h) \/ LineQuote(h)
    \/ QQDedup(h) \/ QQContext(h) \/ QQCounter(h)
    \/ SlackMessage(h) \/ SlackCommand(h) \/ HandleMessage(h)

Send(s) ==
    \/ LineLoadQuote(s) \/ LineLoadToken(s) \/ sendReply(s) \/ sendPush(s)
    \/ QQLoadID(s) \/ QQNumber(s) \/ Post(s) \/ SlackMark(s)

Next ==
    \/ \E h \in Handlers : Handle(h)
    \/ \E s \in Senders : Send(s)
    \/ \E e \in Events : GrowStale(e)
    \/ dedupJanitor

Spec == Init /\ [][Next]_vars

-----------------------------------------------------------------------------
Delivered(e) == Cardinality({h \in Handlers : h[1] = e /\ at[h] # "none"})

\* A reply token is spent in one call and a quote in one attempt, unless the
\* platform delivered the event again, although sends of a chat run at once and
\* an attempt may fail after it took the tokens.
TokensSpentOnce == \A e \in Events : replies[e] <= Delivered(e) /\ quotes[e] <= Delivered(e)

\* The id a post answers and the counter its number came from are not of the
\* same message: an event came between the two stores or the two loads.
Torn(p) == p.ctr = None \/ p.ctr[1] # p.id

\* No two posts to QQ carry the same number for the same message, except a torn
\* pair, or of an event the channel took twice because it had forgotten the id.
NumberedOnce ==
    \A p, q \in posts :
        p # q /\ p.id = q.id /\ p.seq = q.seq => Torn(p) \/ Torn(q) \/ forgotten[p.id] > 0

\* An event QQ delivers again is published once while its id is remembered.
PublishedOnce ==
    Platform = "qq" => \A e \in Events : published[e] <= 1 + forgotten[e]

\* Check marks: not more than deliveries, none for a refused sender, and in a
\* chat none without a message that was shown there.
MarkedByReplies ==
    \A e \in Events :
        /\ marks[e] <= Delivered(e)
        /\ marks[e] > 0 => kind[e] # "refused" /\ chat[e] \in shownIn

ReplyInv == TokensSpentOnce /\ NumberedOnce /\ PublishedOnce /\ MarkedByReplies

\* Does not hold: the id and the number of a post are of the same message.
NeverTorn == \A p \in posts : ~Torn(p)

\* Does not hold: a check mark says that the message was answered.
OnlyPublishedIsMarked == \A e \in Events : marks[e] <= published[e]
=============================================================================
