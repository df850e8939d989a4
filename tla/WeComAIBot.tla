----------------------------- MODULE WeComAIBot -----------------------------
(***************************************************************************)
(* The WeCom AI bot channel (pkg/channels/wecom/aibot.go).  A text message *)
(* starts a stream: WeCom polls for the answer until the deadline, when    *)
(* the stream is closed with a notice and the answer is to be posted to    *)
(* the question's response_url.  Replies come from the agent through Send, *)
(* which the channel's worker calls one at a time; they carry no question, *)
(* only the chat.  Handlers of polls, the worker and the cleanup loop      *)
(* share streamTasks and chatTasks under taskMu.                           *)
(*                                                                         *)
(* A task is the number of its question.  A chat's queue of tasks is in    *)
(* the order of their questions, since handleTextMessage appends and       *)
(* nothing is put back: it is the set of its tasks, its head the least.    *)
(* Time is abstracted to the three moments in a task's life that the code  *)
(* compares with: its deadline, the end of the grace period after its      *)
(* stream was closed, and its hour.                                        *)
(***************************************************************************)
EXTENDS Naturals, Sequences

CONSTANTS
    Chats,
    MaxTasks,       \* bound on questions
    MaxParts,       \* bound on the replies to one question
    Parts           \* how many replies the agent may send to one question

ConstantsAssumption == MaxTasks \in Nat /\ MaxParts \in Nat /\ Parts \subseteq 0..MaxParts

Tasks == 1..MaxTasks

VARIABLES
    asked, chat,        \* questions so far, and the chat of each
    streamTasks, chatTasks,
    answerCh,           \* [Tasks -> the question a buffered reply is for, or 0]
    StreamClosed, Finished, canceled,
    late, grace, hour,  \* tasks that are past their deadline, grace, hour
    poll,               \* what the handler of a task's poll is doing
    outbox,             \* replies on their way to the worker: questions
    heard, current, left,   \* questions the agent took, the last, its replies to come
    pc, task, streamClosed,     \* the worker's Send call
    posted,             \* how often each response_url was used
    shown,              \* <<t, q>>: question t was shown a reply to q
    running

mapVars == <<streamTasks, chatTasks>>
taskVars == <<answerCh, StreamClosed, Finished, canceled>>
timeVars == <<late, grace, hour>>
agentVars == <<outbox, heard, current, left>>
sendVars == <<pc, task, streamClosed>>
vars == <<asked, chat, mapVars, taskVars, timeVars, poll, agentVars, sendVars,
          posted, shown, running>>

TypeOK ==
    /\ asked \in 0..MaxTasks /\ chat \in [Tasks -> Chats]
    /\ streamTasks \subseteq 1..asked
    /\ chatTasks \in [Chats -> SUBSET (1..asked)]
    /\ \A c \in Chats : \A t \in chatTasks[c] : chat[t] = c
    /\ answerCh \in [Tasks -> 0..asked]
    /\ \A S \in {StreamClosed, Finished, canceled, late, grace, hour} : S \subseteq 1..asked
    /\ poll \in [Tasks -> {"none", "taken", "canceled", "close"}]
    /\ outbox \in Seq(1..asked) /\ heard \subseteq 1..asked
    /\ current \in 0..asked /\ left \in 0..MaxParts
    /\ pc \in {"idle", "deliver", "post", "remove"}
    /\ task \in 0..asked /\ streamClosed \in BOOLEAN
    /\ posted \in [Tasks -> Nat] /\ shown \subseteq Tasks \X Tasks
    /\ running \in BOOLEAN

Init ==
    /\ asked = 0 /\ chat \in [Tasks -> Chats]
    /\ streamTasks = {} /\ chatTasks = [c \in Chats |-> {}]
    /\ answerCh = [t \in Tasks |-> 0]
    /\ StreamClosed = {} /\ Finished = {} /\ canceled = {}
    /\ late = {} /\ grace = {} /\ hour = {}
    /\ poll = [t \in Tasks |-> "none"]
    /\ outbox = <<>> /\ heard = {} /\ current = 0 /\ left = 0
    /\ pc = "idle" /\ task = 0 /\ streamClosed = FALSE
    /\ posted = [t \in Tasks |-> 0] /\ shown = {}
    /\ running = TRUE

-----------------------------------------------------------------------------
(* Questions, and the agent that answers them one after the other          *)

\* handleTextMessage; its first response is an empty poll
handleTextMessage ==
    /\ running /\ asked < MaxTasks
    /\ asked' = asked + 1
    /\ streamTasks' = streamTasks \cup {asked'}
    /\ chatTasks' = [chatTasks EXCEPT ![chat[asked']] = @ \cup {asked'}]
    /\ UNCHANGED <<chat, taskVars, timeVars, poll, agentVars, sendVars, posted, shown, running>>

\* A question's goroutine has put it on the bus and the agent takes it, to
\* send n replies: none when the sender is not allowed or the answer was sent
\* elsewhere, several when it is long or tools write to the user.  Goroutines
\* of two questions may publish in either order; that of a cancelled task may
\* find its context done.
Think(t, n) ==
    /\ left = 0 /\ t \in 1..asked \ heard
    /\ heard' = heard \cup {t} /\ current' = t
    /\ left' \in {n} \cup IF t \in canceled THEN {0} ELSE {}
    /\ UNCHANGED <<asked, chat, mapVars, taskVars, timeVars, poll, outbox, sendVars, posted,
                   shown, running>>

Reply ==
    /\ left > 0
    /\ left' = left - 1
    /\ outbox' = Append(outbox, current)
    /\ UNCHANGED <<asked, chat, mapVars, taskVars, timeVars, poll, heard, current, sendVars, posted,
                   shown, running>>

-----------------------------------------------------------------------------
(* Send                                                                    *)

\* Finished tasks at the head of the queue are dropped, others are not.
Unfinished(queue) == {t \in queue : \E u \in queue : u <= t /\ u \notin Finished}

Earliest(queue) == CHOOSE t \in queue : \A u \in queue : t <= u

Done ==
    /\ pc' = "idle"
    /\ outbox' = Tail(outbox)

\* Send under the lock: the earliest unfinished task of the chat
SendPick ==
    /\ running /\ pc = "idle" /\ outbox # <<>>
    /\ LET c == chat[Head(outbox)]
           queue == Unfinished(chatTasks[c]) IN
        /\ chatTasks' = [chatTasks EXCEPT ![c] = queue]
        /\ IF queue = {}
           THEN Done /\ UNCHANGED <<task, streamClosed>>
           ELSE /\ task' = Earliest(queue)
                /\ streamClosed' = (task' \in StreamClosed)
                /\ pc' = IF streamClosed' THEN "post" ELSE "deliver"
                /\ UNCHANGED outbox
    /\ UNCHANGED <<asked, chat, streamTasks, taskVars, timeVars, poll, heard, current, left, posted,
                   shown, running>>

\* The reply is put into the task's answerCh, which holds one.
SendDeliver ==
    /\ pc = "deliver" /\ answerCh[task] = 0
    /\ answerCh' = [answerCh EXCEPT ![task] = Head(outbox)]
    /\ Done
    /\ UNCHANGED <<asked, chat, mapVars, StreamClosed, Finished, canceled, timeVars, poll,
                   heard, current, left, task, streamClosed, posted, shown, running>>

\* The task was cancelled: the reply is dropped.
SendDropped ==
    /\ pc = "deliver" /\ (task \in canceled \/ ~running)
    /\ Done
    /\ UNCHANGED <<asked, chat, mapVars, taskVars, timeVars, poll, heard, current, left, task,
                   streamClosed, posted, shown, running>>

\* sendViaResponseURL, whether it fails or not; removeTask cancels first ...
SendPost(ok) ==
    /\ pc = "post" /\ (ok => running)
    /\ posted' = [posted EXCEPT ![task] = @ + 1]
    /\ shown' = IF ok THEN shown \cup {<<task, Head(outbox)>>} ELSE shown
    /\ canceled' = canceled \cup {task}
    /\ pc' = "remove"
    /\ UNCHANGED <<asked, chat, mapVars, answerCh, StreamClosed, Finished, timeVars, poll,
                   agentVars, task, streamClosed, running>>

\* Mutant: the task is only marked
removeTaskMarks(t) ==
    /\ Finished' = Finished \cup {t}
    /\ streamTasks' = streamTasks \ {t}
    /\ UNCHANGED chatTasks

\* ... and takes the task out of both maps under the lock.
removeTask(t) ==
    /\ Finished' = Finished \cup {t}
    /\ streamTasks' = streamTasks \ {t}
    /\ chatTasks' = [chatTasks EXCEPT ![chat[t]] = @ \ {t}]

SendRemove ==
    /\ pc = "remove"
    /\ removeTask(task)
    /\ Done
    /\ UNCHANGED <<asked, chat, answerCh, StreamClosed, canceled, timeVars, poll, heard, current, left,
                   task, streamClosed, posted, shown, running>>

-----------------------------------------------------------------------------
(* Polls: handleStreamMessage and getStreamResponse                        *)

Polled(t) == running /\ t \in streamTasks /\ poll[t] = "none"

\* A reply is there: it is the last response of the stream.
PollTake(t) ==
    /\ Polled(t) /\ answerCh[t] # 0
    /\ shown' = shown \cup {<<t, answerCh[t]>>}
    /\ answerCh' = [answerCh EXCEPT ![t] = 0]
    /\ poll' = [poll EXCEPT ![t] = "taken"]
    /\ UNCHANGED <<asked, chat, mapVars, StreamClosed, Finished, canceled, timeVars, agentVars,
                   sendVars, posted, running>>

PollCancel(t) ==
    /\ poll[t] = "taken"
    /\ canceled' = canceled \cup {t}
    /\ poll' = [poll EXCEPT ![t] = "canceled"]
    /\ UNCHANGED <<asked, chat, mapVars, answerCh, StreamClosed, Finished, timeVars, agentVars,
                   sendVars, posted, shown, running>>

PollRemove(t) ==
    /\ poll[t] = "canceled"
    /\ removeTask(t)
    /\ poll' = [poll EXCEPT ![t] = "none"]
    /\ UNCHANGED <<asked, chat, answerCh, StreamClosed, canceled, timeVars, agentVars, sendVars,
                   posted, shown, running>>

\* No reply, and the deadline is past: the stream is to be closed ...
PollLate(t) ==
    /\ Polled(t) /\ answerCh[t] = 0 /\ t \in late
    /\ poll' = [poll EXCEPT ![t] = "close"]
    /\ UNCHANGED <<asked, chat, mapVars, taskVars, timeVars, agentVars, sendVars, posted, shown,
                   running>>

\* ... under the lock.
PollClose(t) ==
    /\ poll[t] = "close"
    /\ poll' = [poll EXCEPT ![t] = "none"]
    /\ StreamClosed' = StreamClosed \cup {t}
    /\ streamTasks' = streamTasks \ {t}
    /\ UNCHANGED <<asked, chat, chatTasks, answerCh, Finished, canceled, timeVars, agentVars,
                   sendVars, posted, shown, running>>

-----------------------------------------------------------------------------
(* Time, cleanup, stop                                                     *)

PassTime(t) ==
    /\ t <= asked
    /\ \/ /\ late' = late \cup {t} /\ late' # late
          /\ UNCHANGED <<grace, hour>>
       \/ /\ t \in StreamClosed /\ grace' = grace \cup {t} /\ grace' # grace
          /\ UNCHANGED <<late, hour>>
       \/ /\ t \in late /\ hour' = hour \cup {t} /\ hour' # hour
          /\ UNCHANGED <<late, grace>>
    /\ UNCHANGED <<asked, chat, mapVars, taskVars, poll, agentVars, sendVars, posted, shown,
                   running>>

Expired == {t \in 1..asked : t \in hour \/ (t \in StreamClosed /\ t \in grace)}

\* cleanupOldTasks, when it finds something
cleanupOldTasks ==
    /\ running
    /\ streamTasks' = streamTasks \ hour
    /\ chatTasks' = [c \in Chats |-> chatTasks[c] \ (Expired \cup Finished)]
    /\ mapVars' # mapVars
    /\ canceled' = canceled \cup
        {t \in Expired \ Finished : t \in streamTasks \cup chatTasks[chat[t]]}
    /\ UNCHANGED <<asked, chat, answerCh, StreamClosed, Finished, timeVars, poll, agentVars,
                   sendVars, posted, shown, running>>

\* Stop: every task's context is cancelled with the channel's
Stop ==
    /\ running
    /\ running' = FALSE
    /\ canceled' = 1..asked
    /\ UNCHANGED <<asked, chat, mapVars, answerCh, StreamClosed, Finished, timeVars, poll,
                   agentVars, sendVars, posted, shown>>

-----------------------------------------------------------------------------

Send ==
    \/ SendPick
    \/ SendDeliver
    \/ SendDropped
    \/ \E ok \in BOOLEAN : SendPost(ok)
    \/ SendRemove

PollStep(t) ==
    \/ PollTake(t)
    \/ PollCancel(t)
    \/ PollRemove(t)
    \/ PollLate(t)
    \/ PollClose(t)

Next ==
    \/ handleTextMessage
    \/ \E t \in Tasks, n \in Parts : Think(t, n)
    \/ Reply
    \/ Send
    \/ \E t \in Tasks : PollStep(t)
    \/ \E t \in Tasks : PassTime(t)
    \/ cleanupOldTasks
    \/ Stop

Spec == Init /\ [][Next]_vars

\* The worker and the cleanup ticker run, time passes, and a handler that has
\* begun ends.  WeCom may stop polling at any time: polls are not fair.
FairSpec ==
    /\ Spec
    /\ WF_vars(Send) /\ WF_vars(cleanupOldTasks)
    /\ \A t \in Tasks : /\ WF_vars(PollCancel(t)) /\ WF_vars(PollRemove(t))
                        /\ WF_vars(PollClose(t)) /\ WF_vars(PassTime(t))

-----------------------------------------------------------------------------

InQueue(t) == \E c \in Chats : t \in chatTasks[c]

\* A task that WeCom can poll for is in the queue of its chat, where Send finds
\* it; one that is only in the queue has its stream closed and waits for its
\* response_url; none of them is Finished ("this should not happen", :981).
MapsAgree ==
    /\ \A t \in streamTasks : InQueue(t) /\ t \notin StreamClosed
    /\ \A t \in Tasks : InQueue(t) => t \notin Finished /\ (t \in streamTasks \/ t \in StreamClosed)

\* "response_url is valid for 1 hour and can only be used once per callback."
ResponseURLUsedOnce == \A t \in Tasks : posted[t] <= 1

\* Send is the worker's only thread: even when WeCom no longer polls and the
\* answerCh is full, the call returns.
SendReturns == (pc # "idle") ~> (pc = "idle")

\* Questions nobody polls for and replies that never come leave nothing behind.
TasksGoAway == \A t \in Tasks : (asked = t) ~> ((t \notin streamTasks /\ ~InQueue(t)) \/ ~running)

\* "If the stream has already closed (deadline passed), it posts directly to
\* response_url": no reply is left in the answerCh of a stream that is closed.
NoReplyLeftBehind == \A t \in StreamClosed : answerCh[t] = 0

\* "Send delivers the agent reply into the active streamTask": what is shown
\* under a question is a reply to that question.
OwnAnswer == \A t, q \in Tasks : <<t, q>> \in shown => t = q
=============================================================================
