--------------------------- MODULE ChannelManager ---------------------------
(***************************************************************************)
(* pkg/channels/manager.go: lifecycle of the channel manager and the path  *)
(* of outbound messages from the bus through the two dispatchers (text and *)
(* media) into the worker queue of each channel and to the platform.       *)
(*                                                                         *)
(* The manager's RWMutex is held for writing by StopAll and                *)
(* UnregisterChannel while they wait for workers (mgrOp); its read         *)
(* sections are single steps, enabled when no writer holds it.  Sending on *)
(* a closed Go channel, and closing one twice, panics, which ends the      *)
(* program.  The bus is the FIFO that MessageBus shows it to be; what      *)
(* happens inside one send is the subject of MessageDelivery.              *)
(***************************************************************************)
EXTENDS Naturals, Sequences, FiniteSets

CONSTANTS
    Channels,   \* channel names
    QueueSize,  \* defaultChannelQueueSize
    MaxMsgs     \* bound on published messages and on API calls together

ConstantsAssumption ==
    /\ QueueSize \in Nat \ {0}
    /\ MaxMsgs \in Nat

VARIABLES
    channels,   \* m.channels
    workers,    \* keys of m.workers
    ctx,        \* dispatchCtx: "none", "live" or "cancelled"
    busq,       \* outbound messages on the bus, per kind
    busDone,    \* the bus is closed
    count,      \* number of messages created so far
    dpc, dmsg,  \* the two dispatchers
    queue,      \* w.queue and w.mediaQueue
    qclosed,    \* per kind, the channels whose worker queue is closed
    wpc, wmsg,  \* the workers
    api,        \* the caller of SendToChannel / SendMessage
    mgrOp, mgrPC, mgrSet,   \* the holder of the write lock
    panicked,
    enq,        \* history: what was put into each worker queue
    sent        \* history: what each worker handed to its channel

dispVars == <<busq, busDone, count, dpc, dmsg>>
workVars == <<queue, qclosed, wpc, wmsg>>
mgrVars == <<channels, workers, ctx, mgrOp, mgrPC, mgrSet>>
histVars == <<enq, sent>>
vars == <<dispVars, workVars, mgrVars, api, panicked, histVars>>

Kinds == {"text", "media"}
NoMsg == <<"none", 0>>
Messages == Channels \X (1..MaxMsgs)
NoCall == [op |-> "none", msg |-> NoMsg]

TypeOK ==
    /\ channels \subseteq Channels
    /\ workers \subseteq Channels
    /\ ctx \in {"none", "live", "cancelled"}
    /\ busq \in [Kinds -> Seq(Messages)]
    /\ busDone \in BOOLEAN
    /\ count \in 0..MaxMsgs
    /\ dpc \in [Kinds -> {"none", "subscribe", "lookup", "enqueue", "exited"}]
    /\ dmsg \in [Kinds -> Messages \cup {NoMsg}]
    /\ queue \in [Kinds -> [Channels -> Seq(Messages)]]
    /\ qclosed \in [Kinds -> SUBSET Channels]
    /\ wpc \in [Kinds -> [Channels -> {"none", "select", "limiter", "send", "exited"}]]
    /\ wmsg \in [Kinds -> [Channels -> Messages \cup {NoMsg}]]
    /\ api \in {NoCall} \cup [op : {"enqueue", "send"}, msg : Messages]
    /\ mgrOp \in {"none", "StopAll", "UnregisterChannel"}
    /\ mgrPC \in {"none", "cancelled", "waitText", "waitMedia"}
    /\ mgrSet \subseteq Channels
    /\ panicked \in {"no", "send on closed channel", "close of closed channel"}
    /\ enq \in [Kinds -> [Channels -> Seq(Messages)]]
    /\ sent \in [Kinds -> [Channels -> Seq(Messages)]]

Init ==
    /\ channels \in SUBSET Channels
    /\ workers = {}
    /\ ctx = "none"
    /\ busq = [k \in Kinds |-> << >>]
    /\ busDone = FALSE
    /\ count = 0
    /\ dpc = [k \in Kinds |-> "none"]
    /\ dmsg = [k \in Kinds |-> NoMsg]
    /\ queue = [k \in Kinds |-> [c \in Channels |-> << >>]]
    /\ qclosed = [k \in Kinds |-> {}]
    /\ wpc = [k \in Kinds |-> [c \in Channels |-> "none"]]
    /\ wmsg = [k \in Kinds |-> [c \in Channels |-> NoMsg]]
    /\ api = NoCall
    /\ mgrOp = "none" /\ mgrPC = "none" /\ mgrSet = {}
    /\ panicked = "no"
    /\ enq = [k \in Kinds |-> [c \in Channels |-> << >>]]
    /\ sent = [k \in Kinds |-> [c \in Channels |-> << >>]]

Unlocked == mgrOp = "none"

\* A panic in any goroutine ends the program.
Running == panicked = "no"

Panic(why) ==
    /\ panicked' = why
    /\ UNCHANGED <<dispVars, workVars, mgrVars, api, histVars>>

-----------------------------------------------------------------------------
(* The bus                                                                 *)

Publish(k, c) ==
    /\ Running
    /\ ~busDone
    /\ count < MaxMsgs
    /\ count' = count + 1
    /\ busq' = [busq EXCEPT ![k] = Append(@, <<c, count + 1>>)]
    /\ UNCHANGED <<busDone, dpc, dmsg, workVars, mgrVars, api, panicked, histVars>>

CloseBus ==
    /\ Running
    /\ ~busDone
    /\ busDone' = TRUE
    /\ UNCHANGED <<busq, count, dpc, dmsg, workVars, mgrVars, api, panicked, histVars>>

-----------------------------------------------------------------------------
(* Lifecycle                                                               *)

RegisterChannel(c) ==
    /\ Running
    /\ Unlocked
    /\ c \notin channels
    /\ channels' = channels \cup {c}
    /\ UNCHANGED <<dispVars, workVars, workers, ctx, mgrOp, mgrPC, mgrSet, api, panicked, histVars>>

\* channel.Start may fail: such a channel gets no worker.  StartAll is called
\* once per Manager.
StartAll ==
    /\ Running
    /\ Unlocked
    /\ ctx = "none"
    /\ channels # {}
    /\ ctx' = "live"
    /\ \E started \in SUBSET channels :
        /\ workers' = workers \cup started
        /\ wpc' = [k \in Kinds |-> [c \in Channels |->
                    IF c \in started THEN "select" ELSE wpc[k][c]]]
    /\ dpc' = [k \in Kinds |-> "subscribe"]
    /\ UNCHANGED <<busq, busDone, count, dmsg, queue, qclosed, wmsg, channels,
                   mgrOp, mgrPC, mgrSet, api, panicked, histVars>>

CloseQueues(k, S) == qclosed' = [qclosed EXCEPT ![k] = @ \cup S]

\* StopAll takes the lock and cancels the context of dispatchers and workers.
StopAll ==
    /\ Running
    /\ Unlocked
    /\ mgrOp' = "StopAll"
    /\ mgrPC' = "cancelled"
    /\ mgrSet' = workers
    /\ ctx' = IF ctx = "live" THEN "cancelled" ELSE ctx
    /\ UNCHANGED <<dispVars, workVars, channels, workers, api, panicked, histVars>>

\* close(w.queue) for every worker; after an earlier StopAll they are closed.
StopAllClosesQueues ==
    /\ Running
    /\ mgrPC = "cancelled"
    /\ IF mgrSet \cap qclosed["text"] # {}
       THEN Panic("close of closed channel")
       ELSE /\ CloseQueues("text", mgrSet)
            /\ mgrPC' = "waitText"
            /\ UNCHANGED <<dispVars, queue, wpc, wmsg, channels, workers, ctx,
                           mgrOp, mgrSet, api, panicked, histVars>>

\* UnregisterChannel takes the lock and closes the queue of the one worker.
UnregisterChannel(c) ==
    /\ Running
    /\ Unlocked
    /\ c \in channels
    /\ IF c \in workers /\ c \in qclosed["text"]
       THEN Panic("close of closed channel")
       ELSE /\ mgrOp' = "UnregisterChannel"
            /\ mgrSet' = {c}
            /\ CloseQueues("text", {c} \cap workers)
            /\ mgrPC' = "waitText"
            /\ UNCHANGED <<dispVars, queue, wpc, wmsg, channels, workers, ctx,
                           api, panicked, histVars>>

WorkersExited(k) == \A c \in mgrSet \cap workers : wpc[k][c] = "exited"

\* <-w.done, then close(w.mediaQueue)
WaitText ==
    /\ Running
    /\ mgrPC = "waitText"
    /\ WorkersExited("text")
    /\ CloseQueues("media", mgrSet \cap workers)
    /\ mgrPC' = "waitMedia"
    /\ UNCHANGED <<dispVars, queue, wpc, wmsg, channels, workers, ctx,
                   mgrOp, mgrSet, api, panicked, histVars>>

\* <-w.mediaDone; StopAll leaves m.workers and m.channels as they are.
WaitMedia ==
    /\ Running
    /\ mgrPC = "waitMedia"
    /\ WorkersExited("media")
    /\ mgrOp' = "none" /\ mgrPC' = "none" /\ mgrSet' = {}
    /\ IF mgrOp = "UnregisterChannel"
       THEN channels' = channels \ mgrSet /\ workers' = workers \ mgrSet
       ELSE UNCHANGED <<channels, workers>>
    /\ UNCHANGED <<dispVars, workVars, ctx, api, panicked, histVars>>

-----------------------------------------------------------------------------
(* Dispatchers: dispatchLoop, for text and for media                       *)

DispatcherGoesTo(k, pc) == dpc' = [dpc EXCEPT ![k] = pc]

Subscribe(k) ==
    /\ Running
    /\ dpc[k] = "subscribe"
    /\ busq[k] # << >>
    /\ dmsg' = [dmsg EXCEPT ![k] = Head(busq[k])]
    /\ busq' = [busq EXCEPT ![k] = Tail(@)]
    /\ DispatcherGoesTo(k, "lookup")
    /\ UNCHANGED <<busDone, count, workVars, mgrVars, api, panicked, histVars>>

\* The worker is read under the read lock and used after it is released.
Lookup(k) ==
    LET c == dmsg[k][1] IN
    /\ Running
    /\ dpc[k] = "lookup"
    /\ Unlocked
    /\ IF c \in channels /\ c \in workers
       THEN DispatcherGoesTo(k, "enqueue") /\ UNCHANGED dmsg
       ELSE DispatcherGoesTo(k, "subscribe") /\ dmsg' = [dmsg EXCEPT ![k] = NoMsg]
    /\ UNCHANGED <<busq, busDone, count, workVars, mgrVars, api, panicked, histVars>>

\* case w.queue <- msg
PutInQueue(k, c, msg) ==
    /\ Len(queue[k][c]) < QueueSize
    /\ queue' = [queue EXCEPT ![k][c] = Append(@, msg)]
    /\ enq' = [enq EXCEPT ![k][c] = Append(@, msg)]

Enqueue(k) ==
    LET c == dmsg[k][1] IN
    /\ Running
    /\ dpc[k] = "enqueue"
    /\ IF c \in qclosed[k]
       THEN Panic("send on closed channel")
       ELSE /\ PutInQueue(k, c, dmsg[k])
            /\ DispatcherGoesTo(k, "subscribe")
            /\ dmsg' = [dmsg EXCEPT ![k] = NoMsg]
            /\ UNCHANGED <<busq, busDone, count, qclosed, wpc, wmsg, mgrVars, api, panicked, sent>>

\* ctx.Done() or a closed bus in subscribe, ctx.Done() in enqueue
DispatcherExits(k) ==
    /\ Running
    /\ \/ dpc[k] = "subscribe" /\ (ctx = "cancelled" \/ busDone)
       \/ dpc[k] = "enqueue" /\ ctx = "cancelled"
    /\ DispatcherGoesTo(k, "exited")
    /\ dmsg' = [dmsg EXCEPT ![k] = NoMsg]
    /\ UNCHANGED <<busq, busDone, count, workVars, mgrVars, api, panicked, histVars>>

-----------------------------------------------------------------------------
(* Workers: runWorker, runMediaWorker                                      *)

WorkerGoesTo(k, c, pc, msg) ==
    /\ wpc' = [wpc EXCEPT ![k][c] = pc]
    /\ wmsg' = [wmsg EXCEPT ![k][c] = msg]

Receive(k, c) ==
    /\ Running
    /\ wpc[k][c] = "select"
    /\ queue[k][c] # << >>
    /\ queue' = [queue EXCEPT ![k][c] = Tail(@)]
    /\ WorkerGoesTo(k, c, "limiter", Head(queue[k][c]))
    /\ UNCHANGED <<dispVars, qclosed, mgrVars, api, panicked, histVars>>

\* Mutant: the worker returns when its queue is closed, without draining it
WorkerExitsUndrained(k, c) ==
    /\ Running
    /\ wpc[k][c] = "select"
    /\ c \in qclosed[k] \/ ctx = "cancelled"
    /\ WorkerGoesTo(k, c, "exited", NoMsg)
    /\ UNCHANGED <<dispVars, queue, qclosed, mgrVars, api, panicked, histVars>>

\* The closed queue is empty (msg, ok := <-queue with ok false), or ctx.Done().
WorkerExits(k, c) ==
    /\ Running
    /\ wpc[k][c] = "select"
    /\ \/ c \in qclosed[k] /\ queue[k][c] = << >>
       \/ ctx = "cancelled"
    /\ WorkerGoesTo(k, c, "exited", NoMsg)
    /\ UNCHANGED <<dispVars, queue, qclosed, mgrVars, api, panicked, histVars>>

\* w.limiter.Wait(ctx): a token, or the error that ends the send
Wait(k, c) ==
    /\ Running
    /\ wpc[k][c] = "limiter"
    /\ IF ctx = "cancelled"
       THEN WorkerGoesTo(k, c, "select", NoMsg)
       ELSE WorkerGoesTo(k, c, "send", wmsg[k][c])
    /\ UNCHANGED <<dispVars, queue, qclosed, mgrVars, api, panicked, histVars>>

\* sendWithRetry / sendMediaWithRetry come to an end
Send(k, c) ==
    /\ Running
    /\ wpc[k][c] = "send"
    /\ sent' = [sent EXCEPT ![k][c] = Append(@, wmsg[k][c])]
    /\ WorkerGoesTo(k, c, "select", NoMsg)
    /\ UNCHANGED <<dispVars, queue, qclosed, mgrVars, api, panicked, enq>>

-----------------------------------------------------------------------------
(* Direct calls: SendToChannel and SendMessage                             *)

NewCall(op, c) ==
    /\ Running
    /\ api = NoCall
    /\ Unlocked
    /\ count < MaxMsgs
    /\ c \in channels
    /\ count' = count + 1
    /\ api' = [op |-> op, msg |-> <<c, count + 1>>]
    /\ UNCHANGED <<busq, busDone, dpc, dmsg, workVars, mgrVars, panicked, histVars>>

\* SendToChannel reads the worker; without one it calls channel.Send itself.
SendToChannel(c) == NewCall(IF c \in workers THEN "enqueue" ELSE "send", c)

\* SendMessage sends in the caller's goroutine, past the queue.
SendMessage(c) == c \in workers /\ NewCall("send", c)

CallerEnqueues ==
    LET c == api.msg[1] IN
    /\ Running
    /\ api.op = "enqueue"
    /\ IF c \in qclosed["text"]
       THEN Panic("send on closed channel")
       ELSE /\ PutInQueue("text", c, api.msg)
            /\ api' = NoCall
            /\ UNCHANGED <<dispVars, qclosed, wpc, wmsg, mgrVars, panicked, sent>>

\* The send is over, or the caller's own context ends the wait for a slot.
CallerReturns ==
    /\ Running
    /\ api # NoCall
    /\ api' = NoCall
    /\ UNCHANGED <<dispVars, workVars, mgrVars, panicked, histVars>>

-----------------------------------------------------------------------------

DispatcherStep(k) == Subscribe(k) \/ Lookup(k) \/ Enqueue(k) \/ DispatcherExits(k)

WorkerStep(k, c) == Receive(k, c) \/ WorkerExits(k, c) \/ Wait(k, c) \/ Send(k, c)

MgrStep == StopAllClosesQueues \/ WaitText \/ WaitMedia

ApiStep == CallerEnqueues \/ CallerReturns

Next ==
    \/ \E k \in Kinds, c \in Channels : Publish(k, c) \/ WorkerStep(k, c)
    \/ \E k \in Kinds : DispatcherStep(k)
    \/ \E c \in Channels :
        RegisterChannel(c) \/ UnregisterChannel(c) \/ SendToChannel(c) \/ SendMessage(c)
    \/ CloseBus \/ StartAll \/ StopAll \/ MgrStep \/ ApiStep

Spec == Init /\ [][Next]_vars

\* Runnable goroutines run.  Go's RWMutex lets waiting readers in when a
\* writer leaves, so a dispatcher is not kept out by one writer after another.
Fairness ==
    /\ \A k \in Kinds : WF_vars(DispatcherStep(k)) /\ SF_vars(Lookup(k))
    /\ \A k \in Kinds, c \in Channels : WF_vars(WorkerStep(k, c))
    /\ WF_vars(MgrStep)
    /\ WF_vars(ApiStep)

FairSpec == Spec /\ Fairness

-----------------------------------------------------------------------------
(* Properties                                                              *)

InFlight(k, c) == IF wmsg[k][c] = NoMsg THEN << >> ELSE << wmsg[k][c] >>

\* What a worker hands to its channel is, in order and without repetition,
\* what was put into its queue.  As long as the dispatch context is live
\* nothing is missing: it has been handed over, is being handed over, or waits
\* in the queue, and a worker that UnregisterChannel stops drains its queue.
AcceptedIsSentInOrder ==
    \A k \in Kinds, c \in Channels :
        /\ sent[k][c] = SubSeq(enq[k][c], 1, Len(sent[k][c]))
        /\ ctx # "cancelled" =>
            /\ enq[k][c] = sent[k][c] \o InFlight(k, c) \o queue[k][c]
            /\ wpc[k][c] = "exited" => queue[k][c] = << >>

\* When UnregisterChannel or StopAll has let go of the lock, no worker whose
\* queue it closed is still sending: channel.Stop is never called under a
\* worker that uses the channel, and an unregistered channel gets no message.
NoWorkerAfterRelease ==
    Unlocked => \A k \in Kinds : \A c \in qclosed["text"] : wpc[k][c] = "exited"

\* The write lock is always released: waiting for workers under the lock
\* cannot deadlock with dispatchers that need the read lock.
LockReleased == (mgrOp # "none") ~> (mgrOp = "none" \/ ~Running)

MgrCanStep ==
    \/ mgrPC = "cancelled"
    \/ mgrPC = "waitText" /\ WorkersExited("text")
    \/ mgrPC = "waitMedia" /\ WorkersExited("media")

WorkerCanStep(k, c) ==
    \/ wpc[k][c] \in {"limiter", "send"}
    \/ wpc[k][c] = "select" /\ (queue[k][c] # << >> \/ c \in qclosed[k] \/ ctx = "cancelled")

\* The safe half of it: as long as StopAll or UnregisterChannel holds the lock,
\* it or a worker it waits for can take a step (their guards hold), although
\* senders and dispatchers are shut out (or sit on a full queue).
WorkersNeedNoLock ==
    mgrOp # "none" =>
        MgrCanStep \/ \E k \in Kinds, c \in mgrSet \cap workers : WorkerCanStep(k, c)

\* The comment "Close all worker queues and wait for them to drain": once
\* StopAll is over, what a worker queue had accepted has been handed over.
StopAllDrains ==
    (ctx = "cancelled" /\ Unlocked) =>
        \A k \in Kinds, c \in workers : enq[k][c] = sent[k][c]

\* TestDispatcherExitsOnCancel, "dispatchOutbound did not exit within 2s after
\* context cancel": cancelling the context makes each dispatcher return, unless
\* the program ends before for another reason.
DispatcherExitsOnCancel ==
    \A k \in Kinds : (ctx = "cancelled") ~>
        \/ dpc[k] = "exited"
        \/ panicked = "close of closed channel"
        \/ ~Running /\ dpc[k] # "enqueue"

=============================================================================
