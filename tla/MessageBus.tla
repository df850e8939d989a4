----------------------------- MODULE MessageBus -----------------------------
(***************************************************************************)
(* pkg/bus/bus.go: the three buffered Go channels (inbound, outbound and   *)
(* outbound media) that connect channels, agent loop and channel manager.  *)
(*                                                                         *)
(* Every goroutine inside a Publish or a Consume/Subscribe call has a      *)
(* program counter, one step per atomic operation of the Go code: the load *)
(* of `closed`, the check of the context, and the select.  Close is one    *)
(* step per compare-and-swap, close(done) and drained message.             *)
(***************************************************************************)
EXTENDS Naturals, Sequences, FiniteSets

CONSTANTS
    Publishers,     \* goroutines that call Publish*
    Consumers,      \* goroutines that call Consume* / Subscribe*
    Closers,        \* goroutines that call Close
    BufferSize,     \* defaultBusBufferSize
    MaxPublish      \* bound on the Publish calls of one goroutine

ASSUME BufferSizeAssumption == BufferSize \in Nat \ {0}
ASSUME MaxPublishAssumption == MaxPublish \in Nat

VARIABLES
    closed,     \* mb.closed
    done,       \* close(mb.done) has happened
    buf,        \* contents of the three Go channels
    pubPC, pubQueue, pubN,  \* the Publish call of each publisher
    conPC, conQueue,        \* the Consume call of each consumer
    pubCtx, conCtx,         \* the calls whose context is cancelled
    closePC,    \* progress of each call of Close
    accepted,   \* history: per queue, the messages whose Publish returned nil
    taken,      \* history: per queue, the messages received or drained
    atClose     \* history: number of Publish calls begun when `closed` was set

busVars == <<closed, done, buf>>
pubVars == <<pubPC, pubQueue, pubCtx, pubN>>
conVars == <<conPC, conQueue, conCtx>>
histVars == <<accepted, taken, atClose>>
vars == <<busVars, pubVars, conVars, closePC, histVars>>

Queues == {"inbound", "outbound", "media"}

\* A message is identified by its publisher and the number of the call.
Messages == Publishers \X Nat

PubStates == {"idle", "called", "checked", "select"}
ConStates == {"idle", "select"}
CloseStates == {"idle", "swapped"} \cup Queues \cup {"returned"}

TypeOK ==
    /\ closed \in BOOLEAN
    /\ done \in BOOLEAN
    /\ buf \in [Queues -> Seq(Messages)]
    /\ pubPC \in [Publishers -> PubStates]
    /\ pubQueue \in [Publishers -> Queues]
    /\ pubCtx \subseteq Publishers
    /\ pubN \in [Publishers -> Nat]
    /\ conPC \in [Consumers -> ConStates]
    /\ conQueue \in [Consumers -> Queues]
    /\ conCtx \subseteq Consumers
    /\ closePC \in [Closers -> CloseStates]
    /\ accepted \in [Queues -> Seq(Messages)]
    /\ taken \in [Queues -> Seq(Messages)]
    /\ atClose \in [Publishers -> Nat]

Init ==
    /\ closed = FALSE
    /\ done = FALSE
    /\ buf = [q \in Queues |-> << >>]
    /\ pubPC = [p \in Publishers |-> "idle"]
    /\ pubQueue = [p \in Publishers |-> "inbound"]
    /\ pubCtx = {}
    /\ pubN = [p \in Publishers |-> 0]
    /\ conPC = [c \in Consumers |-> "idle"]
    /\ conQueue = [c \in Consumers |-> "inbound"]
    /\ conCtx = {}
    /\ closePC = [k \in Closers |-> "idle"]
    /\ accepted = [q \in Queues |-> << >>]
    /\ taken = [q \in Queues |-> << >>]
    /\ atClose = [p \in Publishers |-> 0]

-----------------------------------------------------------------------------
(* Publish: PublishInbound, PublishOutbound, PublishOutboundMedia          *)

\* The call is over: its arguments are gone.
PublishReturns(p) ==
    /\ pubPC' = [pubPC EXCEPT ![p] = "idle"]
    /\ pubQueue' = [pubQueue EXCEPT ![p] = "inbound"]
    /\ pubCtx' = pubCtx \ {p}
    /\ UNCHANGED pubN

PublishGoesOn(p, pc) ==
    /\ pubPC' = [pubPC EXCEPT ![p] = pc]
    /\ UNCHANGED <<pubQueue, pubCtx, pubN>>

\* A goroutine calls Publish on queue q, with a context that may be cancelled.
Call(p, q) ==
    /\ pubPC[p] = "idle"
    /\ pubN[p] < MaxPublish
    /\ pubPC' = [pubPC EXCEPT ![p] = "called"]
    /\ pubQueue' = [pubQueue EXCEPT ![p] = q]
    /\ pubN' = [pubN EXCEPT ![p] = @ + 1]
    /\ \E cancelled \in SUBSET {p} : pubCtx' = pubCtx \cup cancelled
    /\ UNCHANGED <<busVars, conVars, closePC, histVars>>

\* if mb.closed.Load() { return ErrBusClosed }
CheckClosed(p) ==
    /\ pubPC[p] = "called"
    /\ IF closed THEN PublishReturns(p) ELSE PublishGoesOn(p, "checked")
    /\ UNCHANGED <<busVars, conVars, closePC, histVars>>

\* if err := ctx.Err(); err != nil { return err }
CheckCtx(p) ==
    /\ pubPC[p] = "checked"
    /\ IF p \in pubCtx THEN PublishReturns(p) ELSE PublishGoesOn(p, "select")
    /\ UNCHANGED <<busVars, conVars, closePC, histVars>>

\* case mb.<queue> <- msg: return nil
Enqueue(p) ==
    LET q == pubQueue[p] m == <<p, pubN[p]>> IN
    /\ pubPC[p] = "select"
    /\ Len(buf[q]) < BufferSize
    /\ buf' = [buf EXCEPT ![q] = Append(@, m)]
    /\ accepted' = [accepted EXCEPT ![q] = Append(@, m)]
    /\ PublishReturns(p)
    /\ UNCHANGED <<closed, done, conVars, closePC, taken, atClose>>

\* Mutant: the select has no case for done
PublishAbortsOnCtxOnly(p) ==
    /\ pubPC[p] = "select"
    /\ p \in pubCtx
    /\ PublishReturns(p)
    /\ UNCHANGED <<busVars, conVars, closePC, histVars>>

\* case <-mb.done: return ErrBusClosed; case <-ctx.Done(): return ctx.Err()
PublishAborts(p) ==
    /\ pubPC[p] = "select"
    /\ done \/ p \in pubCtx
    /\ PublishReturns(p)
    /\ UNCHANGED <<busVars, conVars, closePC, histVars>>

\* The caller's context ends (timeout or cancellation) during the call.
CancelPublish(p) ==
    /\ pubPC[p] # "idle"
    /\ p \notin pubCtx
    /\ pubCtx' = pubCtx \cup {p}
    /\ UNCHANGED <<busVars, pubPC, pubQueue, pubN, conVars, closePC, histVars>>

-----------------------------------------------------------------------------
(* Consume: ConsumeInbound, SubscribeOutbound, SubscribeOutboundMedia      *)

ConsumeReturns(c) ==
    /\ conPC' = [conPC EXCEPT ![c] = "idle"]
    /\ conQueue' = [conQueue EXCEPT ![c] = "inbound"]
    /\ conCtx' = conCtx \ {c}

Consume(c, q) ==
    /\ conPC[c] = "idle"
    /\ conPC' = [conPC EXCEPT ![c] = "select"]
    /\ conQueue' = [conQueue EXCEPT ![c] = q]
    /\ \E cancelled \in SUBSET {c} : conCtx' = conCtx \cup cancelled
    /\ UNCHANGED <<busVars, pubVars, closePC, histVars>>

\* Mutant: the queue is read from its tail
TakeLast(q) ==
    /\ buf[q] # << >>
    /\ buf' = [buf EXCEPT ![q] = SubSeq(@, 1, Len(@) - 1)]
    /\ taken' = [taken EXCEPT ![q] = Append(@, buf[q][Len(buf[q])])]

Take(q) ==
    /\ buf[q] # << >>
    /\ buf' = [buf EXCEPT ![q] = Tail(@)]
    /\ taken' = [taken EXCEPT ![q] = Append(@, Head(buf[q]))]

\* case msg, ok := <-mb.<queue>: return msg, ok
Receive(c) ==
    /\ conPC[c] = "select"
    /\ Take(conQueue[c])
    /\ ConsumeReturns(c)
    /\ UNCHANGED <<closed, done, pubVars, closePC, accepted, atClose>>

\* case <-mb.done / case <-ctx.Done(): return zero, false
ConsumeAborts(c) ==
    /\ conPC[c] = "select"
    /\ done \/ c \in conCtx
    /\ ConsumeReturns(c)
    /\ UNCHANGED <<busVars, pubVars, closePC, histVars>>

CancelConsume(c) ==
    /\ conPC[c] = "select"
    /\ c \notin conCtx
    /\ conCtx' = conCtx \cup {c}
    /\ UNCHANGED <<busVars, pubVars, conPC, conQueue, closePC, histVars>>

-----------------------------------------------------------------------------
(* Close                                                                   *)

\* mb.closed.CompareAndSwap(false, true); a second call returns at once.
Swap(k) ==
    /\ closePC[k] = "idle"
    /\ closePC' = [closePC EXCEPT ![k] = IF closed THEN "returned" ELSE "swapped"]
    /\ closed' = TRUE
    /\ atClose' = IF closed THEN atClose ELSE pubN
    /\ UNCHANGED <<done, buf, pubVars, conVars, accepted, taken>>

\* close(mb.done)
CloseDone(k) ==
    /\ closePC[k] = "swapped"
    /\ done' = TRUE
    /\ closePC' = [closePC EXCEPT ![k] = "inbound"]
    /\ UNCHANGED <<closed, buf, pubVars, conVars, histVars>>

\* case <-mb.<queue>: drained++
Drain(k) ==
    /\ closePC[k] \in Queues
    /\ Take(closePC[k])
    /\ UNCHANGED <<closed, done, pubVars, conVars, closePC, accepted, atClose>>

AfterDrain(q) ==
    CASE q = "inbound" -> "outbound"
      [] q = "outbound" -> "media"
      [] OTHER -> "returned"

\* Mutant: the drain loop stops after its first message
QueueDrainedEarly(k) ==
    /\ closePC[k] \in Queues
    /\ closePC' = [closePC EXCEPT ![k] = AfterDrain(@)]
    /\ UNCHANGED <<busVars, pubVars, conVars, histVars>>

\* default: goto doneInbound / doneOutbound / doneMedia
QueueDrained(k) ==
    /\ closePC[k] \in Queues
    /\ buf[closePC[k]] = << >>
    /\ closePC' = [closePC EXCEPT ![k] = AfterDrain(@)]
    /\ UNCHANGED <<busVars, pubVars, conVars, histVars>>

PublishStep(p) == CheckClosed(p) \/ CheckCtx(p) \/ Enqueue(p) \/ PublishAborts(p)

ConsumeStep(c) == Receive(c) \/ ConsumeAborts(c)

CloseStep(k) == CloseDone(k) \/ Drain(k) \/ QueueDrained(k)

Next ==
    \/ \E p \in Publishers :
        \/ \E q \in Queues : Call(p, q)
        \/ PublishStep(p)
        \/ CancelPublish(p)
    \/ \E c \in Consumers :
        \/ \E q \in Queues : Consume(c, q)
        \/ ConsumeStep(c)
        \/ CancelConsume(c)
    \/ \E k \in Closers : Swap(k) \/ CloseStep(k)

Spec == Init /\ [][Next]_vars

\* The Go scheduler runs every goroutine that is not blocked: each call that
\* was begun keeps taking its steps.  Nobody is obliged to begin a call.
Fairness ==
    /\ \A p \in Publishers : WF_vars(PublishStep(p))
    /\ \A c \in Consumers : WF_vars(ConsumeStep(c))
    /\ \A k \in Closers : WF_vars(CloseStep(k))

FairSpec == Spec /\ Fairness

-----------------------------------------------------------------------------
(* Properties                                                              *)

\* Exactly once and in order, through publishers, consumers and a drain that
\* run concurrently: what Publish accepted (returned nil for) is what was
\* taken out of the queue followed by what is still buffered.
Conservation ==
    \A q \in Queues : accepted[q] = taken[q] \o buf[q]

\* A Publish begun after Close swapped `closed` is never accepted, however it
\* interleaves with the rest of Close and with other publishers.
LatePublishRefused ==
    closed => \A q \in Queues : \A i \in DOMAIN accepted[q] :
                accepted[q][i][2] <= atClose[accepted[q][i][1]]

\* The one call of Close that won the swap has left queue q behind.
Drained(q) ==
    /\ closed
    /\ \A k \in Closers :
        closePC[k] \notin {"swapped", "inbound"}
            \cup (IF q = "inbound" THEN {} ELSE {"outbound"})
            \cup (IF q = "media" THEN {"media"} ELSE {})

\* The race the check of `closed` leaves open is bounded: a queue that Close
\* has already drained can only hold the one message of a publisher that was
\* inside its call when `closed` was swapped, never one accepted earlier.
StrandedOnlyByRace ==
    \A q \in Queues : Drained(q) =>
        \A i \in DOMAIN buf[q] : buf[q][i][2] = atClose[buf[q][i][1]]

\* What the two properties above rest on: an accepted message belongs to a
\* call that has begun, and the calls that passed the check of `closed` before
\* the swap are the last ones of their publishers.
AcceptedHasBegun ==
    \A q \in Queues : \A i \in DOMAIN accepted[q] :
        accepted[q][i][2] <= pubN[accepted[q][i][1]]

RacingCallIsLast ==
    closed => \A p \in Publishers :
                pubPC[p] \in {"checked", "select"} => pubN[p] = atClose[p]

CloseInv ==
    /\ AcceptedHasBegun
    /\ RacingCallIsLast
    /\ LatePublishRefused
    /\ StrandedOnlyByRace

\* Closing the bus or cancelling the context releases every blocked call: no
\* publisher waits for ever on a full buffer nobody reads, no consumer on an
\* empty one, and Close returns although publishers keep filling what it drains.
CallsReturn ==
    /\ \A p \in Publishers :
        (pubPC[p] # "idle" /\ (done \/ p \in pubCtx)) ~> pubPC[p] = "idle"
    /\ \A c \in Consumers :
        (conPC[c] # "idle" /\ (done \/ c \in conCtx)) ~> conPC[c] = "idle"
    /\ \A k \in Closers : closePC[k] # "idle" ~> closePC[k] = "returned"

\* The comment in Close, "Drain buffered channels so messages aren't silently
\* lost": once Close has drained and every call has returned, no accepted
\* message is left behind in a buffer.
DrainLeavesNothing ==
    (/\ \E k \in Closers : closePC[k] = "returned"
     /\ \A k \in Closers : closePC[k] \in {"idle", "returned"}
     /\ \A p \in Publishers : pubPC[p] = "idle")
        => \A q \in Queues : buf[q] = << >>

=============================================================================
