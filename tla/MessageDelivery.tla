-------------------------- MODULE MessageDelivery --------------------------
(***************************************************************************)
(* One chat of one channel, pkg/channels/manager.go and base.go: an        *)
(* inbound message starts a typing indicator, a reaction and a placeholder *)
(* and records each in the manager's maps; an outbound reply, split into   *)
(* chunks, waits for the rate limiter, clears the indicators (preSend),    *)
(* edits the placeholder or sends with retries; the TTL janitor evicts     *)
(* what no reply cleared.  The three maps are sync.Maps without a common   *)
(* lock, so handlers, senders and janitor interleave at every map access.  *)
(***************************************************************************)
EXTENDS Naturals, Sequences, FiniteSets, TLAPS

CONSTANTS
    Inbound,        \* inbound messages of the chat
    Senders,        \* goroutines in sendWithRetry: the worker, SendMessage callers
    Chunks,         \* number of chunks of a reply
    maxRetries,
    MaxReplies      \* bound on replies

ConstantsAssumption ==
    /\ "none" \notin Inbound
    /\ Chunks \in Nat \ {0}
    /\ {maxRetries, MaxReplies} \subseteq Nat

VARIABLES
    hpc,        \* HandleMessage of each inbound message
    reg,        \* typingStops, reactionUndos, placeholders: entry of the chat
    active,     \* indicators the user can see
    old,        \* the maps whose entry is older than its TTL
    jan,        \* the entry runTTLJanitor has read and not yet evicted
    cancelled,  \* the worker and janitor context
    spc, reply, chunk, attempt,     \* the senders
    count,      \* replies begun
    shown,      \* history: chunks the user sees, in order
    refused,    \* history: chunks that met a permanent error
    misfired    \* history: entries the janitor removed in place of another one

handlerVars == <<hpc>>
regVars == <<reg, active, old>>
sendVars == <<spc, reply, chunk, attempt, count>>
histVars == <<shown, refused, misfired>>
vars == <<handlerVars, regVars, jan, cancelled, sendVars, histVars>>

Registries == {"typing", "reaction", "placeholder"}
None == "none"
Replies == 1..MaxReplies

Following(r) == CASE r = "typing" -> "reaction"
              [] r = "reaction" -> "placeholder"
              [] OTHER -> "done"

TypeOK ==
    /\ hpc \in [Inbound -> {"show", "record"} \X (Registries \cup {"done"})]
    /\ reg \in [Registries -> Inbound \cup {None}]
    /\ active \in [Registries -> SUBSET Inbound]
    /\ old \subseteq Registries
    /\ jan \in (Registries \X Inbound) \cup {<< >>}
    /\ cancelled \in BOOLEAN
    /\ spc \in [Senders -> {"idle", "limiter", "send", "sleep"} \cup Registries]
    /\ reply \in [Senders -> 0..MaxReplies]
    /\ chunk \in [Senders -> 1..Chunks]
    /\ attempt \in [Senders -> 0..maxRetries]
    /\ count \in 0..MaxReplies
    /\ shown \in Seq(Replies \X (1..Chunks))
    /\ refused \subseteq Replies \X (1..Chunks)
    /\ misfired \subseteq Registries \X Inbound

Init ==
    /\ hpc = [m \in Inbound |-> <<"show", "typing">>]
    /\ reg = [r \in Registries |-> None]
    /\ active = [r \in Registries |-> {}]
    /\ old = {}
    /\ jan = << >>
    /\ cancelled = FALSE
    /\ spc = [s \in Senders |-> "idle"]
    /\ reply = [s \in Senders |-> 0]
    /\ chunk = [s \in Senders |-> 1]
    /\ attempt = [s \in Senders |-> 0]
    /\ count = 0
    /\ shown = << >>
    /\ refused = {}
    /\ misfired = {}

-----------------------------------------------------------------------------
(* BaseChannel.HandleMessage                                               *)

\* StartTyping, ReactToMessage, SendPlaceholder: the platform shows the
\* indicator, or refuses and nothing is recorded.
ShowIndicator(m) ==
    LET r == hpc[m][2] IN
    /\ hpc[m][1] = "show" /\ r # "done"
    /\ \/ /\ active' = [active EXCEPT ![r] = @ \cup {m}]
          /\ hpc' = [hpc EXCEPT ![m] = <<"record", r>>]
       \/ /\ hpc' = [hpc EXCEPT ![m] = <<"show", Following(r)>>]
          /\ UNCHANGED active
    /\ UNCHANGED <<reg, old, jan, cancelled, sendVars, histVars>>

\* RecordTypingStop swaps and stops the indicator it replaces;
\* RecordReactionUndo and RecordPlaceholder overwrite.
Replaced(r) ==
    IF r = "typing" THEN active[r] \ {reg[r]} ELSE active[r]

RecordIndicator(m) ==
    LET r == hpc[m][2] IN
    /\ hpc[m][1] = "record"
    /\ active' = [active EXCEPT ![r] = Replaced(r)]
    /\ reg' = [reg EXCEPT ![r] = m]
    /\ old' = old \ {r}
    /\ hpc' = [hpc EXCEPT ![m] = <<"show", Following(r)>>]
    /\ UNCHANGED <<jan, cancelled, sendVars, histVars>>

\* An entry outlives typingStopTTL or placeholderTTL.
Expire(r) ==
    /\ reg[r] # None
    /\ r \notin old
    /\ old' = old \cup {r}
    /\ UNCHANGED <<handlerVars, reg, active, jan, cancelled, sendVars, histVars>>

-----------------------------------------------------------------------------
(* Sending: runWorker's loop over the chunks, sendWithRetry, preSend       *)

BeginReply(s) ==
    /\ spc[s] = "idle"
    /\ count < MaxReplies
    /\ ~cancelled
    /\ count' = count + 1
    /\ reply' = [reply EXCEPT ![s] = count + 1]
    /\ chunk' = [chunk EXCEPT ![s] = 1]
    /\ spc' = [spc EXCEPT ![s] = "limiter"]
    /\ UNCHANGED <<handlerVars, regVars, jan, cancelled, attempt, histVars>>

\* sendWithRetry returns: the loop goes on with the next chunk, whatever
\* became of this one.
SendReturns(s) ==
    /\ attempt' = [attempt EXCEPT ![s] = 0]
    /\ IF chunk[s] < Chunks
       THEN /\ chunk' = [chunk EXCEPT ![s] = @ + 1]
            /\ spc' = [spc EXCEPT ![s] = "limiter"]
            /\ UNCHANGED reply
       ELSE /\ spc' = [spc EXCEPT ![s] = "idle"]
            /\ chunk' = [chunk EXCEPT ![s] = 1]
            /\ reply' = [reply EXCEPT ![s] = 0]
    /\ UNCHANGED count

SenderGoesTo(s, pc) ==
    /\ spc' = [spc EXCEPT ![s] = pc]
    /\ UNCHANGED <<reply, chunk, attempt, count>>

\* w.limiter.Wait(ctx)
RateLimit(s) ==
    /\ spc[s] = "limiter"
    /\ IF cancelled THEN SendReturns(s) ELSE SenderGoesTo(s, "typing")
    /\ UNCHANGED <<handlerVars, regVars, jan, cancelled, histVars>>

LoadAndDelete(r) ==
    /\ reg' = [reg EXCEPT ![r] = None]
    /\ old' = old \ {r}

\* preSend, steps 1 and 2: LoadAndDelete the entry and call its stop or undo
ClearIndicator(s) ==
    LET r == spc[s] IN
    /\ r \in {"typing", "reaction"}
    /\ LoadAndDelete(r)
    /\ active' = [active EXCEPT ![r] = @ \ {reg[r]}]
    /\ SenderGoesTo(s, Following(r))
    /\ UNCHANGED <<handlerVars, jan, cancelled, histVars>>

Show(s) == shown' = Append(shown, <<reply[s], chunk[s]>>)

\* Mutant: the chunk is sent although the placeholder was edited
EditPlaceholderAndSend(s) ==
    /\ spc[s] = "placeholder"
    /\ LoadAndDelete("placeholder")
    /\ SenderGoesTo(s, "send")
    /\ IF reg["placeholder"] # None THEN Show(s) ELSE UNCHANGED shown
    /\ UNCHANGED <<handlerVars, active, jan, cancelled, refused, misfired>>

\* preSend, step 3: an edit that succeeds replaces Send
EditPlaceholder(s) ==
    /\ spc[s] = "placeholder"
    /\ LoadAndDelete("placeholder")
    /\ \/ /\ reg["placeholder"] # None
          /\ active' = [active EXCEPT !["placeholder"] = @ \ {reg["placeholder"]}]
          /\ Show(s)
          /\ SendReturns(s)
       \/ /\ SenderGoesTo(s, "send")
          /\ UNCHANGED <<active, shown>>
    /\ UNCHANGED <<handlerVars, jan, cancelled, refused, misfired>>

SendSucceeds(s) ==
    /\ spc[s] = "send"
    /\ Show(s)
    /\ SendReturns(s)
    /\ UNCHANGED <<handlerVars, regVars, jan, cancelled, refused, misfired>>

\* ErrNotRunning, ErrSendFailed: permanent
SendRefused(s) ==
    /\ spc[s] = "send"
    /\ refused' = refused \cup {<<reply[s], chunk[s]>>}
    /\ SendReturns(s)
    /\ UNCHANGED <<handlerVars, regVars, jan, cancelled, shown, misfired>>

\* ErrRateLimit, ErrTemporary, unknown errors: wait and try again
SendFails(s) ==
    /\ spc[s] = "send"
    /\ IF attempt[s] = maxRetries THEN SendReturns(s) ELSE SenderGoesTo(s, "sleep")
    /\ UNCHANGED <<handlerVars, regVars, jan, cancelled, histVars>>

WakeUp(s) ==
    /\ spc[s] = "sleep"
    /\ spc' = [spc EXCEPT ![s] = "send"]
    /\ attempt' = [attempt EXCEPT ![s] = @ + 1]
    /\ UNCHANGED <<handlerVars, regVars, jan, cancelled, reply, chunk, count, histVars>>

SleepCancelled(s) ==
    /\ spc[s] = "sleep"
    /\ cancelled
    /\ SendReturns(s)
    /\ UNCHANGED <<handlerVars, regVars, jan, cancelled, histVars>>

Cancel ==
    /\ ~cancelled
    /\ cancelled' = TRUE
    /\ UNCHANGED <<handlerVars, regVars, jan, sendVars, histVars>>

-----------------------------------------------------------------------------
(* runTTLJanitor                                                           *)

\* Range hands the callback the value it read ...
JanitorReads(r) ==
    /\ ~cancelled
    /\ jan = << >>
    /\ reg[r] # None
    /\ r \in old
    /\ jan' = <<r, reg[r]>>
    /\ UNCHANGED <<handlerVars, regVars, cancelled, sendVars, histVars>>

\* ... which deletes whatever is in the map by now and stops what it read.
JanitorEvicts ==
    LET r == jan[1] IN
    /\ jan # << >>
    /\ LoadAndDelete(r)
    /\ IF reg[r] # None /\ r # "placeholder"
       THEN active' = [active EXCEPT ![r] = @ \ {jan[2]}]
       ELSE UNCHANGED active
    /\ misfired' = IF reg[r] \in {None, jan[2]} THEN misfired
                   ELSE misfired \cup {<<r, reg[r]>>}
    /\ jan' = << >>
    /\ UNCHANGED <<handlerVars, cancelled, sendVars, shown, refused>>

-----------------------------------------------------------------------------

HandlerStep(m) == ShowIndicator(m) \/ RecordIndicator(m)

SenderStep(s) ==
    \/ RateLimit(s) \/ ClearIndicator(s) \/ EditPlaceholder(s)
    \/ SendSucceeds(s) \/ SendRefused(s) \/ SendFails(s)
    \/ WakeUp(s) \/ SleepCancelled(s)

Next ==
    \/ \E m \in Inbound : HandlerStep(m)
    \/ \E r \in Registries : Expire(r) \/ JanitorReads(r)
    \/ \E s \in Senders : BeginReply(s) \/ SenderStep(s)
    \/ JanitorEvicts
    \/ Cancel

Spec == Init /\ [][Next]_vars

\* Time passes (entries expire), the janitor's ticker fires, and goroutines
\* that can run do.
Fairness ==
    /\ \A m \in Inbound : WF_vars(HandlerStep(m))
    /\ \A s \in Senders : WF_vars(SenderStep(s))
    /\ \A r \in Registries : WF_vars(Expire(r)) /\ SF_vars(JanitorReads(r))
    /\ WF_vars(JanitorEvicts)

FairSpec == Spec /\ Fairness

-----------------------------------------------------------------------------
(* Properties                                                              *)

\* A typing indicator the user sees can still be stopped: its stop function is
\* in the map, about to be recorded, or the janitor removed it by mistake while
\* it evicted an older entry.
TypingCanBeStopped ==
    \A m \in active["typing"] :
        \/ reg["typing"] = m
        \/ hpc[m] = <<"record", "typing">>
        \/ <<"typing", m>> \in misfired

\* The chunks of a reply reach the user in order and at most once, whichever
\* of them were lost and whatever other senders do: an edited placeholder
\* replaces the send, and no chunk is sent again after it succeeded.
ChunksInOrder ==
    \A i, j \in DOMAIN shown :
        (i < j /\ shown[i][1] = shown[j][1]) => shown[i][2] < shown[j][2]

\* A chunk that met a permanent error is given up: it is never shown later.
RefusedIsFinal == \A i \in DOMAIN shown : shown[i] \notin refused

\* No entry stays in the maps: a reply or the janitor removes it, also when
\* the reply never comes.
EntriesAreEvicted ==
    \A r \in Registries, m \in Inbound :
        (reg[r] = m) ~> (reg[r] # m \/ cancelled)

\* A reply is never stuck: every chunk is shown, refused or given up.
RepliesEnd == \A s \in Senders : (spc[s] # "idle") ~> (spc[s] = "idle")

\* "RecordReactionUndo registers a reaction undo function for later
\* invocation": a reaction the user sees can still be undone.
ReactionCanBeUndone ==
    \A m \in active["reaction"] :
        \/ reg["reaction"] = m
        \/ hpc[m] = <<"record", "reaction">>
        \/ <<"reaction", m>> \in misfired

\* README of pkg/channels, "Typing stop functions: 5-minute TTL (auto-calls
\* stop and deletes on expiry)": what the janitor deletes, it stops.
EvictionStops ==
    \A m \in active["typing"] : reg["typing"] = m \/ hpc[m] = <<"record", "typing">>

-----------------------------------------------------------------------------
(* Proofs                                                                  *)

\* A sender that is busy has a reply of its own, and the chunks of it that were
\* shown or refused are before the one in hand; it sleeps only before a retry.
RepliesOwned ==
    /\ \A s \in Senders : spc[s] # "idle" =>
          /\ reply[s] \in 1..count
          /\ \A t \in Senders : spc[t] # "idle" /\ reply[t] = reply[s] => t = s
          /\ spc[s] = "sleep" => attempt[s] < maxRetries
    /\ \A i \in DOMAIN shown : shown[i][1] <= count
    /\ \A x \in refused : x[1] <= count

ChunksBehind ==
    \A s \in Senders : spc[s] # "idle" =>
        /\ \A i \in DOMAIN shown : shown[i][1] = reply[s] => shown[i][2] < chunk[s]
        /\ \A x \in refused : x[1] = reply[s] => x[2] < chunk[s]

IndicatorTypes ==
    /\ hpc \in [Inbound -> {"show", "record"} \X (Registries \cup {"done"})]
    /\ reg \in [Registries -> Inbound \cup {None}]
    /\ active \in [Registries -> SUBSET Inbound]
    /\ old \subseteq Registries
    /\ jan \in (Registries \X Inbound) \cup {<< >>}
    /\ misfired \subseteq Registries \X Inbound

SenderTypes ==
    /\ spc \in [Senders -> {"idle", "limiter", "send", "sleep"} \cup Registries]
    /\ reply \in [Senders -> 0..MaxReplies]
    /\ chunk \in [Senders -> 1..Chunks]
    /\ attempt \in [Senders -> 0..maxRetries]
    /\ count \in 0..MaxReplies
    /\ shown \in Seq(Replies \X (1..Chunks))
    /\ refused \subseteq Replies \X (1..Chunks)

SenderInv ==
    SenderTypes /\ RepliesOwned /\ ChunksBehind /\ ChunksInOrder /\ RefusedIsFinal

IInv ==
    cancelled \in {TRUE, FALSE} /\ IndicatorTypes /\ TypingCanBeStopped /\ SenderInv

LEMMA InitIInv == ASSUME ConstantsAssumption, Init PROVE IInv
<1>1. cancelled \in {TRUE, FALSE}
  BY DEF Init
<1>2. IndicatorTypes /\ TypingCanBeStopped
  BY DEF Init, IndicatorTypes, TypingCanBeStopped, Registries
<1>3. SenderTypes
  BY DEF Init, SenderTypes, ConstantsAssumption
<1>4. RepliesOwned /\ ChunksBehind /\ ChunksInOrder /\ RefusedIsFinal
  BY DEF Init, RepliesOwned, ChunksBehind, ChunksInOrder, RefusedIsFinal
<1> QED
  BY <1>1, <1>2, <1>3, <1>4 DEF IInv, SenderInv

\* Following stays among the registries and "done".
LEMMA FollowingType == ASSUME NEW r PROVE Following(r) \in Registries \cup {"done"}
  BY DEF Following, Registries

-----------------------------------------------------------------------------
\* The handlers: an indicator that is shown is about to be recorded, and one that
\* is replaced is stopped.
LEMMA HandlerSteps ==
  ASSUME IndicatorTypes, TypingCanBeStopped, NEW m \in Inbound, HandlerStep(m)
  PROVE  IndicatorTypes' /\ TypingCanBeStopped' /\ UNCHANGED <<cancelled, sendVars, shown, refused>>
<1> DEFINE r == hpc[m][2]
<1>1. /\ hpc[m] \in {"show", "record"} \X (Registries \cup {"done"})
      /\ hpc[m] = <<hpc[m][1], r>> /\ r \in Registries \cup {"done"}
      /\ Following(r) \in Registries \cup {"done"}
  BY FollowingType DEF IndicatorTypes
<1>2. CASE ShowIndicator(m)
  <2>1. /\ \/ active' = [active EXCEPT ![r] = @ \cup {m}] /\ hpc' = [hpc EXCEPT ![m] = <<"record", r>>]
           \/ active' = active /\ hpc' = [hpc EXCEPT ![m] = <<"show", Following(r)>>]
        /\ UNCHANGED <<reg, old, jan, cancelled, sendVars, histVars>>
        /\ hpc[m][1] = "show"
    BY <1>2 DEF ShowIndicator
  <2>2. IndicatorTypes'
    BY <1>1, <2>1 DEF IndicatorTypes, histVars
  <2>3. ASSUME NEW n \in active'["typing"]
        PROVE  reg'["typing"] = n \/ hpc'[n] = <<"record", "typing">> \/ <<"typing", n>> \in misfired'
    <3>1. /\ hpc \in [Inbound -> {"show", "record"} \X (Registries \cup {"done"})]
          /\ active \in [Registries -> SUBSET Inbound] /\ "typing" \in Registries
      BY DEF IndicatorTypes, Registries
    <3>2. \/ n \in active["typing"]
          \/ n = m /\ r = "typing" /\ hpc' = [hpc EXCEPT ![m] = <<"record", r>>]
      <4>1. CASE active' = active
        BY <2>3, <4>1
      <4>2. CASE active' = [active EXCEPT ![r] = @ \cup {m}]
        <5>1. CASE r = "typing"
          <6>1. active'["typing"] = active["typing"] \cup {m}
            BY <3>1, <4>2, <5>1
          <6>2. active' = active \/ hpc' = [hpc EXCEPT ![m] = <<"record", r>>]
            BY <2>1
          <6> QED
            BY <2>3, <5>1, <6>1, <6>2
        <5>2. CASE r # "typing"
          <6>1. active'["typing"] = active["typing"]
            BY <3>1, <4>2, <5>2
          <6> QED
            BY <2>3, <6>1
        <5> QED
          BY <5>1, <5>2
      <4> QED
        BY <2>1, <4>1, <4>2
    <3>3. CASE n \in active["typing"]
      <4>1. n \in Inbound /\ (n # m => hpc'[n] = hpc[n])
        BY <2>1, <3>1, <3>3
      <4>2. hpc[m] # <<"record", "typing">>
        BY <2>1
      <4> QED
        BY <2>1, <3>3, <4>1, <4>2 DEF TypingCanBeStopped, histVars
    <3>4. CASE n \notin active["typing"]
      BY <3>1, <3>2, <3>4
    <3> QED
      BY <3>3, <3>4
  <2> QED
    BY <2>1, <2>2, <2>3 DEF histVars, TypingCanBeStopped
<1>3. CASE RecordIndicator(m)
  <2>1. /\ active' = [active EXCEPT ![r] = Replaced(r)] /\ reg' = [reg EXCEPT ![r] = m]
        /\ old' = old \ {r} /\ hpc' = [hpc EXCEPT ![m] = <<"show", Following(r)>>]
        /\ UNCHANGED <<jan, cancelled, sendVars, histVars>>
        /\ hpc[m][1] = "record"
    BY <1>3 DEF RecordIndicator
  <2>2. r \in Registries => Replaced(r) \subseteq active[r] /\ Replaced(r) \subseteq Inbound
    BY DEF Replaced, IndicatorTypes
  <2>3. IndicatorTypes'
    BY <1>1, <2>1, <2>2 DEF IndicatorTypes, histVars
  <2>4. active'["typing"] = IF r = "typing" THEN active["typing"] \ {reg["typing"]} ELSE active["typing"]
    BY <1>1, <2>1 DEF IndicatorTypes, Registries, Replaced
  <2>5. ASSUME NEW n \in active'["typing"]
        PROVE  reg'["typing"] = n \/ hpc'[n] = <<"record", "typing">> \/ <<"typing", n>> \in misfired'
    <3>1. /\ hpc \in [Inbound -> {"show", "record"} \X (Registries \cup {"done"})]
          /\ reg \in [Registries -> Inbound \cup {None}]
          /\ active["typing"] \subseteq Inbound /\ "typing" \in Registries
      BY DEF IndicatorTypes, Registries
    <3>2. n \in active["typing"] /\ n \in Inbound /\ (n = reg["typing"] => r # "typing")
      BY <2>4, <2>5, <3>1
    <3>3. n # m => hpc'[n] = hpc[n]
      BY <2>1, <3>1, <3>2
    <3>4. reg'["typing"] = IF r = "typing" THEN m ELSE reg["typing"]
      BY <2>1, <3>1
    <3>5. n = m /\ r # "typing" => hpc[n] # <<"record", "typing">>
      BY <1>1
    <3> QED
      BY <2>1, <3>2, <3>3, <3>4, <3>5 DEF TypingCanBeStopped, histVars
  <2> QED
    BY <2>1, <2>3, <2>5 DEF histVars, TypingCanBeStopped
<1> QED
  BY <1>2, <1>3 DEF HandlerStep

\* Time and the janitor: what is removed in place of another entry is noted.
LEMMA JanitorSteps ==
  ASSUME ConstantsAssumption, IndicatorTypes, TypingCanBeStopped,
         JanitorEvicts \/ \E r \in Registries : Expire(r) \/ JanitorReads(r)
  PROVE  IndicatorTypes' /\ TypingCanBeStopped' /\ UNCHANGED <<cancelled, sendVars, shown, refused>>
<1>1. ASSUME NEW r \in Registries, Expire(r) \/ JanitorReads(r)
      PROVE  IndicatorTypes' /\ TypingCanBeStopped' /\ UNCHANGED <<cancelled, sendVars, shown, refused>>
  BY <1>1 DEF Expire, JanitorReads, handlerVars, regVars, histVars, IndicatorTypes, TypingCanBeStopped
<1>2. CASE JanitorEvicts
  <2>1. PICK r \in Registries, m \in Inbound : jan = <<r, m>>
    BY <1>2 DEF JanitorEvicts, IndicatorTypes
  <2>2. /\ reg' = [reg EXCEPT ![r] = None] /\ old' = old \ {r} /\ jan' = << >>
        /\ active' = IF reg[r] # None /\ r # "placeholder" THEN [active EXCEPT ![r] = @ \ {m}] ELSE active
        /\ misfired' = IF reg[r] \in {None, m} THEN misfired ELSE misfired \cup {<<r, reg[r]>>}
        /\ UNCHANGED <<handlerVars, cancelled, sendVars, shown, refused>>
    BY <1>2, <2>1 DEF JanitorEvicts, LoadAndDelete
  <2>3. reg[r] \in Inbound \cup {None} /\ None \notin Inbound /\ "typing" \in Registries /\ "typing" # "placeholder"
    BY DEF IndicatorTypes, ConstantsAssumption, Registries, None
  <2>4. IndicatorTypes'
    BY <2>1, <2>2, <2>3 DEF IndicatorTypes, handlerVars
  <2>5. ASSUME NEW n \in active'["typing"]
        PROVE  reg'["typing"] = n \/ hpc'[n] = <<"record", "typing">> \/ <<"typing", n>> \in misfired'
    <3>1. n \in active["typing"] /\ n \in Inbound
      BY <2>2, <2>3, <2>5 DEF IndicatorTypes
    <3>2. CASE reg["typing"] = n /\ r = "typing"
      <4>1. n # m
        BY <2>2, <2>3, <2>5, <3>1, <3>2 DEF IndicatorTypes
      <4> QED
        BY <2>2, <2>3, <3>1, <3>2, <4>1
    <3>3. CASE reg["typing"] = n /\ r # "typing"
      BY <2>2, <2>3, <3>3 DEF IndicatorTypes
    <3>4. CASE reg["typing"] # n
      BY <2>2, <3>1, <3>4 DEF TypingCanBeStopped, handlerVars
    <3> QED
      BY <3>2, <3>3, <3>4
  <2> QED
    BY <2>2, <2>4, <2>5 DEF TypingCanBeStopped
<1> QED
  BY <1>1, <1>2

-----------------------------------------------------------------------------
\* What a step of sender s does to the senders' state: it shows or refuses at most
\* the chunk in hand, and then goes on to the next one.
LEMMA ChunkDone ==
  ASSUME ConstantsAssumption, SenderInv, NEW s \in Senders, spc[s] # "idle", SendReturns(s),
         \/ shown' = shown /\ refused' = refused
         \/ Show(s) /\ refused' = refused
         \/ shown' = shown /\ refused' = refused \cup {<<reply[s], chunk[s]>>}
  PROVE  SenderInv'
<1> DEFINE x == <<reply[s], chunk[s]>>
<1>1. /\ chunk[s] \in 1..Chunks /\ reply[s] \in Replies /\ Chunks \in Nat /\ maxRetries \in Nat
      /\ reply[s] \in 1..count /\ count \in Nat
  BY DEF SenderInv, SenderTypes, RepliesOwned, ConstantsAssumption, Replies
<1>2. x \in Replies \X (1..Chunks) /\ x[1] = reply[s] /\ x[2] = chunk[s]
  BY <1>1
<1>3. /\ \A t \in Senders \ {s} : spc'[t] = spc[t] /\ reply'[t] = reply[t] /\ chunk'[t] = chunk[t] /\ attempt'[t] = attempt[t]
      /\ spc'[s] # "idle" => reply'[s] = reply[s] /\ chunk'[s] = chunk[s] + 1 /\ spc'[s] = "limiter"
      /\ count' = count
  BY DEF SendReturns, SenderInv, SenderTypes
<1>4. /\ spc' \in [Senders -> {"idle", "limiter", "send", "sleep"} \cup Registries]
      /\ reply' \in [Senders -> 0..MaxReplies]
      /\ chunk' \in [Senders -> 1..Chunks]
      /\ attempt' \in [Senders -> 0..maxRetries]
  <2>1. chunk[s] < Chunks => chunk[s] + 1 \in 1..Chunks
    BY <1>1
  <2>2. 1 \in 1..Chunks /\ 0 \in 0..maxRetries /\ 0 \in 0..MaxReplies
    BY <1>1 DEF ConstantsAssumption
  <2> QED
    BY <2>1, <2>2 DEF SendReturns, SenderInv, SenderTypes
<1>5. /\ shown' \in Seq(Replies \X (1..Chunks)) /\ refused' \subseteq Replies \X (1..Chunks)
      /\ \A i \in DOMAIN shown' : (i \in DOMAIN shown /\ shown'[i] = shown[i])
                                \/ (shown'[i] = x /\ \A j \in DOMAIN shown' : j <= i)
      /\ DOMAIN shown' \subseteq Nat
  <2>1. shown \in Seq(Replies \X (1..Chunks)) /\ refused \subseteq Replies \X (1..Chunks)
    BY DEF SenderInv, SenderTypes
  <2>2. CASE shown' = shown
    BY <1>2, <2>1, <2>2 DEF Show
  <2>3. CASE shown' = Append(shown, x) /\ refused' = refused
    <3>1. x \in Replies \X (1..Chunks)
      BY <1>2
    <3> HIDE DEF x
    <3>2. shown' \in Seq(Replies \X (1..Chunks)) /\ Len(shown) \in Nat
      BY <2>1, <2>3, <3>1
    <3>3. DOMAIN shown = 1..Len(shown) /\ DOMAIN shown' = 1..(Len(shown) + 1)
      BY <2>1, <2>3, <3>1
    <3>4. shown'[Len(shown) + 1] = x /\ \A i \in 1..Len(shown) : shown'[i] = shown[i]
      BY <2>1, <2>3, <3>1
    <3>5. \A i \in DOMAIN shown' : i \in 1..Len(shown) \/ i = Len(shown) + 1
      BY <3>2, <3>3
    <3>6. \A j \in DOMAIN shown' : j <= Len(shown) + 1
      BY <3>2, <3>3
    <3>7. \A i \in DOMAIN shown' : (i \in DOMAIN shown /\ shown'[i] = shown[i])
                                  \/ (shown'[i] = x /\ \A j \in DOMAIN shown' : j <= i)
      BY <3>3, <3>4, <3>5, <3>6
    <3>8. DOMAIN shown' \subseteq Nat
      BY <3>2, <3>3
    <3>9. refused' \subseteq Replies \X (1..Chunks)
      BY <2>1, <2>3
    <3> QED
      BY <3>2, <3>7, <3>8, <3>9
  <2> QED
    BY <2>2, <2>3 DEF Show
<1>6. \A i \in DOMAIN shown : shown[i] \in Replies \X (1..Chunks)
  BY DEF SenderInv, SenderTypes
<1>7. \A i \in DOMAIN shown' : (i \in DOMAIN shown /\ shown'[i] = shown[i]) \/ shown'[i] = x
  BY <1>5
<1>8. \A y \in refused' : y \in refused \/ y = x
  BY DEF Show
<1>9. SenderTypes'
  BY <1>3, <1>4, <1>5 DEF SenderInv, SenderTypes
<1>10. RepliesOwned'
  <2>1. ASSUME NEW t \in Senders, spc'[t] # "idle"
        PROVE  /\ spc[t] # "idle" /\ reply'[t] = reply[t]
               /\ spc'[t] = "sleep" => spc[t] = "sleep" /\ attempt'[t] = attempt[t]
    BY <1>3, <2>1
  <2>2. \A t \in Senders : spc'[t] # "idle" =>
          /\ reply'[t] \in 1..count'
          /\ \A u \in Senders : spc'[u] # "idle" /\ reply'[u] = reply'[t] => u = t
          /\ spc'[t] = "sleep" => attempt'[t] < maxRetries
    BY <1>3, <2>1 DEF SenderInv, RepliesOwned
  <2>3. (\A i \in DOMAIN shown' : shown'[i][1] <= count') /\ \A y \in refused' : y[1] <= count'
    BY <1>1, <1>2, <1>3, <1>7, <1>8 DEF SenderInv, RepliesOwned
  <2> QED
    BY <2>2, <2>3 DEF RepliesOwned
<1>11. ChunksBehind'
  <2> SUFFICES ASSUME NEW t \in Senders, spc'[t] # "idle"
      PROVE  /\ \A i \in DOMAIN shown' : shown'[i][1] = reply'[t] => shown'[i][2] < chunk'[t]
             /\ \A y \in refused' : y[1] = reply'[t] => y[2] < chunk'[t]
    BY DEF ChunksBehind
  <2>1. CASE t = s
    <3>1. /\ \A i \in DOMAIN shown : shown[i][1] = reply[s] => shown[i][2] < chunk[s]
          /\ \A y \in refused : y[1] = reply[s] => y[2] < chunk[s]
      BY DEF SenderInv, ChunksBehind
    <3>2. (\A i \in DOMAIN shown : shown[i][2] \in Nat) /\ \A y \in refused : y[2] \in Nat
      BY <1>6 DEF SenderInv, SenderTypes
    <3>3. \A n \in Nat : n < chunk[s] => n < chunk[s] + 1
      BY <1>1
    <3>4. chunk[s] < chunk[s] + 1
      BY <1>1
    <3> QED
      BY <1>2, <1>3, <1>7, <1>8, <2>1, <3>1, <3>2, <3>3, <3>4
  <2>2. CASE t # s
    <3>1. spc[t] # "idle" /\ reply'[t] = reply[t] /\ chunk'[t] = chunk[t] /\ reply[t] # reply[s]
      BY <1>3, <2>2 DEF SenderInv, RepliesOwned
    <3> QED
      BY <1>2, <1>7, <1>8, <3>1 DEF SenderInv, ChunksBehind
  <2> QED
    BY <2>1, <2>2
<1>12. ChunksInOrder'
  <2> SUFFICES ASSUME NEW i \in DOMAIN shown', NEW j \in DOMAIN shown', i < j, shown'[i][1] = shown'[j][1]
               PROVE  shown'[i][2] < shown'[j][2]
    BY DEF ChunksInOrder
  <2>1. i \in DOMAIN shown /\ shown'[i] = shown[i]
    <3>1. i \in Nat /\ j \in Nat /\ ~(j <= i)
      BY <1>5
    <3> QED
      BY <1>5, <3>1
  <2>2. CASE j \in DOMAIN shown /\ shown'[j] = shown[j]
    BY <2>1, <2>2 DEF SenderInv, ChunksInOrder
  <2>3. CASE shown'[j] = x
    BY <1>2, <2>1, <2>3 DEF SenderInv, ChunksBehind
  <2> QED
    BY <1>7, <2>2, <2>3
<1>13. RefusedIsFinal'
  <2>1. \A i \in DOMAIN shown : shown[i] # x
    BY <1>1, <1>2 DEF SenderInv, ChunksBehind
  <2>2. x \notin refused
    BY <1>1, <1>2 DEF SenderInv, ChunksBehind
  <2>3. CASE refused' = refused
    BY <1>7, <2>2, <2>3 DEF SenderInv, RefusedIsFinal
  <2>4. CASE shown' = shown /\ refused' = refused \cup {x}
    BY <2>1, <2>4 DEF SenderInv, RefusedIsFinal
  <2> QED
    BY <2>3, <2>4
<1> QED
  BY <1>9, <1>10, <1>11, <1>12, <1>13 DEF SenderInv

\* A sender that goes on with the chunk in hand.
LEMMA SenderGoesOn ==
  ASSUME SenderInv, NEW s \in Senders, spc[s] # "idle",
         NEW pc \in {"limiter", "send", "sleep"} \cup Registries, pc = "sleep" => attempt'[s] < maxRetries,
         spc' = [spc EXCEPT ![s] = pc], attempt' \in [Senders -> 0..maxRetries],
         \A t \in Senders \ {s} : attempt'[t] = attempt[t],
         UNCHANGED <<reply, chunk, count, shown, refused>>
  PROVE  SenderInv'
<1>1. spc \in [Senders -> {"idle", "limiter", "send", "sleep"} \cup Registries]
  BY DEF SenderInv, SenderTypes
<1>2. \A t \in Senders : spc'[t] # "idle" => spc[t] # "idle"
  BY <1>1
<1>3. SenderTypes'
  BY <1>1 DEF SenderInv, SenderTypes
<1>4. \A t \in Senders : spc'[t] = "sleep" => attempt'[t] < maxRetries
  BY <1>1 DEF SenderInv, RepliesOwned
<1>5. RepliesOwned'
  BY <1>2, <1>4 DEF SenderInv, RepliesOwned
<1>6. ChunksBehind' /\ ChunksInOrder' /\ RefusedIsFinal'
  BY <1>2 DEF SenderInv, ChunksBehind, ChunksInOrder, RefusedIsFinal
<1> QED
  BY <1>3, <1>5, <1>6 DEF SenderInv

\* BeginReply takes the next number, which nothing carries yet.
LEMMA BeginSteps ==
  ASSUME ConstantsAssumption, SenderInv, NEW s \in Senders, BeginReply(s)
  PROVE  SenderInv'
<1>1. /\ count \in 0..MaxReplies /\ count < MaxReplies /\ MaxReplies \in Nat /\ count' = count + 1
      /\ 1 \in 1..Chunks
      /\ reply' = [reply EXCEPT ![s] = count + 1] /\ chunk' = [chunk EXCEPT ![s] = 1]
      /\ spc' = [spc EXCEPT ![s] = "limiter"] /\ spc[s] = "idle"
      /\ UNCHANGED <<attempt, shown, refused>>
  BY DEF BeginReply, SenderInv, SenderTypes, ConstantsAssumption, histVars
<1>2. count + 1 \in 0..MaxReplies /\ count + 1 \in 1..(count + 1)
  BY <1>1
<1>3. SenderTypes'
  BY <1>1, <1>2 DEF SenderInv, SenderTypes
<1>4. \A t \in Senders : IF t = s THEN spc'[t] = "limiter" /\ reply'[t] = count + 1 /\ chunk'[t] = 1
                         ELSE spc'[t] = spc[t] /\ reply'[t] = reply[t] /\ chunk'[t] = chunk[t]
  BY <1>1 DEF SenderInv, SenderTypes
<1>5. /\ \A i \in DOMAIN shown : shown[i][1] \in Nat /\ shown[i][1] <= count
      /\ \A x \in refused : x[1] \in Nat /\ x[1] <= count
  <2>1. \A i \in DOMAIN shown : shown[i] \in Replies \X (1..Chunks)
    BY DEF SenderInv, SenderTypes
  <2> QED
    BY <2>1 DEF SenderInv, SenderTypes, RepliesOwned, Replies
<1>6. \A t \in Senders : spc[t] # "idle" => reply[t] \in 1..count /\ reply[t] # count + 1 /\ reply[t] \in 1..(count + 1)
  BY <1>1 DEF SenderInv, RepliesOwned
<1>7. RepliesOwned'
  <2>1. (\A i \in DOMAIN shown : shown[i][1] <= count + 1) /\ \A x \in refused : x[1] <= count + 1
    BY <1>1, <1>5
  <2>2. \A t \in Senders : spc'[t] # "idle" =>
          /\ reply'[t] \in 1..count'
          /\ \A u \in Senders : spc'[u] # "idle" /\ reply'[u] = reply'[t] => u = t
          /\ spc'[t] = "sleep" => attempt'[t] < maxRetries
    BY <1>1, <1>2, <1>4, <1>6 DEF SenderInv, RepliesOwned
  <2> QED
    BY <1>1, <2>1, <2>2 DEF RepliesOwned
<1>8. ChunksBehind'
  <2>1. (\A i \in DOMAIN shown : shown[i][1] # count + 1) /\ \A x \in refused : x[1] # count + 1
    BY <1>1, <1>5
  <2> QED
    BY <1>1, <1>4, <2>1 DEF SenderInv, ChunksBehind
<1>9. ChunksInOrder' /\ RefusedIsFinal'
  BY <1>1 DEF SenderInv, ChunksInOrder, RefusedIsFinal
<1> QED
  BY <1>3, <1>7, <1>8, <1>9 DEF SenderInv

-----------------------------------------------------------------------------
\* The senders touch an entry only to remove it, with its indicator.
LEMMA SenderSteps ==
  ASSUME ConstantsAssumption, IInv, NEW s \in Senders, SenderStep(s)
  PROVE  IInv'
<1>0. /\ SenderInv /\ ConstantsAssumption /\ attempt \in [Senders -> 0..maxRetries] /\ maxRetries \in Nat
      /\ attempt[s] \in 0..maxRetries
  BY DEF IInv, SenderInv, SenderTypes, ConstantsAssumption
<1>1. ASSUME UNCHANGED <<handlerVars, regVars, jan, misfired>>
      PROVE  IndicatorTypes' /\ TypingCanBeStopped'
  BY <1>1 DEF IInv, IndicatorTypes, TypingCanBeStopped, handlerVars, regVars
<1>2. ASSUME SendReturns(s), spc[s] # "idle", UNCHANGED <<shown, refused>> PROVE SenderInv'
  BY <1>0, <1>2, ChunkDone
<1>3. ASSUME NEW pc \in {"limiter", "send"} \cup Registries, SenderGoesTo(s, pc), spc[s] # "idle",
             UNCHANGED <<shown, refused>>
      PROVE  SenderInv'
  <2>1. pc # "sleep"
    BY <1>3 DEF Registries
  <2> QED
    BY <1>0, <1>3, <2>1, SenderGoesOn DEF SenderGoesTo
<1>4. cancelled' = cancelled
  BY DEF SenderStep, RateLimit, ClearIndicator, EditPlaceholder, SendSucceeds, SendRefused, SendFails,
     WakeUp, SleepCancelled
<1>5. CASE RateLimit(s)
  BY <1>1, <1>2, <1>3, <1>4, <1>5 DEF RateLimit, histVars, IInv, Registries
<1>6. CASE ClearIndicator(s)
  <2> DEFINE r == spc[s]
  <2>1. /\ r \in {"typing", "reaction"} /\ r \in Registries /\ r # "idle"
        /\ reg' = [reg EXCEPT ![r] = None] /\ old' = old \ {r}
        /\ active' = [active EXCEPT ![r] = @ \ {reg[r]}]
        /\ SenderGoesTo(s, Following(r))
        /\ UNCHANGED <<hpc, jan, cancelled, shown, refused, misfired>>
    BY <1>6 DEF ClearIndicator, LoadAndDelete, handlerVars, histVars, Registries
  <2>2. Following(r) \in Registries
    BY <2>1 DEF Following, Registries
  <2>3. SenderInv'
    BY <1>3, <2>1, <2>2
  <2>4. IndicatorTypes'
    BY <2>1 DEF IInv, IndicatorTypes
  <2>5. TypingCanBeStopped'
    BY <2>1 DEF IInv, IndicatorTypes, TypingCanBeStopped, Registries
  <2> QED
    BY <1>4, <2>3, <2>4, <2>5 DEF IInv
<1>7. CASE EditPlaceholder(s)
  <2>1. /\ spc[s] = "placeholder"
        /\ reg' = [reg EXCEPT !["placeholder"] = None] /\ old' = old \ {"placeholder"}
        /\ active' = active \/ active' = [active EXCEPT !["placeholder"] = @ \ {reg["placeholder"]}]
        /\ UNCHANGED <<hpc, jan, cancelled, refused, misfired>>
        /\ \/ Show(s) /\ SendReturns(s)
           \/ SenderGoesTo(s, "send") /\ shown' = shown
    BY <1>7 DEF EditPlaceholder, LoadAndDelete, handlerVars
  <2>2. SenderInv'
    BY <1>0, <1>3, <2>1, ChunkDone
  <2>3. IndicatorTypes'
    BY <2>1 DEF IInv, IndicatorTypes
  <2>4. TypingCanBeStopped'
    BY <2>1 DEF IInv, IndicatorTypes, TypingCanBeStopped, Registries
  <2> QED
    BY <1>4, <2>2, <2>3, <2>4 DEF IInv
<1>8. CASE SendSucceeds(s)
  <2>1. spc[s] # "idle" /\ Show(s) /\ SendReturns(s) /\ UNCHANGED <<handlerVars, regVars, jan, refused, misfired>>
    BY <1>8 DEF SendSucceeds
  <2> QED
    BY <1>0, <1>1, <1>4, <2>1, ChunkDone DEF IInv
<1>9. CASE SendRefused(s)
  <2>1. spc[s] # "idle" /\ refused' = refused \cup {<<reply[s], chunk[s]>>} /\ SendReturns(s)
        /\ UNCHANGED <<handlerVars, regVars, jan, shown, misfired>>
    BY <1>9 DEF SendRefused
  <2> QED
    BY <1>0, <1>1, <1>4, <2>1, ChunkDone DEF IInv
<1>10. CASE SendFails(s)
  <2>1. spc[s] # "idle" /\ UNCHANGED <<handlerVars, regVars, jan, shown, refused, misfired>>
    BY <1>10 DEF SendFails, histVars
  <2>2. CASE attempt[s] = maxRetries
    BY <1>1, <1>2, <1>4, <1>10, <2>1, <2>2 DEF SendFails, IInv
  <2>3. CASE attempt[s] # maxRetries
    <3>1. attempt[s] < maxRetries
      BY <1>0, <2>3
    <3>2. SenderInv'
      BY <1>0, <1>10, <2>1, <2>3, <3>1, SenderGoesOn DEF SendFails, SenderGoesTo
    <3> QED
      BY <1>1, <1>4, <2>1, <3>2 DEF IInv
  <2> QED
    BY <2>2, <2>3
<1>11. CASE WakeUp(s)
  <2>1. /\ spc[s] # "idle" /\ spc' = [spc EXCEPT ![s] = "send"] /\ attempt' = [attempt EXCEPT ![s] = @ + 1]
        /\ UNCHANGED <<handlerVars, regVars, jan, reply, chunk, count, shown, refused, misfired>>
    BY <1>11 DEF WakeUp, histVars
  <2>2. attempt[s] < maxRetries
    BY <1>11 DEF WakeUp, IInv, SenderInv, RepliesOwned
  <2>3. attempt[s] + 1 \in 0..maxRetries
    BY <1>0, <2>2
  <2>4. attempt' \in [Senders -> 0..maxRetries] /\ \A t \in Senders \ {s} : attempt'[t] = attempt[t]
    BY <1>0, <2>1, <2>3
  <2>5. SenderInv'
    BY <1>0, <2>1, <2>4, SenderGoesOn
  <2> QED
    BY <1>1, <1>4, <2>1, <2>5 DEF IInv
<1>12. CASE SleepCancelled(s)
  BY <1>1, <1>2, <1>4, <1>12 DEF SleepCancelled, histVars, IInv
<1> QED
  BY <1>5, <1>6, <1>7, <1>8, <1>9, <1>10, <1>11, <1>12 DEF SenderStep

LEMMA NextIInv == ASSUME ConstantsAssumption, IInv, [Next]_vars PROVE IInv'
<1>1. ASSUME UNCHANGED <<sendVars, shown, refused>> PROVE SenderInv'
  BY <1>1 DEF sendVars, IInv, SenderInv, SenderTypes, RepliesOwned, ChunksBehind, ChunksInOrder, RefusedIsFinal
<1>2. ASSUME UNCHANGED <<handlerVars, regVars, jan, misfired>> PROVE IndicatorTypes' /\ TypingCanBeStopped'
  BY <1>2 DEF IInv, IndicatorTypes, TypingCanBeStopped, handlerVars, regVars
<1>3. ASSUME NEW m \in Inbound, HandlerStep(m) PROVE IInv'
  BY <1>1, <1>3, HandlerSteps DEF IInv
<1>4. CASE JanitorEvicts \/ \E r \in Registries : Expire(r) \/ JanitorReads(r)
  BY <1>1, <1>4, JanitorSteps DEF IInv
<1>5. ASSUME NEW s \in Senders, BeginReply(s) PROVE IInv'
  <2>1. UNCHANGED <<handlerVars, regVars, jan, misfired, cancelled>>
    BY <1>5 DEF BeginReply, histVars
  <2> QED
    BY <1>2, <1>5, <2>1, BeginSteps DEF IInv
<1>6. CASE Cancel
  <2>1. UNCHANGED <<handlerVars, regVars, jan, sendVars, shown, refused, misfired>>
    BY <1>6 DEF Cancel, histVars
  <2>2. cancelled' \in {TRUE, FALSE}
    BY <1>6 DEF Cancel
  <2> QED
    BY <1>1, <1>2, <2>1, <2>2 DEF IInv
<1>7. CASE UNCHANGED vars
  <2>1. UNCHANGED <<handlerVars, regVars, jan, sendVars, shown, refused, misfired>> /\ cancelled' = cancelled
    BY <1>7 DEF vars, histVars
  <2> QED
    BY <1>1, <1>2, <2>1 DEF IInv
<1> QED
  BY <1>3, <1>4, <1>5, <1>6, <1>7, SenderSteps DEF Next

LEMMA IInvImplies == IInv => TypeOK /\ TypingCanBeStopped /\ ChunksInOrder /\ RefusedIsFinal
<1>1. cancelled \in {TRUE, FALSE} => cancelled \in BOOLEAN
  OBVIOUS
<1> QED
  BY <1>1 DEF IInv, SenderInv, TypeOK, IndicatorTypes, SenderTypes

\* For any number of messages, senders, chunks and retries: an indicator that is
\* shown can be stopped, chunks are shown in order and once, a refused one never.
THEOREM DeliveryKeepsOrder ==
  ASSUME ConstantsAssumption
  PROVE  Spec => [](TypeOK /\ TypingCanBeStopped /\ ChunksInOrder /\ RefusedIsFinal)
<1>1. Init => IInv
  BY InitIInv
<1>2. IInv /\ [Next]_vars => IInv'
  BY NextIInv
<1> QED
  BY <1>1, <1>2, IInvImplies, PTL DEF Spec
=============================================================================
