---------------------------- MODULE AgentsProofs ----------------------------
(***************************************************************************)
(* What an agent's turn stands on, for any values of the constants: the    *)
(* fallback chain (any callers, providers, candidates, errors and clock),  *)
(* the loop (one agent; any messages, calls, tasks and reloads), the       *)
(* registry of tools (one turn at a time), the MCP servers, the start of   *)
(* the sessions, their store, which implements SessionStore, the turns of  *)
(* a session beside its summarizer, and routing; at the end what the run   *)
(* of MCAgents checks.                                                     *)
(***************************************************************************)
EXTENDS MCAgents, FiniteSetTheorems, WellFoundedInduction, TLAPS

-----------------------------------------------------------------------------
(* FallbackChain                                                           *)

TrackerOK ==
    /\ errorCount \in [Providers -> Nat]
    /\ billing \in [Providers -> Nat]
    /\ cooldown \in [Providers -> Nat]
    /\ disabled \in [Providers -> Nat]
    /\ since \in [Providers -> Nat \cup {Never}]

CallsOK ==
    /\ pc \in [Callers -> {"idle", "next", "run"}]
    /\ at \in [Callers -> 1..Len(Candidates)]
    /\ attempts \in [Callers -> Seq({"failed", "skipped"})]
    /\ canceled \subseteq Callers
    /\ outcome \in [Callers -> Outcomes]

\* What the time left was computed from: no more than the present counts give.
Graded ==
    \A p \in Providers :
        /\ cooldown[p] <= calculateStandardCooldown(errorCount[p])
        /\ disabled[p] <= calculateBillingCooldown(billing[p])

Inv == TrackerOK /\ BackInTime /\ Graded

LEMMA Count == Len(Candidates) \in Nat /\ Len(Candidates) >= 1
BY CandidatesAssumption

LEMMA ProviderOf == ASSUME NEW i \in 1..Len(Candidates) PROVE Candidates[i] \in Providers
BY CandidatesAssumption

-----------------------------------------------------------------------------

\* MarkFailure keeps the tracker consistent.
LEMMA MarkFailureInv ==
    ASSUME Inv, NEW p \in Providers, NEW reason, MarkFailure(p, reason)
    PROVE  Inv'
<1> DEFINE n == IF WindowOver(p) THEN 1 ELSE errorCount[p] + 1
           b == (IF WindowOver(p) THEN 0 ELSE billing[p]) + (IF reason = "billing" THEN 1 ELSE 0)
<1>1. n \in Nat /\ b \in Nat /\ n >= 1
  BY DEF Inv, TrackerOK
<1>2. reason = "billing" => b >= 1
  BY DEF Inv, TrackerOK
<1>3. /\ errorCount' = [errorCount EXCEPT ![p] = n]
      /\ billing' = [billing EXCEPT ![p] = b]
      /\ since' = [since EXCEPT ![p] = 0]
      /\ disabled' = [disabled EXCEPT ![p] = IF reason = "billing" THEN calculateBillingCooldown(b) ELSE @]
      /\ cooldown' = [cooldown EXCEPT ![p] = IF reason = "billing" THEN @ ELSE calculateStandardCooldown(n)]
  BY DEF MarkFailure
<1>4. WindowOver(p) => cooldown[p] = 0 /\ disabled[p] = 0
  BY DEF Inv, TrackerOK, BackInTime, WindowOver, IsAvailable, failureWindow, Never
<1> HIDE DEF n, b
<1>5. /\ calculateStandardCooldown(n) \in 1..60
      /\ calculateBillingCooldown(b) \in 1..1440
  BY <1>1 DEF calculateStandardCooldown, calculateBillingCooldown
<1>6. TrackerOK'
  BY <1>1, <1>3, <1>5 DEF Inv, TrackerOK
<1>7. BackInTime'
  <2> SUFFICES ASSUME NEW q \in Providers
               PROVE  /\ (~IsAvailable(q) => since[q] # Never)'
                      /\ (cooldown[q] > 0 => since[q] + cooldown[q] <= 60)'
                      /\ (disabled[q] > 0 => since[q] + disabled[q] <= failureWindow)'
    BY DEF BackInTime
  <2>1. CASE q # p
    BY <2>1, <1>3 DEF Inv, TrackerOK, BackInTime, IsAvailable
  <2>2. CASE q = p
    <3>1. since'[p] = 0
      BY <1>3 DEF Inv, TrackerOK
    <3>2. cooldown'[p] <= 60 /\ cooldown'[p] \in Nat
      BY <1>3, <1>5 DEF Inv, TrackerOK, BackInTime, IsAvailable, Never
    <3>3. disabled'[p] <= 1440 /\ disabled'[p] \in Nat
      BY SMTT(60), <1>3, <1>5 DEF Inv, TrackerOK, BackInTime, IsAvailable, Never, failureWindow
    <3> QED
      BY <2>2, <3>1, <3>2, <3>3 DEF IsAvailable, Never, failureWindow
  <2> QED
    BY <2>1, <2>2
<1>8. Graded'
  <2> SUFFICES ASSUME NEW q \in Providers
               PROVE  /\ cooldown'[q] <= calculateStandardCooldown(errorCount'[q])
                      /\ disabled'[q] <= calculateBillingCooldown(billing'[q])
    BY DEF Graded, calculateStandardCooldown, calculateBillingCooldown
  <2>1. CASE q # p
    BY <2>1, <1>3 DEF Inv, TrackerOK, Graded
  <2>2. CASE q = p
    <3>1. errorCount'[p] = n /\ billing'[p] = b
      BY <1>3 DEF Inv, TrackerOK
    <3>2. cooldown[p] <= calculateStandardCooldown(n)
      BY <1>4 DEF n, Inv, TrackerOK, Graded, calculateStandardCooldown
    <3>3. disabled[p] <= calculateBillingCooldown(b)
      BY <1>4 DEF b, Inv, TrackerOK, Graded, calculateBillingCooldown
    <3>4. cooldown'[p] <= calculateStandardCooldown(n)
      BY <1>3, <1>5, <3>2 DEF Inv, TrackerOK
    <3>5. disabled'[p] <= calculateBillingCooldown(b)
      BY <1>3, <1>5, <3>3 DEF Inv, TrackerOK
    <3> QED
      BY <2>2, <3>1, <3>4, <3>5
  <2> QED
    BY <2>1, <2>2
<1> QED
  BY <1>6, <1>7, <1>8 DEF Inv

\* MarkFailure lengthens what runs, or leaves it.
LEMMA MarkFailureLengthens ==
    ASSUME Inv, NEW p \in Providers, NEW reason, MarkFailure(p, reason), NEW q \in Providers
    PROVE  cooldown'[q] >= cooldown[q] /\ disabled'[q] >= disabled[q]
<1> DEFINE n == IF WindowOver(p) THEN 1 ELSE errorCount[p] + 1
           b == (IF WindowOver(p) THEN 0 ELSE billing[p]) + (IF reason = "billing" THEN 1 ELSE 0)
<1>1. /\ disabled' = [disabled EXCEPT ![p] = IF reason = "billing" THEN calculateBillingCooldown(b) ELSE @]
      /\ cooldown' = [cooldown EXCEPT ![p] = IF reason = "billing" THEN @ ELSE calculateStandardCooldown(n)]
  BY DEF MarkFailure
<1>2. WindowOver(p) => cooldown[p] = 0 /\ disabled[p] = 0
  BY DEF Inv, TrackerOK, BackInTime, WindowOver, IsAvailable, failureWindow, Never
<1>3. cooldown[p] <= calculateStandardCooldown(n)
  BY <1>2 DEF Inv, TrackerOK, Graded, calculateStandardCooldown
<1>4. disabled[p] <= calculateBillingCooldown(b)
  BY <1>2 DEF Inv, TrackerOK, Graded, calculateBillingCooldown
<1>5. calculateStandardCooldown(n) \in Nat /\ calculateBillingCooldown(b) \in Nat
  BY DEF calculateStandardCooldown, calculateBillingCooldown
<1> HIDE DEF n, b
<1> QED
  BY <1>1, <1>3, <1>4, <1>5 DEF Inv, TrackerOK

LEMMA MarkSuccessInv ==
    ASSUME Inv, NEW p \in Providers, MarkSuccess(p)
    PROVE  Inv'
<1>1. TrackerOK'
  BY DEF Inv, TrackerOK, MarkSuccess
<1>2. BackInTime'
  BY DEF Inv, TrackerOK, BackInTime, MarkSuccess, IsAvailable
<1>3. Graded'
  <2>1. 0 <= calculateStandardCooldown(0) /\ 0 <= calculateBillingCooldown(0)
    BY DEF calculateStandardCooldown, calculateBillingCooldown
  <2> QED
    BY <2>1 DEF Inv, TrackerOK, Graded, MarkSuccess
<1> QED
  BY <1>1, <1>2, <1>3 DEF Inv

LEMMA AdvanceInv ==
    ASSUME Inv, NEW d \in Durations, Advance(d)
    PROVE  Inv'
<1>0. d \in Nat
  BY BoundsAssumption
<1>1. ASSUME NEW t \in Nat PROVE Less(t, d) \in Nat /\ Less(t, d) <= t /\ (Less(t, d) > 0 => Less(t, d) + d = t)
  BY <1>0 DEF Less
<1>2. \A p \in Providers :
          /\ cooldown'[p] = Less(cooldown[p], d)
          /\ disabled'[p] = Less(disabled[p], d)
          /\ since'[p] = IF since[p] = Never THEN Never ELSE since[p] + d
          /\ cooldown[p] \in Nat
          /\ disabled[p] \in Nat
          /\ since[p] \in Nat \cup {Never}
  BY DEF Advance, Inv, TrackerOK
<1>3. TrackerOK'
  <2>1. cooldown' \in [Providers -> Nat] /\ disabled' \in [Providers -> Nat]
    BY <1>1 DEF Advance, Inv, TrackerOK
  <2>2. since' \in [Providers -> Nat \cup {Never}]
    BY <1>0 DEF Advance, Inv, TrackerOK, Never
  <2> QED
    BY <2>1, <2>2 DEF Advance, Inv, TrackerOK
<1>4. BackInTime'
  <2> SUFFICES ASSUME NEW p \in Providers
               PROVE  /\ ~(disabled'[p] = 0 /\ cooldown'[p] = 0) => since'[p] # Never
                      /\ cooldown'[p] > 0 => since'[p] + cooldown'[p] <= 60
                      /\ disabled'[p] > 0 => since'[p] + disabled'[p] <= failureWindow
    BY DEF BackInTime, IsAvailable
  <2>1. /\ cooldown'[p] \in Nat
        /\ disabled'[p] \in Nat
        /\ cooldown'[p] > 0 => cooldown'[p] + d = cooldown[p]
        /\ disabled'[p] > 0 => disabled'[p] + d = disabled[p]
    BY <1>1, <1>2
  <2> QED
    BY <2>1, <1>0, <1>2 DEF Inv, BackInTime, IsAvailable, Never, failureWindow
<1>5. Graded'
  <2> SUFFICES ASSUME NEW p \in Providers
               PROVE  /\ cooldown'[p] <= calculateStandardCooldown(errorCount[p])
                      /\ disabled'[p] <= calculateBillingCooldown(billing[p])
    BY DEF Graded, Advance
  <2>1. /\ calculateStandardCooldown(errorCount[p]) \in Nat
        /\ calculateBillingCooldown(billing[p]) \in Nat
    BY DEF calculateStandardCooldown, calculateBillingCooldown
  <2>2. cooldown'[p] \in Nat /\ disabled'[p] \in Nat /\ cooldown'[p] <= cooldown[p] /\ disabled'[p] <= disabled[p]
    BY <1>1, <1>2
  <2> QED
    BY <2>1, <2>2, <1>2 DEF Inv, Graded
<1> QED
  BY <1>3, <1>4, <1>5 DEF Inv

-----------------------------------------------------------------------------

LEMMA InitInv == Init => Inv /\ CallsOK /\ steps \in Nat
<1> SUFFICES ASSUME Init PROVE Inv /\ CallsOK /\ steps \in Nat
  OBVIOUS
<1>1. TrackerOK
  BY DEF Init, TrackerOK
<1>2. BackInTime
  BY DEF Init, BackInTime, IsAvailable
<1>3. Graded
  <2>1. 0 <= calculateStandardCooldown(0) /\ 0 <= calculateBillingCooldown(0)
    BY DEF calculateStandardCooldown, calculateBillingCooldown
  <2> QED
    BY <2>1 DEF Init, Graded
<1>4. CallsOK
  <2>1. 1 \in 1..Len(Candidates)
    BY Count
  <2> QED
    BY <2>1 DEF Init, CallsOK, Outcomes
<1>5. steps \in Nat
  BY DEF Init
<1> QED
  BY <1>1, <1>2, <1>3, <1>4, <1>5 DEF Inv

\* A candidate is done with: the caller's state stays well typed.
LEMMA NextCandidateOK ==
    ASSUME CallsOK, NEW c \in Callers, NEW a \in {"failed", "skipped"},
           NextCandidate(c, a), canceled' = canceled
    PROVE  CallsOK'
<1>1. attempts' \in [Callers -> Seq({"failed", "skipped"})]
  <2>1. attempts[c] \in Seq({"failed", "skipped"})
    BY DEF CallsOK
  <2>2. Append(attempts[c], a) \in Seq({"failed", "skipped"})
    BY <2>1
  <2> QED
    BY <2>2 DEF NextCandidate, CallsOK
<1>2. CASE at[c] = Len(Candidates)
  BY <1>1, <1>2 DEF NextCandidate, Return, CallsOK, Outcomes
<1>3. CASE at[c] # Len(Candidates)
  <2>1. at[c] + 1 \in 1..Len(Candidates)
    BY <1>3, Count DEF CallsOK
  <2> QED
    BY <1>1, <1>3, <2>1 DEF NextCandidate, CallsOK
<1> QED
  BY <1>2, <1>3

LEMMA TrackerUnchanged == Inv /\ UNCHANGED trackerVars => Inv'
<1> SUFFICES ASSUME Inv, UNCHANGED trackerVars PROVE Inv'
  OBVIOUS
<1> QED
  BY DEF trackerVars, Inv, TrackerOK, BackInTime, IsAvailable, Graded, calculateStandardCooldown,
         calculateBillingCooldown

\* Every step keeps the tracker consistent, and shortens no cooldown but by time
\* or by a success.
LEMMA NextInv ==
    ASSUME Inv, CallsOK, steps \in Nat, [Next]_vars
    PROVE  /\ Inv' /\ CallsOK' /\ steps' \in Nat
           /\ \A p \in Providers : errorCount'[p] > 0 /\ steps' = steps =>
                  cooldown'[p] >= cooldown[p] /\ disabled'[p] >= disabled[p]
<1> DEFINE Kept == \A p \in Providers : errorCount'[p] > 0 /\ steps' = steps =>
                       cooldown'[p] >= cooldown[p] /\ disabled'[p] >= disabled[p]
<1> SUFFICES Inv' /\ CallsOK' /\ steps' \in Nat /\ Kept
  OBVIOUS
<1>0. ASSUME UNCHANGED trackerVars PROVE Inv' /\ Kept
  BY <1>0, TrackerUnchanged DEF trackerVars, Inv, TrackerOK
<1>1. ASSUME NEW d \in Durations, Advance(d) PROVE Inv' /\ CallsOK' /\ steps' \in Nat /\ Kept
  <2>1. Inv'
    BY <1>1, AdvanceInv
  <2>2. CallsOK' /\ steps' \in Nat /\ steps' # steps
    BY <1>1 DEF Advance, CallsOK, callVars
  <2> QED
    BY <2>1, <2>2
<1>2. ASSUME NEW c \in Callers, Begin(c) PROVE Inv' /\ CallsOK' /\ steps' \in Nat /\ Kept
  <2>1. CallsOK' /\ steps' \in Nat /\ UNCHANGED trackerVars
    BY <1>2, Count DEF Begin, CallsOK, Outcomes
  <2> QED
    BY <2>1, <1>0
<1>3. ASSUME NEW c \in Callers, Cancel(c) PROVE Inv' /\ CallsOK' /\ steps' \in Nat /\ Kept
  <2>1. CallsOK' /\ steps' \in Nat /\ UNCHANGED trackerVars
    BY <1>3 DEF Cancel, CallsOK
  <2> QED
    BY <2>1, <1>0
<1>4. ASSUME NEW c \in Callers, Aborts(c) PROVE Inv' /\ CallsOK' /\ steps' \in Nat /\ Kept
  <2>1. CallsOK' /\ steps' \in Nat /\ UNCHANGED trackerVars
    BY <1>4 DEF Aborts, Return, CallsOK, Outcomes
  <2> QED
    BY <2>1, <1>0
<1>5. ASSUME NEW c \in Callers, Skips(c) PROVE Inv' /\ CallsOK' /\ steps' \in Nat /\ Kept
  <2>1. CallsOK'
    BY <1>5, NextCandidateOK DEF Skips
  <2>2. steps' \in Nat /\ UNCHANGED trackerVars
    BY <1>5 DEF Skips
  <2> QED
    BY <2>1, <2>2, <1>0
<1>6. ASSUME NEW c \in Callers, Calls(c) PROVE Inv' /\ CallsOK' /\ steps' \in Nat /\ Kept
  <2>1. CallsOK' /\ steps' \in Nat /\ UNCHANGED trackerVars
    BY <1>6 DEF Calls, CallsOK
  <2> QED
    BY <2>1, <1>0
<1>7. ASSUME NEW c \in Callers, Succeeds(c) PROVE Inv' /\ CallsOK' /\ steps' \in Nat /\ Kept
  <2> DEFINE p == Candidates[at[c]]
  <2>1. p \in Providers
    BY ProviderOf DEF CallsOK
  <2>2. MarkSuccess(p)
    BY <1>7 DEF Succeeds
  <2>3. CallsOK' /\ steps' \in Nat
    BY <1>7 DEF Succeeds, Return, CallsOK, Outcomes
  <2> HIDE DEF p
  <2>4. Inv'
    BY <2>1, <2>2, MarkSuccessInv
  <2>5. Kept
    BY <2>1, <2>2 DEF MarkSuccess, Inv, TrackerOK
  <2> QED
    BY <2>3, <2>4, <2>5
<1>8. ASSUME NEW c \in Callers, FailsCanceled(c) PROVE Inv' /\ CallsOK' /\ steps' \in Nat /\ Kept
  <2>1. CallsOK' /\ steps' \in Nat /\ UNCHANGED trackerVars
    BY <1>8 DEF FailsCanceled, Return, CallsOK, Outcomes
  <2> QED
    BY <2>1, <1>0
<1>9. ASSUME NEW c \in Callers, NEW e \in Errors, FailsForGood(c, e)
      PROVE  Inv' /\ CallsOK' /\ steps' \in Nat /\ Kept
  <2>1. CallsOK' /\ steps' \in Nat /\ UNCHANGED trackerVars
    BY <1>9 DEF FailsForGood, Return, CallsOK, Outcomes
  <2> QED
    BY <2>1, <1>0
<1>10. ASSUME NEW c \in Callers, NEW e \in Errors, FailsRetriable(c, e)
       PROVE  Inv' /\ CallsOK' /\ steps' \in Nat /\ Kept
  <2> DEFINE p == Candidates[at[c]]
  <2>1. p \in Providers
    BY ProviderOf DEF CallsOK
  <2>2. MarkFailure(p, ClassifyError(e))
    BY <1>10 DEF FailsRetriable
  <2>3. CallsOK'
    BY <1>10, NextCandidateOK DEF FailsRetriable
  <2>4. steps' = steps
    BY <1>10 DEF FailsRetriable
  <2> HIDE DEF p
  <2>5. Inv'
    BY <2>1, <2>2, MarkFailureInv
  <2>6. Kept
    BY <2>1, <2>2, MarkFailureLengthens
  <2> QED
    BY <2>3, <2>4, <2>5, <2>6
<1>11. CASE UNCHANGED vars
  <2>1. CallsOK' /\ steps' \in Nat /\ UNCHANGED trackerVars
    BY <1>11 DEF vars, callVars, CallsOK
  <2> QED
    BY <2>1, <1>0
<1> QED
  BY <1>1, <1>2, <1>3, <1>4, <1>5, <1>6, <1>7, <1>8, <1>9, <1>10, <1>11 DEF Next

\* The tracker and the callers keep their types.
THEOREM TypeCorrect == Spec => []TypeOK
<1>1. Init => Inv /\ CallsOK /\ steps \in Nat
  BY InitInv
<1>2. Inv /\ CallsOK /\ steps \in Nat /\ [Next]_vars => (Inv /\ CallsOK /\ steps \in Nat)'
  BY NextInv
<1>3. Inv /\ CallsOK /\ steps \in Nat => TypeOK
  BY DEF Inv, TrackerOK, CallsOK, TypeOK
<1> QED
  BY <1>1, <1>2, <1>3, PTL DEF Spec

\* Whatever fails, and whenever: within an hour of its last failure a provider's
\* standard cooldown is over, and within the failure window every disable.
THEOREM CooldownsEnd == Spec => []BackInTime
<1>1. Init => Inv /\ CallsOK /\ steps \in Nat
  BY InitInv
<1>2. Inv /\ CallsOK /\ steps \in Nat /\ [Next]_vars => (Inv /\ CallsOK /\ steps \in Nat)'
  BY NextInv
<1>3. Inv => BackInTime
  BY DEF Inv
<1> QED
  BY <1>1, <1>2, <1>3, PTL DEF Spec

\* MarkFailure never shortens a cooldown that is running, although its counters
\* start again after the failure window.
THEOREM FailureNeverShortens == Spec => NeverShortened
<1>1. Init => Inv /\ CallsOK /\ steps \in Nat
  BY InitInv
<1>2. Inv /\ CallsOK /\ steps \in Nat /\ [Next]_vars => (Inv /\ CallsOK /\ steps \in Nat)'
  BY NextInv
<1>3. Inv /\ CallsOK /\ steps \in Nat /\ [Next]_vars =>
          [\A p \in Providers : errorCount'[p] > 0 /\ steps' = steps =>
              cooldown'[p] >= cooldown[p] /\ disabled'[p] >= disabled[p]]_vars
  BY NextInv
<1> QED
  BY <1>1, <1>2, <1>3, PTL DEF Spec, NeverShortened

-----------------------------------------------------------------------------
(* AgentLoop                                                               *)

\* One agent, no turns beside Run, a message tool that writes to its own chat.
LoopAlone == {MainAgent} = {MainAgent} /\ ({}) = {} /\ ({"own"}) = {"own"}

LoopBusTypes == inbound \in Seq(Loop!Msgs) /\ Len(inbound) <= BusCap /\ arrived \in 0..LoopMaxMsgs

LoopReloadTypes ==
    /\ gen \in Loop!Gens /\ closing \in BOOLEAN /\ loopClosed \subseteq 1..gen
    /\ sentInRound \subseteq (1..gen) \X {MainAgent}
    /\ closing => gen > 1      \* there is an old provider to close

LoopTurnTypes ==
    /\ loopPc \in [Loop!Procs -> {"idle", "consume", "start", "llm", "respond", "exited"}]
    /\ msg \in [Loop!Procs -> Loop!Msgs]
    /\ tool \in [Loop!Procs -> (1..gen) \X {MainAgent}]
    /\ loopCalls \in [Loop!Procs -> 0..LoopMaxCalls]
    /\ sideDone \subseteq ({})

LoopTaskRecords(g) ==
    [pc : {"none", "spawned", "running", "ok", "failed", "publish", "reported", "dropped", "canceled"},
     by : Loop!Procs, internal : BOOLEAN, gen : 1..g]

LoopTaskTypes == loopTask \in [Loop!Tasks -> LoopTaskRecords(gen)]

LoopToldTypes ==
    /\ toldByTool \subseteq Loop!Users /\ answered \subseteq Loop!Users /\ ended \subseteq Loop!Users
    /\ taskTold \subseteq Loop!Tasks /\ jobTold \in BOOLEAN

LoopStopTypes == running \in BOOLEAN /\ cancelled \in BOOLEAN

LoopTypes == LoopBusTypes /\ LoopReloadTypes /\ LoopTurnTypes /\ LoopTaskTypes /\ LoopToldTypes /\ LoopStopTypes

\* A message as it is queued and taken
LoopProper(m, last) ==
    /\ m.kind \in {"user", "system"}
    /\ m.kind = "user" => m.id \in 1..last /\ m.internal = FALSE
    /\ m.kind = "system" => m.id \in Loop!Tasks

LoopKnown == toldByTool \cup answered \cup ended

\* The users in the queue are different ones, and none of them was told anything.
LoopQueueInv ==
    /\ LoopKnown \subseteq 1..arrived
    /\ \A i \in DOMAIN inbound :
        LoopProper(inbound[i], arrived) /\ (inbound[i].kind = "user" => inbound[i].id \notin LoopKnown)
    /\ \A i, j \in DOMAIN inbound :
        inbound[i].kind = "user" /\ inbound[j].kind = "user" /\ inbound[i].id = inbound[j].id => i = j

LoopInRound == loopPc["run"] \in {"start", "llm", "respond"}
LoopUserRound == LoopInRound /\ msg["run"].kind = "user"

\* The user of the round is none of those in the queue, and nothing was published
\* for him.
LoopRoundInv ==
    /\ LoopInRound => LoopProper(msg["run"], arrived)
    /\ LoopUserRound =>
        /\ msg["run"].id \notin answered \cup ended
        /\ loopPc["run"] = "start" => msg["run"].id \notin toldByTool
        /\ \A i \in DOMAIN inbound : inbound[i].kind = "user" => inbound[i].id # msg["run"].id

\* In the round of a user the flag of the registry in force was set by this round;
\* without a reload it says exactly whether the user was told.
LoopFlagInv ==
    LoopUserRound /\ loopPc["run"] # "start" =>
        /\ Loop!AlreadySent => msg["run"].id \in toldByTool
        /\ gen = 1 /\ msg["run"].id \in toldByTool => Loop!AlreadySent

LoopToldInv == Loop!NotLost /\ (gen = 1 => Loop!AnsweredOnce)

LoopIInv == LoopTypes /\ LoopQueueInv /\ LoopRoundInv /\ LoopFlagInv /\ LoopToldInv

LEMMA LoopOneProc == ASSUME LoopAlone PROVE Loop!Procs = {"run"}
BY DEF LoopAlone, Loop!Procs

LEMMA LoopNumbersAre == ASSUME Loop!ConstantsAssumption
                        PROVE  /\ BusCap \in Nat /\ LoopMaxMsgs \in Nat /\ LoopMaxCalls \in Nat /\ LoopMaxGen \in Nat
                               /\ MaxTasks \in Nat /\ LoopMaxGen >= 1
BY DEF Loop!ConstantsAssumption

LEMMA LoopNoMsgIs == ASSUME Loop!ConstantsAssumption PROVE Loop!NoMsg \in Loop!Msgs
<1>1. 0 \in 0..LoopMaxMsgs \cup Loop!Tasks /\ MainAgent \in {MainAgent}
  BY LoopNumbersAre DEF Loop!ConstantsAssumption
<1> QED
  BY <1>1 DEF Loop!NoMsg, Loop!Msgs

LEMMA LoopUserMsg == ASSUME Loop!ConstantsAssumption, NEW n \in 1..LoopMaxMsgs, NEW a \in {MainAgent},
                            NEW m, m = [kind |-> "user", id |-> n, agent |-> a, internal |-> FALSE]
                     PROVE  m \in Loop!Msgs /\ m.kind = "user" /\ m.id = n /\ m.internal = FALSE
<1>1. n \in 0..LoopMaxMsgs \cup Loop!Tasks
  BY LoopNumbersAre
<1>2. m \in Loop!Msgs
  BY <1>1 DEF Loop!Msgs
<1> QED
  BY <1>2

LEMMA LoopSystemMsg == ASSUME Loop!ConstantsAssumption, NEW t \in Loop!Tasks, NEW b \in BOOLEAN,
                              NEW m, m = [kind |-> "system", id |-> t, agent |-> MainAgent, internal |-> b]
                       PROVE  m \in Loop!Msgs /\ m.kind = "system" /\ m.id = t
<1>1. t \in 0..LoopMaxMsgs \cup Loop!Tasks /\ MainAgent \in {MainAgent}
  BY DEF Loop!ConstantsAssumption
<1> QED
  BY <1>1 DEF Loop!Msgs

LEMMA LoopAppended == ASSUME NEW S, NEW s \in Seq(S), NEW e \in S
                      PROVE  /\ Append(s, e) \in Seq(S) /\ Len(Append(s, e)) = Len(s) + 1
                             /\ DOMAIN Append(s, e) = 1..Len(s) + 1
                             /\ \A i \in 1..Len(s) : Append(s, e)[i] = s[i]
                             /\ Append(s, e)[Len(s) + 1] = e
OBVIOUS

LEMMA LoopTaken == ASSUME NEW S, NEW s \in Seq(S), s # <<>>
                   PROVE  /\ Tail(s) \in Seq(S) /\ Len(Tail(s)) = Len(s) - 1 /\ Len(s) >= 1
                          /\ Head(s) = s[1] /\ Head(s) \in S
                          /\ DOMAIN Tail(s) = 1..Len(s) - 1
                          /\ \A i \in 1..Len(s) - 1 : Tail(s)[i] = s[i + 1]
OBVIOUS

LEMMA LoopInitIInv ==
  ASSUME Loop!ConstantsAssumption, LoopAlone, Loop!Init
  PROVE  LoopIInv
<1>1. LoopBusTypes
  BY LoopNumbersAre DEF Loop!Init, LoopBusTypes
<1>2. LoopReloadTypes
  <2>1. gen \in Loop!Gens /\ sentInRound = {} /\ loopClosed = {}
    BY LoopNumbersAre DEF Loop!Init, Loop!Gens
  <2>2. closing \in BOOLEAN /\ ~closing
    BY DEF Loop!Init
  <2> QED
    BY <2>1, <2>2 DEF LoopReloadTypes
<1>3. LoopTurnTypes
  BY LoopNumbersAre, LoopNoMsgIs DEF Loop!Init, LoopTurnTypes, Loop!ConstantsAssumption
<1>4. LoopTaskTypes
  <2>1. "run" \in Loop!Procs /\ 1 \in 1..gen
    BY DEF Loop!Procs, Loop!Init
  <2>2. Loop!NoTask \in LoopTaskRecords(gen)
    BY <2>1 DEF Loop!NoTask, LoopTaskRecords
  <2> QED
    BY <2>2 DEF Loop!Init, LoopTaskTypes
<1>5. LoopToldTypes
  <2>1. jobTold \in BOOLEAN
    BY DEF Loop!Init
  <2> QED
    BY <2>1 DEF Loop!Init, LoopToldTypes
<1>6. LoopStopTypes
  BY DEF Loop!Init, LoopStopTypes
<1>7. LoopQueueInv
  BY DEF Loop!Init, LoopQueueInv, LoopKnown
<1>8. ~LoopInRound
  BY DEF Loop!Init, LoopInRound, Loop!Procs
<1>9. LoopToldInv
  BY DEF Loop!Init, LoopToldInv, Loop!NotLost, Loop!AnsweredOnce
<1> QED
  BY <1>1, <1>2, <1>3, <1>4, <1>5, <1>6, <1>7, <1>8, <1>9
     DEF LoopIInv, LoopTypes, LoopRoundInv, LoopFlagInv, LoopUserRound

\* Steps that do not touch the queue, the registries and the messages of the turns
LEMMA LoopTypesSplit ==
    ASSUME LoopIInv, UNCHANGED <<gen, loopTask>>
    PROVE  LoopTaskTypes'
BY DEF LoopIInv, LoopTypes, LoopTaskTypes, LoopTaskRecords

LEMMA LoopArriveStep ==
    ASSUME Loop!ConstantsAssumption, LoopAlone, LoopIInv, NEW a \in {MainAgent}, Loop!Arrive(a)
    PROVE  LoopIInv'
<1> DEFINE m == [kind |-> "user", id |-> arrived + 1, agent |-> a, internal |-> FALSE]
<1>0. arrived \in Nat /\ arrived + 1 \in 1..LoopMaxMsgs
  BY LoopNumbersAre DEF LoopIInv, LoopTypes, LoopBusTypes, Loop!Arrive
<1>1. m \in Loop!Msgs /\ m.kind = "user" /\ m.id = arrived + 1 /\ m.internal = FALSE
  BY <1>0, LoopUserMsg
<1>2. inbound' = Append(inbound, m) /\ arrived' = arrived + 1 /\ inbound \in Seq(Loop!Msgs)
  BY DEF Loop!Arrive, LoopIInv, LoopTypes, LoopBusTypes
<1> HIDE DEF m
<1>3. /\ inbound' \in Seq(Loop!Msgs) /\ Len(inbound') = Len(inbound) + 1 /\ Len(inbound) \in Nat
      /\ DOMAIN inbound' = 1..Len(inbound) + 1 /\ DOMAIN inbound = 1..Len(inbound)
      /\ \A i \in 1..Len(inbound) : inbound'[i] = inbound[i]
      /\ inbound'[Len(inbound) + 1] = m
  BY <1>1, <1>2, LoopAppended
<1>4. LoopBusTypes'
  BY <1>0, <1>2, <1>3, LoopNumbersAre DEF Loop!Arrive, LoopBusTypes
<1>5. UNCHANGED <<Loop!reloadVars, sentInRound, Loop!turnVars, loopTask, Loop!toldVars, Loop!stopVars>>
  BY DEF Loop!Arrive
<1>6. LoopReloadTypes' /\ LoopTurnTypes' /\ LoopTaskTypes' /\ LoopToldTypes' /\ LoopStopTypes'
  <2>1. LoopReloadTypes'
    BY <1>5 DEF LoopIInv, LoopTypes, LoopReloadTypes, Loop!reloadVars
  <2>2. LoopTurnTypes'
    BY <1>5 DEF LoopIInv, LoopTypes, LoopTurnTypes, Loop!turnVars, Loop!reloadVars
  <2>3. LoopToldTypes'
    BY <1>5 DEF LoopIInv, LoopTypes, LoopToldTypes, Loop!toldVars
  <2>4. LoopStopTypes'
    BY <1>5 DEF LoopIInv, LoopTypes, LoopStopTypes, Loop!stopVars
  <2> QED
    BY <1>5, <2>1, <2>2, <2>3, <2>4, LoopTypesSplit DEF Loop!reloadVars
<1>7. LoopKnown' = LoopKnown /\ LoopKnown \subseteq 1..arrived
  BY <1>5 DEF LoopKnown, Loop!toldVars, LoopIInv, LoopQueueInv
<1>8. arrived + 1 \notin LoopKnown
  BY <1>0, <1>7
<1>9. \A x : LoopProper(x, arrived) => LoopProper(x, arrived')
  <2>1. \A x : x \in 1..arrived => x \in 1..arrived'
    BY <1>0, <1>2
  <2> QED
    BY <2>1, Zenon DEF LoopProper
<1>10. LoopProper(m, arrived')
  <2>1. m.id \in 1..arrived'
    BY <1>0, <1>1, <1>2
  <2>2. m.kind # "system"
    BY <1>1
  <2> QED
    BY <1>1, <2>1, <2>2, Zenon DEF LoopProper
<1>11. LoopQueueInv'
  <2>1. LoopKnown' \subseteq 1..arrived'
    BY <1>0, <1>2, <1>7
  <2>2. ASSUME NEW i \in DOMAIN inbound'
        PROVE  LoopProper(inbound'[i], arrived') /\ (inbound'[i].kind = "user" => inbound'[i].id \notin LoopKnown')
    <3>1. CASE i \in DOMAIN inbound
      BY <3>1, <1>3, <1>7, <1>9 DEF LoopIInv, LoopQueueInv
    <3>2. CASE i = Len(inbound) + 1
      BY <3>2, <1>1, <1>3, <1>7, <1>8, <1>10
    <3> QED
      BY <3>1, <3>2, <1>3
  <2>3. \A i \in DOMAIN inbound : inbound[i].kind = "user" => inbound[i].id \in 1..arrived
    BY DEF LoopIInv, LoopQueueInv, LoopProper
  <2>4. ASSUME NEW i \in DOMAIN inbound', NEW j \in DOMAIN inbound',
               inbound'[i].kind = "user", inbound'[j].kind = "user", inbound'[i].id = inbound'[j].id
        PROVE  i = j
    <3>1. CASE i \in DOMAIN inbound /\ j \in DOMAIN inbound
      BY <3>1, <2>4, <1>3 DEF LoopIInv, LoopQueueInv
    <3>2. CASE i = Len(inbound) + 1 /\ j \in DOMAIN inbound
      BY <3>2, <2>3, <2>4, <1>0, <1>1, <1>3
    <3>3. CASE j = Len(inbound) + 1 /\ i \in DOMAIN inbound
      BY <3>3, <2>3, <2>4, <1>0, <1>1, <1>3
    <3>4. CASE i = Len(inbound) + 1 /\ j = Len(inbound) + 1
      BY <3>4
    <3> QED
      BY <3>1, <3>2, <3>3, <3>4, <1>3
  <2> QED
    BY <2>1, <2>2, <2>4 DEF LoopQueueInv
<1>12. (LoopInRound <=> LoopInRound') /\ (LoopUserRound <=> LoopUserRound') /\ msg' = msg /\ loopPc' = loopPc
  BY <1>5 DEF LoopInRound, LoopUserRound, Loop!turnVars
<1>13. LoopRoundInv'
  <2>1. LoopInRound => LoopProper(msg["run"], arrived')
    BY <1>9 DEF LoopIInv, LoopRoundInv
  <2>2. LoopUserRound => msg["run"].id \in 1..arrived
    BY DEF LoopIInv, LoopRoundInv, LoopUserRound, LoopProper
  <2>3. LoopUserRound => \A i \in DOMAIN inbound' : inbound'[i].kind = "user" => inbound'[i].id # msg["run"].id
    <3> SUFFICES ASSUME LoopUserRound, NEW i \in DOMAIN inbound', inbound'[i].kind = "user"
                 PROVE  inbound'[i].id # msg["run"].id
      OBVIOUS
    <3>1. CASE i \in DOMAIN inbound
      BY <3>1, <1>3 DEF LoopIInv, LoopRoundInv
    <3>2. CASE i = Len(inbound) + 1
      BY <3>2, <2>2, <1>0, <1>1, <1>3
    <3> QED
      BY <3>1, <3>2, <1>3
  <2> QED
    BY <1>5, <1>12, <2>1, <2>3 DEF LoopIInv, LoopRoundInv, Loop!toldVars
<1>14. LoopFlagInv' /\ LoopToldInv'
  BY <1>5, <1>12 DEF LoopIInv, LoopFlagInv, LoopToldInv, Loop!NotLost, Loop!AnsweredOnce,
       Loop!AlreadySent, Loop!toldVars, Loop!reloadVars
<1> QED
  BY <1>4, <1>6, <1>11, <1>13, <1>14 DEF LoopIInv, LoopTypes

\* What is known of users stays, and so does the round.
LEMMA LoopStays ==
    ASSUME LoopIInv,
           UNCHANGED <<inbound, arrived, toldByTool, answered, ended, gen, sentInRound, loopPc, msg>>
    PROVE  LoopQueueInv' /\ LoopRoundInv' /\ LoopFlagInv' /\ LoopToldInv'
<1>1. LoopQueueInv'
  BY DEF LoopIInv, LoopQueueInv, LoopKnown
<1>2. LoopRoundInv'
  BY DEF LoopIInv, LoopRoundInv, LoopInRound, LoopUserRound
<1>3. LoopFlagInv'
  BY DEF LoopIInv, LoopFlagInv, LoopInRound, LoopUserRound, Loop!AlreadySent
<1>4. LoopToldInv'
  BY DEF LoopIInv, LoopToldInv, Loop!NotLost, Loop!AnsweredOnce
<1> QED
  BY <1>1, <1>2, <1>3, <1>4

LEMMA LoopTaskPc ==
    ASSUME NEW g, NEW r \in LoopTaskRecords(g),
           NEW x \in {"none", "spawned", "running", "ok", "failed", "publish", "reported",
                      "dropped", "canceled"}
    PROVE  [r EXCEPT !.pc = x] \in LoopTaskRecords(g)
BY DEF LoopTaskRecords

LEMMA LoopTaskPcStep ==
    ASSUME LoopIInv, NEW t \in Loop!Tasks, UNCHANGED gen,
           NEW x \in {"none", "spawned", "running", "ok", "failed", "publish", "reported",
                      "dropped", "canceled"},
           loopTask' = [loopTask EXCEPT ![t].pc = x]
    PROVE  LoopTaskTypes'
<1>1. loopTask \in [Loop!Tasks -> LoopTaskRecords(gen)]
  BY DEF LoopIInv, LoopTypes, LoopTaskTypes
<1>2. [loopTask[t] EXCEPT !.pc = x] \in LoopTaskRecords(gen)
  BY <1>1, LoopTaskPc
<1>3. loopTask' = [loopTask EXCEPT ![t] = [loopTask[t] EXCEPT !.pc = x]]
  OBVIOUS
<1>4. loopTask' \in [Loop!Tasks -> LoopTaskRecords(gen)]
  BY <1>1, <1>2, <1>3
<1> QED
  BY <1>4 DEF LoopTaskTypes

\* A subagent goes on beside the rounds.
LEMMA LoopTaskSteps ==
    ASSUME Loop!ConstantsAssumption, LoopAlone, LoopIInv, NEW t \in Loop!Tasks,
           \/ Loop!RunTask(t) \/ Loop!asyncCallback(t) \/ Loop!DropResult(t)
           \/ \E ok \in BOOLEAN : Loop!EndTask(t, ok)
    PROVE  LoopIInv'
<1>1. UNCHANGED <<Loop!busVars, Loop!reloadVars, sentInRound, Loop!turnVars, toldByTool, answered, ended, jobTold, Loop!stopVars>>
  BY DEF Loop!RunTask, Loop!asyncCallback, Loop!DropResult, Loop!EndTask, Loop!toldVars
<1>2. LoopBusTypes' /\ LoopReloadTypes'
  BY <1>1 DEF LoopIInv, LoopTypes, LoopBusTypes, LoopReloadTypes, Loop!reloadVars,
       Loop!busVars
<1>3. LoopTurnTypes'
  BY <1>1 DEF LoopIInv, LoopTypes, LoopTurnTypes, Loop!turnVars, Loop!reloadVars
<1>4. LoopStopTypes'
  BY <1>1 DEF LoopIInv, LoopTypes, LoopStopTypes, Loop!stopVars
<1>5. LoopTaskTypes'
  <2>1. PICK x \in {"running", "canceled", "ok", "failed", "publish", "dropped"} :
            loopTask' = [loopTask EXCEPT ![t].pc = x]
    BY DEF Loop!RunTask, Loop!asyncCallback, Loop!DropResult, Loop!EndTask, Loop!TaskStatus
  <2> QED
    BY <1>1, <2>1, LoopTaskPcStep DEF Loop!reloadVars
<1>6. taskTold' \subseteq Loop!Tasks
  BY DEF LoopIInv, LoopTypes, LoopToldTypes, Loop!RunTask, Loop!asyncCallback,
       Loop!DropResult, Loop!EndTask, Loop!toldVars
<1>7. LoopToldTypes'
  BY <1>1, <1>6 DEF LoopIInv, LoopTypes, LoopToldTypes
<1>8. LoopQueueInv' /\ LoopRoundInv' /\ LoopFlagInv' /\ LoopToldInv'
  BY <1>1, LoopStays DEF Loop!busVars, Loop!reloadVars, Loop!turnVars
<1> QED
  BY <1>2, <1>3, <1>4, <1>5, <1>7, <1>8 DEF LoopIInv, LoopTypes

LEMMA LoopSpawnStep ==
    ASSUME Loop!ConstantsAssumption, LoopAlone, LoopIInv, NEW p \in Loop!Procs, NEW t \in Loop!Tasks, Loop!Spawn(p, t)
    PROVE  LoopIInv'
<1>1. UNCHANGED <<Loop!busVars, Loop!reloadVars, sentInRound, loopPc, msg, tool, sideDone, Loop!toldVars, Loop!stopVars>>
  BY DEF Loop!Spawn
<1>2. LoopBusTypes' /\ LoopReloadTypes'
  BY <1>1 DEF LoopIInv, LoopTypes, LoopBusTypes, LoopReloadTypes, Loop!reloadVars,
       Loop!busVars
<1>3. loopCalls' \in [Loop!Procs -> 0..LoopMaxCalls]
  <2>1. loopCalls[p] + 1 \in 0..LoopMaxCalls
    BY LoopNumbersAre DEF LoopIInv, LoopTypes, LoopTurnTypes, Loop!Spawn, Loop!Called
  <2> QED
    BY <2>1 DEF LoopIInv, LoopTypes, LoopTurnTypes, Loop!Spawn, Loop!Called
<1>4. LoopTurnTypes'
  BY <1>1, <1>3 DEF LoopIInv, LoopTypes, LoopTurnTypes, Loop!reloadVars
<1>5. LoopToldTypes'
  BY <1>1 DEF LoopIInv, LoopTypes, LoopToldTypes, Loop!toldVars
<1>6. LoopStopTypes'
  BY <1>1 DEF LoopIInv, LoopTypes, LoopStopTypes, Loop!stopVars
<1>7. LoopTaskTypes'
  <2> DEFINE r == [pc |-> "spawned", by |-> p, internal |-> msg[p].internal, gen |-> tool[p][1]]
  <2>1. msg[p] \in Loop!Msgs /\ tool[p] \in (1..gen) \X {MainAgent}
    BY DEF LoopIInv, LoopTypes, LoopTurnTypes
  <2>2. msg[p].internal \in BOOLEAN /\ tool[p][1] \in 1..gen
    BY <2>1 DEF Loop!Msgs
  <2>3. r \in LoopTaskRecords(gen)
    BY <2>2 DEF LoopTaskRecords
  <2>4. loopTask' = [loopTask EXCEPT ![t] = r]
    BY DEF Loop!Spawn
  <2> HIDE DEF r
  <2>5. loopTask' \in [Loop!Tasks -> LoopTaskRecords(gen)]
    BY <2>3, <2>4 DEF LoopIInv, LoopTypes, LoopTaskTypes
  <2> QED
    BY <1>1, <2>5 DEF LoopTaskTypes, Loop!reloadVars
<1>8. LoopQueueInv' /\ LoopRoundInv' /\ LoopFlagInv' /\ LoopToldInv'
  BY <1>1, LoopStays DEF Loop!busVars, Loop!reloadVars, Loop!toldVars
<1> QED
  BY <1>2, <1>4, <1>5, <1>6, <1>7, <1>8 DEF LoopIInv, LoopTypes

LEMMA LoopPublishStep ==
    ASSUME Loop!ConstantsAssumption, LoopAlone, LoopIInv, NEW t \in Loop!Tasks, Loop!PublishResult(t)
    PROVE  LoopIInv'
<1> DEFINE m == [kind |-> "system", id |-> t, agent |-> MainAgent, internal |-> loopTask[t].internal]
<1>0. loopTask[t].internal \in BOOLEAN
  BY DEF LoopIInv, LoopTypes, LoopTaskTypes, LoopTaskRecords
<1>1. PICK x : x = m
  OBVIOUS
<1>2. x \in Loop!Msgs /\ x.kind = "system" /\ x.id = t
  BY <1>0, <1>1, LoopSystemMsg
<1>3. inbound' = Append(inbound, x) /\ inbound \in Seq(Loop!Msgs)
  BY <1>1 DEF Loop!PublishResult, LoopIInv, LoopTypes, LoopBusTypes
<1> HIDE DEF m
<1>4. /\ inbound' \in Seq(Loop!Msgs) /\ Len(inbound') = Len(inbound) + 1 /\ Len(inbound) \in Nat
      /\ DOMAIN inbound' = 1..Len(inbound) + 1 /\ DOMAIN inbound = 1..Len(inbound)
      /\ \A i \in 1..Len(inbound) : inbound'[i] = inbound[i]
      /\ inbound'[Len(inbound) + 1] = x
  BY <1>2, <1>3, LoopAppended
<1>5. UNCHANGED <<arrived, Loop!reloadVars, sentInRound, Loop!turnVars, Loop!toldVars, Loop!stopVars>>
  BY DEF Loop!PublishResult
<1>6. LoopBusTypes'
  BY <1>4, <1>5, LoopNumbersAre DEF LoopIInv, LoopTypes, Loop!PublishResult, LoopBusTypes
<1>7. LoopReloadTypes'
  BY <1>5 DEF LoopIInv, LoopTypes, LoopReloadTypes, Loop!reloadVars
<1>8. LoopTurnTypes'
  BY <1>5 DEF LoopIInv, LoopTypes, LoopTurnTypes, Loop!turnVars, Loop!reloadVars
<1>9. LoopToldTypes'
  BY <1>5 DEF LoopIInv, LoopTypes, LoopToldTypes, Loop!toldVars
<1>10. LoopStopTypes'
  BY <1>5 DEF LoopIInv, LoopTypes, LoopStopTypes, Loop!stopVars
<1>11. LoopTaskTypes'
  <2>1. loopTask' = [loopTask EXCEPT ![t].pc = "reported"]
    BY DEF Loop!PublishResult
  <2> QED
    BY <1>5, <2>1, LoopTaskPcStep DEF Loop!reloadVars
<1>12. LoopKnown' = LoopKnown /\ arrived' = arrived
  BY <1>5 DEF LoopKnown, Loop!toldVars
<1>13. LoopProper(x, arrived)
  BY <1>2 DEF LoopProper
<1>14. x.kind # "user"
  BY <1>2
<1>15. \A i \in DOMAIN inbound' : i \in DOMAIN inbound \/ i = Len(inbound) + 1
  BY <1>4
<1>16. LoopQueueInv'
  <2>1. \A i \in DOMAIN inbound' :
            LoopProper(inbound'[i], arrived) /\ (inbound'[i].kind = "user" => i \in DOMAIN inbound)
    BY <1>4, <1>13, <1>14, <1>15 DEF LoopIInv, LoopQueueInv
  <2> QED
    BY <1>4, <1>12, <2>1 DEF LoopIInv, LoopQueueInv
<1>17. (LoopInRound <=> LoopInRound') /\ (LoopUserRound <=> LoopUserRound') /\ msg' = msg /\ loopPc' = loopPc
  BY <1>5 DEF LoopInRound, LoopUserRound, Loop!turnVars
<1>18. LoopRoundInv'
  BY <1>4, <1>5, <1>12, <1>14, <1>15, <1>17 DEF LoopIInv, LoopRoundInv, Loop!toldVars
<1>19. LoopFlagInv' /\ LoopToldInv'
  BY <1>5, <1>17 DEF LoopIInv, LoopFlagInv, LoopToldInv, Loop!NotLost, Loop!AnsweredOnce,
       Loop!AlreadySent, Loop!toldVars, Loop!reloadVars
<1> QED
  BY <1>6, <1>7, <1>8, <1>9, <1>10, <1>11, <1>16, <1>18, <1>19 DEF LoopIInv, LoopTypes

\* Outside the rounds
LEMMA LoopBetweenSteps ==
    ASSUME Loop!ConstantsAssumption, LoopAlone, LoopIInv, Loop!LoopTop \/ Loop!ConsumeCanceled
    PROVE  LoopIInv'
<1>1. UNCHANGED <<Loop!busVars, Loop!reloadVars, sentInRound, msg, tool, loopCalls, sideDone, loopTask, Loop!toldVars, Loop!stopVars>>
  BY DEF Loop!LoopTop, Loop!ConsumeCanceled
<1>2. LoopBusTypes' /\ LoopReloadTypes'
  BY <1>1 DEF LoopIInv, LoopTypes, LoopBusTypes, LoopReloadTypes, Loop!reloadVars,
       Loop!busVars
<1>3. PICK x \in {"idle", "consume", "exited"} : loopPc' = [loopPc EXCEPT !["run"] = x]
  BY DEF Loop!LoopTop, Loop!ConsumeCanceled
<1>4. LoopTurnTypes'
  BY <1>1, <1>3 DEF LoopIInv, LoopTypes, LoopTurnTypes, Loop!reloadVars
<1>5. LoopToldTypes' /\ LoopStopTypes'
  BY <1>1 DEF LoopIInv, LoopTypes, LoopToldTypes, Loop!toldVars, LoopStopTypes,
       Loop!stopVars
<1>6. LoopTaskTypes'
  BY <1>1, LoopTypesSplit DEF Loop!reloadVars
<1>7. ~LoopInRound'
  BY <1>3 DEF LoopIInv, LoopTypes, LoopTurnTypes, LoopInRound, Loop!Procs
<1>8. LoopQueueInv' /\ LoopToldInv'
  BY <1>1 DEF LoopIInv, LoopQueueInv, LoopKnown, LoopToldInv, Loop!NotLost,
       Loop!AnsweredOnce, Loop!busVars, Loop!toldVars, Loop!reloadVars
<1> QED
  BY <1>2, <1>4, <1>5, <1>6, <1>7, <1>8 DEF LoopIInv, LoopTypes, LoopRoundInv,
       LoopFlagInv, LoopUserRound

\* The user whose message is taken was not told anything, and is no longer queued.
LEMMA LoopConsumeStep ==
    ASSUME Loop!ConstantsAssumption, LoopAlone, LoopIInv, Loop!Consume
    PROVE  LoopIInv'
<1>1. UNCHANGED <<arrived, Loop!reloadVars, sentInRound, tool, loopCalls, sideDone, loopTask, Loop!toldVars, Loop!stopVars>>
  BY DEF Loop!Consume
<1>2. inbound \in Seq(Loop!Msgs) /\ inbound # <<>>
  BY DEF Loop!Consume, LoopIInv, LoopTypes, LoopBusTypes
<1>3. /\ inbound' \in Seq(Loop!Msgs) /\ Len(inbound') = Len(inbound) - 1 /\ Len(inbound) >= 1
      /\ Len(inbound) \in Nat
      /\ Head(inbound) = inbound[1] /\ inbound[1] \in Loop!Msgs
      /\ DOMAIN inbound' = 1..Len(inbound) - 1 /\ DOMAIN inbound = 1..Len(inbound)
      /\ \A i \in 1..Len(inbound) - 1 : inbound'[i] = inbound[i + 1]
  BY <1>2, LoopTaken DEF Loop!Consume
<1>4. LoopBusTypes'
  BY <1>1, <1>3, LoopNumbersAre DEF LoopIInv, LoopTypes, LoopBusTypes
<1>5. LoopReloadTypes' /\ LoopToldTypes' /\ LoopStopTypes'
  BY <1>1 DEF LoopIInv, LoopTypes, LoopReloadTypes, LoopToldTypes, LoopStopTypes,
       Loop!reloadVars, Loop!toldVars, Loop!stopVars
<1>6. LoopTaskTypes'
  BY <1>1, LoopTypesSplit DEF Loop!reloadVars
<1>7. LoopTurnTypes'
  BY <1>1, <1>3 DEF LoopIInv, LoopTypes, LoopTurnTypes, Loop!reloadVars, Loop!Consume
<1>8. LoopKnown' = LoopKnown
  BY <1>1 DEF LoopKnown, Loop!toldVars
<1>9. \A i \in DOMAIN inbound' : i + 1 \in DOMAIN inbound /\ i + 1 # 1 /\ inbound'[i] = inbound[i + 1]
  BY <1>3
<1>10. LoopQueueInv'
  <2>1. \A i \in DOMAIN inbound' :
            LoopProper(inbound'[i], arrived) /\ (inbound'[i].kind = "user" => inbound'[i].id \notin LoopKnown)
    BY <1>9 DEF LoopIInv, LoopQueueInv
  <2>2. ASSUME NEW i \in DOMAIN inbound', NEW j \in DOMAIN inbound',
               inbound'[i].kind = "user", inbound'[j].kind = "user", inbound'[i].id = inbound'[j].id
        PROVE  i = j
    <3>1. i + 1 = j + 1
      BY <1>9, <2>2 DEF LoopIInv, LoopQueueInv
    <3> QED
      BY <1>3, <3>1
  <2> QED
    BY <1>1, <1>8, <2>1, <2>2 DEF LoopIInv, LoopQueueInv
<1>11. loopPc'["run"] = "start" /\ msg'["run"] = inbound[1]
  BY <1>3 DEF Loop!Consume, LoopIInv, LoopTypes, LoopTurnTypes, Loop!Procs
<1>12. 1 \in DOMAIN inbound
  BY <1>3
<1>13. LoopRoundInv'
  <2>1. LoopProper(msg'["run"], arrived')
    BY <1>1, <1>11, <1>12 DEF LoopIInv, LoopQueueInv
  <2>2. msg'["run"].kind = "user" => msg'["run"].id \notin LoopKnown
    BY <1>11, <1>12 DEF LoopIInv, LoopQueueInv
  <2>3. ASSUME msg'["run"].kind = "user", NEW i \in DOMAIN inbound', inbound'[i].kind = "user"
        PROVE  inbound'[i].id # msg'["run"].id
    BY <2>3, <1>9, <1>11, <1>12 DEF LoopIInv, LoopQueueInv
  <2> QED
    BY <1>8, <2>1, <2>2, <2>3 DEF LoopRoundInv, LoopInRound, LoopUserRound, LoopKnown
<1>14. LoopFlagInv'
  BY <1>11 DEF LoopFlagInv
<1>15. LoopToldInv'
  BY <1>1 DEF LoopIInv, LoopToldInv, Loop!NotLost, Loop!AnsweredOnce, Loop!toldVars,
       Loop!reloadVars
<1> QED
  BY <1>4, <1>5, <1>6, <1>7, <1>10, <1>13, <1>14, <1>15 DEF LoopIInv, LoopTypes

\* processMessage clears the flag of the registry in force.
LEMMA LoopBeginUserStep ==
    ASSUME Loop!ConstantsAssumption, LoopAlone, LoopIInv, NEW next \in {"llm", "respond"}, Loop!BeginUser(next)
    PROVE  LoopIInv'
<1>1. UNCHANGED <<Loop!busVars, Loop!reloadVars, msg, sideDone, loopTask, Loop!toldVars, Loop!stopVars>>
  BY DEF Loop!BeginUser
<1>2. "run" \in Loop!Procs /\ loopPc["run"] = "start" /\ msg["run"].kind = "user"
  BY DEF Loop!BeginUser, Loop!Procs
<1>3. msg["run"].agent = MainAgent /\ MainAgent \in {MainAgent}
  BY <1>2 DEF LoopIInv, LoopTypes, LoopTurnTypes, Loop!Msgs, LoopAlone
<1>4. gen \in 1..gen
  BY DEF LoopIInv, LoopTypes, LoopReloadTypes, Loop!Gens
<1>5. /\ loopPc' = [loopPc EXCEPT !["run"] = next]
      /\ tool' = [tool EXCEPT !["run"] = <<gen, MainAgent>>]
      /\ loopCalls' = [loopCalls EXCEPT !["run"] = 0]
      /\ sentInRound' = sentInRound \ {tool'["run"]}
  BY <1>3 DEF Loop!BeginUser, Loop!processMessage
<1>6. tool'["run"] = <<gen, MainAgent>>
  BY <1>2, <1>5 DEF LoopIInv, LoopTypes, LoopTurnTypes
<1>7. LoopBusTypes' /\ LoopToldTypes' /\ LoopStopTypes'
  BY <1>1 DEF LoopIInv, LoopTypes, LoopBusTypes, LoopToldTypes, LoopStopTypes,
       Loop!busVars, Loop!toldVars, Loop!stopVars
<1>8. LoopReloadTypes'
  BY <1>1, <1>5 DEF LoopIInv, LoopTypes, LoopReloadTypes, Loop!reloadVars
<1>9. LoopTaskTypes'
  BY <1>1, LoopTypesSplit DEF Loop!reloadVars
<1>10. LoopTurnTypes'
  <2>1. tool' \in [Loop!Procs -> (1..gen) \X {MainAgent}]
    BY <1>3, <1>4, <1>5 DEF LoopIInv, LoopTypes, LoopTurnTypes
  <2>2. loopCalls' \in [Loop!Procs -> 0..LoopMaxCalls]
    <3>1. 0 \in 0..LoopMaxCalls /\ loopCalls \in [Loop!Procs -> 0..LoopMaxCalls]
      BY LoopNumbersAre DEF LoopIInv, LoopTypes, LoopTurnTypes
    <3> QED
      BY <1>5, <3>1
  <2> QED
    BY <1>1, <1>5, <2>1, <2>2 DEF LoopIInv, LoopTypes, LoopTurnTypes, Loop!reloadVars
<1>11. LoopQueueInv' /\ LoopToldInv'
  BY <1>1 DEF LoopIInv, LoopQueueInv, LoopKnown, LoopToldInv, Loop!NotLost,
       Loop!AnsweredOnce, Loop!busVars, Loop!toldVars, Loop!reloadVars
<1>12. loopPc'["run"] = next
  BY <1>2, <1>5 DEF LoopIInv, LoopTypes, LoopTurnTypes
<1>13. LoopInRound /\ LoopUserRound /\ LoopInRound' /\ LoopUserRound'
  BY <1>1, <1>2, <1>12 DEF LoopInRound, LoopUserRound
<1>14. LoopRoundInv'
  BY <1>1, <1>12, <1>13 DEF LoopIInv, LoopRoundInv, Loop!busVars, Loop!toldVars
<1>15. msg["run"].id \notin toldByTool
  BY <1>2, <1>13 DEF LoopIInv, LoopRoundInv
<1>16. ~Loop!AlreadySent'
  BY <1>1, <1>5, <1>6 DEF Loop!AlreadySent, Loop!reloadVars
<1>17. LoopFlagInv'
  BY <1>1, <1>15, <1>16 DEF LoopFlagInv, Loop!toldVars
<1> QED
  BY <1>7, <1>8, <1>9, <1>10, <1>11, <1>14, <1>17 DEF LoopIInv, LoopTypes

LEMMA LoopBeginSystemStep ==
    ASSUME Loop!ConstantsAssumption, LoopAlone, LoopIInv, Loop!BeginSystem
    PROVE  LoopIInv'
<1>1. UNCHANGED <<Loop!busVars, Loop!reloadVars, sentInRound, msg, sideDone, loopTask, Loop!toldVars, Loop!stopVars>>
  BY DEF Loop!BeginSystem
<1>2. "run" \in Loop!Procs /\ loopPc["run"] = "start" /\ msg["run"].kind = "system"
  BY DEF Loop!BeginSystem, Loop!Procs
<1>3. gen \in 1..gen /\ MainAgent \in {MainAgent}
  BY DEF LoopIInv, LoopTypes, LoopReloadTypes, Loop!Gens, Loop!ConstantsAssumption
<1>4. PICK x \in {"idle", "llm"} : loopPc' = [loopPc EXCEPT !["run"] = x]
  BY DEF Loop!BeginSystem
<1>5. tool' = [tool EXCEPT !["run"] = <<gen, MainAgent>>] /\ loopCalls' = [loopCalls EXCEPT !["run"] = 0]
  BY DEF Loop!BeginSystem
<1>6. LoopBusTypes' /\ LoopToldTypes' /\ LoopStopTypes' /\ LoopReloadTypes'
  BY <1>1 DEF LoopIInv, LoopTypes, LoopBusTypes, LoopToldTypes, LoopStopTypes,
       LoopReloadTypes, Loop!busVars, Loop!toldVars, Loop!stopVars,
              Loop!reloadVars
<1>7. LoopTaskTypes'
  BY <1>1, LoopTypesSplit DEF Loop!reloadVars
<1>8. LoopTurnTypes'
  <2>1. tool' \in [Loop!Procs -> (1..gen) \X {MainAgent}]
    BY <1>3, <1>5 DEF LoopIInv, LoopTypes, LoopTurnTypes
  <2>2. loopCalls' \in [Loop!Procs -> 0..LoopMaxCalls]
    <3>1. 0 \in 0..LoopMaxCalls /\ loopCalls \in [Loop!Procs -> 0..LoopMaxCalls]
      BY LoopNumbersAre DEF LoopIInv, LoopTypes, LoopTurnTypes
    <3> QED
      BY <1>5, <3>1
  <2> QED
    BY <1>1, <1>4, <2>1, <2>2 DEF LoopIInv, LoopTypes, LoopTurnTypes, Loop!reloadVars
<1>9. LoopQueueInv' /\ LoopToldInv'
  BY <1>1 DEF LoopIInv, LoopQueueInv, LoopKnown, LoopToldInv, Loop!NotLost,
       Loop!AnsweredOnce, Loop!busVars, Loop!toldVars, Loop!reloadVars
<1>10. ~LoopUserRound'
  BY <1>1, <1>2 DEF LoopUserRound
<1>11. LoopProper(msg["run"], arrived)
  BY <1>2 DEF LoopIInv, LoopRoundInv, LoopInRound
<1>12. LoopRoundInv' /\ LoopFlagInv'
  BY <1>1, <1>10, <1>11 DEF LoopRoundInv, LoopFlagInv, Loop!busVars
<1> QED
  BY <1>6, <1>7, <1>8, <1>9, <1>12 DEF LoopIInv, LoopTypes

\* The message tool: with the flag of its registry set, the user of the round was
\* told.
LEMMA LoopMessageToolStep ==
    ASSUME Loop!ConstantsAssumption, LoopAlone, LoopIInv, NEW p \in Loop!Procs, NEW target \in ({"own"}),
           NEW ok \in BOOLEAN, Loop!MessageTool(p, target, ok)
    PROVE  LoopIInv'
<1>0. p = "run" /\ target = "own" /\ "run" \in Loop!Procs
  BY LoopOneProc DEF LoopAlone
<1>1. UNCHANGED <<Loop!busVars, Loop!reloadVars, loopPc, msg, tool, sideDone, loopTask, answered, ended, Loop!stopVars>>
  BY DEF Loop!MessageTool
<1>2. loopPc["run"] = "llm" /\ LoopInRound
  BY <1>0 DEF Loop!MessageTool, Loop!Called, LoopInRound
<1>3. LoopProper(msg["run"], arrived) /\ arrived \in 0..LoopMaxMsgs
  BY <1>2 DEF LoopIInv, LoopRoundInv, LoopTypes, LoopBusTypes
<1>4. msg["run"].kind = "user" => msg["run"].id \in Loop!Users /\ msg["run"].internal = FALSE
  BY <1>3, LoopNumbersAre DEF LoopProper, Loop!Users
<1>5. tool["run"] \in (1..gen) \X {MainAgent}
  BY <1>0 DEF LoopIInv, LoopTypes, LoopTurnTypes
<1>6. LoopBusTypes' /\ LoopStopTypes'
  BY <1>1 DEF LoopIInv, LoopTypes, LoopBusTypes, LoopStopTypes, Loop!busVars, Loop!stopVars
<1>7. LoopReloadTypes'
  BY <1>0, <1>1, <1>5 DEF LoopIInv, LoopTypes, LoopReloadTypes, Loop!reloadVars,
       Loop!MessageTool
<1>8. LoopTaskTypes'
  BY <1>1, LoopTypesSplit DEF Loop!reloadVars
<1>9. LoopTurnTypes'
  <2>1. loopCalls[p] + 1 \in 0..LoopMaxCalls
    BY LoopNumbersAre DEF LoopIInv, LoopTypes, LoopTurnTypes, Loop!MessageTool, Loop!Called
  <2>2. loopCalls' \in [Loop!Procs -> 0..LoopMaxCalls]
    BY <2>1 DEF LoopIInv, LoopTypes, LoopTurnTypes, Loop!MessageTool, Loop!Called
  <2> QED
    BY <1>1, <2>2 DEF LoopIInv, LoopTypes, LoopTurnTypes, Loop!reloadVars
<1>10. /\ toldByTool' = toldByTool \/ (LoopUserRound /\ toldByTool' = toldByTool \cup {msg["run"].id})
       /\ taskTold' = taskTold \/ (msg["run"].kind = "system" /\ taskTold' = taskTold \cup {msg["run"].id})
       /\ jobTold' \in BOOLEAN
  <2>1. CASE ok /\ target = "own"
    BY <2>1, <1>0, <1>2 DEF Loop!MessageTool, Loop!TellOwn, LoopUserRound
  <2>2. CASE ~(ok /\ target = "own")
    BY <2>2, <1>0 DEF Loop!MessageTool, LoopIInv, LoopTypes, LoopToldTypes
  <2> QED
    BY <2>1, <2>2
<1>11. msg["run"].kind = "system" => msg["run"].id \in Loop!Tasks
  BY <1>3 DEF LoopProper
<1>12. LoopToldTypes'
  <2>1. toldByTool' \subseteq Loop!Users
    BY <1>4, <1>10 DEF LoopIInv, LoopTypes, LoopToldTypes, LoopUserRound
  <2>2. taskTold' \subseteq Loop!Tasks
    BY <1>10, <1>11 DEF LoopIInv, LoopTypes, LoopToldTypes
  <2> QED
    BY <1>1, <1>10, <2>1, <2>2 DEF LoopIInv, LoopTypes, LoopToldTypes
<1>13. \/ sentInRound' = sentInRound /\ toldByTool' = toldByTool
       \/ /\ sentInRound' = sentInRound \cup {tool["run"]}
          /\ LoopUserRound => toldByTool' = toldByTool \cup {msg["run"].id}
  <2>1. CASE ok
    <3>1. sentInRound' = sentInRound \cup {tool["run"]}
      BY <2>1, <1>0 DEF Loop!MessageTool
    <3>2. LoopUserRound => msg["run"].internal = FALSE /\ msg["run"].kind = "user"
      BY <1>4 DEF LoopUserRound
    <3>3. LoopUserRound => toldByTool' = toldByTool \cup {msg["run"].id}
      BY <2>1, <3>2, <1>0 DEF Loop!MessageTool, Loop!TellOwn
    <3> QED
      BY <3>1, <3>3
  <2>2. CASE ~ok
    BY <2>2 DEF Loop!MessageTool
  <2> QED
    BY <2>1, <2>2
<1>14. (LoopInRound <=> LoopInRound') /\ (LoopUserRound <=> LoopUserRound')
  BY <1>1 DEF LoopInRound, LoopUserRound
<1>15. LoopUserRound => msg["run"].id \in 1..arrived
  BY <1>3 DEF LoopProper, LoopUserRound
<1>16. LoopQueueInv'
  <2>1. LoopKnown' \subseteq 1..arrived
    BY <1>1, <1>10, <1>15 DEF LoopIInv, LoopQueueInv, LoopKnown
  <2>2. \A i \in DOMAIN inbound : inbound[i].kind = "user" => inbound[i].id \notin LoopKnown'
    BY <1>1, <1>10 DEF LoopIInv, LoopQueueInv, LoopRoundInv, LoopKnown
  <2> QED
    BY <1>1, <2>1, <2>2 DEF LoopIInv, LoopQueueInv, Loop!busVars
<1>17. LoopRoundInv'
  BY <1>1, <1>2, <1>14 DEF LoopIInv, LoopRoundInv, Loop!busVars
<1>18. LoopUserRound => msg["run"].id \notin ended
  BY DEF LoopIInv, LoopRoundInv
<1>19. LoopToldInv'
  <2>1. Loop!NotLost'
    BY <1>1, <1>10 DEF LoopIInv, LoopToldInv, Loop!NotLost
  <2>2. gen = 1 => Loop!AnsweredOnce'
    BY <1>1, <1>10, <1>18 DEF LoopIInv, LoopToldInv, Loop!AnsweredOnce
  <2> QED
    BY <1>1, <2>1, <2>2 DEF LoopToldInv, Loop!reloadVars
<1>20. LoopFlagInv'
  <2> SUFFICES ASSUME LoopUserRound
               PROVE  /\ Loop!AlreadySent' => msg["run"].id \in toldByTool'
                      /\ gen = 1 /\ msg["run"].id \in toldByTool' => Loop!AlreadySent'
    BY <1>1, <1>14 DEF LoopFlagInv, Loop!reloadVars
  <2>1. /\ Loop!AlreadySent => msg["run"].id \in toldByTool
        /\ gen = 1 /\ msg["run"].id \in toldByTool => Loop!AlreadySent
    BY <1>2 DEF LoopIInv, LoopFlagInv
  <2>2. CASE sentInRound' = sentInRound /\ toldByTool' = toldByTool
    BY <2>1, <2>2, <1>1 DEF Loop!AlreadySent, Loop!reloadVars
  <2>3. CASE sentInRound' = sentInRound \cup {tool["run"]}
             /\ toldByTool' = toldByTool \cup {msg["run"].id}
    <3>1. gen = 1 => tool["run"] = <<gen, MainAgent>>
      BY <1>5 DEF LoopAlone
    <3> QED
      BY <2>1, <2>3, <3>1, <1>1 DEF Loop!AlreadySent, Loop!reloadVars
  <2> QED
    BY <1>13, <2>2, <2>3
<1> QED
  BY <1>6, <1>7, <1>8, <1>9, <1>12, <1>16, <1>17, <1>19, <1>20 DEF LoopIInv, LoopTypes

LEMMA LoopFinishRunStep ==
    ASSUME Loop!ConstantsAssumption, LoopAlone, LoopIInv, NEW ok \in BOOLEAN, Loop!FinishRun(ok)
    PROVE  LoopIInv'
<1>1. UNCHANGED <<Loop!busVars, Loop!reloadVars, sentInRound, msg, tool, loopCalls, sideDone, loopTask,
                  toldByTool, answered, ended, jobTold, Loop!stopVars>>
  BY DEF Loop!FinishRun
<1>2. "run" \in Loop!Procs /\ loopPc["run"] = "llm" /\ loopPc' = [loopPc EXCEPT !["run"] = "respond"]
  BY DEF Loop!FinishRun, Loop!Procs
<1>3. LoopBusTypes' /\ LoopStopTypes' /\ LoopReloadTypes'
  BY <1>1 DEF LoopIInv, LoopTypes, LoopBusTypes, LoopStopTypes, LoopReloadTypes,
       Loop!busVars, Loop!stopVars, Loop!reloadVars
<1>4. LoopTurnTypes'
  BY <1>1, <1>2 DEF LoopIInv, LoopTypes, LoopTurnTypes, Loop!reloadVars
<1>5. LoopTaskTypes'
  BY <1>1, LoopTypesSplit DEF Loop!reloadVars
<1>6. LoopProper(msg["run"], arrived)
  BY <1>2 DEF LoopIInv, LoopRoundInv, LoopInRound
<1>7. taskTold' \subseteq Loop!Tasks
  BY <1>6 DEF Loop!FinishRun, LoopIInv, LoopTypes, LoopToldTypes, LoopProper
<1>8. LoopToldTypes'
  BY <1>1, <1>7 DEF LoopIInv, LoopTypes, LoopToldTypes
<1>9. loopPc'["run"] = "respond"
  BY <1>2 DEF LoopIInv, LoopTypes, LoopTurnTypes
<1>10. LoopInRound /\ LoopInRound' /\ (LoopUserRound <=> LoopUserRound')
  BY <1>1, <1>2, <1>9 DEF LoopInRound, LoopUserRound
<1>11. LoopQueueInv' /\ LoopToldInv'
  BY <1>1 DEF LoopIInv, LoopQueueInv, LoopKnown, LoopToldInv, Loop!NotLost,
       Loop!AnsweredOnce, Loop!busVars, Loop!reloadVars
<1>12. LoopRoundInv'
  BY <1>1, <1>9, <1>10 DEF LoopIInv, LoopRoundInv, Loop!busVars
<1>13. LoopFlagInv'
  BY <1>1, <1>2, <1>10 DEF LoopIInv, LoopFlagInv, Loop!AlreadySent, Loop!reloadVars
<1> QED
  BY <1>3, <1>4, <1>5, <1>8, <1>11, <1>12, <1>13 DEF LoopIInv, LoopTypes

\* Run publishes the response exactly if the flag is not set.
LEMMA LoopRespondStep ==
    ASSUME Loop!ConstantsAssumption, LoopAlone, LoopIInv, Loop!Respond
    PROVE  LoopIInv'
<1>1. UNCHANGED <<Loop!busVars, Loop!reloadVars, sentInRound, msg, tool, loopCalls, sideDone, loopTask,
                  toldByTool, jobTold, taskTold, Loop!stopVars>>
  BY DEF Loop!Respond
<1>2. "run" \in Loop!Procs /\ loopPc["run"] = "respond" /\ loopPc' = [loopPc EXCEPT !["run"] = "idle"]
  BY DEF Loop!Respond, Loop!Procs
<1>3. LoopBusTypes' /\ LoopStopTypes' /\ LoopReloadTypes'
  BY <1>1 DEF LoopIInv, LoopTypes, LoopBusTypes, LoopStopTypes, LoopReloadTypes,
       Loop!busVars, Loop!stopVars, Loop!reloadVars
<1>4. LoopTurnTypes'
  BY <1>1, <1>2 DEF LoopIInv, LoopTypes, LoopTurnTypes, Loop!reloadVars
<1>5. LoopTaskTypes'
  BY <1>1, LoopTypesSplit DEF Loop!reloadVars
<1>6. ~LoopInRound'
  BY <1>2, <1>4 DEF LoopIInv, LoopTypes, LoopTurnTypes, LoopInRound
<1>7. \/ answered' = answered /\ ended' = ended
      \/ /\ LoopUserRound /\ ended' = ended \cup {msg["run"].id}
         /\ answered' = IF Loop!AlreadySent THEN answered ELSE answered \cup {msg["run"].id}
  BY <1>2 DEF Loop!Respond, LoopUserRound, LoopInRound
<1>8. LoopUserRound => msg["run"].id \in 1..arrived /\ msg["run"].id \in Loop!Users
  BY LoopNumbersAre DEF LoopIInv, LoopRoundInv, LoopUserRound, LoopProper, LoopTypes,
       LoopBusTypes, Loop!Users
<1>9. LoopToldTypes'
  BY <1>1, <1>7, <1>8 DEF LoopIInv, LoopTypes, LoopToldTypes
<1>10. LoopQueueInv'
  <2>1. LoopKnown' \subseteq 1..arrived
    BY <1>1, <1>7, <1>8 DEF LoopIInv, LoopQueueInv, LoopKnown
  <2>2. \A i \in DOMAIN inbound : inbound[i].kind = "user" => inbound[i].id \notin LoopKnown'
    BY <1>1, <1>7 DEF LoopIInv, LoopQueueInv, LoopRoundInv, LoopKnown
  <2> QED
    BY <1>1, <2>1, <2>2 DEF LoopIInv, LoopQueueInv, Loop!busVars
<1>11. LoopToldInv'
  <2>1. CASE answered' = answered /\ ended' = ended
    BY <2>1, <1>1 DEF LoopIInv, LoopToldInv, Loop!NotLost, Loop!AnsweredOnce,
         Loop!reloadVars
  <2>2. CASE /\ LoopUserRound /\ ended' = ended \cup {msg["run"].id}
             /\ answered' = IF Loop!AlreadySent THEN answered ELSE answered \cup {msg["run"].id}
    <3>1. /\ Loop!AlreadySent => msg["run"].id \in toldByTool
          /\ gen = 1 /\ msg["run"].id \in toldByTool => Loop!AlreadySent
          /\ msg["run"].id \notin answered \cup ended
      BY <2>2, <1>2 DEF LoopIInv, LoopFlagInv, LoopRoundInv
    <3>2. Loop!NotLost'
      BY <2>2, <3>1, <1>1 DEF LoopIInv, LoopToldInv, Loop!NotLost
    <3>3. ASSUME gen = 1 PROVE Loop!AnsweredOnce'
      BY <2>2, <3>1, <3>3, <1>1 DEF LoopIInv, LoopToldInv, Loop!AnsweredOnce
    <3> QED
      BY <3>2, <3>3, <1>1 DEF LoopToldInv, Loop!reloadVars
  <2> QED
    BY <1>7, <2>1, <2>2
<1> QED
  BY <1>3, <1>4, <1>5, <1>6, <1>9, <1>10, <1>11 DEF LoopIInv, LoopTypes, LoopRoundInv,
       LoopFlagInv, LoopUserRound

\* A reload in the middle of a round: no message tool of the new registry has the
\* flag set.
LEMMA LoopSwapStep ==
    ASSUME Loop!ConstantsAssumption, LoopAlone, LoopIInv, Loop!Swap
    PROVE  LoopIInv'
<1>1. UNCHANGED <<Loop!busVars, loopClosed, sentInRound, Loop!turnVars, loopTask, Loop!toldVars, Loop!stopVars>>
  BY DEF Loop!Swap
<1>2. gen \in Nat /\ gen >= 1 /\ gen' = gen + 1 /\ gen' \in Loop!Gens
  BY LoopNumbersAre DEF Loop!Swap, LoopIInv, LoopTypes, LoopReloadTypes, Loop!Gens
<1>3. \A x : x \in 1..gen => x \in 1..gen'
  BY <1>2
<1>4. LoopBusTypes' /\ LoopStopTypes' /\ LoopToldTypes'
  BY <1>1 DEF LoopIInv, LoopTypes, LoopBusTypes, LoopStopTypes, LoopToldTypes,
       Loop!busVars, Loop!stopVars, Loop!toldVars
<1>5. closing' \in BOOLEAN
  BY DEF Loop!Swap
<1>6. LoopReloadTypes'
  BY <1>1, <1>2, <1>3, <1>5 DEF LoopIInv, LoopTypes, LoopReloadTypes
<1>7. LoopTurnTypes'
  <2>1. tool \in [Loop!Procs -> (1..gen') \X {MainAgent}]
    BY <1>3 DEF LoopIInv, LoopTypes, LoopTurnTypes
  <2> QED
    BY <1>1, <2>1 DEF LoopIInv, LoopTypes, LoopTurnTypes, Loop!turnVars
<1>8. LoopTaskTypes'
  <2>1. \A r \in LoopTaskRecords(gen) : r \in LoopTaskRecords(gen')
    BY <1>3 DEF LoopTaskRecords
  <2> QED
    BY <1>1, <2>1 DEF LoopIInv, LoopTypes, LoopTaskTypes
<1>9. LoopQueueInv' /\ LoopRoundInv'
  BY <1>1 DEF LoopIInv, LoopQueueInv, LoopRoundInv, LoopKnown, LoopInRound, LoopUserRound,
       Loop!busVars, Loop!toldVars, Loop!turnVars
<1>10. <<gen', MainAgent>> \notin sentInRound
  BY <1>2 DEF LoopIInv, LoopTypes, LoopReloadTypes
<1>11. ~Loop!AlreadySent' /\ gen' # 1
  BY <1>1, <1>2, <1>10 DEF Loop!AlreadySent
<1>12. LoopFlagInv' /\ LoopToldInv'
  BY <1>1, <1>11 DEF LoopIInv, LoopFlagInv, LoopToldInv, Loop!NotLost, Loop!toldVars
<1> QED
  BY <1>4, <1>6, <1>7, <1>8, <1>9, <1>12 DEF LoopIInv, LoopTypes

LEMMA LoopStopSteps ==
    ASSUME Loop!ConstantsAssumption, LoopAlone, LoopIInv, Loop!CloseOldProvider \/ Loop!Stop \/ Loop!Cancel
    PROVE  LoopIInv'
<1>1. UNCHANGED <<Loop!busVars, gen, sentInRound, Loop!turnVars, loopTask, Loop!toldVars>>
  BY DEF Loop!CloseOldProvider, Loop!Stop, Loop!Cancel, Loop!reloadVars
<1>2. LoopBusTypes' /\ LoopToldTypes'
  BY <1>1 DEF LoopIInv, LoopTypes, LoopBusTypes, LoopToldTypes, Loop!busVars, Loop!toldVars
<1>3. LoopTurnTypes' /\ LoopTaskTypes'
  BY <1>1, LoopTypesSplit DEF LoopIInv, LoopTypes, LoopTurnTypes, Loop!turnVars
<1>4. gen \in Nat /\ loopClosed \subseteq 1..gen /\ (closing => gen > 1)
  BY LoopNumbersAre DEF LoopIInv, LoopTypes, LoopReloadTypes, Loop!Gens
<1>5. loopClosed' = loopClosed \/ (closing /\ loopClosed' = loopClosed \cup {gen - 1})
  BY DEF Loop!CloseOldProvider, Loop!Stop, Loop!Cancel, Loop!reloadVars
<1>6. LoopReloadTypes'
  <2>1. loopClosed' \subseteq 1..gen
    <3>1. closing => gen - 1 \in 1..gen
      BY <1>4
    <3>2. CASE closing /\ loopClosed' = loopClosed \cup {gen - 1}
      BY <3>1, <3>2, <1>4
    <3> QED
      BY <3>2, <1>4, <1>5
  <2>2. closing' \in BOOLEAN
    BY DEF LoopIInv, LoopTypes, LoopReloadTypes, Loop!CloseOldProvider, Loop!Stop,
         Loop!Cancel, Loop!reloadVars
  <2>3. closing' => closing
    BY DEF Loop!CloseOldProvider, Loop!Stop, Loop!Cancel, Loop!reloadVars
  <2> QED
    BY <1>1, <1>4, <2>1, <2>2, <2>3 DEF LoopIInv, LoopTypes, LoopReloadTypes
<1>7. LoopStopTypes'
  BY DEF LoopIInv, LoopTypes, LoopStopTypes, Loop!CloseOldProvider, Loop!Stop,
       Loop!Cancel, Loop!stopVars
<1>8. LoopQueueInv' /\ LoopRoundInv' /\ LoopFlagInv' /\ LoopToldInv'
  BY <1>1, LoopStays DEF Loop!busVars, Loop!turnVars, Loop!toldVars
<1> QED
  BY <1>2, <1>3, <1>6, <1>7, <1>8 DEF LoopIInv, LoopTypes

LEMMA LoopNextIInv ==
  ASSUME Loop!ConstantsAssumption, LoopAlone, LoopIInv, [Loop!Next]_(Loop!vars)
  PROVE  LoopIInv'
<1>1. CASE UNCHANGED Loop!vars
  <2>1. UNCHANGED <<Loop!busVars, Loop!reloadVars, sentInRound, Loop!turnVars, loopTask, Loop!toldVars, Loop!stopVars>>
    BY <1>1 DEF Loop!vars
  <2>2. LoopBusTypes' /\ LoopStopTypes' /\ LoopReloadTypes' /\ LoopToldTypes'
    BY <2>1 DEF LoopIInv, LoopTypes, LoopBusTypes, LoopStopTypes, LoopReloadTypes,
         LoopToldTypes, Loop!busVars, Loop!stopVars, Loop!reloadVars,
                Loop!toldVars
  <2>3. LoopTurnTypes' /\ LoopTaskTypes'
    BY <2>1, LoopTypesSplit DEF LoopIInv, LoopTypes, LoopTurnTypes, Loop!turnVars,
         Loop!reloadVars
  <2>4. LoopQueueInv' /\ LoopRoundInv' /\ LoopFlagInv' /\ LoopToldInv'
    BY <2>1, LoopStays DEF Loop!busVars, Loop!turnVars, Loop!toldVars, Loop!reloadVars
  <2> QED
    BY <2>2, <2>3, <2>4 DEF LoopIInv, LoopTypes
<1>2. CASE Loop!Next
  <2>1. CASE \E a \in {MainAgent} : Loop!Arrive(a)
    BY <2>1, LoopArriveStep
  <2>2. CASE Loop!RunStep
    <3>1. CASE Loop!LoopTop \/ Loop!ConsumeCanceled
      BY <3>1, LoopBetweenSteps
    <3>2. CASE Loop!Consume
      BY <3>2, LoopConsumeStep
    <3>3. CASE Loop!BeginUser("llm") \/ Loop!BeginUser("respond")
      BY <3>3, LoopBeginUserStep
    <3>4. CASE Loop!BeginSystem
      BY <3>4, LoopBeginSystemStep
    <3>5. CASE \E ok \in BOOLEAN : Loop!FinishRun(ok)
      BY <3>5, LoopFinishRunStep
    <3>6. CASE Loop!Respond
      BY <3>6, LoopRespondStep
    <3> QED
      BY <2>2, <3>1, <3>2, <3>3, <3>4, <3>5, <3>6 DEF Loop!RunStep
  <2>3. CASE \/ \E a \in {MainAgent}, i \in BOOLEAN : Loop!BeginJob(a, i)
             \/ Loop!RouteJob
             \/ \E i \in BOOLEAN : Loop!BeginHeartbeat(i)
             \/ \E p \in ({}) : Loop!FinishSide(p)
    BY <2>3 DEF LoopAlone, Loop!BeginJob, Loop!RouteJob, Loop!BeginHeartbeat
  <2>4. CASE \E p \in Loop!Procs, target \in ({"own"}), ok \in BOOLEAN : Loop!MessageTool(p, target, ok)
    BY <2>4, LoopMessageToolStep
  <2>5. CASE \E p \in Loop!Procs, t \in Loop!Tasks : Loop!Spawn(p, t)
    BY <2>5, LoopSpawnStep
  <2>6. CASE \E t \in Loop!Tasks : Loop!TaskStep(t)
    BY <2>6, LoopTaskSteps, LoopPublishStep DEF Loop!TaskStep
  <2>7. CASE Loop!Swap
    BY <2>7, LoopSwapStep
  <2>8. CASE Loop!CloseOldProvider \/ Loop!Stop \/ Loop!Cancel
    BY <2>8, LoopStopSteps
  <2> QED
    BY <1>2, <2>1, <2>2, <2>3, <2>4, <2>5, <2>6, <2>7, <2>8 DEF Loop!Next
<1> QED
  BY <1>1, <1>2

LEMMA LoopMeaning ==
  ASSUME LoopIInv
  PROVE  Loop!TypeOK /\ Loop!NotLost /\ (gen = 1 => Loop!AnsweredOnce)
<1>1. Loop!TypeOK
  BY DEF LoopIInv, LoopTypes, LoopBusTypes, LoopReloadTypes, LoopTurnTypes, LoopTaskTypes,
       LoopTaskRecords, LoopToldTypes, LoopStopTypes, Loop!TypeOK
<1> QED
  BY <1>1 DEF LoopIInv, LoopToldInv

\* With one agent and no turns beside Run every user whose round is over was told
\* something, whatever fails and however often the registry is reloaded; before
\* the first reload exactly once.
THEOREM LoopHolds == ASSUME Loop!ConstantsAssumption, LoopAlone
                     PROVE  Loop!Spec => [](Loop!TypeOK /\ Loop!NotLost /\ (gen = 1 => Loop!AnsweredOnce))
<1>1. Loop!Init => LoopIInv
  BY LoopInitIInv
<1>2. LoopIInv /\ [Loop!Next]_(Loop!vars) => LoopIInv'
  BY LoopNextIInv
<1>3. LoopIInv => Loop!TypeOK /\ Loop!NotLost /\ (gen = 1 => Loop!AnsweredOnce)
  BY LoopMeaning
<1> QED
  BY <1>1, <1>2, <1>3, PTL DEF Loop!Spec

-----------------------------------------------------------------------------
(* ToolDiscovery                                                           *)

\* "processMessage is sequential per agent" (TickTTL, registry.go)
ToolsOneTurn == \A t, u \in {MainTurn} : t = u

ToolsRegistered == {n \in ToolNames : kind[n] # "none"}

ToolsRegistryOK ==
    /\ kind \in [ToolNames -> {"none", "core", "hidden"}]
    /\ ttl \in [ToolNames -> 0..TTL]
    /\ version = Cardinality(ToolsRegistered)

ToolsCacheOK ==
    /\ engine \in ((SUBSET ToolNames) \ {{}}) \cup {NoEngine}
    /\ cacheVersion \in 0..version

ToolsTurnsOK ==
    /\ toolsPc \in [{MainTurn} -> {"idle", "request", "llm", "exec"}]
    /\ toolsIteration \in [{MainTurn} -> 0..ToolsMaxIterations]
    /\ offered \in [{MainTurn} -> SUBSET ToolNames]
    /\ pending \in [{MainTurn} -> SUBSET (ToolNames \cup Discovery!Searches)]
    /\ found \in [{MainTurn} -> [Discovery!Searches -> SUBSET ToolNames]]
    /\ promised \in [{MainTurn} -> SUBSET ToolNames]
    /\ unlocked \in [{MainTurn} -> SUBSET ToolNames]

\* An engine of the current version was built from what is hidden now.
ToolsCacheInv == engine # NoEngine /\ cacheVersion = version => engine = Discovery!Hidden

\* What the model was offered, and then what it called, stays unlocked.
ToolsOfferInv ==
    /\ missed = {}
    /\ \A t \in {MainTurn} : toolsPc[t] = "llm" => offered[t] \subseteq Discovery!Visible
    /\ \A t \in {MainTurn} : toolsPc[t] = "exec" => pending[t] \cap ToolNames \subseteq Discovery!Visible

ToolsIInv == ToolsRegistryOK /\ ToolsCacheOK /\ ToolsTurnsOK /\ ToolsCacheInv /\ ToolsOfferInv

LEMMA ToolsSame ==
    /\ \A S : Discovery!Cardinality(S) = Cardinality(S)
    /\ \A S : Discovery!IsFiniteSet(S) <=> IsFiniteSet(S)
<1>1. \A S : Discovery!Cardinality(S) = Cardinality(S)
  BY Zenon DEF Discovery!Cardinality, Cardinality
<1>2. \A S : Discovery!IsFiniteSet(S) <=> IsFiniteSet(S)
  BY Zenon DEF Discovery!IsFiniteSet, IsFiniteSet
<1> QED
  BY <1>1, <1>2

LEMMA ToolsCounted == ASSUME Discovery!ConstantsAssumption
                      PROVE  /\ IsFiniteSet(ToolsRegistered)
                             /\ Cardinality(ToolsRegistered) \in 0..Cardinality(ToolNames)
<1>1. ToolsRegistered \subseteq ToolNames
  BY DEF ToolsRegistered
<1> QED
  BY <1>1, FS_Subset, FS_CardinalityType, ToolsSame DEF Discovery!ConstantsAssumption

LEMMA ToolsInitIInv ==
  ASSUME Discovery!ConstantsAssumption, Discovery!Init
  PROVE  ToolsIInv
<1>1. ToolsRegistered = {} /\ Cardinality(ToolsRegistered) = 0
  BY FS_EmptySet DEF Discovery!Init, ToolsRegistered
<1>2. ToolsRegistryOK
  BY <1>1 DEF Discovery!Init, ToolsRegistryOK, Discovery!ConstantsAssumption
<1>3. ToolsCacheOK
  BY DEF Discovery!Init, ToolsCacheOK
<1>4. ToolsTurnsOK
  BY DEF Discovery!Init, ToolsTurnsOK, Discovery!ConstantsAssumption
<1>5. ToolsCacheInv /\ ToolsOfferInv
  BY DEF Discovery!Init, ToolsCacheInv, ToolsOfferInv
<1> QED
  BY <1>2, <1>3, <1>4, <1>5 DEF ToolsIInv

LEMMA ToolsRegisterStep ==
    ASSUME Discovery!ConstantsAssumption, ToolsIInv, NEW n \in ToolNames, NEW k \in {"core", "hidden"}, Discovery!Register(n, k)
    PROVE  ToolsIInv'
<1>1. n \notin ToolsRegistered /\ ToolsRegistered' = ToolsRegistered \cup {n}
  BY DEF ToolsIInv, ToolsRegistryOK, Discovery!Register, ToolsRegistered
<1>2. Cardinality(ToolsRegistered') = Cardinality(ToolsRegistered) + 1
  BY <1>1, ToolsCounted, FS_AddElement
<1>3. ToolsRegistryOK'
  BY <1>2 DEF ToolsIInv, ToolsRegistryOK, Discovery!Register, Discovery!ConstantsAssumption
<1>4. Cardinality(ToolsRegistered) \in Nat
  BY ToolsCounted, FS_CardinalityType
<1>5. version \in Nat /\ version' = version + 1
  BY <1>4 DEF ToolsIInv, ToolsRegistryOK, Discovery!Register
<1>6. ToolsCacheOK' /\ ToolsCacheInv'
  BY <1>5 DEF ToolsIInv, ToolsCacheOK, ToolsCacheInv, Discovery!Register,
       Discovery!cacheVars
<1>7. ToolsTurnsOK'
  BY DEF ToolsIInv, ToolsTurnsOK, Discovery!Register, Discovery!turnVars
<1>8. Discovery!Visible \subseteq Discovery!Visible'
  BY DEF ToolsIInv, ToolsRegistryOK, Discovery!Register, Discovery!Visible
<1>9. ToolsOfferInv'
  BY <1>8 DEF ToolsIInv, ToolsOfferInv, Discovery!Register, Discovery!turnVars
<1> QED
  BY <1>3, <1>6, <1>7, <1>9 DEF ToolsIInv

\* Steps that leave the registry alone
LEMMA ToolsRegistryStays ==
    ASSUME ToolsIInv, UNCHANGED <<kind, version>>, ttl' \in [ToolNames -> 0..TTL]
    PROVE  /\ ToolsRegistryOK'
           /\ UNCHANGED Discovery!cacheVars => ToolsCacheOK' /\ ToolsCacheInv'
           /\ UNCHANGED ttl => Discovery!Visible' = Discovery!Visible
BY DEF ToolsIInv, ToolsRegistryOK, ToolsRegistered, ToolsCacheOK, ToolsCacheInv,
     Discovery!cacheVars, Discovery!Hidden, Discovery!Visible

LEMMA ToolsTurnSteps ==
    ASSUME Discovery!ConstantsAssumption, ToolsIInv, NEW t \in {MainTurn},
           \/ Discovery!BeginTurn(t) \/ Discovery!Request(t) \/ Discovery!Answer(t)
           \/ \E calls \in SUBSET (ToolNames \cup Discovery!Searches) : Discovery!Respond(t, calls)
    PROVE  ToolsIInv'
<1>1. UNCHANGED <<Discovery!registryVars, Discovery!cacheVars, missed>>
  BY DEF Discovery!BeginTurn, Discovery!Request, Discovery!Answer, Discovery!Respond
<1>2. ToolsRegistryOK' /\ ToolsCacheOK' /\ ToolsCacheInv' /\ Discovery!Visible' = Discovery!Visible
  BY <1>1, ToolsRegistryStays DEF Discovery!registryVars, ToolsIInv, ToolsRegistryOK
<1>3. Discovery!Visible \subseteq ToolNames
  BY DEF Discovery!Visible
<1>4. ToolsTurnsOK' /\ ToolsOfferInv'
  <2>1. CASE Discovery!BeginTurn(t)
    <3>1. ToolsTurnsOK'
      BY <2>1 DEF ToolsIInv, ToolsTurnsOK, Discovery!BeginTurn,
           Discovery!ConstantsAssumption
    <3> QED
      BY <2>1, <3>1, <1>2 DEF ToolsIInv, ToolsTurnsOK, ToolsOfferInv, Discovery!BeginTurn
  <2>2. CASE Discovery!Request(t)
    <3>1. ToolsTurnsOK'
      BY <2>2, <1>3 DEF ToolsIInv, ToolsTurnsOK, Discovery!Request
    <3> QED
      BY <2>2, <3>1, <1>2 DEF ToolsIInv, ToolsTurnsOK, ToolsOfferInv, Discovery!Request
  <2>3. CASE Discovery!Answer(t)
    <3>1. ToolsTurnsOK'
      BY <2>3 DEF ToolsIInv, ToolsTurnsOK, Discovery!Answer
    <3> QED
      BY <2>3, <3>1, <1>2 DEF ToolsIInv, ToolsTurnsOK, ToolsOfferInv, Discovery!Answer
  <2>4. CASE \E calls \in SUBSET (ToolNames \cup Discovery!Searches) : Discovery!Respond(t, calls)
    <3> PICK calls \in SUBSET (ToolNames \cup Discovery!Searches) : Discovery!Respond(t, calls)
      BY <2>4
    <3>1. ToolsTurnsOK'
      BY DEF ToolsIInv, ToolsTurnsOK, Discovery!Respond
    <3>2. calls \cap ToolNames \subseteq offered[t] \cup (Discovery!Searches \cap ToolNames)
      BY DEF Discovery!Respond
    <3>3. offered[t] \subseteq Discovery!Visible
      BY DEF ToolsIInv, ToolsOfferInv, Discovery!Respond
    <3>4. calls \cap ToolNames \subseteq Discovery!Visible
      BY <3>2, <3>3 DEF Discovery!ConstantsAssumption
    <3> QED
      BY <3>1, <3>4, <1>2 DEF ToolsIInv, ToolsTurnsOK, ToolsOfferInv, Discovery!Respond
  <2> QED
    BY <2>1, <2>2, <2>3, <2>4
<1> QED
  BY <1>2, <1>4 DEF ToolsIInv

\* Execute finds the tool, because it was offered.
LEMMA ToolsExecuteStep ==
    ASSUME Discovery!ConstantsAssumption, ToolsIInv, NEW t \in {MainTurn}, NEW n \in ToolNames, Discovery!Execute(t, n)
    PROVE  ToolsIInv'
<1>1. ToolsRegistryOK' /\ ToolsCacheOK' /\ ToolsCacheInv' /\ Discovery!Visible' = Discovery!Visible
  BY ToolsRegistryStays DEF Discovery!Execute, Discovery!registryVars, ToolsIInv,
       ToolsRegistryOK
<1>2. ToolsTurnsOK'
  BY DEF ToolsIInv, ToolsTurnsOK, Discovery!Execute
<1>3. n \in Discovery!Visible
  BY DEF ToolsIInv, ToolsOfferInv, Discovery!Execute
<1>4. ToolsOfferInv'
  BY <1>1, <1>2, <1>3 DEF ToolsIInv, ToolsTurnsOK, ToolsOfferInv, Discovery!Execute
<1> QED
  BY <1>1, <1>2, <1>4 DEF ToolsIInv

LEMMA ToolsSearchSteps ==
    ASSUME Discovery!ConstantsAssumption, ToolsIInv, NEW t \in {MainTurn}, NEW R \in SUBSET ToolNames,
           Discovery!SearchRegex(t, R) \/ Discovery!SearchBM25(t, R)
    PROVE  ToolsIInv'
<1>1. UNCHANGED <<Discovery!registryVars, toolsPc, toolsIteration, offered, promised, unlocked, missed>>
  BY DEF Discovery!SearchRegex, Discovery!SearchBM25, Discovery!registryVars
<1>2. ToolsRegistryOK' /\ Discovery!Visible' = Discovery!Visible /\ Discovery!Hidden' = Discovery!Hidden
  BY <1>1, ToolsRegistryStays DEF Discovery!registryVars, ToolsIInv, ToolsRegistryOK,
       Discovery!Hidden
<1>3. PICK q \in Discovery!Searches : /\ pending' = [pending EXCEPT ![t] = @ \ {q}]
                                      /\ found' = [found EXCEPT ![t][q] = R]
  BY DEF Discovery!SearchRegex, Discovery!SearchBM25, Discovery!Searches
<1>4. ToolsTurnsOK'
  <2>1. found' \in [{MainTurn} -> [Discovery!Searches -> SUBSET ToolNames]]
    BY <1>3 DEF ToolsIInv, ToolsTurnsOK
  <2> QED
    BY <1>1, <1>3, <2>1 DEF ToolsIInv, ToolsTurnsOK
<1>5. ToolsOfferInv'
  BY <1>1, <1>2, <1>3 DEF ToolsIInv, ToolsTurnsOK, ToolsOfferInv
<1>6. ToolsCacheOK' /\ ToolsCacheInv'
  <2>1. CASE Discovery!SearchRegex(t, R)
    BY <2>1, ToolsRegistryStays DEF Discovery!SearchRegex, Discovery!registryVars,
         ToolsIInv, ToolsRegistryOK
  <2>2. CASE Discovery!SearchBM25(t, R)
    <3>1. engine' = Discovery!Current /\ cacheVersion' = version /\ version' = version
      BY <2>2 DEF Discovery!SearchBM25, Discovery!registryVars
    <3>2. version \in Nat
      BY ToolsCounted, FS_CardinalityType DEF ToolsIInv, ToolsRegistryOK
    <3>3. Discovery!Hidden \subseteq ToolNames
      BY DEF Discovery!Hidden
    <3>4. Discovery!Current \in ((SUBSET ToolNames) \ {{}}) \cup {NoEngine}
      <4>1. Discovery!Current \in {engine, NoEngine} \/ (Discovery!Current = Discovery!Hidden /\ Discovery!Hidden # {})
        BY DEF Discovery!Current
      <4>2. engine \in ((SUBSET ToolNames) \ {{}}) \cup {NoEngine}
        BY DEF ToolsIInv, ToolsCacheOK
      <4> QED
        BY <3>3, <4>1, <4>2
    <3>5. Discovery!Current # NoEngine => Discovery!Current = Discovery!Hidden
      BY DEF Discovery!Current, ToolsIInv, ToolsCacheInv
    <3> QED
      BY <3>1, <3>2, <3>4, <3>5, <1>2 DEF ToolsCacheOK, ToolsCacheInv
  <2> QED
    BY <2>1, <2>2
<1> QED
  BY <1>2, <1>4, <1>5, <1>6 DEF ToolsIInv

\* What a search unlocks was hidden or is visible already: nothing is locked.
LEMMA ToolsPromoteStep ==
    ASSUME Discovery!ConstantsAssumption, ToolsIInv, NEW t \in {MainTurn}, NEW q \in Discovery!Searches, Discovery!Promote(t, q)
    PROVE  ToolsIInv'
<1>1. ttl' \in [ToolNames -> 0..TTL] /\ \A n \in ToolNames : ttl[n] > 0 => ttl'[n] > 0
  BY DEF ToolsIInv, ToolsRegistryOK, Discovery!Promote, Discovery!PromoteTools,
       Discovery!ConstantsAssumption
<1>2. UNCHANGED <<kind, version, Discovery!cacheVars, toolsPc, toolsIteration, offered, pending, missed>>
  BY DEF Discovery!Promote
<1>3. ToolsRegistryOK' /\ ToolsCacheOK' /\ ToolsCacheInv'
  BY <1>1, <1>2, ToolsRegistryStays
<1>4. Discovery!Visible \subseteq Discovery!Visible'
  BY <1>1, <1>2 DEF Discovery!Visible
<1>5. ToolsOfferInv'
  BY <1>2, <1>4 DEF ToolsIInv, ToolsOfferInv
<1>6. found[t][q] \subseteq ToolNames
  BY DEF ToolsIInv, ToolsTurnsOK
<1>7. promised' \in [{MainTurn} -> SUBSET ToolNames] /\ unlocked' \in [{MainTurn} -> SUBSET ToolNames]
  BY <1>6 DEF ToolsIInv, ToolsTurnsOK, Discovery!Promote
<1>8. found' \in [{MainTurn} -> [Discovery!Searches -> SUBSET ToolNames]]
  BY DEF ToolsIInv, ToolsTurnsOK, Discovery!Promote
<1>9. ToolsTurnsOK'
  BY <1>2, <1>7, <1>8 DEF ToolsIInv, ToolsTurnsOK
<1> QED
  BY <1>3, <1>5, <1>9 DEF ToolsIInv

\* TickTTL comes when no call is left to be made and nothing is on offer: here it
\* matters that no other turn uses the registry.
LEMMA ToolsTickStep ==
    ASSUME Discovery!ConstantsAssumption, ToolsOneTurn, ToolsIInv, NEW t \in {MainTurn}, Discovery!Tick(t)
    PROVE  ToolsIInv'
<1>1. ttl' \in [ToolNames -> 0..TTL]
  BY DEF ToolsIInv, ToolsRegistryOK, Discovery!Tick, Discovery!TickTTL,
       Discovery!ConstantsAssumption
<1>2. UNCHANGED <<kind, version, Discovery!cacheVars, pending, found, promised, unlocked, missed>>
  BY DEF Discovery!Tick
<1>3. ToolsRegistryOK' /\ ToolsCacheOK' /\ ToolsCacheInv'
  BY <1>1, <1>2, ToolsRegistryStays
<1>4. toolsPc' \in [{MainTurn} -> {"idle", "request", "llm", "exec"}] /\ toolsPc'[t] \in {"idle", "request"}
  BY DEF ToolsIInv, ToolsTurnsOK, Discovery!Tick
<1>5. toolsIteration' \in [{MainTurn} -> 0..ToolsMaxIterations]
  <2>1. ToolsMaxIterations \in Nat /\ toolsIteration[t] \in 0..ToolsMaxIterations
    BY DEF ToolsIInv, ToolsTurnsOK, Discovery!ConstantsAssumption
  <2>2. toolsIteration[t] # ToolsMaxIterations => toolsIteration[t] + 1 \in 0..ToolsMaxIterations
    BY <2>1
  <2>3. toolsIteration' = toolsIteration
          \/ (toolsIteration[t] # ToolsMaxIterations /\ toolsIteration' = [toolsIteration EXCEPT ![t] = toolsIteration[t] + 1])
    <3>1. CASE toolsIteration[t] = ToolsMaxIterations
      BY <3>1 DEF Discovery!Tick
    <3>2. CASE toolsIteration[t] # ToolsMaxIterations
      BY <3>2 DEF Discovery!Tick
    <3> QED
      BY <3>1, <3>2
  <2> QED
    BY <2>2, <2>3 DEF ToolsIInv, ToolsTurnsOK
<1>6. ToolsTurnsOK'
  BY <1>2, <1>4, <1>5 DEF ToolsIInv, ToolsTurnsOK, Discovery!Tick
<1>7. \A u \in {MainTurn} : u = t
  BY DEF ToolsOneTurn
<1>8. ToolsOfferInv'
  BY <1>2, <1>4, <1>7 DEF ToolsIInv, ToolsOfferInv
<1> QED
  BY <1>3, <1>6, <1>8 DEF ToolsIInv

LEMMA ToolsNextIInv ==
  ASSUME Discovery!ConstantsAssumption, ToolsOneTurn, ToolsIInv, [Discovery!Next]_(Discovery!vars)
  PROVE  ToolsIInv'
<1>1. CASE UNCHANGED Discovery!vars
  BY <1>1 DEF Discovery!vars, Discovery!registryVars, Discovery!cacheVars,
       Discovery!turnVars, ToolsIInv, ToolsRegistryOK, ToolsRegistered, ToolsCacheOK,
       ToolsTurnsOK,
              ToolsCacheInv, ToolsOfferInv, Discovery!Hidden, Discovery!Visible
<1>2. CASE Discovery!Next
  <2>1. CASE \E n \in ToolNames, k \in {"core", "hidden"} : Discovery!Register(n, k)
    BY <2>1, ToolsRegisterStep
  <2>2. CASE \E t \in {MainTurn} : Discovery!BeginTurn(t) \/ Discovery!Request(t) \/ Discovery!Answer(t)
    BY <2>2, ToolsTurnSteps
  <2>3. CASE \E t \in {MainTurn}, calls \in SUBSET (ToolNames \cup Discovery!Searches) : Discovery!Respond(t, calls)
    BY <2>3, ToolsTurnSteps
  <2>4. CASE \E t \in {MainTurn}, n \in ToolNames : Discovery!Execute(t, n)
    BY <2>4, ToolsExecuteStep
  <2>5. CASE \E t \in {MainTurn}, R \in SUBSET ToolNames : Discovery!SearchRegex(t, R) \/ Discovery!SearchBM25(t, R)
    BY <2>5, ToolsSearchSteps
  <2>6. CASE \E t \in {MainTurn}, q \in Discovery!Searches : Discovery!Promote(t, q)
    BY <2>6, ToolsPromoteStep
  <2>7. CASE \E t \in {MainTurn} : Discovery!Tick(t)
    BY <2>7, ToolsTickStep
  <2> QED
    BY <1>2, <2>1, <2>2, <2>3, <2>4, <2>5, <2>6, <2>7 DEF Discovery!Next
<1> QED
  BY <1>1, <1>2

LEMMA ToolsMeaning == ASSUME Discovery!ConstantsAssumption, ToolsIInv
                      PROVE  Discovery!TypeOK /\ Discovery!OfferedIsCallable /\ Discovery!EngineIsCurrent
<1>1. version \in 0..Cardinality(ToolNames)
  BY ToolsCounted DEF ToolsIInv, ToolsRegistryOK
<1>2. Discovery!TypeOK
  BY <1>1, ToolsSame DEF ToolsIInv, ToolsRegistryOK, ToolsCacheOK, ToolsTurnsOK, ToolsOfferInv,
       Discovery!TypeOK
<1>3. Discovery!EngineIsCurrent
  BY DEF ToolsIInv, ToolsCacheInv, Discovery!EngineIsCurrent, Discovery!Current
<1> QED
  BY <1>2, <1>3 DEF ToolsIInv, ToolsOfferInv, Discovery!OfferedIsCallable

\* With one turn at a time a tool the model is offered can be called, however
\* long the turns and whatever is unlocked and registered meanwhile; the cached
\* engine always searches all hidden tools.
THEOREM ToolsHold == ASSUME Discovery!ConstantsAssumption, ToolsOneTurn
                     PROVE  Discovery!Spec => [](Discovery!TypeOK /\ Discovery!OfferedIsCallable /\ Discovery!EngineIsCurrent)
<1>1. Discovery!Init => ToolsIInv
  BY ToolsInitIInv
<1>2. ToolsIInv /\ [Discovery!Next]_(Discovery!vars) => ToolsIInv'
  BY ToolsNextIInv
<1>3. ToolsIInv => Discovery!TypeOK /\ Discovery!OfferedIsCallable /\ Discovery!EngineIsCurrent
  BY ToolsMeaning
<1> QED
  BY <1>1, <1>2, <1>3, PTL DEF Discovery!Spec

-----------------------------------------------------------------------------
(* MCPManager                                                              *)

McpTypes ==
    /\ init \in {"no", "loading", "registered", "done"}
    /\ discovery \in BOOLEAN
    /\ conn \in [MCPServers -> {"todo", "ok", "failed"}]
    /\ servers = open /\ open \subseteq MCPServers
    /\ manager \in BOOLEAN
    /\ mcpClosed \in BOOLEAN
    /\ mcpCalls \in 0..MCPMaxCalls

McpCallTypes ==
    /\ mcpCall \in [MCPCallers -> {"idle", "checked", "locked", "calling"}]
    /\ wg = Cardinality(MCP!InFlight)

\* Who set closed, waits or is done comes after the initialisation; the calls
\* that were in flight when closed was set are over before Wait returns.
McpCloserInv ==
    /\ closer \in {"none", "begin", "wait", "woken", "close", "done", "panicked"}
    /\ early \subseteq MCP!InFlight
    /\ manager \/ closer # "none" => init = "done"
    /\ closer \in {"woken", "close", "done", "panicked"} => early = {}
    /\ closer = "done" => open = {}

McpIInv == McpTypes /\ McpCallTypes /\ McpCloserInv

LEMMA McpSame ==
    /\ \A S : MCP!Cardinality(S) = Cardinality(S)
    /\ \A S : MCP!IsFiniteSet(S) <=> IsFiniteSet(S)
<1>1. \A S : MCP!Cardinality(S) = Cardinality(S)
  BY Zenon DEF MCP!Cardinality, Cardinality
<1>2. \A S : MCP!IsFiniteSet(S) <=> IsFiniteSet(S)
  BY Zenon DEF MCP!IsFiniteSet, IsFiniteSet
<1> QED
  BY <1>1, <1>2

LEMMA McpCounted == ASSUME IsFiniteSet(MCPCallers)
                    PROVE  IsFiniteSet(MCP!InFlight) /\ Cardinality(MCP!InFlight) \in Nat
BY FS_Subset, FS_CardinalityType DEF MCP!InFlight

LEMMA McpCountedAfter == ASSUME IsFiniteSet(MCPCallers)
                         PROVE  IsFiniteSet(MCP!InFlight') /\ Cardinality(MCP!InFlight') \in Nat
BY FS_Subset, FS_CardinalityType DEF MCP!InFlight

LEMMA McpInitIInv == ASSUME MCP!ConstantsAssumption, MCP!Init PROVE McpIInv
<1>1. MCP!InFlight = {}
  BY DEF MCP!Init, MCP!InFlight
<1>2. Cardinality(MCP!InFlight) = 0
  BY <1>1, FS_EmptySet
<1>3. McpTypes
  <2>1. discovery \in BOOLEAN /\ manager \in BOOLEAN /\ mcpClosed \in BOOLEAN
    BY ZenonT(30) DEF MCP!Init
  <2>2. mcpCalls \in 0..MCPMaxCalls
    BY DEF MCP!Init, MCP!ConstantsAssumption
  <2>3. conn \in [MCPServers -> {"todo", "ok", "failed"}]
    BY DEF MCP!Init
  <2>4. init \in {"no", "loading", "registered", "done"} /\ servers = open /\ open \subseteq MCPServers
    BY DEF MCP!Init
  <2> QED
    BY <2>1, <2>2, <2>3, <2>4 DEF McpTypes
<1>4. McpCallTypes
  BY <1>2 DEF MCP!Init, McpCallTypes
<1>5. McpCloserInv
  BY <1>1 DEF MCP!Init, McpCloserInv
<1> QED
  BY <1>3, <1>4, <1>5 DEF McpIInv

\* Steps that leave the callers alone
LEMMA McpLoadSteps ==
    ASSUME MCP!ConstantsAssumption, McpIInv,
           MCP!BeginLoad \/ MCP!LoadFails \/ MCP!RegisterTools \/ MCP!EndLoad
             \/ \E s \in MCPServers : MCP!ConnectFails(s) \/ MCP!ConnectServer(s)
    PROVE  McpIInv'
<1>1. UNCHANGED <<mcpCall, wg, early>>
  BY DEF MCP!BeginLoad, MCP!LoadFails, MCP!RegisterTools, MCP!EndLoad, MCP!ConnectFails,
       MCP!ConnectServer
<1>2. MCP!InFlight' = MCP!InFlight
  BY <1>1 DEF MCP!InFlight
<1>3. McpCallTypes'
  BY <1>1, <1>2 DEF McpIInv, McpCallTypes
<1>4. McpTypes'
  BY DEF McpIInv, McpTypes, MCP!BeginLoad, MCP!LoadFails, MCP!RegisterTools, MCP!EndLoad,
       MCP!ConnectFails, MCP!ConnectServer
<1>5. McpCloserInv'
  <2>1. CASE MCP!BeginLoad \/ MCP!RegisterTools
    BY <2>1, <1>1, <1>2 DEF McpIInv, McpCloserInv, MCP!BeginLoad, MCP!RegisterTools
  <2>2. CASE MCP!LoadFails \/ MCP!EndLoad
    BY <2>2, <1>1, <1>2 DEF McpIInv, McpCloserInv, MCP!LoadFails, MCP!EndLoad
  <2>3. CASE \E s \in MCPServers : MCP!ConnectFails(s) \/ MCP!ConnectServer(s)
    <3>1. UNCHANGED <<init, manager, closer>> /\ init = "loading"
      BY <2>3 DEF MCP!ConnectFails, MCP!ConnectServer
    <3> QED
      BY <3>1, <1>1, <1>2 DEF McpIInv, McpCloserInv
  <2> QED
    BY <2>1, <2>2, <2>3
<1> QED
  BY <1>3, <1>4, <1>5 DEF McpIInv

LEMMA McpCloseSteps ==
    ASSUME MCP!ConstantsAssumption, McpIInv,
           MCP!AgentClose \/ MCP!CloseBegins \/ MCP!CloseWakes \/ MCP!CloseSessions
    PROVE  McpIInv'
<1>1. UNCHANGED <<mcpCall, wg>>
  BY DEF MCP!AgentClose, MCP!CloseBegins, MCP!CloseWakes, MCP!CloseSessions
<1>2. MCP!InFlight' = MCP!InFlight
  BY <1>1 DEF MCP!InFlight
<1>3. McpCallTypes'
  BY <1>1, <1>2 DEF McpIInv, McpCallTypes
<1>4. McpTypes'
  BY DEF McpIInv, McpTypes, MCP!AgentClose, MCP!CloseBegins, MCP!CloseWakes,
       MCP!CloseSessions, MCP!loadVars
<1>5. wg = 0 => MCP!InFlight = {}
  BY McpCounted, McpSame, FS_EmptySet DEF McpIInv, McpCallTypes, MCP!ConstantsAssumption
<1>6. McpCloserInv'
  <2>1. CASE MCP!AgentClose
    BY <2>1, <1>2 DEF McpIInv, McpCloserInv, MCP!AgentClose, MCP!loadVars
  <2>2. CASE MCP!CloseBegins
    BY <2>2, <1>2, <1>5 DEF McpIInv, McpCloserInv, MCP!CloseBegins, MCP!loadVars
  <2>3. CASE MCP!CloseWakes
    BY <2>3, <1>2 DEF McpIInv, McpCloserInv, MCP!CloseWakes, MCP!loadVars
  <2>4. CASE MCP!CloseSessions
    BY <2>4, <1>2 DEF McpIInv, McpTypes, McpCloserInv, MCP!CloseSessions, MCP!loadVars
  <2> QED
    BY <2>1, <2>2, <2>3, <2>4
<1> QED
  BY <1>3, <1>4, <1>6 DEF McpIInv

LEMMA McpCallSteps ==
    ASSUME MCP!ConstantsAssumption, McpIInv, NEW c \in MCPCallers,
           MCP!CallTool(c) \/ MCP!CallCheck(c) \/ MCP!CallLookup(c) \/ MCP!CallReturns(c)
    PROVE  McpIInv'
<1>0. IsFiniteSet(MCP!InFlight)
  BY McpCounted, McpSame DEF MCP!ConstantsAssumption
<1>1. UNCHANGED <<init, discovery, conn, servers, open, manager, mcpClosed>>
  BY DEF MCP!CallTool, MCP!CallCheck, MCP!CallLookup, MCP!CallReturns, MCP!loadVars
<1>2. McpTypes'
  <2>1. mcpCalls' \in 0..MCPMaxCalls
    BY DEF McpIInv, McpTypes, MCP!CallTool, MCP!CallCheck, MCP!CallLookup,
         MCP!CallReturns, MCP!ConstantsAssumption
  <2> QED
    BY <1>1, <2>1 DEF McpIInv, McpTypes
<1>3. mcpCall' \in [MCPCallers -> {"idle", "checked", "locked", "calling"}]
  BY DEF McpIInv, McpCallTypes, MCP!CallTool, MCP!CallCheck, MCP!CallLookup,
       MCP!CallReturns, MCP!Moves
<1>4. CASE UNCHANGED <<wg, closer, early>> /\ mcpCall[c] # "calling" /\ mcpCall'[c] # "calling"
           /\ mcpCall' = [mcpCall EXCEPT ![c] = mcpCall'[c]]
  <2>1. MCP!InFlight' = MCP!InFlight
    BY <1>4, <1>3 DEF McpIInv, McpCallTypes, MCP!InFlight
  <2> QED
    BY <1>1, <1>2, <1>3, <1>4, <2>1 DEF McpIInv, McpCallTypes, McpCloserInv
<1>5. CASE UNCHANGED <<closer, early>> /\ MCP!Moves(c, "locked", "calling") /\ wg' = wg + 1
  <2>1. c \notin MCP!InFlight /\ MCP!InFlight' = MCP!InFlight \cup {c}
    BY <1>5, <1>3 DEF McpIInv, McpCallTypes, MCP!InFlight, MCP!Moves
  <2>2. Cardinality(MCP!InFlight') = Cardinality(MCP!InFlight) + 1
    BY <1>0, <2>1, FS_AddElement
  <2> QED
    BY <1>1, <1>2, <1>3, <1>5, <2>1, <2>2 DEF McpIInv, McpCallTypes, McpCloserInv
<1>6. CASE MCP!CallReturns(c)
  <2>1. c \in MCP!InFlight /\ MCP!InFlight' = MCP!InFlight \ {c}
    BY <1>6, <1>3 DEF McpIInv, McpCallTypes, MCP!InFlight, MCP!CallReturns, MCP!Moves
  <2>2. Cardinality(MCP!InFlight') = Cardinality(MCP!InFlight) - 1
    BY <1>0, <2>1, FS_RemoveElement
  <2>3. McpCallTypes'
    BY <1>3, <1>6, <2>2 DEF McpIInv, McpCallTypes, MCP!CallReturns
  <2>4. wg = 1 => MCP!InFlight' = {}
    BY <2>2, McpCountedAfter, McpSame, FS_EmptySet DEF McpIInv, McpCallTypes, MCP!ConstantsAssumption
  <2>5. early' \subseteq MCP!InFlight'
    BY <1>6, <2>1 DEF McpIInv, McpCloserInv, MCP!CallReturns
  <2>6. McpCloserInv'
    BY <1>1, <1>6, <2>4, <2>5 DEF McpIInv, McpCloserInv, MCP!CallReturns
  <2> QED
    BY <1>2, <2>3, <2>6 DEF McpIInv
<1> QED
  <2>1. CASE MCP!CallTool(c)
    BY <1>3, <1>4, <2>1 DEF MCP!CallTool, MCP!Moves, McpIInv, McpCallTypes
  <2>2. CASE MCP!CallCheck(c)
    BY <1>3, <1>4, <2>2 DEF MCP!CallCheck, MCP!Moves, McpIInv, McpCallTypes
  <2>3. CASE MCP!CallLookup(c)
    BY <1>3, <1>4, <1>5, <2>3 DEF MCP!CallLookup, MCP!Moves, McpIInv, McpCallTypes
  <2> QED
    BY <1>6, <2>1, <2>2, <2>3

LEMMA McpNextIInv ==
  ASSUME MCP!ConstantsAssumption, McpIInv, [MCP!Next]_(MCP!vars)
  PROVE  McpIInv'
<1>1. CASE UNCHANGED MCP!vars
  BY <1>1 DEF MCP!vars, McpIInv, McpTypes, McpCallTypes, McpCloserInv, MCP!InFlight
<1>2. CASE MCP!Next
  BY <1>2, McpLoadSteps, McpCloseSteps, McpCallSteps DEF MCP!Next
<1> QED
  BY <1>1, <1>2

\* Whatever the callers do, and whenever it is called, Close takes no session
\* from a call that was in flight when it began, and leaves none open.
THEOREM McpHolds == ASSUME MCP!ConstantsAssumption
                    PROVE  MCP!Spec => [](MCP!TypeOK /\ MCP!CloseIsOrderly)
<1>1. MCP!Init => McpIInv
  BY McpInitIInv
<1>2. McpIInv /\ [MCP!Next]_(MCP!vars) => McpIInv'
  BY McpNextIInv
<1>3. McpIInv => MCP!TypeOK /\ MCP!CloseIsOrderly
  <2>1. MCP!InFlight \subseteq MCPCallers
    BY DEF MCP!InFlight
  <2>2. McpIInv => MCP!TypeOK
    BY <2>1, McpSame DEF McpIInv, McpTypes, McpCallTypes, McpCloserInv, MCP!TypeOK
  <2>3. McpIInv => MCP!CloseIsOrderly
    BY DEF McpIInv, McpCloserInv, MCP!CloseIsOrderly
  <2> QED
    BY <2>2, <2>3
<1> QED
  BY <1>1, <1>2, <1>3, PTL DEF MCP!Spec

-----------------------------------------------------------------------------
(* SessionStartup                                                          *)

BootFileTypes ==
    /\ legacy \in [Keys -> Seq(Startup!Messages)]
    /\ jsonl \in [Keys -> Seq(Startup!Messages)]
    /\ meta \subseteq Keys

BootGhostTypes ==
    /\ bootAcked \in [Keys -> Seq(Startup!Messages)]
    /\ migrated \subseteq Keys
    /\ damaged \subseteq Keys

BootMemTypes == mem \in [Keys -> Seq(Startup!Messages)]

BootStepTypes ==
    /\ backend \in {"down", "migrating", "jsonl", "json"}
    /\ todo \subseteq Startup!Has
    /\ step \in {"meta", "rewrite", "summary", "rename"}
    /\ msgs \in 0..BootMaxMsgs

BootTypes == BootFileTypes /\ BootGhostTypes /\ BootMemTypes /\ BootStepTypes

\* Where the history of a session is: in the legacy file while there is one, then
\* in the JSONL file, which is never without its metadata.
BootPlaced ==
    \A k \in Keys \ damaged :
        /\ legacy[k] # Startup!NoFile => legacy[k] = bootAcked[k]
        /\ legacy[k] = Startup!NoFile => jsonl[k] = bootAcked[k]
        /\ jsonl[k] # << >> => k \in meta

\* How far the migration is: what it has handled has no legacy file any more (or
\* its rename failed), and the file it is about to rename is copied.
BootProgress ==
    backend = "migrating" =>
        /\ Startup!Has \ todo \subseteq damaged
        /\ \A k \in todo : (\A j \in todo : k <= j) =>
            /\ step # "meta" => k \in meta
            /\ step \in {"summary", "rename"} => jsonl[k] = legacy[k]

\* What each backend relies on
BootServes ==
    /\ backend = "jsonl" => Startup!Has \subseteq damaged
    /\ backend = "json" => meta \subseteq damaged /\ \A k \in Keys \ damaged : mem[k] = bootAcked[k]

BootIInv == BootTypes /\ BootPlaced /\ BootProgress /\ BootServes

LEMMA BootNumbers ==
  ASSUME Startup!ConstantsAssumption
  PROVE  BootMaxMsgs \in Nat /\ 0 \in Startup!Messages
BY DEF Startup!ConstantsAssumption, Startup!Messages

LEMMA BootEmptyIs == << >> \in Seq(Startup!Messages) /\ Startup!NoFile = << >>
BY DEF Startup!NoFile

LEMMA BootInitIInv ==
  ASSUME Startup!ConstantsAssumption, Startup!Init
  PROVE  BootIInv
<1>1. PICK K \in SUBSET Keys : legacy = [k \in Keys |-> IF k \in K THEN <<0>> ELSE Startup!NoFile]
  BY DEF Startup!Init
<1>2. <<0>> \in Seq(Startup!Messages) /\ Startup!NoFile \in Seq(Startup!Messages)
  BY BootNumbers, BootEmptyIs
<1>3. legacy \in [Keys -> Seq(Startup!Messages)]
  BY <1>1, <1>2
<1>4. BootFileTypes /\ BootGhostTypes /\ BootMemTypes
  BY <1>2, <1>3, BootEmptyIs DEF Startup!Init, BootFileTypes, BootGhostTypes, BootMemTypes
<1>5. BootStepTypes
  BY BootNumbers DEF Startup!Init, BootStepTypes
<1>6. BootPlaced
  BY BootEmptyIs DEF Startup!Init, BootPlaced
<1>7. BootProgress /\ BootServes
  BY DEF Startup!Init, BootProgress, BootServes
<1> QED
  BY <1>4, <1>5, <1>6, <1>7 DEF BootIInv, BootTypes

LEMMA BootStartStep ==
  ASSUME Startup!ConstantsAssumption, BootIInv, Startup!Start
  PROVE  BootIInv'
<1>1. UNCHANGED <<Startup!files, mem, msgs, Startup!ghosts>> /\ Startup!Has' = Startup!Has
  BY DEF Startup!Start, Startup!files, Startup!Has
<1>2. BootTypes'
  BY <1>1 DEF Startup!Start, BootIInv, BootTypes, BootFileTypes, BootGhostTypes,
       BootMemTypes, BootStepTypes, Startup!files, Startup!ghosts
<1>3. BootPlaced'
  BY <1>1 DEF BootIInv, BootPlaced, Startup!files, Startup!ghosts
<1>4. BootProgress' /\ BootServes'
  BY <1>1 DEF Startup!Start, BootProgress, BootServes
<1> QED
  BY <1>2, <1>3, <1>4 DEF BootIInv

\* The fallback takes what the legacy files hold; where a metadata file shadows
\* one, the session counts as damaged.
LEMMA BootFallBackStep ==
  ASSUME Startup!ConstantsAssumption, BootIInv, Startup!StartFails
  PROVE  BootIInv'
<1>1. Startup!FallBack
  BY DEF Startup!StartFails
<1>2. UNCHANGED <<Startup!files, msgs, bootAcked, migrated>> /\ Startup!Has' = Startup!Has
  BY <1>1 DEF Startup!FallBack, Startup!files, Startup!Has
<1>3. BootFileTypes' /\ BootGhostTypes'
  BY <1>1, <1>2 DEF Startup!FallBack, BootIInv, BootTypes, BootFileTypes, BootGhostTypes,
       Startup!files
<1>4. BootMemTypes'
  BY <1>1, BootEmptyIs DEF Startup!FallBack, Startup!loadSessions, BootIInv, BootTypes,
       BootFileTypes, BootMemTypes
<1>5. BootStepTypes'
  BY <1>1, <1>2 DEF Startup!FallBack, BootIInv, BootTypes, BootStepTypes
<1>6. BootPlaced'
  BY <1>1, <1>2 DEF Startup!FallBack, BootIInv, BootPlaced, Startup!files
<1>7. \A k \in Keys \ damaged' : mem'[k] = bootAcked'[k]
  <2> SUFFICES ASSUME NEW k \in Keys, k \notin damaged, k \notin meta
               PROVE  mem'[k] = bootAcked[k]
    BY <1>1, <1>2 DEF Startup!FallBack
  <2>1. mem'[k] = legacy[k]
    BY <1>1 DEF Startup!FallBack, Startup!loadSessions
  <2> QED
    BY <2>1, BootEmptyIs DEF BootIInv, BootPlaced
<1>8. BootProgress' /\ BootServes'
  BY <1>1, <1>2, <1>7 DEF Startup!FallBack, BootProgress, BootServes, Startup!files
<1> QED
  BY <1>3, <1>4, <1>5, <1>6, <1>8 DEF BootIInv, BootTypes

\* The migration of one file
LEMMA BootFirstIs ==
    ASSUME Startup!ConstantsAssumption, BootIInv, NEW k \in Keys, NEW s, Startup!At(k, s)
    PROVE  /\ backend = "migrating" /\ step = s /\ k \in todo /\ k \in Startup!Has /\ legacy[k] # Startup!NoFile
           /\ \A j \in todo : (\A i \in todo : j <= i) => j = k
           /\ \A j \in todo : k <= j
<1>1. backend = "migrating" /\ step = s /\ k \in todo /\ (\A j \in todo : k <= j)
  BY DEF Startup!At
<1>2. todo \subseteq Startup!Has /\ Startup!Has \subseteq Keys /\ todo \subseteq Nat
  BY DEF BootIInv, BootTypes, BootStepTypes, Startup!Has, Startup!ConstantsAssumption
<1>3. \A j \in todo : (\A i \in todo : j <= i) => j = k
  BY <1>1, <1>2
<1> QED
  BY <1>1, <1>2, <1>3 DEF Startup!Has

LEMMA BootMetaStep ==
  ASSUME Startup!ConstantsAssumption, BootIInv, NEW k \in Keys, Startup!MigrateMeta(k)
  PROVE  BootIInv'
<1>1. UNCHANGED <<legacy, jsonl, mem, backend, todo, msgs, Startup!ghosts>> /\ Startup!Has' = Startup!Has
  BY DEF Startup!MigrateMeta, Startup!Has
<1>2. BootTypes'
  BY <1>1 DEF Startup!MigrateMeta, BootIInv, BootTypes, BootFileTypes, BootGhostTypes,
       BootMemTypes, BootStepTypes, Startup!ghosts
<1>3. BootPlaced'
  BY <1>1 DEF Startup!MigrateMeta, BootIInv, BootPlaced, Startup!ghosts
<1>4. BootProgress' /\ BootServes'
  BY <1>1, BootFirstIs DEF Startup!MigrateMeta, BootIInv, BootProgress, BootServes,
       Startup!ghosts
<1> QED
  BY <1>2, <1>3, <1>4 DEF BootIInv

LEMMA BootRewriteStep ==
  ASSUME Startup!ConstantsAssumption, BootIInv, NEW k \in Keys, Startup!MigrateRewrite(k)
  PROVE  BootIInv'
<1>1. UNCHANGED <<legacy, meta, mem, backend, todo, msgs, Startup!ghosts>> /\ Startup!Has' = Startup!Has
  BY DEF Startup!MigrateRewrite, Startup!Has
<1>2. /\ backend = "migrating" /\ step = "rewrite" /\ k \in todo /\ legacy[k] # Startup!NoFile
      /\ \A j \in todo : (\A i \in todo : j <= i) => j = k
      /\ k \in meta
  <2>1. Startup!At(k, "rewrite")
    BY DEF Startup!MigrateRewrite
  <2> QED
    BY <2>1, BootFirstIs DEF BootIInv, BootProgress
<1>3. jsonl' = [jsonl EXCEPT ![k] = legacy[k]]
  BY DEF Startup!MigrateRewrite
<1>4. BootTypes'
  BY <1>1, <1>3 DEF Startup!MigrateRewrite, BootIInv, BootTypes, BootFileTypes,
       BootGhostTypes, BootMemTypes, BootStepTypes, Startup!ghosts
<1>5. BootPlaced'
  <2> SUFFICES ASSUME NEW j \in Keys \ damaged
               PROVE  /\ legacy[j] # Startup!NoFile => legacy[j] = bootAcked[j]
                      /\ legacy[j] = Startup!NoFile => jsonl'[j] = bootAcked[j]
                      /\ jsonl'[j] # << >> => j \in meta
    BY <1>1 DEF BootPlaced, Startup!ghosts
  <2> QED
    BY <1>2, <1>3 DEF BootIInv, BootPlaced, BootTypes, BootFileTypes
<1>6. BootProgress'
  BY <1>1, <1>2, <1>3 DEF Startup!MigrateRewrite, BootIInv, BootProgress, BootTypes,
       BootFileTypes, Startup!ghosts
<1>7. BootServes'
  BY <1>1, <1>2 DEF BootServes
<1> QED
  BY <1>4, <1>5, <1>6, <1>7 DEF BootIInv

LEMMA BootSummaryStep ==
  ASSUME Startup!ConstantsAssumption, BootIInv, NEW k \in Keys, Startup!MigrateSummary(k)
  PROVE  BootIInv'
<1>1. UNCHANGED <<Startup!files, mem, backend, todo, msgs, Startup!ghosts>> /\ Startup!Has' = Startup!Has
  BY DEF Startup!MigrateSummary, Startup!Has, Startup!files
<1>2. step = "summary" /\ step' = "rename" /\ backend = "migrating"
  BY DEF Startup!MigrateSummary, Startup!At
<1>3. BootTypes'
  BY <1>1, <1>2 DEF BootIInv, BootTypes, BootFileTypes, BootGhostTypes, BootMemTypes,
       BootStepTypes, Startup!ghosts, Startup!files
<1>4. BootPlaced'
  BY <1>1 DEF BootIInv, BootPlaced, Startup!ghosts, Startup!files
<1>5. BootProgress' /\ BootServes'
  BY <1>1, <1>2 DEF BootIInv, BootProgress, BootServes, Startup!ghosts, Startup!files
<1> QED
  BY <1>3, <1>4, <1>5 DEF BootIInv

\* The file that is renamed away was copied.
LEMMA BootRenameStep ==
  ASSUME Startup!ConstantsAssumption, BootIInv, NEW k \in Keys, Startup!MigrateRename(k)
  PROVE  BootIInv'
<1>1. UNCHANGED <<jsonl, meta, mem, backend, msgs, bootAcked>>
  BY DEF Startup!MigrateRename
<1>2. /\ backend = "migrating" /\ k \in todo /\ legacy[k] # Startup!NoFile /\ k \in meta /\ jsonl[k] = legacy[k]
  <2>1. Startup!At(k, "rename")
    BY DEF Startup!MigrateRename
  <2> QED
    BY <2>1, BootFirstIs DEF BootIInv, BootProgress
<1>3. todo' = todo \ {k} /\ step' = "meta" /\ migrated' = migrated \cup {k}
  BY DEF Startup!MigrateRename
<1>4. legacy \in [Keys -> Seq(Startup!Messages)] /\ todo \subseteq Startup!Has /\ damaged \subseteq Keys
  BY DEF BootIInv, BootTypes, BootFileTypes, BootGhostTypes, BootStepTypes
<1>5. \/ legacy' = [legacy EXCEPT ![k] = Startup!NoFile] /\ damaged' = damaged
      \/ legacy' = legacy /\ damaged' = damaged \cup {k}
  BY DEF Startup!MigrateRename
<1>6. legacy' \in [Keys -> Seq(Startup!Messages)]
  BY <1>4, <1>5, BootEmptyIs
<1>7. \A j \in Keys : j # k => legacy'[j] = legacy[j]
  BY <1>4, <1>5
<1>8. BootFileTypes' /\ BootGhostTypes' /\ BootMemTypes'
  BY <1>1, <1>3, <1>4, <1>5, <1>6 DEF BootIInv, BootTypes, BootFileTypes, BootGhostTypes,
       BootMemTypes
<1>9. todo' \subseteq Startup!Has'
  BY <1>3, <1>4, <1>7 DEF Startup!Has
<1>10. BootStepTypes'
  BY <1>1, <1>3, <1>9 DEF BootIInv, BootTypes, BootStepTypes
<1>11. BootPlaced'
  <2> SUFFICES ASSUME NEW j \in Keys \ damaged'
               PROVE  /\ legacy'[j] # Startup!NoFile => legacy'[j] = bootAcked[j]
                      /\ legacy'[j] = Startup!NoFile => jsonl[j] = bootAcked[j]
                      /\ jsonl[j] # << >> => j \in meta
    BY <1>1 DEF BootPlaced
  <2>1. j \in Keys \ damaged
    BY <1>5
  <2>2. CASE j # k
    BY <1>7, <2>1, <2>2 DEF BootIInv, BootPlaced
  <2>3. CASE j = k
    <3>1. legacy'[k] = Startup!NoFile
      BY <2>3, <1>4, <1>5
    <3>2. jsonl[k] = bootAcked[k]
      BY <1>2, <2>1, <2>3 DEF BootIInv, BootPlaced
    <3> QED
      BY <1>2, <2>3, <3>1, <3>2
  <2> QED
    BY <2>2, <2>3
<1>12. Startup!Has' \ todo' \subseteq damaged'
  <2>1. Startup!Has \ todo \subseteq damaged
    BY <1>2 DEF BootIInv, BootProgress
  <2>2. k \in Startup!Has' => k \in damaged'
    BY <1>4, <1>5 DEF Startup!Has
  <2>3. \A j \in Startup!Has' : j # k => j \in Startup!Has
    BY <1>7 DEF Startup!Has
  <2> QED
    BY <1>3, <1>5, <2>1, <2>2, <2>3
<1>13. BootProgress' /\ BootServes'
  BY <1>1, <1>2, <1>3, <1>12 DEF BootProgress, BootServes
<1> QED
  BY <1>8, <1>10, <1>11, <1>13 DEF BootIInv, BootTypes

LEMMA BootEndSteps ==
  ASSUME Startup!ConstantsAssumption, BootIInv, Startup!Migrated \/ Startup!Crash
  PROVE  BootIInv'
<1>1. UNCHANGED <<Startup!files, msgs, Startup!ghosts>> /\ Startup!Has' = Startup!Has
  BY DEF Startup!Migrated, Startup!Crash, Startup!files, Startup!Has
<1>2. BootTypes'
  <2>1. BootMemTypes'
    BY BootEmptyIs DEF BootIInv, BootTypes, Startup!Migrated, Startup!Crash, BootMemTypes
  <2>2. BootStepTypes'
    BY <1>1 DEF BootIInv, BootTypes, Startup!Migrated, Startup!Crash, BootStepTypes
  <2> QED
    BY <1>1, <2>1, <2>2 DEF BootIInv, BootTypes, BootFileTypes, BootGhostTypes,
         Startup!ghosts, Startup!files
<1>3. BootPlaced'
  BY <1>1 DEF BootIInv, BootPlaced, Startup!ghosts, Startup!files
<1>4. BootProgress' /\ BootServes'
  BY <1>1 DEF BootIInv, BootProgress, BootServes, Startup!Migrated, Startup!Crash,
       Startup!ghosts
<1> QED
  BY <1>2, <1>3, <1>4 DEF BootIInv

LEMMA BootStored ==
    ASSUME NEW f \in [Keys -> Seq(Startup!Messages)], NEW k \in Keys, NEW m \in Startup!Messages
    PROVE  /\ [f EXCEPT ![k] = Append(@, m)] \in [Keys -> Seq(Startup!Messages)]
           /\ [f EXCEPT ![k] = Append(@, m)][k] = Append(f[k], m)
           /\ Append(f[k], m) # << >> /\ Append(f[k], m) \in Seq(Startup!Messages)
           /\ \A j \in Keys : j # k => [f EXCEPT ![k] = Append(@, m)][j] = f[j]
<1>1. f[k] \in Seq(Startup!Messages)
  OBVIOUS
<1>2. Append(f[k], m) \in Seq(Startup!Messages) /\ Append(f[k], m) # << >>
  BY <1>1
<1> QED
  BY <1>2

LEMMA BootTurnJSONLStep ==
  ASSUME Startup!ConstantsAssumption, BootIInv, NEW k \in Keys, Startup!TurnJSONL(k)
  PROVE  BootIInv'
<1>0. msgs + 1 \in Startup!Messages /\ msgs' = msgs + 1 /\ msgs' \in 0..BootMaxMsgs
  BY BootNumbers DEF Startup!TurnJSONL, BootIInv, BootTypes, BootStepTypes, Startup!Messages
<1>1. UNCHANGED <<legacy, mem, backend, todo, step, migrated, damaged>> /\ Startup!Has' = Startup!Has
  BY DEF Startup!TurnJSONL, Startup!Has
<1>2. jsonl \in [Keys -> Seq(Startup!Messages)] /\ bootAcked \in [Keys -> Seq(Startup!Messages)]
  BY DEF BootIInv, BootTypes, BootFileTypes, BootGhostTypes
<1>3. /\ backend = "jsonl" /\ meta' = meta \cup {k}
      /\ jsonl' = [jsonl EXCEPT ![k] = Append(@, msgs + 1)]
      /\ bootAcked' = [bootAcked EXCEPT ![k] = Append(@, msgs + 1)]
  BY <1>0 DEF Startup!TurnJSONL
<1>4. /\ jsonl' \in [Keys -> Seq(Startup!Messages)] /\ bootAcked' \in [Keys -> Seq(Startup!Messages)]
      /\ jsonl'[k] = Append(jsonl[k], msgs + 1) /\ bootAcked'[k] = Append(bootAcked[k], msgs + 1)
      /\ \A j \in Keys : j # k => jsonl'[j] = jsonl[j] /\ bootAcked'[j] = bootAcked[j]
  BY <1>0, <1>2, <1>3, BootStored
<1>5. BootTypes'
  BY <1>0, <1>1, <1>3, <1>4 DEF BootIInv, BootTypes, BootFileTypes, BootGhostTypes,
       BootMemTypes, BootStepTypes
<1>6. BootPlaced'
  <2> SUFFICES ASSUME NEW j \in Keys \ damaged
               PROVE  /\ legacy[j] # Startup!NoFile => legacy[j] = bootAcked'[j]
                      /\ legacy[j] = Startup!NoFile => jsonl'[j] = bootAcked'[j]
                      /\ jsonl'[j] # << >> => j \in meta'
    BY <1>1 DEF BootPlaced
  <2>1. legacy[j] = Startup!NoFile
    BY <1>3 DEF BootIInv, BootServes, Startup!Has
  <2> QED
    BY <1>3, <1>4, <2>1 DEF BootIInv, BootPlaced
<1>7. BootProgress' /\ BootServes'
  BY <1>1, <1>3 DEF BootIInv, BootProgress, BootServes
<1> QED
  BY <1>5, <1>6, <1>7 DEF BootIInv

LEMMA BootTurnJSONStep ==
  ASSUME Startup!ConstantsAssumption, BootIInv, NEW k \in Keys, Startup!TurnJSON(k)
  PROVE  BootIInv'
<1>0. msgs + 1 \in Startup!Messages /\ msgs' = msgs + 1 /\ msgs' \in 0..BootMaxMsgs
  BY BootNumbers DEF Startup!TurnJSON, BootIInv, BootTypes, BootStepTypes, Startup!Messages
<1>1. UNCHANGED <<jsonl, meta, backend, todo, step, migrated, damaged>>
  BY DEF Startup!TurnJSON
<1>2. /\ mem \in [Keys -> Seq(Startup!Messages)] /\ bootAcked \in [Keys -> Seq(Startup!Messages)]
      /\ legacy \in [Keys -> Seq(Startup!Messages)] /\ todo \subseteq Startup!Has
  BY DEF BootIInv, BootTypes, BootFileTypes, BootGhostTypes, BootMemTypes, BootStepTypes
<1>3. /\ backend = "json"
      /\ mem' = [mem EXCEPT ![k] = Append(@, msgs + 1)]
      /\ bootAcked' = [bootAcked EXCEPT ![k] = Append(@, msgs + 1)]
      /\ legacy' = [legacy EXCEPT ![k] = mem'[k]]
  BY <1>0 DEF Startup!TurnJSON
<1>4. /\ mem' \in [Keys -> Seq(Startup!Messages)] /\ bootAcked' \in [Keys -> Seq(Startup!Messages)]
      /\ mem'[k] = Append(mem[k], msgs + 1) /\ bootAcked'[k] = Append(bootAcked[k], msgs + 1)
      /\ mem'[k] # << >> /\ mem'[k] \in Seq(Startup!Messages)
      /\ \A j \in Keys : j # k => mem'[j] = mem[j] /\ bootAcked'[j] = bootAcked[j]
  BY <1>0, <1>2, <1>3, BootStored
<1>5. /\ legacy' \in [Keys -> Seq(Startup!Messages)] /\ legacy'[k] = mem'[k]
      /\ \A j \in Keys : j # k => legacy'[j] = legacy[j]
  BY <1>2, <1>3, <1>4
<1>6. Startup!Has \subseteq Startup!Has'
  BY <1>4, <1>5, BootEmptyIs DEF Startup!Has
<1>7. BootTypes'
  BY <1>0, <1>1, <1>2, <1>4, <1>5, <1>6 DEF BootIInv, BootTypes, BootFileTypes,
       BootGhostTypes, BootMemTypes, BootStepTypes
<1>8. BootPlaced'
  <2> SUFFICES ASSUME NEW j \in Keys \ damaged
               PROVE  /\ legacy'[j] # Startup!NoFile => legacy'[j] = bootAcked'[j]
                      /\ legacy'[j] = Startup!NoFile => jsonl[j] = bootAcked'[j]
                      /\ jsonl[j] # << >> => j \in meta
    BY <1>1 DEF BootPlaced
  <2>1. mem[j] = bootAcked[j]
    BY <1>3 DEF BootIInv, BootServes
  <2>2. CASE j = k
    BY <2>1, <2>2, <1>4, <1>5, BootEmptyIs DEF BootIInv, BootPlaced
  <2>3. CASE j # k
    BY <2>3, <1>4, <1>5 DEF BootIInv, BootPlaced
  <2> QED
    BY <2>2, <2>3
<1>9. BootProgress' /\ BootServes'
  BY <1>1, <1>3, <1>4 DEF BootIInv, BootProgress, BootServes
<1> QED
  BY <1>7, <1>8, <1>9 DEF BootIInv

LEMMA BootNextIInv ==
  ASSUME Startup!ConstantsAssumption, BootIInv, [Startup!Next]_(Startup!vars)
  PROVE  BootIInv'
<1>1. CASE UNCHANGED Startup!vars
  BY <1>1 DEF Startup!vars, Startup!files, Startup!ghosts, BootIInv, BootTypes,
       BootFileTypes, BootGhostTypes, BootMemTypes, BootStepTypes, Startup!Has, BootPlaced,
              BootProgress, BootServes
<1>2. CASE Startup!Next
  BY <1>2, BootStartStep, BootFallBackStep, BootEndSteps, BootMetaStep, BootRewriteStep,
       BootSummaryStep, BootRenameStep,
     BootTurnJSONLStep, BootTurnJSONStep DEF Startup!Next
<1> QED
  BY <1>1, <1>2

LEMMA BootMeaning == ASSUME BootIInv PROVE Startup!TypeOK /\ Startup!HistoryKept
<1>1. Startup!TypeOK
  BY DEF BootIInv, BootTypes, BootFileTypes, BootGhostTypes, BootMemTypes, BootStepTypes,
       Startup!TypeOK
<1>2. Startup!HistoryKept
  <2> SUFFICES ASSUME Startup!Serving, NEW k \in Keys \ damaged PROVE Startup!Visible(k) = bootAcked[k]
    BY DEF Startup!HistoryKept
  <2>1. CASE backend = "jsonl"
    BY <2>1 DEF BootIInv, BootServes, BootPlaced, Startup!Has, Startup!Visible
  <2>2. CASE backend = "json"
    BY <2>2 DEF BootIInv, BootServes, Startup!Visible
  <2> QED
    BY <2>1, <2>2 DEF Startup!Serving
<1> QED
  BY <1>1, <1>2

\* Any number of sessions, messages, crashes, interrupted migrations and fallbacks:
\* a running agent sees each session as it was stored.
THEOREM BootHolds == ASSUME Startup!ConstantsAssumption
                     PROVE  Startup!Spec => [](Startup!TypeOK /\ Startup!HistoryKept)
<1>1. Startup!Init => BootIInv
  BY BootInitIInv
<1>2. BootIInv /\ [Startup!Next]_(Startup!vars) => BootIInv'
  BY BootNextIInv
<1>3. BootIInv => Startup!TypeOK /\ Startup!HistoryKept
  BY BootMeaning
<1> QED
  BY <1>1, <1>2, <1>3, PTL DEF Startup!Spec

-----------------------------------------------------------------------------
(* JSONLStore, whole appends                                               *)

StoreLines == Seq(Store!Msgs \cup {Store!Bad})

StoreKept(l) == IF l = Store!Bad THEN << >> ELSE <<l>>

LEMMA StoreInduction ==
    ASSUME NEW S \in SUBSET Nat, 0 \in S, \A n \in S : n + 1 \in S
    PROVE  S = Nat
<1> SUFFICES ASSUME Nat \ S # {} PROVE FALSE
  OBVIOUS
<1>1. PICK n \in Nat \ S : \A m \in Nat \ S : ~ (<<m, n>> \in OpToRel(<, Nat))
  BY NatLessThanWellFounded, WFMin, Zenon
<1>2. \A m \in Nat \ S : ~ (m < n)
  BY <1>1 DEF OpToRel
<1>3. n # 0 /\ n - 1 \in Nat
  OBVIOUS
<1>4. n - 1 \in S
  BY <1>2, <1>3
<1> QED
  BY <1>3, <1>4

LEMMA StoreSplit ==
    ASSUME NEW S, NEW s \in Seq(S), s # << >>
    PROVE  /\ Head(s) \in S /\ Tail(s) \in Seq(S) /\ Len(Tail(s)) = Len(s) - 1
           /\ Len(s) \in Nat \ {0} /\ s = <<Head(s)>> \o Tail(s)
OBVIOUS

LEMMA StoreShort == ASSUME NEW S, NEW s \in Seq(S), Len(s) = 0 PROVE s = << >>
OBVIOUS

-----------------------------------------------------------------------------
(* Readable is the function its equation describes.                        *)

StoreBody(f, ls) ==
         IF ls = << >> THEN << >>
         ELSE (IF Head(ls) = Store!Bad THEN << >> ELSE <<Head(ls)>>) \o f[Tail(ls)]

StoreUpto(n) == {ls \in StoreLines : Len(ls) <= n}

StoreDefined(f, n) == f = [ls \in StoreUpto(n) |-> StoreBody(f, ls)]

LEMMA StoreUptoTail ==
    ASSUME NEW n \in Nat, NEW ls \in StoreUpto(n + 1), ls # << >>
    PROVE  Tail(ls) \in StoreUpto(n)
<1>1. ls \in StoreLines /\ Len(ls) <= n + 1
  BY DEF StoreUpto
<1>2. Tail(ls) \in StoreLines /\ Len(Tail(ls)) = Len(ls) - 1 /\ Len(ls) \in Nat
  BY <1>1, StoreSplit DEF StoreLines
<1> QED
  BY <1>1, <1>2 DEF StoreUpto

LEMMA StoreExists == \A n \in Nat : \E f : StoreDefined(f, n)
<1> DEFINE S == {n \in Nat : \E f : StoreDefined(f, n)}
<1>1. 0 \in S
  <2>1. \A ls \in StoreUpto(0) : ls = << >>
    <3> SUFFICES ASSUME NEW ls \in StoreUpto(0) PROVE ls = << >>
      OBVIOUS
    <3>1. ls \in Seq(Store!Msgs \cup {Store!Bad}) /\ Len(ls) <= 0
      BY DEF StoreUpto, StoreLines
    <3>2. Len(ls) \in Nat
      BY <3>1
    <3>3. Len(ls) = 0
      BY <3>1, <3>2
    <3> QED
      BY <3>1, <3>3, StoreShort
  <2> DEFINE f == [ls \in StoreUpto(0) |-> << >>]
  <2>2. StoreDefined(f, 0)
    BY <2>1 DEF StoreDefined, StoreBody
  <2> QED
    BY <2>2
<1>2. ASSUME NEW n \in S PROVE n + 1 \in S
  <2>1. PICK f : StoreDefined(f, n)
    OBVIOUS
  <2> DEFINE g == [ls \in StoreUpto(n + 1) |-> StoreBody(f, ls)]
  <2>2. ASSUME NEW ls \in StoreUpto(n) PROVE ls \in StoreUpto(n + 1)
    BY DEF StoreUpto, StoreLines
  <2>3. ASSUME NEW ls \in StoreUpto(n) PROVE g[ls] = f[ls]
    BY <2>1, <2>2 DEF StoreDefined
  <2>4. ASSUME NEW ls \in StoreUpto(n + 1) PROVE StoreBody(g, ls) = StoreBody(f, ls)
    <3>1. CASE ls = << >>
      BY <3>1 DEF StoreBody
    <3>2. CASE ls # << >>
      <4>1. g[Tail(ls)] = f[Tail(ls)]
        BY <3>2, <2>3, StoreUptoTail
      <4> QED
        BY <4>1 DEF StoreBody
    <3> QED
      BY <3>1, <3>2
  <2>5. StoreDefined(g, n + 1)
    BY <2>4 DEF StoreDefined
  <2> QED
    BY <2>5
<1>3. S \in SUBSET Nat
  OBVIOUS
<1> HIDE DEF S
<1>4. S = Nat
  BY <1>1, <1>2, <1>3, StoreInduction
<1> QED
  BY <1>4 DEF S

LEMMA StoreAgree ==
    ASSUME NEW n \in Nat, NEW m \in Nat, NEW f, NEW g, StoreDefined(f, n), StoreDefined(g, m)
    PROVE  \A ls \in StoreUpto(n) \cap StoreUpto(m) : f[ls] = g[ls]
<1> DEFINE Same(k) == \A ls \in StoreUpto(n) \cap StoreUpto(m) : Len(ls) <= k => f[ls] = g[ls]
           S == {k \in Nat : Same(k)}
<1>1. ASSUME NEW ls \in StoreUpto(n) \cap StoreUpto(m)
      PROVE  ls \in StoreLines /\ Len(ls) \in Nat /\ f[ls] = StoreBody(f, ls) /\ g[ls] = StoreBody(g, ls)
  <2>1. ls \in StoreLines
    BY DEF StoreUpto
  <2>2. Len(ls) \in Nat
    BY <2>1 DEF StoreLines
  <2> QED
    BY <2>1, <2>2, Zenon DEF StoreDefined
<1>2. 0 \in S
  <2> SUFFICES ASSUME NEW ls \in StoreUpto(n) \cap StoreUpto(m), Len(ls) <= 0 PROVE f[ls] = g[ls]
    OBVIOUS
  <2>1. ls = << >>
    BY <1>1, StoreShort DEF StoreLines
  <2> QED
    BY <1>1, <2>1 DEF StoreBody
<1>3. ASSUME NEW k \in S PROVE k + 1 \in S
  <2> SUFFICES ASSUME NEW ls \in StoreUpto(n) \cap StoreUpto(m), Len(ls) <= k + 1 PROVE f[ls] = g[ls]
    OBVIOUS
  <2>1. CASE ls = << >>
    BY <1>1, <2>1 DEF StoreBody
  <2>2. CASE ls # << >>
    <3>1. /\ Tail(ls) \in StoreLines /\ Len(Tail(ls)) = Len(ls) - 1 /\ Len(ls) \in Nat
      BY <1>1, <2>2, StoreSplit DEF StoreLines
    <3>2. Tail(ls) \in StoreUpto(n) \cap StoreUpto(m) /\ Len(Tail(ls)) <= k
      BY <3>1 DEF StoreUpto
    <3>3. f[Tail(ls)] = g[Tail(ls)]
      BY <3>2
    <3> QED
      BY <1>1, <3>3 DEF StoreBody
  <2> QED
    BY <2>1, <2>2
<1>4. S \in SUBSET Nat
  OBVIOUS
<1>5. S = Nat
  <2> HIDE DEF S
  <2> QED
    BY <1>2, <1>3, <1>4, StoreInduction
<1> SUFFICES ASSUME NEW ls \in StoreUpto(n) \cap StoreUpto(m) PROVE f[ls] = g[ls]
  OBVIOUS
<1>6. Len(ls) \in S /\ Len(ls) <= Len(ls)
  BY <1>1, <1>5
<1> QED
  BY <1>6

LEMMA StoreReadableDef == Store!Readable = [ls \in StoreLines |-> StoreBody(Store!Readable, ls)]
<1> DEFINE At(n) == CHOOSE f : StoreDefined(f, n)
           F == [ls \in StoreLines |-> At(Len(ls))[ls]]
<1>1. ASSUME NEW n \in Nat PROVE StoreDefined(At(n), n)
  BY StoreExists, Zenon
<1> HIDE DEF At
<1>2. ASSUME NEW ls \in StoreLines PROVE F[ls] = StoreBody(F, ls)
  <2>1. Len(ls) \in Nat /\ ls \in StoreUpto(Len(ls))
    BY DEF StoreLines, StoreUpto
  <2>2. At(Len(ls))[ls] = StoreBody(At(Len(ls)), ls)
    BY <1>1, <2>1, Zenon DEF StoreDefined
  <2>3. CASE ls = << >>
    BY <2>2, <2>3 DEF StoreBody
  <2>4. CASE ls # << >>
    <3>1. /\ Tail(ls) \in StoreLines /\ Len(Tail(ls)) = Len(ls) - 1 /\ Len(Tail(ls)) \in Nat
      BY <2>4, StoreSplit DEF StoreLines
    <3>2. Tail(ls) \in StoreUpto(Len(ls)) \cap StoreUpto(Len(Tail(ls)))
      BY <3>1, <2>1 DEF StoreUpto
    <3>3. At(Len(ls))[Tail(ls)] = At(Len(Tail(ls)))[Tail(ls)]
      BY <3>1, <3>2, <2>1, <1>1, StoreAgree
    <3>4. F[Tail(ls)] = At(Len(ls))[Tail(ls)]
      BY <3>1, <3>3
    <3> QED
      BY <2>2, <2>4, <3>4 DEF StoreBody
  <2> QED
    BY <2>3, <2>4
<1>3. F = [ls \in StoreLines |-> StoreBody(F, ls)]
  BY <1>2
<1> HIDE DEF F
<1>4. \E f : f = [ls \in StoreLines |-> StoreBody(f, ls)]
  BY <1>3
<1>5. Store!Readable = CHOOSE f : f = [ls \in StoreLines |-> StoreBody(f, ls)]
  BY Zenon DEF Store!Readable, StoreLines, StoreBody
<1> QED
  BY <1>4, <1>5, Zenon

LEMMA StoreReadableEmpty == Store!Readable[<< >>] = << >>
<1>1. << >> \in StoreLines
  BY DEF StoreLines
<1> QED
  BY <1>1, StoreReadableDef DEF StoreBody

LEMMA StoreReadableOf ==
    ASSUME NEW ls \in StoreLines, ls # << >>
    PROVE  Store!Readable[ls] = (IF Head(ls) = Store!Bad THEN << >> ELSE <<Head(ls)>>) \o Store!Readable[Tail(ls)]
<1>1. Store!Readable[ls] = StoreBody(Store!Readable, ls)
  BY StoreReadableDef, Zenon
<1> QED
  BY <1>1 DEF StoreBody

\* What is read are messages, and all of them when no line is corrupt.
LEMMA StoreReads ==
    ASSUME Store!ConstantsAssumption
    PROVE  \A ls \in StoreLines : /\ Store!Readable[ls] \in Seq(Store!Msgs)
                                  /\ Len(Store!Readable[ls]) <= Len(ls)
                                  /\ ls \in Seq(Store!Msgs) => Store!Readable[ls] = ls
<1> DEFINE Good(ls) == /\ Store!Readable[ls] \in Seq(Store!Msgs)
                       /\ Len(Store!Readable[ls]) <= Len(ls)
                       /\ ls \in Seq(Store!Msgs) => Store!Readable[ls] = ls
           S == {n \in Nat : \A ls \in StoreLines : Len(ls) = n => Good(ls)}
<1>1. 0 \in S
  <2> SUFFICES ASSUME NEW ls \in StoreLines, Len(ls) = 0 PROVE Good(ls)
    OBVIOUS
  <2>1. ls = << >>
    BY StoreShort DEF StoreLines
  <2> QED
    BY <2>1, StoreReadableEmpty
<1>2. ASSUME NEW n \in S PROVE n + 1 \in S
  <2> SUFFICES ASSUME NEW ls \in StoreLines, Len(ls) = n + 1 PROVE Good(ls)
    OBVIOUS
  <2>1. n \in Nat /\ ls # << >>
    OBVIOUS
  <2> DEFINE h == Head(ls)
             t == Tail(ls)
             r == Store!Readable[t]
  <2>2. /\ h \in Store!Msgs \cup {Store!Bad} /\ t \in StoreLines /\ Len(t) = n
        /\ ls = <<h>> \o t
    BY <2>1, StoreSplit DEF StoreLines
  <2>3. Good(t)
    BY <2>2
  <2>4. Store!Readable[ls] = (IF h = Store!Bad THEN << >> ELSE <<h>>) \o r
    BY <2>1, StoreReadableOf
  <2>5. ls \in Seq(Store!Msgs) => h \in Store!Msgs /\ t \in Seq(Store!Msgs)
    BY <2>1
  <2>6. \A x \in Store!Msgs : x # Store!Bad
    BY DEF Store!Msgs, Store!Bad
  <2> HIDE DEF h, t, r
  <2>7. r \in Seq(Store!Msgs) /\ Len(r) <= n /\ (t \in Seq(Store!Msgs) => r = t)
    BY <2>2, <2>3 DEF r
  <2>8. CASE h = Store!Bad
    <3>1. Store!Readable[ls] = << >> \o r
      BY <2>4, <2>8
    <3>2. Store!Readable[ls] = r
      BY <3>1, <2>7
    <3> QED
      BY <3>2, <2>5, <2>6, <2>7, <2>8
  <2>9. CASE h \in Store!Msgs
    <3>1. Store!Readable[ls] = <<h>> \o r
      BY <2>4, <2>6, <2>9
    <3>2. <<h>> \o r \in Seq(Store!Msgs) /\ Len(<<h>> \o r) = Len(r) + 1 /\ Len(r) \in Nat
      BY <2>7, <2>9
    <3> QED
      BY <3>1, <3>2, <2>2, <2>5, <2>7
  <2> QED
    BY <2>2, <2>8, <2>9
<1>3. S \in SUBSET Nat
  OBVIOUS
<1>4. S = Nat
  <2> HIDE DEF S
  <2> QED
    BY <1>1, <1>2, <1>3, StoreInduction
<1> SUFFICES ASSUME NEW ls \in StoreLines PROVE Good(ls)
  OBVIOUS
<1>5. Len(ls) \in S
  BY <1>4 DEF StoreLines
<1> QED
  BY <1>5

-----------------------------------------------------------------------------
(* The offset stays inside the file, whole appends or torn ones.           *)

StoreIInv ==
    /\ Store!TypeOK
    /\ Store!SkipWithinFile
    /\ Store!Rewriting => storeSkip = 0
    /\ storePc = "addMeta" => storeArg # << >>

LEMMA StoreLastPart ==
    ASSUME NEW S, NEW s \in Seq(S), NEW i \in Nat \ {0}
    PROVE  SubSeq(s, i, Len(s)) \in Seq(S)
OBVIOUS

LEMMA StoreFirstPart ==
    ASSUME NEW S, NEW s \in Seq(S), NEW i \in Nat, i <= Len(s)
    PROVE  SubSeq(s, 1, i) \in Seq(S)
OBVIOUS

LEMMA StoreElements ==
    ASSUME NEW S, NEW s \in Seq(S)
    PROVE  Store!Elems(s) \subseteq S
BY DEF Store!Elems

LEMMA StoreHistory ==
    ASSUME Store!ConstantsAssumption, storeLines \in StoreLines, storeSkip \in Nat
    PROVE  Store!GetHistory \in Seq(Store!Msgs)
<1>1. SubSeq(storeLines, storeSkip + 1, Len(storeLines)) \in StoreLines
  BY StoreLastPart DEF StoreLines
<1> QED
  BY <1>1, StoreReads DEF Store!GetHistory, Store!readMessages

LEMMA StoreReplaced ==
    ASSUME NEW S, NEW s \in Seq(S), NEW b \in S
    PROVE  [s EXCEPT ![Len(s)] = b] \in Seq(S) /\ Len([s EXCEPT ![Len(s)] = b]) = Len(s)
<1> DEFINE t == [s EXCEPT ![Len(s)] = b]
<1>1. Len(s) \in Nat /\ DOMAIN s = 1..Len(s) /\ \A i \in 1..Len(s) : s[i] \in S
  OBVIOUS
<1>2. DOMAIN t = 1..Len(s) /\ \A i \in 1..Len(s) : t[i] \in S
  BY <1>1
<1>3. t \in [1..Len(s) -> S]
  BY <1>2
<1> HIDE DEF t
<1>4. t \in Seq(S)
  BY <1>1, <1>3
<1>5. Len(t) = Len(s)
  BY <1>1, <1>2, <1>4
<1> QED
  BY <1>4, <1>5 DEF t

LEMMA StoreAppendLineType ==
    ASSUME storeLines \in StoreLines, storeTorn \in BOOLEAN, NEW l \in Store!Msgs \cup {Store!Bad}
    PROVE  Store!AppendLine(l) \in StoreLines /\ Len(storeLines) <= Len(Store!AppendLine(l))
<1>1. CASE storeTorn
  <2>1. /\ [storeLines EXCEPT ![Len(storeLines)] = Store!Bad] \in StoreLines
        /\ Len([storeLines EXCEPT ![Len(storeLines)] = Store!Bad]) = Len(storeLines) /\ Len(storeLines) \in Nat
    BY StoreReplaced DEF StoreLines
  <2>2. Store!AppendLine(l) = [storeLines EXCEPT ![Len(storeLines)] = Store!Bad]
    BY <1>1, Zenon DEF Store!AppendLine
  <2> QED
    BY <2>1, <2>2
<1>2. CASE ~ storeTorn
  <2>1. /\ Append(storeLines, l) \in StoreLines
        /\ Len(Append(storeLines, l)) = Len(storeLines) + 1 /\ Len(storeLines) \in Nat
    BY DEF StoreLines
  <2>2. Store!AppendLine(l) = Append(storeLines, l)
    BY <1>2, Zenon DEF Store!AppendLine
  <2> QED
    BY <2>1, <2>2
<1> QED
  BY <1>1, <1>2

LEMMA StoreStepInv ==
    ASSUME Store!ConstantsAssumption, StoreIInv, [Store!Next]_(Store!vars)
    PROVE  StoreIInv'
<1> USE DEF StoreLines
<1>0. /\ storeLines \in StoreLines /\ storeTorn \in BOOLEAN /\ storeSkip \in Nat /\ storeSkip <= Len(storeLines)
      /\ storeCount \in Nat /\ storeSummary \in Summaries
      /\ storePc \in {"idle", "addMeta", "setRewrite", "compactRewrite"}
      /\ storeArg \in Seq(Store!Msgs) /\ storeBefore \in Seq(Store!Msgs) /\ storeAdded \in 0..StoreMaxMsgs
      /\ storeAcked \subseteq Store!Msgs /\ storeRevived \subseteq Store!Msgs /\ StoreMaxMsgs \in Nat
      /\ (storePc = "setRewrite" \/ storePc = "compactRewrite") => storeSkip = 0
      /\ storePc = "addMeta" => storeArg # << >>
      /\ Len(storeLines) \in Nat
  BY DEF StoreIInv, Store!TypeOK, Store!SkipWithinFile, Store!Rewriting,
       Store!ConstantsAssumption
<1>1. Store!GetHistory \in Seq(Store!Msgs) /\ << >> \in Seq(Store!Msgs)
  BY <1>0, StoreHistory
<1>2. CASE Store!AddMessage
  <2> DEFINE m == storeAdded + 1
  <2>1. m \in Store!Msgs /\ m \in 0..StoreMaxMsgs
    BY <1>0, <1>2 DEF Store!AddMessage, Store!Msgs
  <2>2. Store!AppendLine(m) \in StoreLines /\ Len(storeLines) <= Len(Store!AppendLine(m)) /\ Len(Store!AppendLine(m)) \in Nat
    BY <1>0, <2>1, StoreAppendLineType
  <2>3. <<m>> \in Seq(Store!Msgs) /\ <<m>> # << >>
    BY <2>1
  <2>4. /\ storeAdded' = m /\ storeLines' = Store!AppendLine(m) /\ storeTorn' = FALSE /\ storePc' = "addMeta"
        /\ storeArg' = <<m>> /\ storeBefore' = Store!GetHistory
        /\ UNCHANGED <<storeSkip, storeCount, storeSummary, storeAcked, storeRevived>>
    BY <1>2 DEF Store!AddMessage, Store!OpBegins, Store!metaVars
  <2> HIDE DEF m
  <2>5. storeSkip' <= Len(storeLines')
    BY <1>0, <2>2, <2>4
  <2> QED
    BY <1>0, <1>1, <2>1, <2>2, <2>3, <2>4, <2>5 DEF StoreIInv, Store!TypeOK,
         Store!SkipWithinFile, Store!Rewriting
<1>3. CASE Store!AddMessageCutShort
  <2> DEFINE m == storeAdded + 1
  <2>1. m \in Store!Msgs /\ m \in 0..StoreMaxMsgs /\ m \in Store!Msgs \cup {Store!Bad} /\ Store!Bad \in Store!Msgs \cup {Store!Bad}
    BY <1>0, <1>3 DEF Store!AddMessageCutShort, Store!Msgs
  <2>2. /\ storeAdded' = m
        /\ UNCHANGED <<storeSkip, storeCount, storeSummary, storePc, storeArg, storeBefore, storeAcked, storeRevived>>
        /\ \/ UNCHANGED <<storeLines, storeTorn>>
           \/ storeTorn' = TRUE /\ storeLines' \in {Store!AppendLine(Store!Bad), Store!AppendLine(m)}
    BY <1>3 DEF Store!AddMessageCutShort, Store!metaVars, Store!opVars, Store!fileVars
  <2>3. \A l \in Store!Msgs \cup {Store!Bad} : Store!AppendLine(l) \in StoreLines /\ Len(storeLines) <= Len(Store!AppendLine(l))
    BY <1>0, StoreAppendLineType
  <2> HIDE DEF m
  <2>4. storeLines' \in StoreLines /\ Len(storeLines) <= Len(storeLines') /\ storeTorn' \in BOOLEAN
    <3>1. CASE UNCHANGED <<storeLines, storeTorn>>
      BY <1>0, <3>1
    <3>2. CASE storeTorn' = TRUE /\ storeLines' = Store!AppendLine(Store!Bad)
      BY <2>1, <2>3, <3>2
    <3>3. CASE storeTorn' = TRUE /\ storeLines' = Store!AppendLine(m)
      BY <2>1, <2>3, <3>3
    <3> QED
      BY <2>2, <3>1, <3>2, <3>3
  <2>5. storeSkip' <= Len(storeLines')
    BY <1>0, <2>2, <2>4
  <2> QED
    BY <1>0, <2>1, <2>2, <2>4, <2>5 DEF StoreIInv, Store!TypeOK, Store!SkipWithinFile,
         Store!Rewriting
<1>4. CASE Store!AddMessageMeta
  <2>1. storeArg[1] \in Store!Msgs
    BY <1>0, <1>4 DEF Store!AddMessageMeta
  <2> QED
    BY <1>0, <1>1, <1>4, <2>1
    DEF Store!AddMessageMeta, Store!OpEnds, Store!fileVars, StoreIInv, Store!TypeOK, Store!SkipWithinFile, Store!Rewriting
<1>5. ASSUME NEW keepLast \in 0..StoreMaxMsgs, Store!TruncateHistory(keepLast) PROVE StoreIInv'
  <2>1. /\ storeCount' = Len(storeLines)
        /\ UNCHANGED <<storeLines, storeTorn, storeSummary, storePc, storeArg, storeBefore, storeAdded, storeAcked>> /\ storeRevived' = {}
        /\ storePc = "idle"
    BY <1>5 DEF Store!TruncateHistory, Store!fileVars, Store!opVars
  <2>2. storeSkip' \in Nat /\ storeSkip' <= Len(storeLines)
    BY <1>0, <1>5 DEF Store!TruncateHistory
  <2> QED
    BY <1>0, <2>1, <2>2 DEF StoreIInv, Store!TypeOK, Store!SkipWithinFile, Store!Rewriting
<1>6. ASSUME NEW x \in Summaries, Store!SetSummary(x) PROVE StoreIInv'
  BY <1>0, <1>6 DEF Store!SetSummary, Store!fileVars, Store!opVars, StoreIInv,
       Store!TypeOK, Store!SkipWithinFile, Store!Rewriting
<1>7. ASSUME NEW h \in Seq(Store!Msgs), NEW op \in {"setRewrite", "compactRewrite"}, Store!RewriteBegins(op, h)
      PROVE  StoreIInv'
  <2>1. /\ storePc' = op /\ storeArg' = h /\ storeBefore' = Store!GetHistory /\ storeSkip' = 0 /\ storeCount' = Len(h)
        /\ UNCHANGED <<storeLines, storeTorn, storeSummary, storeAdded, storeAcked, storeRevived>>
    BY <1>7 DEF Store!RewriteBegins, Store!OpBegins, Store!fileVars
  <2>2. Len(h) \in Nat
    OBVIOUS
  <2> QED
    BY <1>0, <1>1, <2>1, <2>2 DEF StoreIInv, Store!TypeOK, Store!SkipWithinFile,
         Store!Rewriting
<1>8. ASSUME NEW i \in 1..Len(Store!GetHistory) + 1, Store!SetHistory(SubSeq(Store!GetHistory, i, Len(Store!GetHistory)))
      PROVE  StoreIInv'
  <2>1. SubSeq(Store!GetHistory, i, Len(Store!GetHistory)) \in Seq(Store!Msgs)
    BY <1>1, StoreLastPart
  <2> QED
    BY <1>7, <1>8, <2>1 DEF Store!SetHistory
<1>9. CASE Store!Compact
  BY <1>1, <1>7, <1>9 DEF Store!Compact
<1>10. CASE Store!Rewrite
  <2>1. /\ storePc \in {"setRewrite", "compactRewrite"}
        /\ storeLines' = storeArg /\ storeTorn' = FALSE /\ storeRevived' = {} /\ storePc' = "idle"
        /\ storeArg' = << >> /\ storeBefore' = << >>
        /\ UNCHANGED <<storeSkip, storeCount, storeSummary, storeAdded, storeAcked>>
    BY <1>10 DEF Store!Rewrite, Store!OpEnds, Store!metaVars
  <2>2. storeArg \in StoreLines /\ 0 <= Len(storeArg)
    BY <1>0
  <2>3. storeSkip = 0
    BY <1>0, <2>1
  <2> QED
    BY <1>0, <1>1, <2>1, <2>2, <2>3 DEF StoreIInv, Store!TypeOK, Store!SkipWithinFile,
         Store!Rewriting
<1>11. CASE Store!Interrupt
  <2>1. /\ UNCHANGED <<storeLines, storeTorn, storeSkip, storeCount, storeSummary, storeAdded, storeAcked>>
        /\ storePc' = "idle" /\ storeArg' = << >> /\ storeBefore' = << >>
        /\ storeRevived' \subseteq Store!Elems(Store!GetHistory) \cup storeRevived
    BY <1>11 DEF Store!Interrupt, Store!OpEnds, Store!fileVars, Store!metaVars
  <2>2. Store!Elems(Store!GetHistory) \subseteq Store!Msgs
    BY <1>1, StoreElements
  <2> QED
    BY <1>0, <1>1, <2>1, <2>2 DEF StoreIInv, Store!TypeOK, Store!SkipWithinFile,
         Store!Rewriting
<1>12. CASE UNCHANGED Store!vars
  BY <1>0, <1>12
  DEF Store!vars, Store!fileVars, Store!metaVars, Store!opVars, StoreIInv, Store!TypeOK, Store!SkipWithinFile, Store!Rewriting
<1> QED
  BY <1>2, <1>3, <1>4, <1>5, <1>6, <1>8, <1>9, <1>10, <1>11, <1>12 DEF Store!Next

LEMMA StoreInitInv == ASSUME Store!ConstantsAssumption, Store!Init PROVE StoreIInv
<1>1. << >> \in Seq(Store!Msgs \cup {Store!Bad}) /\ << >> \in Seq(Store!Msgs) /\ Len(<< >>) = 0
  OBVIOUS
<1>2. 0 \in 0..StoreMaxMsgs /\ 0 \in Nat /\ NoSummary \in Summaries
  BY DEF Store!ConstantsAssumption
<1>3. storeLines = << >> /\ storeSkip = 0 /\ storeSkip <= Len(storeLines)
  BY <1>1 DEF Store!Init
<1> QED
  BY <1>1, <1>2, <1>3 DEF Store!Init, StoreIInv, Store!TypeOK, Store!SkipWithinFile,
       Store!Rewriting, Store!ConstantsAssumption

THEOREM StoreHolds ==
    ASSUME Store!ConstantsAssumption
    PROVE  Store!Spec => [](Store!TypeOK /\ Store!SkipWithinFile)
<1>1. StoreIInv => Store!TypeOK /\ Store!SkipWithinFile
  BY DEF StoreIInv
<1> QED
  BY <1>1, StoreInitInv, StoreStepInv, PTL DEF Store!Spec

-----------------------------------------------------------------------------
(* With whole appends every step is a step of the abstract store.          *)

LEMMA StoreSeqSame ==
    ASSUME NEW S, NEW s \in Seq(S), NEW t \in Seq(S), Len(s) = Len(t),
           \A i \in 1..Len(s) : s[i] = t[i]
    PROVE  s = t
OBVIOUS

LEMMA StoreParts ==
    ASSUME NEW S, NEW l \in Seq(S), NEW k \in 0..Len(l)
    PROVE  /\ SubSeq(l, k + 1, Len(l)) \in Seq(S) /\ SubSeq(l, 1, k) \in Seq(S)
           /\ Len(SubSeq(l, k + 1, Len(l))) = Len(l) - k /\ Len(SubSeq(l, 1, k)) = k
           /\ SubSeq(l, 1, k) \o SubSeq(l, k + 1, Len(l)) = l
           /\ Len(l) \in Nat
<1> DEFINE a == SubSeq(l, 1, k)
           b == SubSeq(l, k + 1, Len(l))
<1>1. /\ a \in Seq(S) /\ Len(a) = k /\ \A i \in 1..k : a[i] = l[i]
      /\ Len(l) \in Nat
  OBVIOUS
<1>2. /\ b \in Seq(S) /\ Len(b) = Len(l) - k /\ \A i \in 1..Len(b) : b[i] = l[k + i]
  OBVIOUS
<1> HIDE DEF a, b
<1> DEFINE c == a \o b
<1>3. c \in Seq(S) /\ Len(c) = Len(l) /\ Len(l) \in Nat
  BY <1>1, <1>2
<1>4. \A i \in 1..Len(l) : c[i] = l[i]
  <2> SUFFICES ASSUME NEW i \in 1..Len(l) PROVE c[i] = l[i]
    OBVIOUS
  <2>1. CASE i <= k
    BY <1>1, <1>2, <2>1
  <2>2. CASE i > k
    <3>1. i - k \in 1..Len(b) /\ c[i] = b[i - k] /\ k + (i - k) = i
      BY <1>1, <1>2, <2>2
    <3> QED
      BY <1>2, <3>1
  <2>3. i <= k \/ i > k
    BY <1>1
  <2> QED
    BY <2>1, <2>2, <2>3
<1>5. c = l
  <2> HIDE DEF c
  <2> QED
    BY <1>3, <1>4, StoreSeqSame
<1> QED
  BY <1>1, <1>2, <1>5 DEF a, b

LEMMA StoreAllOf ==
    ASSUME NEW S, NEW l \in Seq(S)
    PROVE  SubSeq(l, 1, Len(l)) = l /\ SubSeq(l, 1, 0) = << >> /\ Len(l) \in Nat
OBVIOUS

LEMMA StorePartsOfLonger ==
    ASSUME NEW S, NEW l \in Seq(S), NEW k \in 0..Len(l), NEW m \in S
    PROVE  /\ SubSeq(Append(l, m), k + 1, Len(Append(l, m))) = Append(SubSeq(l, k + 1, Len(l)), m)
           /\ SubSeq(Append(l, m), 1, k) = SubSeq(l, 1, k)
           /\ k \in 0..Len(Append(l, m)) /\ Append(l, m) \in Seq(S)
<1> DEFINE t == Append(l, m)
           h == SubSeq(l, k + 1, Len(l))
           u == SubSeq(t, k + 1, Len(t))
           v == Append(h, m)
<1>1. /\ t \in Seq(S) /\ Len(t) = Len(l) + 1 /\ Len(l) \in Nat /\ t[Len(l) + 1] = m
      /\ \A i \in 1..Len(l) : t[i] = l[i]
  OBVIOUS
<1>2. /\ h \in Seq(S) /\ Len(h) = Len(l) - k /\ \A i \in 1..Len(h) : h[i] = l[k + i]
  OBVIOUS
<1>3. k \in 0..Len(t)
  BY <1>1
<1> HIDE DEF t, h
<1>4. /\ u \in Seq(S) /\ Len(u) = Len(l) + 1 - k
      /\ \A i \in 1..Len(u) : u[i] = t[k + i]
  BY <1>1, <1>3
<1>5. /\ v \in Seq(S) /\ Len(v) = Len(l) + 1 - k /\ v[Len(l) + 1 - k] = m
      /\ \A i \in 1..(Len(l) - k) : v[i] = h[i]
  BY <1>1, <1>2
<1> HIDE DEF u, v
<1>6. \A i \in 1..Len(u) : u[i] = v[i]
  <2> SUFFICES ASSUME NEW i \in 1..Len(u) PROVE u[i] = v[i]
    OBVIOUS
  <2>1. CASE i <= Len(l) - k
    <3>1. i \in 1..Len(h) /\ k + i \in 1..Len(l) /\ i \in 1..(Len(l) - k)
      BY <1>1, <1>2, <1>4, <2>1
    <3>2. u[i] = t[k + i] /\ t[k + i] = l[k + i] /\ h[i] = l[k + i] /\ v[i] = h[i]
      BY <1>1, <1>2, <1>4, <1>5, <3>1
    <3> QED
      BY <3>2
  <2>2. CASE i = Len(l) + 1 - k
    <3>1. k + i = Len(l) + 1 /\ u[i] = t[k + i]
      BY <1>1, <1>4, <2>2
    <3>2. u[i] = m
      BY <3>1, <1>1
    <3> QED
      BY <1>5, <2>2, <3>2
  <2>3. i <= Len(l) - k \/ i = Len(l) + 1 - k
    BY <1>1, <1>4
  <2> QED
    BY <2>1, <2>2, <2>3
<1>7. u = v
  BY <1>4, <1>5, <1>6, StoreSeqSame
<1>8. SubSeq(t, 1, k) = SubSeq(l, 1, k)
  BY <1>1, <1>3
<1> QED
  BY <1>1, <1>3, <1>7, <1>8 DEF t, h, u, v


LEMMA StoreLaterPart ==
    ASSUME NEW S, NEW l \in Seq(S), NEW k \in 0..Len(l), NEW j \in 0..Len(l), k <= j,
           NEW h, h = SubSeq(l, k + 1, Len(l))
    PROVE  /\ SubSeq(l, j + 1, Len(l)) = SubSeq(h, Len(h) - (Len(l) - j) + 1, Len(h))
           /\ SubSeq(l, 1, j) = SubSeq(l, 1, k) \o SubSeq(h, 1, Len(h) - (Len(l) - j))
<1>1. Len(l) \in Nat /\ Len(h) = Len(l) - k /\ h \in Seq(S)
  OBVIOUS
<1>2. \A i \in 1..Len(h) : h[i] = l[k + i]
  OBVIOUS
<1>3. Len(h) - (Len(l) - j) = j - k /\ j - k \in 0..Len(h)
  BY <1>1
<1>4. SubSeq(l, j + 1, Len(l)) = SubSeq(h, (j - k) + 1, Len(h))
  BY <1>1, <1>2, <1>3
<1>5. SubSeq(l, 1, j) = SubSeq(l, 1, k) \o SubSeq(h, 1, j - k)
  BY <1>1, <1>2, <1>3
<1> QED
  BY <1>3, <1>4, <1>5

StoreWholeAppends == FALSE = FALSE

StoreNoneCorrupt == storeLines \in Seq(Store!Msgs) /\ storeTorn = FALSE

\* What a rewrite will leave is made from the history that was read when it began
StoreRewriteKnown ==
    /\ Store!Rewriting => \E k \in 0..Len(storeLines) : storeBefore = SubSeq(storeLines, k + 1, Len(storeLines))
    /\ storePc = "compactRewrite" => storeArg = storeBefore
    /\ storePc = "setRewrite" => \E i \in 1..Len(storeBefore) + 1 : storeArg = SubSeq(storeBefore, i, Len(storeBefore))

StoreRInv == StoreIInv /\ StoreNoneCorrupt /\ StoreRewriteKnown

LEMMA StoreReadWhole ==
    ASSUME Store!ConstantsAssumption, NEW l \in Seq(Store!Msgs)
    PROVE  Store!Readable[l] = l
<1>1. l \in StoreLines
  BY DEF StoreLines
<1> QED
  BY <1>1, StoreReads

LEMMA StoreHistoryWhole ==
    ASSUME Store!ConstantsAssumption, storeLines \in Seq(Store!Msgs), storeSkip \in 0..Len(storeLines)
    PROVE  Store!GetHistory = SubSeq(storeLines, storeSkip + 1, Len(storeLines))
<1>1. SubSeq(storeLines, storeSkip + 1, Len(storeLines)) \in Seq(Store!Msgs)
  BY StoreParts
<1> QED
  BY <1>1, StoreReadWhole DEF Store!GetHistory, Store!readMessages

LEMMA StoreHistoryWholeNext ==
    ASSUME Store!ConstantsAssumption, storeLines' \in Seq(Store!Msgs), storeSkip' \in 0..Len(storeLines')
    PROVE  Store!GetHistory' = SubSeq(storeLines', storeSkip' + 1, Len(storeLines'))
<1>1. SubSeq(storeLines', storeSkip' + 1, Len(storeLines')) \in Seq(Store!Msgs)
  BY StoreParts
<1> QED
  BY <1>1, StoreReadWhole DEF Store!GetHistory, Store!readMessages

StoreIdle == storePc = "idle" \/ storePc = "addMeta"

LEMMA StoreMaps ==
    ASSUME Store!ConstantsAssumption, StoreRInv
    PROVE  /\ StoreIdle => /\ Store!Hist = SubSeq(storeLines, storeSkip + 1, Len(storeLines))
                           /\ Store!Dropped = SubSeq(storeLines, 1, storeSkip)
           /\ Store!Rewriting => /\ Store!Hist = storeBefore
                                 /\ Store!Dropped = SubSeq(storeLines, 1, Len(storeLines) - Len(storeBefore))
           /\ storeLines \in Seq(Store!Msgs) /\ storeSkip \in 0..Len(storeLines) /\ storeBefore \in Seq(Store!Msgs)
           /\ (Store!Rewriting => storeSkip = 0) /\ (StoreIdle \/ Store!Rewriting)
           /\ storeArg \in Seq(Store!Msgs)
           /\ Store!GetHistory = SubSeq(storeLines, storeSkip + 1, Len(storeLines))
           /\ storeTorn = FALSE
<1>1. /\ storeLines \in Seq(Store!Msgs) /\ storeSkip \in 0..Len(storeLines) /\ storeBefore \in Seq(Store!Msgs) /\ storeArg \in Seq(Store!Msgs)
      /\ StoreIdle \/ Store!Rewriting
      /\ Store!Rewriting => storeSkip = 0
      /\ storeTorn = FALSE
  BY DEF StoreRInv, StoreIInv, StoreNoneCorrupt, Store!TypeOK, Store!SkipWithinFile,
       StoreIdle, Store!Rewriting
<1>2. Store!GetHistory = SubSeq(storeLines, storeSkip + 1, Len(storeLines))
  BY <1>1, StoreHistoryWhole
<1>3. StoreIdle => ~ Store!Rewriting
  BY DEF StoreIdle, Store!Rewriting
<1>4. SubSeq(storeLines, 1, storeSkip) \in Seq(Store!Msgs)
  BY <1>1, StoreParts
<1>5. StoreIdle => Store!Hist = SubSeq(storeLines, storeSkip + 1, Len(storeLines)) /\ Store!Dropped = SubSeq(storeLines, 1, storeSkip)
  BY <1>2, <1>3, <1>4, StoreReadWhole DEF Store!Hist, Store!Dropped
<1>6. Store!Rewriting => Store!GetHistory = storeLines
  BY <1>1, <1>2, StoreAllOf
<1>7. Store!Rewriting => Store!Hist = storeBefore /\ Store!Dropped = SubSeq(storeLines, 1, Len(storeLines) - Len(storeBefore))
  BY <1>6 DEF Store!Hist, Store!Dropped
<1> QED
  BY <1>1, <1>2, <1>5, <1>7

LEMMA StoreMapsNext ==
    ASSUME Store!ConstantsAssumption, StoreRInv'
    PROVE  /\ StoreIdle' => /\ Store!Hist' = SubSeq(storeLines', storeSkip' + 1, Len(storeLines'))
                            /\ Store!Dropped' = SubSeq(storeLines', 1, storeSkip')
           /\ Store!Rewriting' => /\ Store!Hist' = storeBefore'
                                  /\ Store!Dropped' = SubSeq(storeLines', 1, Len(storeLines') - Len(storeBefore'))
<1>1. /\ storeLines' \in Seq(Store!Msgs) /\ storeSkip' \in 0..Len(storeLines')
      /\ Store!Rewriting' => storeSkip' = 0
  BY DEF StoreRInv, StoreIInv, StoreNoneCorrupt, Store!TypeOK, Store!SkipWithinFile,
       StoreIdle, Store!Rewriting
<1>2. Store!GetHistory' = SubSeq(storeLines', storeSkip' + 1, Len(storeLines'))
  BY <1>1, StoreHistoryWholeNext
<1>3. StoreIdle' => ~ Store!Rewriting'
  BY DEF StoreIdle, Store!Rewriting
<1>4. SubSeq(storeLines', 1, storeSkip') \in Seq(Store!Msgs)
  BY <1>1, StoreParts
<1>5. StoreIdle' => Store!Hist' = SubSeq(storeLines', storeSkip' + 1, Len(storeLines')) /\ Store!Dropped' = SubSeq(storeLines', 1, storeSkip')
  BY <1>2, <1>3, <1>4, StoreReadWhole DEF Store!Hist, Store!Dropped
<1>6. Store!Rewriting' => Store!GetHistory' = storeLines'
  BY <1>1, <1>2, StoreAllOf
<1>7. Store!Rewriting' => Store!Hist' = storeBefore' /\ Store!Dropped' = SubSeq(storeLines', 1, Len(storeLines') - Len(storeBefore'))
  BY <1>6 DEF Store!Hist, Store!Dropped
<1> QED
  BY <1>5, <1>7

LEMMA StoreStepRInv ==
    ASSUME Store!ConstantsAssumption, StoreWholeAppends, StoreRInv, [Store!Next]_(Store!vars)
    PROVE  StoreRInv'
<1>0. /\ storeLines \in Seq(Store!Msgs) /\ storeSkip \in 0..Len(storeLines) /\ storeBefore \in Seq(Store!Msgs) /\ storeTorn = FALSE
      /\ Store!GetHistory = SubSeq(storeLines, storeSkip + 1, Len(storeLines)) /\ storeArg \in Seq(Store!Msgs)
      /\ Len(storeLines) \in Nat
  BY StoreMaps
<1>1. StoreIInv'
  BY StoreStepInv DEF StoreRInv
<1>2. StoreRewriteKnown /\ Store!TypeOK
  BY DEF StoreRInv, StoreIInv
<1>3. ASSUME NEW m \in Store!Msgs PROVE Store!AppendLine(m) = Append(storeLines, m) /\ Append(storeLines, m) \in Seq(Store!Msgs)
  BY <1>0 DEF Store!AppendLine
<1>4. CASE Store!AddMessage
  <2>1. storeAdded + 1 \in Store!Msgs
    BY <1>2, <1>4 DEF Store!AddMessage, Store!Msgs, Store!TypeOK, Store!ConstantsAssumption
  <2>2. StoreNoneCorrupt'
    BY <1>3, <1>4, <2>1 DEF Store!AddMessage, StoreNoneCorrupt
  <2>3. StoreRewriteKnown'
    BY <1>4 DEF Store!AddMessage, Store!OpBegins, StoreRewriteKnown, Store!Rewriting
  <2> QED
    BY <1>1, <2>2, <2>3 DEF StoreRInv
<1>5. CASE Store!AddMessageCutShort
  <2>1. UNCHANGED <<storeLines, storeTorn, storePc, storeArg, storeBefore>>
    BY <1>5 DEF Store!AddMessageCutShort, StoreWholeAppends, Store!fileVars, Store!opVars
  <2> QED
    BY <1>0, <1>1, <1>2, <2>1 DEF StoreRInv, StoreNoneCorrupt, StoreRewriteKnown,
         Store!Rewriting
<1>6. CASE Store!AddMessageMeta
  <2>1. UNCHANGED <<storeLines, storeTorn>> /\ storePc' = "idle"
    BY <1>6 DEF Store!AddMessageMeta, Store!OpEnds, Store!fileVars
  <2> QED
    BY <1>0, <1>1, <2>1 DEF StoreRInv, StoreNoneCorrupt, StoreRewriteKnown, Store!Rewriting
<1>7. ASSUME NEW keepLast \in 0..StoreMaxMsgs, Store!TruncateHistory(keepLast) PROVE StoreRInv'
  <2>1. UNCHANGED <<storeLines, storeTorn, storePc, storeArg, storeBefore>>
    BY <1>7 DEF Store!TruncateHistory, Store!fileVars, Store!opVars
  <2> QED
    BY <1>0, <1>1, <1>2, <2>1 DEF StoreRInv, StoreNoneCorrupt, StoreRewriteKnown,
         Store!Rewriting
<1>8. ASSUME NEW x \in Summaries, Store!SetSummary(x) PROVE StoreRInv'
  <2>1. UNCHANGED <<storeLines, storeTorn, storePc, storeArg, storeBefore>>
    BY <1>8 DEF Store!SetSummary, Store!fileVars, Store!opVars
  <2> QED
    BY <1>0, <1>1, <1>2, <2>1 DEF StoreRInv, StoreNoneCorrupt, StoreRewriteKnown,
         Store!Rewriting
<1>9. ASSUME NEW i \in 1..Len(Store!GetHistory) + 1, Store!SetHistory(SubSeq(Store!GetHistory, i, Len(Store!GetHistory)))
      PROVE  StoreRInv'
  <2>1. /\ UNCHANGED <<storeLines, storeTorn>> /\ storePc' = "setRewrite" /\ storeBefore' = Store!GetHistory
        /\ storeArg' = SubSeq(Store!GetHistory, i, Len(Store!GetHistory))
    BY <1>9 DEF Store!SetHistory, Store!RewriteBegins, Store!OpBegins, Store!fileVars
  <2>2. storeBefore' = SubSeq(storeLines', storeSkip + 1, Len(storeLines')) /\ storeSkip \in 0..Len(storeLines')
    BY <1>0, <2>1
  <2>3. storeArg' = SubSeq(storeBefore', i, Len(storeBefore')) /\ i \in 1..Len(storeBefore') + 1
    BY <2>1
  <2> QED
    BY <1>0, <1>1, <2>1, <2>2, <2>3 DEF StoreRInv, StoreNoneCorrupt, StoreRewriteKnown
<1>10. CASE Store!Compact
  <2>1. /\ UNCHANGED <<storeLines, storeTorn>> /\ storePc' = "compactRewrite" /\ storeBefore' = Store!GetHistory
        /\ storeArg' = Store!GetHistory
    BY <1>10 DEF Store!Compact, Store!RewriteBegins, Store!OpBegins, Store!fileVars
  <2>2. storeBefore' = SubSeq(storeLines', storeSkip + 1, Len(storeLines')) /\ storeSkip \in 0..Len(storeLines')
    BY <1>0, <2>1
  <2> QED
    BY <1>0, <1>1, <2>1, <2>2 DEF StoreRInv, StoreNoneCorrupt, StoreRewriteKnown
<1>11. CASE Store!Rewrite
  <2>1. storeLines' = storeArg /\ storeTorn' = FALSE /\ storePc' = "idle"
    BY <1>11 DEF Store!Rewrite, Store!OpEnds
  <2> QED
    BY <1>0, <1>1, <2>1 DEF StoreRInv, StoreNoneCorrupt, StoreRewriteKnown, Store!Rewriting
<1>12. CASE Store!Interrupt
  <2>1. UNCHANGED <<storeLines, storeTorn>> /\ storePc' = "idle"
    BY <1>12 DEF Store!Interrupt, Store!OpEnds, Store!fileVars
  <2> QED
    BY <1>0, <1>1, <2>1 DEF StoreRInv, StoreNoneCorrupt, StoreRewriteKnown, Store!Rewriting
<1>13. CASE UNCHANGED Store!vars
  <2>1. UNCHANGED <<storeLines, storeTorn, storePc, storeArg, storeBefore>>
    BY <1>13 DEF Store!vars, Store!fileVars, Store!opVars
  <2> QED
    BY <1>0, <1>1, <1>2, <2>1 DEF StoreRInv, StoreNoneCorrupt, StoreRewriteKnown,
         Store!Rewriting
<1> QED
  BY <1>4, <1>5, <1>6, <1>7, <1>8, <1>9, <1>10, <1>11, <1>12, <1>13 DEF Store!Next

\* Every step is a step of the abstract store, or leaves what it shows alone.
LEMMA StoreStepMaps ==
    ASSUME Store!ConstantsAssumption, StoreWholeAppends, StoreRInv, StoreRInv', [Store!Next]_(Store!vars)
    PROVE  [Store!Promise!Next]_(Store!Promise!vars)
<1> DEFINE n == Len(storeLines)
           H == SubSeq(storeLines, storeSkip + 1, n)
           D == SubSeq(storeLines, 1, storeSkip)
<1>0. /\ storeLines \in Seq(Store!Msgs) /\ storeSkip \in 0..n /\ storeBefore \in Seq(Store!Msgs) /\ storeTorn = FALSE
      /\ Store!GetHistory = H /\ storeArg \in Seq(Store!Msgs) /\ n \in Nat
      /\ Store!Rewriting => storeSkip = 0
      /\ StoreIdle => Store!Hist = H /\ Store!Dropped = D
      /\ Store!Rewriting => Store!Hist = storeBefore /\ Store!Dropped = SubSeq(storeLines, 1, n - Len(storeBefore))
  BY StoreMaps
<1>1. /\ StoreIdle' => /\ Store!Hist' = SubSeq(storeLines', storeSkip' + 1, Len(storeLines'))
                       /\ Store!Dropped' = SubSeq(storeLines', 1, storeSkip')
      /\ Store!Rewriting' => /\ Store!Hist' = storeBefore'
                             /\ Store!Dropped' = SubSeq(storeLines', 1, Len(storeLines') - Len(storeBefore'))
  BY StoreMapsNext
<1>2. StoreRewriteKnown /\ Store!TypeOK
  BY DEF StoreRInv, StoreIInv
<1>3. /\ H \in Seq(Store!Msgs) /\ D \in Seq(Store!Msgs) /\ Len(H) = n - storeSkip /\ Len(D) = storeSkip
      /\ D \o H = storeLines
  BY <1>0, StoreParts
<1>4. ASSUME Store!Hist' = Store!Hist, Store!Dropped' = Store!Dropped, storeSummary' = storeSummary
      PROVE  [Store!Promise!Next]_(Store!Promise!vars)
  BY <1>4 DEF Store!Promise!vars
<1>5. CASE Store!AddMessage
  <2>0. PICK m : m = storeAdded + 1
    OBVIOUS
  <2>1. m \in Store!Msgs
    BY <1>2, <1>5, <2>0 DEF Store!AddMessage, Store!Msgs, Store!TypeOK,
         Store!ConstantsAssumption
  <2>2. storeLines' = Append(storeLines, m) /\ storeSkip' = storeSkip /\ storeSummary' = storeSummary /\ StoreIdle /\ StoreIdle'
    BY <1>0, <1>5, <2>0 DEF Store!AddMessage, Store!AppendLine, Store!OpBegins, StoreIdle,
         Store!metaVars
  <2>3. Store!Hist' = Append(H, m) /\ Store!Dropped' = D
    <3>1. /\ Store!Hist' = SubSeq(Append(storeLines, m), storeSkip + 1, Len(Append(storeLines, m)))
          /\ Store!Dropped' = SubSeq(Append(storeLines, m), 1, storeSkip)
      BY <1>1, <2>2
    <3>2. ASSUME NEW l \in Seq(Store!Msgs), NEW k \in 0..Len(l), NEW x \in Store!Msgs
          PROVE  /\ SubSeq(Append(l, x), k + 1, Len(Append(l, x))) = Append(SubSeq(l, k + 1, Len(l)), x)
                 /\ SubSeq(Append(l, x), 1, k) = SubSeq(l, 1, k)
                 /\ k \in 0..Len(Append(l, x)) /\ Append(l, x) \in Seq(Store!Msgs)
      BY StorePartsOfLonger, Zenon
    <3>3. /\ SubSeq(Append(storeLines, m), storeSkip + 1, Len(Append(storeLines, m))) = Append(H, m)
          /\ SubSeq(Append(storeLines, m), 1, storeSkip) = D
      <4>1. storeLines \in Seq(Store!Msgs) /\ storeSkip \in 0..Len(storeLines) /\ m \in Store!Msgs
        BY <1>0, <2>1
      <4> QED
        BY <4>1, <3>2, Zenon
    <3> QED
      BY <3>1, <3>3
  <2>4. Store!Hist = H /\ Store!Dropped = D
    BY <1>0, <2>2
  <2>5. Store!Promise!AddMessage(m)
    BY <2>2, <2>3, <2>4 DEF Store!Promise!AddMessage
  <2> QED
    BY <2>1, <2>5 DEF Store!Promise!Next
<1>6. CASE Store!AddMessageCutShort
  <2>1. UNCHANGED <<storeLines, storeSkip, storeSummary, storePc>> /\ StoreIdle /\ StoreIdle'
    BY <1>6 DEF Store!AddMessageCutShort, StoreWholeAppends, Store!fileVars,
         Store!metaVars, Store!opVars, StoreIdle
  <2> QED
    BY <1>0, <1>1, <1>4, <2>1
<1>7. CASE Store!AddMessageMeta
  <2>1. UNCHANGED <<storeLines, storeSkip, storeSummary>> /\ StoreIdle /\ StoreIdle'
    BY <1>7 DEF Store!AddMessageMeta, Store!OpEnds, Store!fileVars, StoreIdle
  <2> QED
    BY <1>0, <1>1, <1>4, <2>1
<1>8. ASSUME NEW keepLast \in 0..StoreMaxMsgs, Store!TruncateHistory(keepLast)
      PROVE  [Store!Promise!Next]_(Store!Promise!vars)
  <2>1. UNCHANGED <<storeLines, storeSummary>> /\ StoreIdle /\ StoreIdle'
    BY <1>8 DEF Store!TruncateHistory, Store!fileVars, Store!opVars, StoreIdle
  <2>2. storeSkip' \in 0..n /\ storeSkip <= storeSkip'
    BY <1>0, <1>8 DEF Store!TruncateHistory
  <2>3. CASE storeSkip' = storeSkip
    BY <1>0, <1>1, <1>4, <2>1, <2>3
  <2>4. CASE storeSkip' # storeSkip
    <3> DEFINE k == n - storeSkip'
    <3>1. /\ Store!Hist = H /\ Store!Dropped = D
          /\ Store!Hist' = SubSeq(storeLines, storeSkip' + 1, n) /\ Store!Dropped' = SubSeq(storeLines, 1, storeSkip')
      BY <1>0, <1>1, <2>1
    <3>2. /\ SubSeq(storeLines, storeSkip' + 1, n) = SubSeq(H, Len(H) - k + 1, Len(H))
          /\ SubSeq(storeLines, 1, storeSkip') = D \o SubSeq(H, 1, Len(H) - k)
      BY <1>0, <2>2, StoreLaterPart
    <3>3. k < Len(H) /\ k \in 0..Len(H)
      BY <1>0, <1>3, <2>2, <2>4
    <3>4. Store!Promise!TruncateHistory(k)
      BY <2>1, <3>1, <3>2, <3>3 DEF Store!Promise!TruncateHistory, Store!Promise!LastN
    <3>5. k \in 0..Len(Store!Hist)
      BY <3>1, <3>3
    <3> QED
      BY <3>4, <3>5 DEF Store!Promise!Next
  <2> QED
    BY <2>3, <2>4
<1>9. ASSUME NEW x \in Summaries, Store!SetSummary(x) PROVE [Store!Promise!Next]_(Store!Promise!vars)
  <2>1. UNCHANGED <<storeLines, storeSkip>> /\ StoreIdle /\ StoreIdle' /\ storeSummary' = x
    BY <1>9 DEF Store!SetSummary, Store!fileVars, Store!opVars, StoreIdle
  <2>2. Store!Promise!SetSummary(x)
    BY <1>0, <1>1, <2>1 DEF Store!Promise!SetSummary
  <2> QED
    BY <2>2 DEF Store!Promise!Next
<1>10. ASSUME NEW h, NEW op \in {"setRewrite", "compactRewrite"}, Store!RewriteBegins(op, h)
       PROVE  [Store!Promise!Next]_(Store!Promise!vars)
  <2>1. /\ UNCHANGED <<storeLines, storeSummary>> /\ StoreIdle /\ storePc' = op /\ storeBefore' = H
        /\ Store!Rewriting'
    BY <1>0, <1>10 DEF Store!RewriteBegins, Store!OpBegins, Store!fileVars, StoreIdle,
         Store!Rewriting
  <2>2. Store!Hist' = H /\ Store!Dropped' = SubSeq(storeLines, 1, n - Len(H))
    BY <1>1, <2>1
  <2>3. n - Len(H) = storeSkip
    BY <1>0, <1>3
  <2>4. Store!Hist' = Store!Hist /\ Store!Dropped' = Store!Dropped
    BY <1>0, <2>1, <2>2, <2>3
  <2> QED
    BY <1>4, <2>1, <2>4
<1>11. ASSUME NEW i \in 1..Len(Store!GetHistory) + 1, Store!SetHistory(SubSeq(Store!GetHistory, i, Len(Store!GetHistory)))
       PROVE  [Store!Promise!Next]_(Store!Promise!vars)
  BY <1>10, <1>11 DEF Store!SetHistory
<1>12. CASE Store!Compact
  BY <1>10, <1>12 DEF Store!Compact
<1>13. CASE Store!Rewrite
  <2>1. /\ storeLines' = storeArg /\ storeSkip' = storeSkip /\ storeSummary' = storeSummary /\ Store!Rewriting /\ StoreIdle' /\ storeSkip = 0
    BY <1>0, <1>13 DEF Store!Rewrite, Store!OpEnds, Store!metaVars, StoreIdle,
         Store!Rewriting
  <2>2. Store!Hist' = storeArg /\ Store!Dropped' = << >>
    BY <1>0, <1>1, <2>1, StoreAllOf
  <2>3. Store!Hist = storeBefore
    BY <1>0, <2>1
  <2>4. CASE storePc = "compactRewrite"
    <3>1. Store!Promise!Compact
      BY <1>2, <2>1, <2>2, <2>3, <2>4 DEF StoreRewriteKnown, Store!Promise!Compact
    <3> QED
      BY <3>1 DEF Store!Promise!Next
  <2>5. CASE storePc = "setRewrite"
    <3>1. PICK i \in 1..Len(storeBefore) + 1 : storeArg = SubSeq(storeBefore, i, Len(storeBefore))
      BY <1>2, <2>5 DEF StoreRewriteKnown
    <3>2. Store!Promise!SetHistory(SubSeq(Store!Hist, i, Len(Store!Hist))) /\ i \in 1..Len(Store!Hist) + 1
      BY <2>1, <2>2, <2>3, <3>1 DEF Store!Promise!SetHistory
    <3> QED
      BY <3>2 DEF Store!Promise!Next
  <2> QED
    BY <2>1, <2>4, <2>5 DEF Store!Rewriting
<1>14. CASE Store!Interrupt
  <2>1. UNCHANGED <<storeLines, storeSkip, storeSummary>> /\ StoreIdle'
    BY <1>14 DEF Store!Interrupt, Store!OpEnds, Store!fileVars, Store!metaVars, StoreIdle
  <2>2. CASE StoreIdle
    BY <1>0, <1>1, <1>4, <2>1, <2>2
  <2>3. CASE Store!Rewriting
    <3>1. Store!Hist' = storeLines /\ Store!Dropped' = << >>
      BY <1>0, <1>1, <2>1, <2>3, StoreAllOf
    <3>2. PICK k \in 0..n : storeBefore = SubSeq(storeLines, k + 1, n)
      BY <1>2, <2>3 DEF StoreRewriteKnown
    <3>3. Len(storeBefore) = n - k /\ SubSeq(storeLines, 1, k) \o storeBefore = storeLines
      BY <1>0, <3>2, StoreParts
    <3>4. n - Len(storeBefore) = k
      BY <1>0, <3>3
    <3>5. Store!Dropped = SubSeq(storeLines, 1, k) /\ Store!Hist = storeBefore
      BY <1>0, <2>3, <3>4
    <3>6. Store!Promise!Interrupted
      BY <2>1, <3>1, <3>3, <3>5 DEF Store!Promise!Interrupted
    <3> QED
      BY <3>6 DEF Store!Promise!Next
  <2>4. StoreIdle \/ Store!Rewriting
    BY StoreMaps
  <2> QED
    BY <2>2, <2>3, <2>4
<1>15. CASE UNCHANGED Store!vars
  <2>1. UNCHANGED <<storeLines, storeSkip, storeSummary, storePc, storeBefore>>
    BY <1>15 DEF Store!vars, Store!fileVars, Store!metaVars, Store!opVars
  <2>2. (StoreIdle' <=> StoreIdle) /\ (Store!Rewriting' <=> Store!Rewriting) /\ (StoreIdle \/ Store!Rewriting)
    BY <2>1, StoreMaps DEF StoreIdle, Store!Rewriting
  <2>3. Store!Hist' = Store!Hist /\ Store!Dropped' = Store!Dropped
    BY <1>0, <1>1, <2>1, <2>2
  <2> QED
    BY <1>4, <2>1, <2>3
<1> QED
  BY <1>5, <1>6, <1>7, <1>8, <1>9, <1>11, <1>12, <1>13, <1>14, <1>15 DEF Store!Next

LEMMA StoreInitMaps ==
    ASSUME Store!ConstantsAssumption, Store!Init
    PROVE  StoreRInv /\ Store!Promise!Init
<1>1. StoreIInv
  BY StoreInitInv
<1>2. storeLines = << >> /\ << >> \in Seq(Store!Msgs) /\ storeSkip = 0 /\ storePc = "idle" /\ storeTorn = FALSE
  BY DEF Store!Init
<1>3. StoreRInv
  BY <1>1, <1>2 DEF StoreRInv, StoreNoneCorrupt, StoreRewriteKnown, Store!Rewriting
<1>4. StoreIdle
  BY <1>2 DEF StoreIdle
<1>5. Store!Hist = << >> /\ Store!Dropped = << >>
  BY <1>2, <1>3, <1>4, StoreMaps, StoreAllOf
<1> QED
  BY <1>3, <1>5 DEF Store!Init, Store!Promise!Init, Store!ConstantsAssumption

THEOREM StoreHoldsPromise ==
    ASSUME Store!ConstantsAssumption, StoreWholeAppends
    PROVE  Store!Spec => Store!ImplementsStore
<1>1. Store!Init => StoreRInv /\ Store!Promise!Init
  BY StoreInitMaps
<1>2. StoreRInv /\ [Store!Next]_(Store!vars) => StoreRInv'
  BY StoreStepRInv
<1>3. StoreRInv /\ StoreRInv' /\ [Store!Next]_(Store!vars) => [Store!Promise!Next]_(Store!Promise!vars)
  BY StoreStepMaps
<1> QED
  BY <1>1, <1>2, <1>3, PTL DEF Store!Spec, Store!ImplementsStore, Store!Promise!Spec

-----------------------------------------------------------------------------
(* JSONLStore, appends that may be cut short                               *)

TornLines == Seq(Torn!Msgs \cup {Torn!Bad})

\* Both instances read lines alike.
LEMMA TornReads ==
    ASSUME Torn!ConstantsAssumption
    PROVE  \A ls \in TornLines : /\ Torn!Readable[ls] \in Seq(Torn!Msgs)
                                 /\ Len(Torn!Readable[ls]) <= Len(ls)
                                 /\ ls \in Seq(Torn!Msgs) => Torn!Readable[ls] = ls
<1>1. Torn!Msgs = Store!Msgs /\ Torn!Bad = Store!Bad
  BY DEF Torn!Msgs, Store!Msgs, Torn!Bad, Store!Bad
<1>2. Torn!Readable = Store!Readable
  BY DEF Torn!Readable, Store!Readable, Torn!Msgs, Store!Msgs, Torn!Bad, Store!Bad
<1>3. TornLines = StoreLines /\ Store!ConstantsAssumption
  BY <1>1 DEF TornLines, StoreLines, Torn!ConstantsAssumption, Store!ConstantsAssumption
<1> QED
  BY <1>1, <1>2, <1>3, StoreReads

TornIInv ==
    /\ Torn!TypeOK
    /\ Torn!SkipWithinFile
    /\ Torn!Rewriting => tornSkip = 0
    /\ tornPc = "addMeta" => tornArg # << >>

LEMMA TornElements ==
    ASSUME NEW S, NEW s \in Seq(S)
    PROVE  Torn!Elems(s) \subseteq S
BY DEF Torn!Elems

LEMMA TornHistory ==
    ASSUME Torn!ConstantsAssumption, tornLines \in TornLines, tornSkip \in Nat
    PROVE  Torn!GetHistory \in Seq(Torn!Msgs)
<1>1. SubSeq(tornLines, tornSkip + 1, Len(tornLines)) \in TornLines
  BY StoreLastPart DEF TornLines
<1> QED
  BY <1>1, TornReads DEF Torn!GetHistory, Torn!readMessages

LEMMA TornAppendLineType ==
    ASSUME tornLines \in TornLines, tornTorn \in BOOLEAN, NEW l \in Torn!Msgs \cup {Torn!Bad}
    PROVE  Torn!AppendLine(l) \in TornLines /\ Len(tornLines) <= Len(Torn!AppendLine(l))
<1>1. CASE tornTorn
  <2>1. /\ [tornLines EXCEPT ![Len(tornLines)] = Torn!Bad] \in TornLines
        /\ Len([tornLines EXCEPT ![Len(tornLines)] = Torn!Bad]) = Len(tornLines) /\ Len(tornLines) \in Nat
    BY StoreReplaced DEF TornLines
  <2>2. Torn!AppendLine(l) = [tornLines EXCEPT ![Len(tornLines)] = Torn!Bad]
    BY <1>1, Zenon DEF Torn!AppendLine
  <2> QED
    BY <2>1, <2>2
<1>2. CASE ~ tornTorn
  <2>1. /\ Append(tornLines, l) \in TornLines
        /\ Len(Append(tornLines, l)) = Len(tornLines) + 1 /\ Len(tornLines) \in Nat
    BY DEF TornLines
  <2>2. Torn!AppendLine(l) = Append(tornLines, l)
    BY <1>2, Zenon DEF Torn!AppendLine
  <2> QED
    BY <2>1, <2>2
<1> QED
  BY <1>1, <1>2

LEMMA TornStepInv ==
    ASSUME Torn!ConstantsAssumption, TornIInv, [Torn!Next]_(Torn!vars)
    PROVE  TornIInv'
<1> USE DEF TornLines
<1>0. /\ tornLines \in TornLines /\ tornTorn \in BOOLEAN /\ tornSkip \in Nat /\ tornSkip <= Len(tornLines)
      /\ tornCount \in Nat /\ tornSummary \in Summaries
      /\ tornPc \in {"idle", "addMeta", "setRewrite", "compactRewrite"}
      /\ tornArg \in Seq(Torn!Msgs) /\ tornBefore \in Seq(Torn!Msgs) /\ tornAdded \in 0..StoreMaxMsgs
      /\ tornAcked \subseteq Torn!Msgs /\ tornRevived \subseteq Torn!Msgs /\ StoreMaxMsgs \in Nat
      /\ (tornPc = "setRewrite" \/ tornPc = "compactRewrite") => tornSkip = 0
      /\ tornPc = "addMeta" => tornArg # << >>
      /\ Len(tornLines) \in Nat
  BY DEF TornIInv, Torn!TypeOK, Torn!SkipWithinFile, Torn!Rewriting,
       Torn!ConstantsAssumption
<1>1. Torn!GetHistory \in Seq(Torn!Msgs) /\ << >> \in Seq(Torn!Msgs)
  BY <1>0, TornHistory
<1>2. CASE Torn!AddMessage
  <2> DEFINE m == tornAdded + 1
  <2>1. m \in Torn!Msgs /\ m \in 0..StoreMaxMsgs
    BY <1>0, <1>2 DEF Torn!AddMessage, Torn!Msgs
  <2>2. Torn!AppendLine(m) \in TornLines /\ Len(tornLines) <= Len(Torn!AppendLine(m)) /\ Len(Torn!AppendLine(m)) \in Nat
    BY <1>0, <2>1, TornAppendLineType
  <2>3. <<m>> \in Seq(Torn!Msgs) /\ <<m>> # << >>
    BY <2>1
  <2>4. /\ tornAdded' = m /\ tornLines' = Torn!AppendLine(m) /\ tornTorn' = FALSE /\ tornPc' = "addMeta"
        /\ tornArg' = <<m>> /\ tornBefore' = Torn!GetHistory
        /\ UNCHANGED <<tornSkip, tornCount, tornSummary, tornAcked, tornRevived>>
    BY <1>2 DEF Torn!AddMessage, Torn!OpBegins, Torn!metaVars
  <2> HIDE DEF m
  <2>5. tornSkip' <= Len(tornLines')
    BY <1>0, <2>2, <2>4
  <2> QED
    BY <1>0, <1>1, <2>1, <2>2, <2>3, <2>4, <2>5 DEF TornIInv, Torn!TypeOK,
         Torn!SkipWithinFile, Torn!Rewriting
<1>3. CASE Torn!AddMessageCutShort
  <2> DEFINE m == tornAdded + 1
  <2>1. m \in Torn!Msgs /\ m \in 0..StoreMaxMsgs /\ m \in Torn!Msgs \cup {Torn!Bad} /\ Torn!Bad \in Torn!Msgs \cup {Torn!Bad}
    BY <1>0, <1>3 DEF Torn!AddMessageCutShort, Torn!Msgs
  <2>2. /\ tornAdded' = m
        /\ UNCHANGED <<tornSkip, tornCount, tornSummary, tornPc, tornArg, tornBefore, tornAcked, tornRevived>>
        /\ \/ UNCHANGED <<tornLines, tornTorn>>
           \/ tornTorn' = TRUE /\ tornLines' \in {Torn!AppendLine(Torn!Bad), Torn!AppendLine(m)}
    BY <1>3 DEF Torn!AddMessageCutShort, Torn!metaVars, Torn!opVars, Torn!fileVars
  <2>3. \A l \in Torn!Msgs \cup {Torn!Bad} : Torn!AppendLine(l) \in TornLines /\ Len(tornLines) <= Len(Torn!AppendLine(l))
    BY <1>0, TornAppendLineType
  <2> HIDE DEF m
  <2>4. tornLines' \in TornLines /\ Len(tornLines) <= Len(tornLines') /\ tornTorn' \in BOOLEAN
    <3>1. CASE UNCHANGED <<tornLines, tornTorn>>
      BY <1>0, <3>1
    <3>2. CASE tornTorn' = TRUE /\ tornLines' = Torn!AppendLine(Torn!Bad)
      BY <2>1, <2>3, <3>2
    <3>3. CASE tornTorn' = TRUE /\ tornLines' = Torn!AppendLine(m)
      BY <2>1, <2>3, <3>3
    <3> QED
      BY <2>2, <3>1, <3>2, <3>3
  <2>5. tornSkip' <= Len(tornLines')
    BY <1>0, <2>2, <2>4
  <2> QED
    BY <1>0, <2>1, <2>2, <2>4, <2>5 DEF TornIInv, Torn!TypeOK, Torn!SkipWithinFile,
         Torn!Rewriting
<1>4. CASE Torn!AddMessageMeta
  <2>1. tornArg[1] \in Torn!Msgs
    BY <1>0, <1>4 DEF Torn!AddMessageMeta
  <2> QED
    BY <1>0, <1>1, <1>4, <2>1
    DEF Torn!AddMessageMeta, Torn!OpEnds, Torn!fileVars, TornIInv, Torn!TypeOK, Torn!SkipWithinFile, Torn!Rewriting
<1>5. ASSUME NEW keepLast \in 0..StoreMaxMsgs, Torn!TruncateHistory(keepLast) PROVE TornIInv'
  <2>1. /\ tornCount' = Len(tornLines)
        /\ UNCHANGED <<tornLines, tornTorn, tornSummary, tornPc, tornArg, tornBefore, tornAdded, tornAcked>> /\ tornRevived' = {}
        /\ tornPc = "idle"
    BY <1>5 DEF Torn!TruncateHistory, Torn!fileVars, Torn!opVars
  <2>2. tornSkip' \in Nat /\ tornSkip' <= Len(tornLines)
    BY <1>0, <1>5 DEF Torn!TruncateHistory
  <2> QED
    BY <1>0, <2>1, <2>2 DEF TornIInv, Torn!TypeOK, Torn!SkipWithinFile, Torn!Rewriting
<1>6. ASSUME NEW x \in Summaries, Torn!SetSummary(x) PROVE TornIInv'
  BY <1>0, <1>6 DEF Torn!SetSummary, Torn!fileVars, Torn!opVars, TornIInv, Torn!TypeOK,
       Torn!SkipWithinFile, Torn!Rewriting
<1>7. ASSUME NEW h \in Seq(Torn!Msgs), NEW op \in {"setRewrite", "compactRewrite"}, Torn!RewriteBegins(op, h)
      PROVE  TornIInv'
  <2>1. /\ tornPc' = op /\ tornArg' = h /\ tornBefore' = Torn!GetHistory /\ tornSkip' = 0 /\ tornCount' = Len(h)
        /\ UNCHANGED <<tornLines, tornTorn, tornSummary, tornAdded, tornAcked, tornRevived>>
    BY <1>7 DEF Torn!RewriteBegins, Torn!OpBegins, Torn!fileVars
  <2>2. Len(h) \in Nat
    OBVIOUS
  <2> QED
    BY <1>0, <1>1, <2>1, <2>2 DEF TornIInv, Torn!TypeOK, Torn!SkipWithinFile, Torn!Rewriting
<1>8. ASSUME NEW i \in 1..Len(Torn!GetHistory) + 1, Torn!SetHistory(SubSeq(Torn!GetHistory, i, Len(Torn!GetHistory)))
      PROVE  TornIInv'
  <2>1. SubSeq(Torn!GetHistory, i, Len(Torn!GetHistory)) \in Seq(Torn!Msgs)
    BY <1>1, StoreLastPart
  <2> QED
    BY <1>7, <1>8, <2>1 DEF Torn!SetHistory
<1>9. CASE Torn!Compact
  BY <1>1, <1>7, <1>9 DEF Torn!Compact
<1>10. CASE Torn!Rewrite
  <2>1. /\ tornPc \in {"setRewrite", "compactRewrite"}
        /\ tornLines' = tornArg /\ tornTorn' = FALSE /\ tornRevived' = {} /\ tornPc' = "idle"
        /\ tornArg' = << >> /\ tornBefore' = << >>
        /\ UNCHANGED <<tornSkip, tornCount, tornSummary, tornAdded, tornAcked>>
    BY <1>10 DEF Torn!Rewrite, Torn!OpEnds, Torn!metaVars
  <2>2. tornArg \in TornLines /\ 0 <= Len(tornArg)
    BY <1>0
  <2>3. tornSkip = 0
    BY <1>0, <2>1
  <2> QED
    BY <1>0, <1>1, <2>1, <2>2, <2>3 DEF TornIInv, Torn!TypeOK, Torn!SkipWithinFile,
         Torn!Rewriting
<1>11. CASE Torn!Interrupt
  <2>1. /\ UNCHANGED <<tornLines, tornTorn, tornSkip, tornCount, tornSummary, tornAdded, tornAcked>>
        /\ tornPc' = "idle" /\ tornArg' = << >> /\ tornBefore' = << >>
        /\ tornRevived' \subseteq Torn!Elems(Torn!GetHistory) \cup tornRevived
    BY <1>11 DEF Torn!Interrupt, Torn!OpEnds, Torn!fileVars, Torn!metaVars
  <2>2. Torn!Elems(Torn!GetHistory) \subseteq Torn!Msgs
    BY <1>1, TornElements
  <2> QED
    BY <1>0, <1>1, <2>1, <2>2 DEF TornIInv, Torn!TypeOK, Torn!SkipWithinFile, Torn!Rewriting
<1>12. CASE UNCHANGED Torn!vars
  BY <1>0, <1>12
  DEF Torn!vars, Torn!fileVars, Torn!metaVars, Torn!opVars, TornIInv, Torn!TypeOK, Torn!SkipWithinFile, Torn!Rewriting
<1> QED
  BY <1>2, <1>3, <1>4, <1>5, <1>6, <1>8, <1>9, <1>10, <1>11, <1>12 DEF Torn!Next

LEMMA TornInitInv == ASSUME Torn!ConstantsAssumption, Torn!Init PROVE TornIInv
<1>1. << >> \in Seq(Torn!Msgs \cup {Torn!Bad}) /\ << >> \in Seq(Torn!Msgs) /\ Len(<< >>) = 0
  OBVIOUS
<1>2. 0 \in 0..StoreMaxMsgs /\ 0 \in Nat /\ NoSummary \in Summaries
  BY DEF Torn!ConstantsAssumption
<1>3. tornLines = << >> /\ tornSkip = 0 /\ tornSkip <= Len(tornLines)
  BY <1>1 DEF Torn!Init
<1> QED
  BY <1>1, <1>2, <1>3 DEF Torn!Init, TornIInv, Torn!TypeOK, Torn!SkipWithinFile,
       Torn!Rewriting, Torn!ConstantsAssumption

THEOREM TornHolds ==
    ASSUME Torn!ConstantsAssumption
    PROVE  Torn!Spec => [](Torn!TypeOK /\ Torn!SkipWithinFile)
<1>1. TornIInv => Torn!TypeOK /\ Torn!SkipWithinFile
  BY DEF TornIInv
<1> QED
  BY <1>1, TornInitInv, TornStepInv, PTL DEF Torn!Spec

\* The messages among some lines.
StoreMessagesOf(ls) == {ls[i] : i \in 1..Len(ls)} \ {Store!Bad}

\* A reader gets the messages among the lines, each of them.
LEMMA StoreReadsAll ==
    ASSUME Store!ConstantsAssumption
    PROVE  \A ls \in StoreLines : Store!Elems(Store!Readable[ls]) = StoreMessagesOf(ls)
<1> DEFINE Good(ls) == Store!Elems(Store!Readable[ls]) = StoreMessagesOf(ls)
           S == {n \in Nat : \A ls \in StoreLines : Len(ls) = n => Good(ls)}
<1>1. 0 \in S
  <2> SUFFICES ASSUME NEW ls \in StoreLines, Len(ls) = 0 PROVE Good(ls)
    OBVIOUS
  <2>1. ls = << >>
    BY StoreShort DEF StoreLines
  <2>2. Store!Elems(<< >>) = {} /\ StoreMessagesOf(<< >>) = {}
    BY DEF Store!Elems, StoreMessagesOf
  <2> QED
    BY <2>1, <2>2, StoreReadableEmpty
<1>2. ASSUME NEW n \in S PROVE n + 1 \in S
  <2> SUFFICES ASSUME NEW ls \in StoreLines, Len(ls) = n + 1 PROVE Good(ls)
    OBVIOUS
  <2>1. n \in Nat /\ ls # << >>
    OBVIOUS
  <2> DEFINE h == Head(ls)
             t == Tail(ls)
             r == Store!Readable[t]
  <2>2. /\ h \in Store!Msgs \cup {Store!Bad} /\ t \in StoreLines /\ Len(t) = n
        /\ ls = <<h>> \o t
    BY <2>1, StoreSplit DEF StoreLines
  <2>3. Good(t) /\ r \in Seq(Store!Msgs)
    BY <2>2, StoreReads
  <2>4. Store!Readable[ls] = (IF h = Store!Bad THEN << >> ELSE <<h>>) \o r
    BY <2>1, StoreReadableOf
  <2>5. \A x \in Store!Msgs : x # Store!Bad
    BY DEF Store!Msgs, Store!Bad
  <2>h. t \in Seq(Store!Msgs \cup {Store!Bad})
    BY <2>2 DEF StoreLines
  <2> HIDE DEF h, t
  <2>6. StoreMessagesOf(ls) = StoreMessagesOf(t) \cup ({h} \ {Store!Bad})
    <3>1. ls[1] = h /\ \A i \in 1..n : ls[i + 1] = t[i]
      BY <2>1, <2>2, <2>h
    <3>2. \A i \in 1..n + 1 : i = 1 \/ (i - 1 \in 1..n /\ (i - 1) + 1 = i)
      BY <2>1
    <3>3. {ls[i] : i \in 1..n + 1} = {t[i] : i \in 1..n} \cup {h}
      <4>1. ASSUME NEW i \in 1..n + 1 PROVE ls[i] \in {t[j] : j \in 1..n} \cup {h}
        <5>1. CASE i = 1
          BY <3>1, <5>1
        <5>2. CASE i - 1 \in 1..n /\ (i - 1) + 1 = i
          <6>1. ls[i] = t[i - 1]
            BY <3>1, <5>2
          <6> QED
            BY <5>2, <6>1
        <5> QED
          BY <3>2, <5>1, <5>2
      <4>2. ASSUME NEW i \in 1..n PROVE t[i] \in {ls[j] : j \in 1..n + 1}
        <5>1. i + 1 \in 1..n + 1
          BY <2>1
        <5> QED
          BY <3>1, <5>1
      <4>3. h \in {ls[j] : j \in 1..n + 1}
        <5>1. 1 \in 1..n + 1
          BY <2>1
        <5> QED
          BY <3>1, <5>1
      <4> QED
        BY <4>1, <4>2, <4>3
    <3> QED
      BY <2>2, <3>3 DEF StoreMessagesOf
  <2> HIDE DEF r
  <2>7. CASE h = Store!Bad
    <3>1. Store!Readable[ls] = r
      BY <2>3, <2>4, <2>7
    <3> QED
      BY <2>3, <2>6, <2>7, <3>1 DEF r
  <2>8. CASE h \in Store!Msgs
    <3>1. Store!Readable[ls] = <<h>> \o r
      BY <2>4, <2>5, <2>8
    <3>2. Store!Elems(<<h>> \o r) = {h} \cup Store!Elems(r)
      <4> DEFINE u == <<h>> \o r
      <4>1. Len(r) \in Nat /\ DOMAIN r = 1..Len(r) /\ DOMAIN u = 1..Len(r) + 1
            /\ u[1] = h /\ \A i \in 1..Len(r) : u[i + 1] = r[i]
        BY <2>3, <2>8
      <4> HIDE DEF u
      <4>2. ASSUME NEW i \in DOMAIN u PROVE u[i] \in {h} \cup Store!Elems(r)
        <5>1. CASE i = 1
          BY <4>1, <5>1
        <5>2. CASE i # 1
          <6>1. i - 1 \in 1..Len(r) /\ (i - 1) + 1 = i
            BY <4>1, <5>2
          <6>2. u[i] = r[i - 1]
            BY <4>1, <6>1
          <6> QED
            BY <4>1, <6>1, <6>2 DEF Store!Elems
        <5> QED
          BY <5>1, <5>2
      <4>3. ASSUME NEW i \in DOMAIN r PROVE r[i] \in Store!Elems(u)
        <5>1. i + 1 \in DOMAIN u /\ u[i + 1] = r[i]
          BY <4>1
        <5> QED
          BY <5>1 DEF Store!Elems
      <4>4. h \in Store!Elems(u)
        <5>1. 1 \in DOMAIN u /\ u[1] = h
          BY <4>1
        <5> QED
          BY <5>1 DEF Store!Elems
      <4>5. Store!Elems(u) = {h} \cup Store!Elems(r)
        <5>1. Store!Elems(u) \subseteq {h} \cup Store!Elems(r)
          BY <4>2 DEF Store!Elems
        <5>2. Store!Elems(r) \subseteq Store!Elems(u)
          BY <4>3 DEF Store!Elems
        <5> QED
          BY <4>4, <5>1, <5>2
      <4> QED
        BY <4>5 DEF u
    <3>3. {h} \ {Store!Bad} = {h}
      BY <2>5, <2>8
    <3> QED
      BY <2>3, <2>6, <3>1, <3>2, <3>3 DEF r
  <2> QED
    BY <2>2, <2>7, <2>8
<1>3. S \in SUBSET Nat
  OBVIOUS
<1>4. S = Nat
  <2> HIDE DEF S
  <2> QED
    BY <1>1, <1>2, <1>3, StoreInduction
<1> SUFFICES ASSUME NEW ls \in StoreLines PROVE Good(ls)
  OBVIOUS
<1>5. Len(ls) \in S
  BY <1>4 DEF StoreLines
<1> QED
  BY <1>5

-----------------------------------------------------------------------------
(* What a reader can get with torn appends                                 *)

TornMessages(ls, n) == {ls[i] : i \in n + 1..Len(ls)} \ {Torn!Bad}

LEMMA TornReadsAll ==
    ASSUME Torn!ConstantsAssumption, NEW ls \in TornLines, NEW n \in Nat
    PROVE  Torn!Elems(Torn!Readable[SubSeq(ls, n + 1, Len(ls))]) = TornMessages(ls, n)
<1> DEFINE t == SubSeq(ls, n + 1, Len(ls))
<1>1. Torn!Msgs = Store!Msgs /\ Torn!Bad = Store!Bad
  BY DEF Torn!Msgs, Store!Msgs, Torn!Bad, Store!Bad
<1>2. Torn!Readable = Store!Readable
  BY DEF Torn!Readable, Store!Readable, Torn!Msgs, Store!Msgs, Torn!Bad, Store!Bad
<1>3. TornLines = StoreLines /\ Store!ConstantsAssumption
  BY <1>1 DEF TornLines, StoreLines, Torn!ConstantsAssumption, Store!ConstantsAssumption
<1>4. t \in StoreLines
  BY <1>3, StoreLastPart DEF TornLines, StoreLines
<1>5. Torn!Elems(Torn!Readable[t]) = StoreMessagesOf(t)
  BY <1>2, <1>3, <1>4, StoreReadsAll DEF Torn!Elems, Store!Elems
<1>6. StoreMessagesOf(t) = TornMessages(ls, n)
  <2>1. Len(ls) \in Nat /\ Len(t) = IF n + 1 <= Len(ls) THEN Len(ls) - n ELSE 0
    BY DEF TornLines
  <2>2. \A i \in 1..Len(t) : t[i] = ls[n + i]
    BY <2>1 DEF TornLines
  <2> HIDE DEF t
  <2>3. {t[i] : i \in 1..Len(t)} = {ls[i] : i \in n + 1..Len(ls)}
    <3>1. ASSUME NEW i \in 1..Len(t) PROVE t[i] \in {ls[j] : j \in n + 1..Len(ls)}
      <4>1. n + i \in n + 1..Len(ls)
        BY <2>1
      <4> QED
        BY <2>2, <4>1
    <3>2. ASSUME NEW j \in n + 1..Len(ls) PROVE ls[j] \in {t[i] : i \in 1..Len(t)}
      <4>1. j - n \in 1..Len(t) /\ n + (j - n) = j
        BY <2>1
      <4>2. t[j - n] = ls[j]
        BY <2>2, <4>1
      <4> QED
        BY <4>1, <4>2
    <3> QED
      BY <3>1, <3>2
  <2> QED
    BY <1>1, <2>3 DEF StoreMessagesOf, TornMessages
<1> HIDE DEF t
<1>7. Torn!Elems(Torn!Readable[t]) = TornMessages(ls, n)
  BY <1>5, <1>6
<1> QED
  BY <1>7 DEF t

\* What is acknowledged was appended whole; what a rewrite will leave was read
\* from the lines that it replaces.
TornKnown ==
    /\ tornAcked \subseteq 1..tornAdded
    /\ tornPc = "addMeta" => tornArg = <<tornAdded>> /\ tornAdded >= 1 /\ ~tornTorn
    /\ tornTorn => tornLines # << >> /\ tornLines[Len(tornLines)] \notin tornAcked
    /\ tornPc = "compactRewrite" => tornArg = tornBefore
    /\ Torn!Rewriting => Torn!Elems(tornBefore) \subseteq TornMessages(tornLines, 0)

TornRInv == TornIInv /\ TornKnown

\* An append spoils no line that was acknowledged.
LEMMA TornAppends ==
    ASSUME Torn!ConstantsAssumption, TornRInv, NEW l \in Torn!Msgs \cup {Torn!Bad},
           NEW n \in Nat, NEW t, t = Torn!AppendLine(l)
    PROVE  /\ t \in TornLines /\ t # << >> /\ t[Len(t)] \in {l, Torn!Bad}
           /\ TornMessages(tornLines, n) \cap tornAcked \subseteq TornMessages(t, n)
<1>0. /\ tornLines \in TornLines /\ tornTorn \in BOOLEAN /\ Len(tornLines) \in Nat
      /\ tornTorn => tornLines # << >> /\ tornLines[Len(tornLines)] \notin tornAcked
  BY DEF TornRInv, TornIInv, Torn!TypeOK, TornKnown, TornLines
<1>1. t \in TornLines /\ Len(t) \in Nat
  <2>1. t \in TornLines
    BY <1>0, TornAppendLineType
  <2> QED
    BY <2>1 DEF TornLines
<1>2. CASE tornTorn
  <2>1. t = [tornLines EXCEPT ![Len(tornLines)] = Torn!Bad]
    BY <1>2, Zenon DEF Torn!AppendLine
  <2>2. Len(tornLines) >= 1 /\ DOMAIN tornLines = 1..Len(tornLines)
    <3>1. Len(tornLines) # 0
      BY <1>0, <1>2, StoreShort DEF TornLines
    <3> QED
      BY <1>0, <3>1 DEF TornLines
  <2>3. Len(t) = Len(tornLines)
    <3>1. Torn!Bad \in Torn!Msgs \cup {Torn!Bad} /\ tornLines \in Seq(Torn!Msgs \cup {Torn!Bad})
      BY <1>0 DEF TornLines
    <3> QED
      BY <2>1, <3>1, StoreReplaced
  <2>4. t[Len(t)] = Torn!Bad /\ \A i \in 1..Len(tornLines) : i # Len(tornLines) => t[i] = tornLines[i]
    <3>1. \A i \in 1..Len(tornLines) : t[i] = IF i = Len(tornLines) THEN Torn!Bad ELSE tornLines[i]
      BY <2>1, <2>2, Zenon
    <3>2. Len(tornLines) \in 1..Len(tornLines)
      BY <1>0, <2>2
    <3> QED
      BY <2>3, <3>1, <3>2
  <2>5. t # << >>
    <3>1. Len(t) # 0
      BY <1>0, <2>2, <2>3
    <3> QED
      BY <3>1
  <2>6. ASSUME NEW i \in n + 1..Len(tornLines), tornLines[i] \in tornAcked, tornLines[i] # Torn!Bad
        PROVE  tornLines[i] \in TornMessages(t, n)
    <3>1. i # Len(tornLines) /\ i \in 1..Len(tornLines)
      BY <1>0, <1>2, <2>6
    <3>2. t[i] = tornLines[i] /\ i \in n + 1..Len(t)
      BY <2>3, <2>4, <3>1
    <3> QED
      BY <2>6, <3>2 DEF TornMessages
  <2>7. TornMessages(tornLines, n) \cap tornAcked \subseteq TornMessages(t, n)
    <3>1. \A x \in TornMessages(tornLines, n) \cap tornAcked :
             x # Torn!Bad /\ x \in tornAcked /\ \E i \in n + 1..Len(tornLines) : x = tornLines[i]
      BY DEF TornMessages
    <3> QED
      BY <2>6, <3>1
  <2> QED
    BY <1>1, <2>4, <2>5, <2>7
<1>3. CASE ~tornTorn
  <2>1. t = Append(tornLines, l)
    BY <1>3, Zenon DEF Torn!AppendLine
  <2>2. Len(t) = Len(tornLines) + 1 /\ t[Len(t)] = l /\ \A i \in 1..Len(tornLines) : t[i] = tornLines[i]
    BY <1>0, <2>1 DEF TornLines
  <2>3. t # << >>
    <3>1. Len(t) # 0
      BY <1>0, <2>2
    <3> QED
      BY <3>1
  <2>4. ASSUME NEW i \in n + 1..Len(tornLines), tornLines[i] # Torn!Bad
        PROVE  tornLines[i] \in TornMessages(t, n)
    <3>1. t[i] = tornLines[i] /\ i \in n + 1..Len(t)
      BY <1>0, <2>2
    <3> QED
      BY <2>4, <3>1 DEF TornMessages
  <2>5. TornMessages(tornLines, n) \subseteq TornMessages(t, n)
    <3>1. \A x \in TornMessages(tornLines, n) :
             x # Torn!Bad /\ \E i \in n + 1..Len(tornLines) : x = tornLines[i]
      BY DEF TornMessages
    <3> QED
      BY <2>4, <3>1
  <2> QED
    BY <1>1, <2>2, <2>3, <2>5
<1> QED
  BY <1>0, <1>2, <1>3

LEMMA TornHistoryElems ==
    ASSUME Torn!ConstantsAssumption, TornIInv
    PROVE  /\ Torn!Elems(Torn!GetHistory) = TornMessages(tornLines, tornSkip)
           /\ TornMessages(tornLines, tornSkip) \subseteq TornMessages(tornLines, 0)
<1>1. tornLines \in TornLines /\ tornSkip \in Nat /\ Len(tornLines) \in Nat
  BY DEF TornIInv, Torn!TypeOK, TornLines
<1>2. Torn!Elems(Torn!GetHistory) = TornMessages(tornLines, tornSkip)
  BY <1>1, TornReadsAll DEF Torn!GetHistory, Torn!readMessages
<1>3. \A i \in tornSkip + 1..Len(tornLines) : i \in 0 + 1..Len(tornLines)
  BY <1>1
<1> QED
  BY <1>2, <1>3 DEF TornMessages

TornRemoves ==
    \/ tornSkip' > tornSkip
    \/ tornPc = "setRewrite" /\ tornLines' = tornArg
    \/ (Torn!Elems(Torn!Hist) \cap tornAcked) \subseteq Torn!Elems(Torn!Hist')

LEMMA TornKnownStep ==
    ASSUME Torn!ConstantsAssumption, TornRInv, Torn!Next
    PROVE  TornKnown' /\ TornRemoves
<1>i. TornIInv /\ TornIInv' /\ TornKnown
  BY TornStepInv DEF TornRInv
<1>0. /\ tornLines \in TornLines /\ tornTorn \in BOOLEAN /\ tornSkip \in Nat /\ tornSkip <= Len(tornLines)
      /\ tornAdded \in Nat /\ StoreMaxMsgs \in Nat
      /\ tornArg \in Seq(Torn!Msgs) /\ Len(tornLines) \in Nat
      /\ Torn!Rewriting <=> tornPc \in {"setRewrite", "compactRewrite"}
      /\ Torn!Rewriting' <=> tornPc' \in {"setRewrite", "compactRewrite"}
      /\ Torn!Rewriting => tornSkip = 0
  BY <1>i DEF TornIInv, Torn!TypeOK, Torn!SkipWithinFile, Torn!Rewriting, Torn!ConstantsAssumption, TornLines
<1>1. /\ Torn!Elems(Torn!GetHistory) = TornMessages(tornLines, tornSkip)
      /\ TornMessages(tornLines, tornSkip) \subseteq TornMessages(tornLines, 0)
  BY <1>i, TornHistoryElems
<1>2. Torn!Elems(Torn!GetHistory') = TornMessages(tornLines', tornSkip')
  <2>1. tornLines' \in TornLines /\ tornSkip' \in Nat
    BY <1>i DEF TornIInv, Torn!TypeOK, TornLines
  <2> QED
    BY <2>1, TornReadsAll DEF Torn!GetHistory, Torn!readMessages
<1>3. /\ Torn!Hist = IF Torn!Rewriting THEN tornBefore ELSE Torn!GetHistory
      /\ Torn!Hist' = IF Torn!Rewriting' THEN tornBefore' ELSE Torn!GetHistory'
  BY DEF Torn!Hist
<1>bad. Torn!Bad \notin tornAcked /\ \A a \in tornAcked : a <= tornAdded /\ a \in Nat
  BY <1>0, <1>i DEF TornKnown, Torn!Bad
<1>4. CASE Torn!AddMessage
  <2> DEFINE m == tornAdded + 1
  <2>1. m \in Torn!Msgs \cup {Torn!Bad}
    BY <1>0, <1>4 DEF Torn!AddMessage, Torn!Msgs
  <2>2. /\ tornAdded' = m /\ tornLines' = Torn!AppendLine(m) /\ tornTorn' = FALSE /\ tornPc' = "addMeta" /\ tornPc = "idle"
        /\ tornArg' = <<m>> /\ UNCHANGED <<tornSkip, tornAcked>>
    BY <1>4 DEF Torn!AddMessage, Torn!OpBegins, Torn!metaVars
  <2>3. TornMessages(tornLines, tornSkip) \cap tornAcked \subseteq TornMessages(tornLines', tornSkip)
    <3> HIDE DEF m
    <3> QED
      BY <1>0, <2>1, <2>2, TornAppends
  <2>4. TornKnown'
    BY <1>0, <1>i, <2>2 DEF TornKnown
  <2>5. TornRemoves
    BY <1>0, <1>1, <1>2, <1>3, <2>2, <2>3 DEF TornRemoves
  <2> QED
    BY <2>4, <2>5
<1>5. CASE Torn!AddMessageCutShort
  <2> DEFINE m == tornAdded + 1
  <2>1. m \in Torn!Msgs \cup {Torn!Bad} /\ m \notin tornAcked
    BY <1>0, <1>5, <1>bad DEF Torn!AddMessageCutShort, Torn!Msgs
  <2>2. /\ tornAdded' = m /\ tornPc = "idle"
        /\ UNCHANGED <<tornSkip, tornPc, tornArg, tornBefore, tornAcked>>
        /\ \/ UNCHANGED <<tornLines, tornTorn>>
           \/ tornTorn' = TRUE /\ tornLines' \in {Torn!AppendLine(Torn!Bad), Torn!AppendLine(m)}
    BY <1>5 DEF Torn!AddMessageCutShort, Torn!metaVars, Torn!opVars, Torn!fileVars
  <2>3. tornAcked \subseteq 1..m
    <3>1. \A a \in tornAcked : a \in 1..tornAdded
      BY <1>i DEF TornKnown
    <3> QED
      BY <1>0, <3>1
  <2> HIDE DEF m
  <2>4. /\ tornTorn' => tornLines' # << >> /\ tornLines'[Len(tornLines')] \notin tornAcked
        /\ TornMessages(tornLines, tornSkip) \cap tornAcked \subseteq TornMessages(tornLines', tornSkip)
    <3>1. CASE UNCHANGED <<tornLines, tornTorn>>
      BY <1>i, <3>1 DEF TornKnown
    <3>2. ASSUME NEW l \in {Torn!Bad, m}, tornLines' = Torn!AppendLine(l)
          PROVE  /\ tornLines' # << >> /\ tornLines'[Len(tornLines')] \notin tornAcked
                 /\ TornMessages(tornLines, tornSkip) \cap tornAcked \subseteq TornMessages(tornLines', tornSkip)
      <4>1. l \in Torn!Msgs \cup {Torn!Bad} /\ l \notin tornAcked
        BY <1>bad, <2>1
      <4>2. /\ tornLines' # << >> /\ tornLines'[Len(tornLines')] \in {l, Torn!Bad}
            /\ TornMessages(tornLines, tornSkip) \cap tornAcked \subseteq TornMessages(tornLines', tornSkip)
        BY <1>0, <3>2, <4>1, TornAppends
      <4> QED
        BY <1>bad, <4>1, <4>2
    <3> QED
      BY <2>2, <3>1, <3>2
  <2>5. TornKnown'
    BY <1>0, <2>2, <2>3, <2>4 DEF TornKnown
  <2>6. TornRemoves
    BY <1>0, <1>1, <1>2, <1>3, <2>2, <2>4 DEF TornRemoves
  <2> QED
    BY <2>5, <2>6
<1>6. CASE Torn!AddMessageMeta
  <2>1. /\ tornPc = "addMeta" /\ tornPc' = "idle" /\ tornAcked' = tornAcked \cup {tornArg[1]}
        /\ UNCHANGED <<tornLines, tornTorn, tornSkip, tornAdded>>
    BY <1>6 DEF Torn!AddMessageMeta, Torn!OpEnds, Torn!fileVars
  <2>2. tornArg[1] = tornAdded /\ tornAdded >= 1 /\ ~tornTorn
    BY <1>i, <2>1 DEF TornKnown
  <2>3. TornKnown'
    BY <1>0, <1>i, <2>1, <2>2 DEF TornKnown
  <2>4. TornRemoves
    BY <1>0, <1>1, <1>2, <1>3, <2>1 DEF TornRemoves
  <2> QED
    BY <2>3, <2>4
<1>7. ASSUME NEW keepLast \in 0..StoreMaxMsgs, Torn!TruncateHistory(keepLast) PROVE TornKnown' /\ TornRemoves
  <2>1. /\ UNCHANGED <<tornLines, tornTorn, tornPc, tornArg, tornBefore, tornAdded, tornAcked>>
        /\ tornPc = "idle"
    BY <1>7 DEF Torn!TruncateHistory, Torn!fileVars, Torn!opVars
  <2>2. tornSkip' > tornSkip \/ tornSkip' = tornSkip
    BY <1>0, <1>7 DEF Torn!TruncateHistory
  <2>3. TornKnown'
    BY <1>0, <1>i, <2>1 DEF TornKnown
  <2>4. TornRemoves
    BY <1>0, <1>1, <1>2, <1>3, <2>1, <2>2 DEF TornRemoves
  <2> QED
    BY <2>3, <2>4
<1>8. ASSUME NEW x \in Summaries, Torn!SetSummary(x) PROVE TornKnown' /\ TornRemoves
  <2>1. /\ UNCHANGED <<tornLines, tornTorn, tornPc, tornArg, tornBefore, tornAdded, tornAcked, tornSkip>>
        /\ tornPc = "idle"
    BY <1>8 DEF Torn!SetSummary, Torn!fileVars, Torn!opVars
  <2>2. TornKnown'
    BY <1>0, <1>i, <2>1 DEF TornKnown
  <2>3. TornRemoves
    BY <1>0, <1>1, <1>2, <1>3, <2>1 DEF TornRemoves
  <2> QED
    BY <2>2, <2>3
<1>9. ASSUME NEW h, NEW op \in {"setRewrite", "compactRewrite"}, Torn!RewriteBegins(op, h),
             op = "compactRewrite" => h = Torn!GetHistory
      PROVE  TornKnown' /\ TornRemoves
  <2>1. /\ tornPc = "idle" /\ tornPc' = op /\ tornArg' = h /\ tornBefore' = Torn!GetHistory
        /\ UNCHANGED <<tornLines, tornTorn, tornAdded, tornAcked>>
    BY <1>9 DEF Torn!RewriteBegins, Torn!OpBegins, Torn!fileVars
  <2>2. Torn!Elems(tornBefore') \subseteq TornMessages(tornLines', 0)
    BY <1>1, <2>1
  <2>3. TornKnown'
    BY <1>0, <1>9, <1>i, <2>1, <2>2 DEF TornKnown
  <2>4. TornRemoves
    BY <1>0, <1>1, <1>2, <1>3, <2>1 DEF TornRemoves
  <2> QED
    BY <2>3, <2>4
<1>10. ASSUME NEW i \in 1..Len(Torn!GetHistory) + 1, Torn!SetHistory(SubSeq(Torn!GetHistory, i, Len(Torn!GetHistory)))
       PROVE  TornKnown' /\ TornRemoves
  BY <1>9, <1>10 DEF Torn!SetHistory
<1>11. CASE Torn!Compact
  BY <1>9, <1>11 DEF Torn!Compact
<1>12. CASE Torn!Rewrite
  <2>1. /\ tornPc \in {"setRewrite", "compactRewrite"}
        /\ tornLines' = tornArg /\ tornTorn' = FALSE /\ tornPc' = "idle"
        /\ UNCHANGED <<tornSkip, tornAdded, tornAcked>>
    BY <1>12 DEF Torn!Rewrite, Torn!OpEnds, Torn!metaVars
  <2>2. TornKnown'
    BY <1>0, <1>i, <2>1 DEF TornKnown
  <2>3. TornRemoves
    <3>1. CASE tornPc = "setRewrite"
      BY <2>1, <3>1 DEF TornRemoves
    <3>2. CASE tornPc = "compactRewrite"
      <4>1. tornArg = tornBefore /\ tornSkip = 0
        BY <1>0, <1>i, <3>2 DEF TornKnown
      <4>2. Torn!GetHistory' = tornArg
        <5>1. tornArg \in TornLines
          BY <1>0 DEF TornLines
        <5>2. SubSeq(tornArg, 0 + 1, Len(tornArg)) = tornArg
          BY <1>0
        <5>3. Torn!GetHistory' = Torn!Readable[SubSeq(tornLines', tornSkip' + 1, Len(tornLines'))]
          BY DEF Torn!GetHistory, Torn!readMessages
        <5>4. Torn!GetHistory' = Torn!Readable[tornArg]
          BY <2>1, <4>1, <5>2, <5>3
        <5> QED
          BY <1>0, <5>1, <5>4, TornReads
      <4>3. Torn!Hist = tornBefore /\ Torn!Hist' = tornArg
        BY <1>0, <1>3, <2>1, <3>2, <4>2
      <4>4. Torn!Elems(Torn!Hist) = Torn!Elems(Torn!Hist')
        BY <4>1, <4>3
      <4> QED
        BY <4>4 DEF TornRemoves
    <3> QED
      BY <2>1, <3>1, <3>2
  <2> QED
    BY <2>2, <2>3
<1>13. CASE Torn!Interrupt
  <2>1. /\ UNCHANGED <<tornLines, tornTorn, tornSkip, tornAdded, tornAcked>> /\ tornPc' = "idle"
    BY <1>13 DEF Torn!Interrupt, Torn!OpEnds, Torn!fileVars, Torn!metaVars
  <2>2. TornKnown'
    BY <1>0, <1>i, <2>1 DEF TornKnown
  <2>3. Torn!Elems(Torn!Hist) \subseteq Torn!Elems(Torn!Hist')
    <3>1. CASE Torn!Rewriting
      <4>1. Torn!Elems(tornBefore) \subseteq TornMessages(tornLines, 0) /\ tornSkip = 0
        BY <1>0, <1>i, <3>1 DEF TornKnown
      <4> QED
        BY <1>0, <1>2, <1>3, <2>1, <3>1, <4>1
    <3>2. CASE ~Torn!Rewriting
      BY <1>0, <1>1, <1>2, <1>3, <2>1, <3>2
    <3> QED
      BY <3>1, <3>2
  <2> QED
    BY <2>2, <2>3 DEF TornRemoves
<1> QED
  BY <1>4, <1>5, <1>6, <1>7, <1>8, <1>10, <1>11, <1>12, <1>13 DEF Torn!Next

\* A reader loses an acknowledged message to TruncateHistory and to the completed
\* rewrite of SetHistory only, whatever is cut short or interrupted where.
THEOREM TornRemovesOnPurpose ==
    ASSUME Torn!ConstantsAssumption
    PROVE  Torn!Spec => Torn!OnlyRemovalRemoves
<1>1. Torn!Init => TornRInv
  <2> SUFFICES ASSUME Torn!Init PROVE TornKnown
    BY TornInitInv DEF TornRInv
  <2> QED
    BY DEF Torn!Init, TornKnown, Torn!Rewriting
<1>2. TornRInv /\ [Torn!Next]_(Torn!vars) => TornRInv'
  <2> SUFFICES ASSUME TornRInv, [Torn!Next]_(Torn!vars) PROVE TornRInv'
    OBVIOUS
  <2>1. TornIInv'
    BY TornStepInv DEF TornRInv
  <2>2. CASE Torn!Next
    BY <2>1, <2>2, TornKnownStep DEF TornRInv
  <2>3. CASE UNCHANGED Torn!vars
    <3>1. TornKnown'
      BY <2>3 DEF TornRInv, TornKnown, Torn!Rewriting, Torn!vars, Torn!fileVars, Torn!metaVars, Torn!opVars
    <3> QED
      BY <2>1, <3>1 DEF TornRInv
  <2> QED
    BY <2>2, <2>3
<1>3. TornRInv /\ [Torn!Next]_(Torn!vars) =>
          [ \/ tornSkip' > tornSkip
            \/ tornPc = "setRewrite" /\ tornLines' = tornArg
            \/ (Torn!Elems(Torn!Hist) \cap tornAcked) \subseteq Torn!Elems(Torn!Hist') ]_(Torn!vars)
  BY TornKnownStep DEF TornRemoves
<1> QED
  BY <1>1, <1>2, <1>3, PTL DEF Torn!Spec, Torn!OnlyRemovalRemoves

-----------------------------------------------------------------------------
(* AgentSession: the caller of a message                                   *)

TurnSeqs == Seq(Turns!Messages)

LEMMA TurnElement == ASSUME NEW s \in TurnSeqs
                     PROVE  /\ Len(s) \in Nat /\ DOMAIN s = 1..Len(s)
                            /\ \A i \in 1..Len(s) : /\ s[i] \in Turns!Messages
                                                    /\ s[i].role \in {"user", "assistant", "call", "tool"}
                                                    /\ s[i].n \in 1..TurnMaxMsgs /\ s[i].k \in 0..MaxToolCalls
<1>1. Len(s) \in Nat /\ DOMAIN s = 1..Len(s) /\ \A i \in 1..Len(s) : s[i] \in Turns!Messages
  BY DEF TurnSeqs
<1>2. ASSUME NEW m \in Turns!Messages
      PROVE  /\ m.role \in {"user", "assistant", "call", "tool"}
             /\ m.n \in 1..TurnMaxMsgs /\ m.k \in 0..MaxToolCalls
  BY DEF Turns!Messages
<1> QED
  BY <1>1, <1>2

\* The caller is the last message before i that is no result.
LEMMA TurnCallerIsLast ==
    ASSUME NEW s \in TurnSeqs, NEW i \in 1..Len(s) + 1
    PROVE  /\ Turns!CallerOf(s, i) \in 0..i - 1
           /\ Turns!CallerOf(s, i) # 0 => s[Turns!CallerOf(s, i)].role # "tool"
           /\ \A l \in Turns!CallerOf(s, i) + 1..i - 1 : s[l].role = "tool"
<1> DEFINE C == {j \in 1..i - 1 : s[j].role # "tool"}
           D == {d \in Nat : i - d \in C}
<1>0. Len(s) \in Nat /\ i \in Nat
  BY TurnElement
<1>1. CASE C = {}
  <2>1. Turns!CallerOf(s, i) = 0
    BY <1>1 DEF Turns!CallerOf
  <2> QED
    BY <1>0, <1>1, <2>1
<1>2. CASE C # {}
  <2>1. D # {} /\ D \subseteq Nat
    <3>1. PICK j \in C : TRUE
      BY <1>2
    <3>2. i - j \in Nat /\ i - (i - j) = j
      BY <1>0, <3>1
    <3> QED
      BY <3>2
  <2> HIDE DEF D
  <2>2. PICK d \in D : \A e \in D : ~ (<<e, d>> \in OpToRel(<, Nat))
    BY <2>1, NatLessThanWellFounded, WFMin, Zenon
  <2>3. d \in Nat /\ \A e \in D : ~ (e < d)
    BY <2>1, <2>2 DEF OpToRel
  <2>4. i - d \in C /\ \A l \in C : l <= i - d
    <3>1. \A l \in C : i - l \in D
      <4>1. \A l \in C : i - l \in Nat /\ i - (i - l) = l
        BY <1>0
      <4> QED
        BY <4>1 DEF D
    <3>2. \A l \in C : ~ (i - l < d) /\ l \in Int
      BY <1>0, <2>3, <3>1
    <3> QED
      BY <1>0, <2>3, <3>2 DEF D
  <2>5. Turns!CallerOf(s, i) = CHOOSE j \in C : \A l \in C : l <= j
    BY <1>2 DEF Turns!CallerOf
  <2>6. Turns!CallerOf(s, i) \in C /\ \A l \in C : l <= Turns!CallerOf(s, i)
    BY <2>4, <2>5, Zenon
  <2> QED
    BY <1>0, <2>6
<1> QED
  BY <1>1, <1>2

LEMMA TurnCallerIs ==
    ASSUME NEW s \in TurnSeqs, NEW i \in 1..Len(s) + 1, NEW j \in 0..i - 1,
           j # 0 => s[j].role # "tool", \A l \in j + 1..i - 1 : s[l].role = "tool"
    PROVE  Turns!CallerOf(s, i) = j
<1> DEFINE c == Turns!CallerOf(s, i)
<1>0. Len(s) \in Nat /\ i \in Nat /\ j \in Nat
  BY TurnElement
<1>1. c \in 0..i - 1 /\ (c # 0 => s[c].role # "tool") /\ \A l \in c + 1..i - 1 : s[l].role = "tool"
  BY TurnCallerIsLast
<1> HIDE DEF c
<1>2. ~ (c < j)
  <2>1. c < j => j \in c + 1..i - 1 /\ j # 0
    BY <1>0, <1>1
  <2> QED
    BY <1>1, <2>1
<1>3. ~ (j < c)
  <2>1. j < c => c \in j + 1..i - 1 /\ c # 0
    BY <1>0, <1>1
  <2> QED
    BY <1>1, <2>1
<1> QED
  BY <1>0, <1>1, <1>2, <1>3 DEF c

\* The caller does not depend on what comes after.
LEMMA TurnCallerOfAppend ==
    ASSUME NEW s \in TurnSeqs, NEW m \in Turns!Messages, NEW i \in 1..Len(s) + 1
    PROVE  /\ Append(s, m) \in TurnSeqs /\ Len(Append(s, m)) = Len(s) + 1
           /\ Turns!CallerOf(Append(s, m), i) = Turns!CallerOf(s, i)
<1>1. Append(s, m) \in TurnSeqs /\ Len(Append(s, m)) = Len(s) + 1 /\ Len(s) \in Nat /\ i \in Nat
      /\ \A l \in 1..Len(s) : Append(s, m)[l] = s[l]
  BY TurnElement DEF TurnSeqs
<1> DEFINE c == Turns!CallerOf(s, i)
<1>2. c \in 0..i - 1 /\ (c # 0 => s[c].role # "tool") /\ \A l \in c + 1..i - 1 : s[l].role = "tool"
  BY TurnCallerIsLast
<1> HIDE DEF c
<1>3. (c # 0 => Append(s, m)[c].role # "tool") /\ \A l \in c + 1..i - 1 : Append(s, m)[l].role = "tool"
  <2>1. c # 0 => c \in 1..Len(s)
    BY <1>1, <1>2
  <2>2. \A l \in c + 1..i - 1 : l \in 1..Len(s)
    BY <1>1, <1>2
  <2> QED
    BY <1>1, <1>2, <2>1, <2>2
<1>4. i \in 1..Len(Append(s, m)) + 1
  BY <1>1
<1> HIDE DEF TurnSeqs
<1>5. Turns!CallerOf(Append(s, m), i) = c
  BY <1>1, <1>2, <1>3, <1>4, TurnCallerIs
<1> QED
  BY <1>1, <1>5 DEF c

-----------------------------------------------------------------------------
(* The two passes compute what their equations say.                        *)

\* A function that is defined step by step exists.
LEMMA TurnIterates ==
    ASSUME NEW n \in Nat, NEW G \in [(1..n) \X TurnSeqs -> TurnSeqs]
    PROVE  \E f \in [0..n -> TurnSeqs] : f[0] = << >> /\ \A i \in 1..n : f[i] = G[<<i, f[i - 1]>>]
<1> DEFINE Upto(k) == \E f \in [0..k -> TurnSeqs] : f[0] = << >> /\ \A i \in 1..k : f[i] = G[<<i, f[i - 1]>>]
           T == {k \in Nat : k <= n => Upto(k)}
<1>0. << >> \in TurnSeqs
  BY DEF TurnSeqs
<1>1. 0 \in T
  <2> DEFINE f == [i \in 0..0 |-> << >>]
  <2>1. f \in [0..0 -> TurnSeqs] /\ f[0] = << >> /\ \A i \in 1..0 : f[i] = G[<<i, f[i - 1]>>]
    BY <1>0
  <2> QED
    BY <2>1
<1>2. ASSUME NEW k \in T PROVE k + 1 \in T
  <2> SUFFICES ASSUME k + 1 <= n PROVE Upto(k + 1)
    OBVIOUS
  <2>0. k \in Nat /\ k <= n
    OBVIOUS
  <2>1. PICK f \in [0..k -> TurnSeqs] : f[0] = << >> /\ \A i \in 1..k : f[i] = G[<<i, f[i - 1]>>]
    BY <2>0
  <2> DEFINE g == [i \in 0..k + 1 |-> IF i = k + 1 THEN G[<<k + 1, f[k]>>] ELSE f[i]]
  <2>2. G[<<k + 1, f[k]>>] \in TurnSeqs
    <3>1. f[k] \in TurnSeqs /\ k + 1 \in 1..n
      BY <2>0, <2>1
    <3>2. <<k + 1, f[k]>> \in (1..n) \X TurnSeqs
      BY <3>1
    <3> QED
      BY <3>2
  <2>3. g \in [0..k + 1 -> TurnSeqs]
    <3>1. \A i \in 0..k + 1 : i # k + 1 => f[i] \in TurnSeqs
      BY <2>0, <2>1
    <3> QED
      BY <2>2, <3>1
  <2>4. \A i \in 0..k : g[i] = f[i]
    BY <2>0
  <2>5. g[k + 1] = G[<<k + 1, f[k]>>]
    BY <2>0
  <2> HIDE DEF g
  <2>6. g[0] = << >>
    BY <2>0, <2>1, <2>4
  <2>7. ASSUME NEW i \in 1..k + 1 PROVE g[i] = G[<<i, g[i - 1]>>]
    <3>1. CASE i = k + 1
      <4>1. i - 1 = k /\ k \in 0..k
        BY <2>0, <3>1
      <4>2. g[i - 1] = f[k]
        BY <2>4, <4>1
      <4> QED
        BY <2>5, <3>1, <4>2
    <3>2. CASE i # k + 1
      <4>1. i \in 1..k /\ i \in 0..k /\ i - 1 \in 0..k
        BY <2>0, <3>2
      <4> QED
        BY <2>1, <2>4, <4>1
    <3> QED
      BY <3>1, <3>2
  <2> QED
    BY <2>3, <2>6, <2>7
<1>3. T \in SUBSET Nat
  OBVIOUS
<1> HIDE DEF T
<1>4. T = Nat
  BY <1>1, <1>2, <1>3, StoreInduction
<1> QED
  BY <1>4 DEF T

LEMMA TurnFirstPass ==
    ASSUME NEW h \in TurnSeqs
    PROVE  \E f \in [0..Len(h) -> TurnSeqs] :
              /\ f[0] = << >>
              /\ \A i \in 1..Len(h) : f[i] = IF Turns!Keeps(f[i - 1], h[i]) THEN Append(f[i - 1], h[i]) ELSE f[i - 1]
              /\ Turns!FirstPass(h) = f[Len(h)]
<1> DEFINE n == Len(h)
           G == [x \in (1..n) \X TurnSeqs |-> IF Turns!Keeps(x[2], h[x[1]]) THEN Append(x[2], h[x[1]]) ELSE x[2]]
           Body(f, i) == IF i = 0 THEN << >>
                         ELSE IF Turns!Keeps(f[i - 1], h[i]) THEN Append(f[i - 1], h[i]) ELSE f[i - 1]
<1>0. n \in Nat /\ << >> \in TurnSeqs /\ \A i \in 1..n : h[i] \in Turns!Messages
  BY TurnElement DEF TurnSeqs
<1>1. G \in [(1..n) \X TurnSeqs -> TurnSeqs]
  <2>1. ASSUME NEW x \in (1..n) \X TurnSeqs PROVE Append(x[2], h[x[1]]) \in TurnSeqs /\ x[2] \in TurnSeqs
    BY <1>0 DEF TurnSeqs
  <2> QED
    BY <2>1
<1>2. \A i \in 1..n, s \in TurnSeqs : G[<<i, s>>] = IF Turns!Keeps(s, h[i]) THEN Append(s, h[i]) ELSE s
  OBVIOUS
<1> HIDE DEF G, n
<1>3. PICK f \in [0..n -> TurnSeqs] : f[0] = << >> /\ \A i \in 1..n : f[i] = G[<<i, f[i - 1]>>]
  BY <1>0, <1>1, TurnIterates
<1>4. \A i \in 1..n : f[i] = IF Turns!Keeps(f[i - 1], h[i]) THEN Append(f[i - 1], h[i]) ELSE f[i - 1]
  <2>1. \A i \in 1..n : f[i - 1] \in TurnSeqs
    BY <1>0, <1>3
  <2> QED
    BY <1>2, <1>3, <2>1
<1>5. \A i \in 0..n : f[i] = Body(f, i)
  <2>1. \A i \in 0..n : i # 0 => i \in 1..n
    BY <1>0
  <2> QED
    BY <1>3, <1>4, <2>1
<1>6. f = [i \in 0..n |-> Body(f, i)]
  BY <1>3, <1>5
<1>7. ASSUME NEW g, g = [i \in 0..n |-> Body(g, i)] PROVE g = f
  <2> DEFINE T == {k \in Nat : k <= n => g[k] = f[k]}
  <2>0. \A i \in 0..n : g[i] = Body(g, i)
    BY <1>7
  <2>1. 0 \in T
    BY <1>0, <1>5, <2>0
  <2>2. ASSUME NEW k \in T PROVE k + 1 \in T
    <3> SUFFICES ASSUME k + 1 <= n PROVE g[k + 1] = f[k + 1]
      OBVIOUS
    <3>1. k \in Nat /\ g[k] = f[k] /\ k + 1 \in 0..n /\ k + 1 # 0 /\ (k + 1) - 1 = k
      BY <1>0
    <3> QED
      BY <1>5, <2>0, <3>1
  <2>3. T \in SUBSET Nat
    OBVIOUS
  <2>4. T = Nat
    <3> HIDE DEF T
    <3> QED
      BY <2>1, <2>2, <2>3, StoreInduction
  <2>5. \A i \in 0..n : g[i] = f[i]
    BY <1>0, <2>4
  <2> QED
    BY <1>3, <1>7, <2>5
<1>8. Turns!FirstPass(h) = (CHOOSE g : g = [i \in 0..n |-> Body(g, i)])[n]
  BY Zenon DEF Turns!FirstPass, n
<1>9. (CHOOSE g : g = [i \in 0..n |-> Body(g, i)]) = f
  BY <1>6, <1>7, Zenon
<1> QED
  BY <1>3, <1>4, <1>8, <1>9 DEF n
\* What the second pass drops: a call that is not answered, and its results.
TurnGoes(s, i) ==
    LET c == IF s[i].role = "tool" THEN Turns!CallerOf(s, i) ELSE i
    IN  s[c].role = "call" /\ ~Turns!Complete(s, c)

LEMMA TurnSecondPass ==
    ASSUME NEW s \in TurnSeqs
    PROVE  \E f \in [0..Len(s) -> TurnSeqs] :
              /\ f[0] = << >>
              /\ \A i \in 1..Len(s) : f[i] = IF TurnGoes(s, i) THEN f[i - 1] ELSE Append(f[i - 1], s[i])
              /\ Turns!SecondPass(s) = f[Len(s)]
<1> DEFINE n == Len(s)
           G == [x \in (1..n) \X TurnSeqs |-> IF TurnGoes(s, x[1]) THEN x[2] ELSE Append(x[2], s[x[1]])]
           Body(f, i) == IF i = 0 THEN << >>
                         ELSE IF TurnGoes(s, i) THEN f[i - 1] ELSE Append(f[i - 1], s[i])
<1>0. n \in Nat /\ << >> \in TurnSeqs /\ \A i \in 1..n : s[i] \in Turns!Messages
  BY TurnElement DEF TurnSeqs
<1>1. G \in [(1..n) \X TurnSeqs -> TurnSeqs]
  <2>1. ASSUME NEW x \in (1..n) \X TurnSeqs PROVE Append(x[2], s[x[1]]) \in TurnSeqs /\ x[2] \in TurnSeqs
    BY <1>0 DEF TurnSeqs
  <2> QED
    BY <2>1
<1>2. \A i \in 1..n, t \in TurnSeqs : G[<<i, t>>] = IF TurnGoes(s, i) THEN t ELSE Append(t, s[i])
  OBVIOUS
<1> HIDE DEF G, n
<1>3. PICK f \in [0..n -> TurnSeqs] : f[0] = << >> /\ \A i \in 1..n : f[i] = G[<<i, f[i - 1]>>]
  BY <1>0, <1>1, TurnIterates
<1>4. \A i \in 1..n : f[i] = IF TurnGoes(s, i) THEN f[i - 1] ELSE Append(f[i - 1], s[i])
  <2>1. \A i \in 1..n : f[i - 1] \in TurnSeqs
    BY <1>0, <1>3
  <2> QED
    BY <1>2, <1>3, <2>1
<1>5. \A i \in 0..n : f[i] = Body(f, i)
  <2>1. \A i \in 0..n : i # 0 => i \in 1..n
    BY <1>0
  <2> QED
    BY <1>3, <1>4, <2>1
<1>6. f = [i \in 0..n |-> Body(f, i)]
  BY <1>3, <1>5
<1>7. ASSUME NEW g, g = [i \in 0..n |-> Body(g, i)] PROVE g = f
  <2> DEFINE T == {k \in Nat : k <= n => g[k] = f[k]}
  <2>0. \A i \in 0..n : g[i] = Body(g, i)
    BY <1>7
  <2>1. 0 \in T
    BY <1>0, <1>5, <2>0
  <2>2. ASSUME NEW k \in T PROVE k + 1 \in T
    <3> SUFFICES ASSUME k + 1 <= n PROVE g[k + 1] = f[k + 1]
      OBVIOUS
    <3>1. k \in Nat /\ g[k] = f[k] /\ k + 1 \in 0..n /\ k + 1 # 0 /\ (k + 1) - 1 = k
      BY <1>0
    <3> QED
      BY <1>5, <2>0, <3>1
  <2>3. T \in SUBSET Nat
    OBVIOUS
  <2>4. T = Nat
    <3> HIDE DEF T
    <3> QED
      BY <2>1, <2>2, <2>3, StoreInduction
  <2>5. \A i \in 0..n : g[i] = f[i]
    BY <1>0, <2>4
  <2> QED
    BY <1>3, <1>7, <2>5
<1>8. Turns!SecondPass(s) = (CHOOSE g : g = [i \in 0..n |-> Body(g, i)])[n]
  BY Zenon DEF Turns!SecondPass, TurnGoes, n
<1>9. (CHOOSE g : g = [i \in 0..n |-> Body(g, i)]) = f
  BY <1>6, <1>7, Zenon
<1> QED
  BY <1>3, <1>4, <1>8, <1>9 DEF n
\* The rest is kept, in order.
LEMMA TurnSecondPassMap ==
    ASSUME NEW s \in TurnSeqs
    PROVE  /\ Turns!SecondPass(s) \in TurnSeqs
           /\ \E p \in [1..Len(Turns!SecondPass(s)) -> 1..Len(s)] :
                 /\ \A i, j \in 1..Len(Turns!SecondPass(s)) : i < j => p[i] < p[j]
                 /\ \A j \in 1..Len(Turns!SecondPass(s)) : Turns!SecondPass(s)[j] = s[p[j]] /\ ~TurnGoes(s, p[j])
                 /\ \A l \in 1..Len(s) : ~TurnGoes(s, l) => \E j \in 1..Len(Turns!SecondPass(s)) : p[j] = l
<1>0. Len(s) \in Nat /\ \A i \in 1..Len(s) : s[i] \in Turns!Messages
  BY TurnElement
<1>1. PICK f \in [0..Len(s) -> TurnSeqs] :
          /\ f[0] = << >>
          /\ \A i \in 1..Len(s) : f[i] = IF TurnGoes(s, i) THEN f[i - 1] ELSE Append(f[i - 1], s[i])
          /\ Turns!SecondPass(s) = f[Len(s)]
  BY TurnSecondPass
<1> DEFINE Maps(p, t, k) ==
             /\ p \in [1..Len(t) -> 1..k]
             /\ \A i, j \in 1..Len(t) : i < j => p[i] < p[j]
             /\ \A j \in 1..Len(t) : t[j] = s[p[j]] /\ ~TurnGoes(s, p[j])
             /\ \A l \in 1..k : ~TurnGoes(s, l) => \E j \in 1..Len(t) : p[j] = l
           T == {k \in Nat : k <= Len(s) => \E p : Maps(p, f[k], k)}
<1>2. 0 \in T
  <2> DEFINE p == [x \in 1..0 |-> 1]
  <2>1. Len(f[0]) = 0
    BY <1>1
  <2>2. Maps(p, f[0], 0)
    BY <2>1
  <2> QED
    BY <2>2
<1>3. ASSUME NEW k \in T PROVE k + 1 \in T
  <2> SUFFICES ASSUME k + 1 <= Len(s) PROVE \E p : Maps(p, f[k + 1], k + 1)
    OBVIOUS
  <2>0. k \in Nat /\ k <= Len(s) /\ k + 1 \in 1..Len(s) /\ (k + 1) - 1 = k /\ k \in 0..Len(s)
    BY <1>0
  <2>1. PICK p : Maps(p, f[k], k)
    BY <2>0
  <2>2. f[k] \in TurnSeqs /\ Len(f[k]) \in Nat
    BY <1>1, <2>0, TurnElement
  <2>3. CASE TurnGoes(s, k + 1)
    <3>1. f[k + 1] = f[k]
      BY <1>1, <2>0, <2>3
    <3>2. \A l \in 1..k + 1 : ~TurnGoes(s, l) => l \in 1..k
      BY <2>0, <2>3
    <3>3. p \in [1..Len(f[k]) -> 1..k + 1]
      BY <2>0, <2>1
    <3> HIDE DEF TurnSeqs
    <3>4. Maps(p, f[k], k + 1)
      <4> DEFINE t == f[k]
      <4>1. Maps(p, t, k) /\ p \in [1..Len(t) -> 1..k + 1]
        BY <2>1, <3>3
      <4> HIDE DEF t
      <4>2. \A l \in 1..k + 1 : ~TurnGoes(s, l) => \E j \in 1..Len(t) : p[j] = l
        BY <3>2, <4>1
      <4>3. Maps(p, t, k + 1)
        BY <4>1, <4>2
      <4> QED
        BY <4>3 DEF t
    <3> QED
      <4> HIDE DEF Maps
      <4> QED
        BY <3>1, <3>4
  <2>4. CASE ~TurnGoes(s, k + 1)
    <3> DEFINE t == f[k]
               u == f[k + 1]
               q == [j \in 1..Len(u) |-> IF j = Len(u) THEN k + 1 ELSE p[j]]
    <3>1. u = Append(t, s[k + 1])
      BY <1>1, <2>0, <2>4
    <3>2. Len(u) = Len(t) + 1 /\ u[Len(t) + 1] = s[k + 1] /\ \A j \in 1..Len(t) : u[j] = t[j]
      BY <1>0, <2>0, <2>2, <3>1 DEF TurnSeqs
    <3>3. Maps(p, t, k) /\ Len(t) \in Nat
      BY <2>1, <2>2
    <3> HIDE DEF t, u
    <3>4. \A j \in 1..Len(u) : IF j = Len(u) THEN q[j] = k + 1 ELSE j \in 1..Len(t) /\ q[j] = p[j]
      BY <3>2, <3>3
    <3>5. q \in [1..Len(u) -> 1..k + 1]
      <4>1. \A j \in 1..Len(t) : p[j] \in 1..k
        BY <3>3
      <4>2. \A j \in 1..k : j \in 1..k + 1
        BY <2>0
      <4>3. k + 1 \in 1..k + 1
        BY <2>0
      <4>4. \A j \in 1..Len(u) : q[j] \in 1..k + 1
        BY <3>4, <4>1, <4>2, <4>3
      <4> QED
        BY <4>4
    <3> HIDE DEF q
    <3>6. \A i, j \in 1..Len(u) : i < j => q[i] < q[j]
      <4> SUFFICES ASSUME NEW i \in 1..Len(u), NEW j \in 1..Len(u), i < j PROVE q[i] < q[j]
        OBVIOUS
      <4>1. i # Len(u) /\ i \in 1..Len(t) /\ q[i] = p[i] /\ p[i] \in 1..k
        <5>1. i # Len(u) /\ i \in 1..Len(t)
          BY <3>2, <3>3
        <5>2. q[i] = p[i]
          BY <3>4, <5>1
        <5>3. p[i] \in 1..k
          BY <3>3, <5>1
        <5> QED
          BY <5>1, <5>2, <5>3
      <4>2. CASE j = Len(u)
        BY <2>0, <3>4, <4>1, <4>2
      <4>3. CASE j # Len(u)
        BY <3>3, <3>4, <4>1, <4>3
      <4> QED
        BY <4>2, <4>3
    <3>7. \A j \in 1..Len(u) : u[j] = s[q[j]] /\ ~TurnGoes(s, q[j])
      BY <2>4, <3>2, <3>3, <3>4
    <3>8. ASSUME NEW l \in 1..k + 1, ~TurnGoes(s, l) PROVE \E j \in 1..Len(u) : q[j] = l
      <4>1. CASE l = k + 1
        <5>1. Len(u) \in 1..Len(u)
          BY <3>2, <3>3
        <5> QED
          BY <3>4, <4>1, <5>1
      <4>2. CASE l # k + 1
        <5>1. l \in 1..k
          BY <2>0, <4>2
        <5>2. PICK j \in 1..Len(t) : p[j] = l
          BY <3>3, <3>8, <5>1
        <5>3. j \in 1..Len(u) /\ j # Len(u)
          BY <3>2, <3>3
        <5> QED
          BY <3>4, <5>2, <5>3
      <4> QED
        BY <4>1, <4>2
    <3>9. Maps(q, u, k + 1)
      BY <3>5, <3>6, <3>7, <3>8
    <3> QED
      BY <3>9 DEF u
  <2> QED
    BY <2>3, <2>4
<1>4. T \in SUBSET Nat
  OBVIOUS
<1> HIDE DEF T
<1>5. T = Nat
  BY <1>2, <1>3, <1>4, StoreInduction
<1>6. \E p : Maps(p, f[Len(s)], Len(s))
  BY <1>0, <1>5 DEF T
<1>7. f[Len(s)] \in TurnSeqs
  BY <1>0, <1>1
<1> QED
  BY <1>1, <1>6, <1>7

-----------------------------------------------------------------------------
(* A history as it is stored, and what the first pass leaves of it.        *)

\* From the third message on a result follows its call or another of its results,
\* and a call follows a user's message or a result.  (Compression keeps the first
\* message, whatever comes after it.)
TurnLinked(h) ==
    /\ \A i \in 3..Len(h) :
          /\ h[i].role = "tool" => h[i - 1].role \in {"call", "tool"} /\ h[i - 1].n = h[i].n
          /\ h[i].role = "call" => h[i - 1].role \in {"user", "tool"}
    /\ \A i, j \in 1..Len(h) :
          h[i].role = "call" /\ h[j].role = "tool" /\ h[i].n = h[j].n => h[j].k \in 1..h[i].k

\* Every result belongs to the call it comes after.
TurnOwned(s, j) ==
    /\ Turns!CallerOf(s, j) # 0 /\ s[Turns!CallerOf(s, j)].role = "call"
    /\ s[Turns!CallerOf(s, j)].n = s[j].n /\ s[j].k \in 1..s[Turns!CallerOf(s, j)].k

TurnGood(s) == \A j \in 1..Len(s) : s[j].role = "tool" => TurnOwned(s, j)

TurnOpenCall(s) ==
    Turns!CallerOf(s, Len(s) + 1) # 0 /\ s[Turns!CallerOf(s, Len(s) + 1)].role = "call"

\* What the first pass knows of the message it has looked at last.
TurnPassing(h, s, i) ==
    /\ TurnGood(s)
    /\ \A j \in 1..Len(s) : \E l \in 1..i : s[j] = h[l]
    /\ i = 0 => s = << >>
    /\ TurnOpenCall(s) =>
          /\ i > 1 /\ h[i].role \in {"call", "tool"}
          /\ h[i].n = s[Turns!CallerOf(s, Len(s) + 1)].n
          /\ h[i].role = "tool" => s[Len(s)].role = "tool"

LEMMA TurnGoodAppend ==
    ASSUME NEW s \in TurnSeqs, NEW m \in Turns!Messages, TurnGood(s),
           m.role = "tool" => TurnOpenCall(s) /\ s[Turns!CallerOf(s, Len(s) + 1)].n = m.n
                              /\ m.k \in 1..s[Turns!CallerOf(s, Len(s) + 1)].k
    PROVE  /\ TurnGood(Append(s, m))
           /\ Turns!CallerOf(Append(s, m), Len(s) + 2) =
                 IF m.role = "tool" THEN Turns!CallerOf(s, Len(s) + 1) ELSE Len(s) + 1
<1> DEFINE t == Append(s, m)
<1>0. Len(s) \in Nat /\ Len(s) + 1 \in 1..Len(s) + 1 /\ t \in TurnSeqs /\ Len(t) = Len(s) + 1
      /\ (\A i \in 1..Len(s) : t[i] = s[i]) /\ t[Len(s) + 1] = m
  BY TurnElement DEF TurnSeqs
<1>1. \A i \in 1..Len(s) + 1 : Turns!CallerOf(t, i) = Turns!CallerOf(s, i)
  BY TurnCallerOfAppend
<1>2. \A i \in 1..Len(s) + 1 : Turns!CallerOf(s, i) \in 0..i - 1
  BY TurnCallerIsLast
<1>last. /\ Turns!CallerOf(s, Len(s) + 1) # 0 => s[Turns!CallerOf(s, Len(s) + 1)].role # "tool"
         /\ \A l \in Turns!CallerOf(s, Len(s) + 1) + 1..(Len(s) + 1) - 1 : s[l].role = "tool"
  BY <1>0, TurnCallerIsLast
<1> HIDE DEF t
<1>3. TurnGood(t)
  <2> SUFFICES ASSUME NEW j \in 1..Len(t), t[j].role = "tool" PROVE TurnOwned(t, j)
    BY DEF TurnGood
  <2> DEFINE c == Turns!CallerOf(s, j)
  <2>1. j \in 1..Len(s) + 1 /\ Turns!CallerOf(t, j) = c /\ c \in 0..j - 1
    BY <1>0, <1>1, <1>2
  <2>2. c # 0 => t[c] = s[c]
    <3>1. c # 0 => c \in 1..Len(s)
      BY <1>0, <2>1
    <3> QED
      BY <1>0, <3>1
  <2>3. CASE j = Len(s) + 1
    <3>1. t[j] = m /\ TurnOpenCall(s) /\ s[c].n = m.n /\ m.k \in 1..s[c].k
      BY <1>0, <2>3
    <3>2. c # 0 /\ s[c].role = "call"
      BY <2>3, <3>1 DEF TurnOpenCall
    <3> HIDE DEF c
    <3> QED
      BY <2>1, <2>2, <3>1, <3>2 DEF TurnOwned
  <2>4. CASE j # Len(s) + 1
    <3>1. j \in 1..Len(s) /\ t[j] = s[j]
      BY <1>0, <2>1, <2>4
    <3>2. TurnOwned(s, j)
      BY <3>1 DEF TurnGood
    <3>3. c # 0 /\ s[c].role = "call" /\ s[c].n = s[j].n /\ s[j].k \in 1..s[c].k
      BY <3>2 DEF TurnOwned
    <3> HIDE DEF c
    <3> QED
      BY <2>1, <2>2, <3>1, <3>3 DEF TurnOwned
  <2> QED
    BY <2>3, <2>4
<1>4. Turns!CallerOf(t, Len(s) + 2) = IF m.role = "tool" THEN Turns!CallerOf(s, Len(s) + 1) ELSE Len(s) + 1
  <2> DEFINE c == Turns!CallerOf(s, Len(s) + 1)
             d == IF m.role = "tool" THEN c ELSE Len(s) + 1
  <2>1. c \in 0..Len(s) /\ (c # 0 => s[c].role # "tool") /\ \A l \in c + 1..Len(s) : s[l].role = "tool"
    BY <1>0, <1>2, <1>last
  <2> HIDE DEF c
  <2>2. d \in 0..(Len(s) + 2) - 1 /\ Len(s) + 2 \in 1..Len(t) + 1
    BY <1>0, <2>1
  <2>3. d # 0 => t[d].role # "tool"
    <3>1. CASE m.role = "tool"
      <4>1. c # 0 => c \in 1..Len(s)
        BY <1>0, <2>1
      <4> QED
        BY <1>0, <2>1, <3>1, <4>1
    <3>2. CASE m.role # "tool"
      BY <1>0, <3>2
    <3> QED
      BY <3>1, <3>2
  <2>4. ASSUME NEW l \in d + 1..(Len(s) + 2) - 1 PROVE t[l].role = "tool"
    <3>1. CASE m.role = "tool"
      <4>1. l = Len(s) + 1 \/ (l \in c + 1..Len(s) /\ l \in 1..Len(s))
        BY <1>0, <2>1, <3>1
      <4> QED
        BY <1>0, <2>1, <3>1, <4>1
    <3>2. CASE m.role # "tool"
      BY <1>0, <3>2
    <3> QED
      BY <3>1, <3>2
  <2> HIDE DEF d
  <2>5. Turns!CallerOf(t, Len(s) + 2) = d
    BY <1>0, <2>2, <2>3, <2>4, TurnCallerIs
  <2> QED
    BY <2>5 DEF c, d
<1> QED
  BY <1>3, <1>4 DEF t

LEMMA TurnPassStep ==
    ASSUME NEW h \in TurnSeqs, TurnLinked(h), NEW k \in Nat, k + 1 <= Len(h),
           NEW s \in TurnSeqs, TurnPassing(h, s, k),
           NEW t, t = IF Turns!Keeps(s, h[k + 1]) THEN Append(s, h[k + 1]) ELSE s
    PROVE  TurnPassing(h, t, k + 1)
<1> DEFINE m == h[k + 1]
           c == Turns!CallerOf(s, Len(s) + 1)
<1>0. Len(s) \in Nat /\ Len(h) \in Nat /\ m \in Turns!Messages /\ k + 1 \in 1..Len(h)
      /\ m.role \in {"user", "assistant", "call", "tool"}
  BY TurnElement
<1>1. /\ m.role = "tool" => (Turns!Keeps(s, m) <=> TurnOpenCall(s))
      /\ m.role = "call" => (Turns!Keeps(s, m) <=> s # << >> /\ s[Len(s)].role \in {"user", "tool"})
      /\ m.role \notin {"tool", "call"} => Turns!Keeps(s, m)
  BY <1>0 DEF Turns!Keeps, TurnOpenCall
<1>2. c \in 0..Len(s)
  <2>1. Len(s) + 1 \in 1..Len(s) + 1
    BY <1>0
  <2>2. c \in 0..(Len(s) + 1) - 1
    BY <2>1, TurnCallerIsLast
  <2> QED
    BY <1>0, <2>2
<1>3. /\ TurnGood(s)
      /\ \A j \in 1..Len(s) : \E l \in 1..k : s[j] = h[l]
      /\ k = 0 => s = << >>
      /\ TurnOpenCall(s) => /\ k > 1 /\ h[k].role \in {"call", "tool"} /\ h[k].n = s[c].n
                            /\ h[k].role = "tool" => s[Len(s)].role = "tool"
  BY DEF TurnPassing
<1>4. TurnOpenCall(s) <=> c # 0 /\ s[c].role = "call"
  BY DEF TurnOpenCall
<1>5. ASSUME TurnOpenCall(s)
      PROVE  /\ k + 1 \in 3..Len(h) /\ (k + 1) - 1 = k
             /\ c \in 1..Len(s) /\ \E l \in 1..Len(h) : s[c] = h[l]
  <2>1. c \in 1..Len(s) /\ k > 1
    BY <1>0, <1>2, <1>3, <1>4, <1>5
  <2>2. PICK l \in 1..k : s[c] = h[l]
    BY <1>3, <2>1
  <2> QED
    BY <1>0, <2>1, <2>2
<1>6. m.role = "tool" /\ TurnOpenCall(s) => s[c].n = m.n /\ m.k \in 1..s[c].k
  <2> SUFFICES ASSUME m.role = "tool", TurnOpenCall(s) PROVE s[c].n = m.n /\ m.k \in 1..s[c].k
    OBVIOUS
  <2>1. h[k].n = m.n /\ h[k].n = s[c].n
    BY <1>3, <1>5 DEF TurnLinked
  <2>2. PICK l \in 1..Len(h) : s[c] = h[l]
    BY <1>5
  <2>3. h[l].role = "call" /\ h[l].n = m.n
    BY <1>4, <2>1, <2>2
  <2> QED
    BY <1>0, <2>1, <2>2, <2>3 DEF TurnLinked
<1>7. CASE Turns!Keeps(s, m)
  <2>1. t = Append(s, m)
    BY <1>7
  <2>2. t \in TurnSeqs /\ Len(t) = Len(s) + 1 /\ t[Len(s) + 1] = m /\ \A j \in 1..Len(s) : t[j] = s[j]
    BY <1>0, <2>1 DEF TurnSeqs
  <2>3. m.role = "tool" => TurnOpenCall(s) /\ s[c].n = m.n /\ m.k \in 1..s[c].k
    BY <1>1, <1>6, <1>7
  <2>4. TurnGood(t) /\ Turns!CallerOf(t, Len(s) + 2) = IF m.role = "tool" THEN c ELSE Len(s) + 1
    <3> HIDE DEF m
    <3> QED
      BY <1>0, <1>3, <2>1, <2>3, TurnGoodAppend
  <2>5. ASSUME NEW j \in 1..Len(t) PROVE \E l \in 1..k + 1 : t[j] = h[l]
    <3>1. CASE j = Len(s) + 1
      <4>1. k + 1 \in 1..k + 1
        OBVIOUS
      <4> QED
        BY <2>2, <3>1, <4>1
    <3>2. CASE j # Len(s) + 1
      <4>1. j \in 1..Len(s)
        BY <1>0, <2>2, <3>2
      <4>2. PICK l \in 1..k : s[j] = h[l]
        BY <1>3, <4>1
      <4>3. l \in 1..k + 1
        OBVIOUS
      <4> QED
        BY <2>2, <4>1, <4>2, <4>3
    <3> QED
      BY <3>1, <3>2
  <2>6. ASSUME TurnOpenCall(t)
        PROVE  /\ k + 1 > 1 /\ m.role \in {"call", "tool"}
               /\ m.n = t[Turns!CallerOf(t, Len(t) + 1)].n
               /\ m.role = "tool" => t[Len(t)].role = "tool"
    <3> DEFINE d == Turns!CallerOf(t, Len(t) + 1)
    <3>1. d = IF m.role = "tool" THEN c ELSE Len(s) + 1
      <4>1. Len(t) + 1 = Len(s) + 2
        BY <1>0, <2>2
      <4> QED
        BY <2>4, <4>1
    <3>2. d # 0 /\ t[d].role = "call"
      BY <2>6 DEF TurnOpenCall
    <3> HIDE DEF d
    <3>3. CASE m.role = "tool"
      <4>1. t[d] = s[c] /\ k + 1 > 1 /\ t[Len(t)] = m
        BY <1>5, <2>2, <2>3, <3>1, <3>3
      <4> QED
        BY <2>3, <3>3, <4>1 DEF d
    <3>4. CASE m.role # "tool"
      <4>1. t[d] = m /\ m.role = "call"
        BY <2>2, <3>1, <3>2, <3>4
      <4>2. s # << >>
        BY <1>1, <1>7, <4>1
      <4>3. k # 0
        BY <1>3, <4>2
      <4>4. k + 1 > 1
        BY <4>3
      <4>5. m.n = t[d].n /\ m.role \in {"call", "tool"} /\ m.role # "tool"
        BY <3>4, <4>1
      <4> QED
        BY <4>4, <4>5 DEF d
    <3> QED
      BY <3>3, <3>4
  <2>7. k + 1 # 0
    OBVIOUS
  <2>8. TurnGood(t)
    BY <2>4
  <2>9. TurnOpenCall(t) =>
          /\ k + 1 > 1 /\ h[k + 1].role \in {"call", "tool"}
          /\ h[k + 1].n = t[Turns!CallerOf(t, Len(t) + 1)].n
          /\ h[k + 1].role = "tool" => t[Len(t)].role = "tool"
    BY <2>6
  <2> QED
    BY <2>5, <2>7, <2>8, <2>9, Zenon DEF TurnPassing
<1>8. CASE ~Turns!Keeps(s, m)
  <2>1. t = s
    BY <1>8
  <2>2. ~TurnOpenCall(s)
    <3> SUFFICES ASSUME TurnOpenCall(s) PROVE FALSE
      OBVIOUS
    <3>1. m.role = "call"
      BY <1>0, <1>1, <1>8
    <3>2. h[k].role = "tool" /\ s[Len(s)].role = "tool"
      BY <1>3, <1>5, <3>1 DEF TurnLinked
    <3>3. s # << >>
      <4>1. Len(s) # 0
        BY <1>0, <1>5
      <4> QED
        BY <4>1
    <3> QED
      BY <1>1, <1>8, <3>1, <3>2, <3>3
  <2>3. ASSUME NEW j \in 1..Len(s) PROVE \E l \in 1..k + 1 : s[j] = h[l]
    <3>1. PICK l \in 1..k : s[j] = h[l]
      BY <1>3
    <3>2. l \in 1..k + 1
      OBVIOUS
    <3> QED
      BY <3>1, <3>2
  <2> QED
    BY <1>3, <2>1, <2>2, <2>3 DEF TurnPassing
<1> QED
  BY <1>7, <1>8

\* The first pass leaves results of their calls only.
LEMMA TurnFirstPassGood ==
    ASSUME NEW h \in TurnSeqs, TurnLinked(h)
    PROVE  Turns!FirstPass(h) \in TurnSeqs /\ TurnGood(Turns!FirstPass(h))
<1>0. Len(h) \in Nat
  BY TurnElement
<1>1. PICK f \in [0..Len(h) -> TurnSeqs] :
          /\ f[0] = << >>
          /\ \A i \in 1..Len(h) : f[i] = IF Turns!Keeps(f[i - 1], h[i]) THEN Append(f[i - 1], h[i]) ELSE f[i - 1]
          /\ Turns!FirstPass(h) = f[Len(h)]
  BY TurnFirstPass
<1> DEFINE T == {k \in Nat : k <= Len(h) => TurnPassing(h, f[k], k)}
<1>2. 0 \in T
  <2>1. f[0] = << >> /\ Len(<< >>) = 0 /\ << >> \in TurnSeqs
    BY <1>1 DEF TurnSeqs
  <2>2. Turns!CallerOf(<< >>, 1) = 0
    <3>1. Turns!CallerOf(<< >>, 1) \in 0..1 - 1
      BY <2>1, TurnCallerIsLast
    <3> QED
      BY <3>1
  <2>3. ~TurnOpenCall(<< >>)
    BY <2>1, <2>2 DEF TurnOpenCall
  <2> QED
    BY <2>1, <2>3 DEF TurnPassing, TurnGood
<1>3. ASSUME NEW k \in T PROVE k + 1 \in T
  <2> SUFFICES ASSUME k + 1 <= Len(h) PROVE TurnPassing(h, f[k + 1], k + 1)
    OBVIOUS
  <2>1. k \in Nat /\ k \in 0..Len(h) /\ k + 1 \in 1..Len(h) /\ (k + 1) - 1 = k
    BY <1>0
  <2>2. f[k] \in TurnSeqs /\ TurnPassing(h, f[k], k)
    BY <1>1, <2>1
  <2>3. f[k + 1] = IF Turns!Keeps(f[k], h[k + 1]) THEN Append(f[k], h[k + 1]) ELSE f[k]
    BY <1>1, <2>1
  <2> QED
    BY <2>1, <2>2, <2>3, TurnPassStep
<1>4. T \in SUBSET Nat
  OBVIOUS
<1> HIDE DEF T
<1>5. T = Nat
  BY <1>2, <1>3, <1>4, StoreInduction
<1>6. TurnPassing(h, f[Len(h)], Len(h))
  BY <1>0, <1>5 DEF T
<1>7. f[Len(h)] \in TurnSeqs
  BY <1>0, <1>1
<1> QED
  BY <1>1, <1>6, <1>7 DEF TurnPassing

\* The second pass keeps the caller of what it keeps.
LEMMA TurnMapCaller ==
    ASSUME NEW s \in TurnSeqs, TurnGood(s), NEW t \in TurnSeqs,
           NEW p \in [1..Len(t) -> 1..Len(s)],
           \A i, j \in 1..Len(t) : i < j => p[i] < p[j],
           \A j \in 1..Len(t) : t[j] = s[p[j]] /\ ~TurnGoes(s, p[j]),
           \A l \in 1..Len(s) : ~TurnGoes(s, l) => \E j \in 1..Len(t) : p[j] = l,
           NEW j \in 1..Len(t), t[j].role = "tool"
    PROVE  /\ Turns!CallerOf(t, j) \in 1..j - 1
           /\ p[Turns!CallerOf(t, j)] = Turns!CallerOf(s, p[j])
<1> DEFINE c == Turns!CallerOf(s, p[j])
<1>0. Len(s) \in Nat /\ Len(t) \in Nat /\ j \in Nat /\ p[j] \in 1..Len(s) /\ s[p[j]].role = "tool"
  BY TurnElement
<1>1. c # 0 /\ s[c].role = "call" /\ c \in 0..p[j] - 1 /\ \A l \in c + 1..p[j] - 1 : s[l].role = "tool"
  <2>1. TurnOwned(s, p[j])
    BY <1>0 DEF TurnGood
  <2>2. p[j] \in 1..Len(s) + 1
    BY <1>0
  <2> QED
    BY <2>1, <2>2, TurnCallerIsLast DEF TurnOwned
<1>2. Turns!Complete(s, c)
  BY <1>0, <1>1 DEF TurnGoes
<1>3. ~TurnGoes(s, c)
  BY <1>1, <1>2 DEF TurnGoes
<1> HIDE DEF c
<1>4. c \in 1..Len(s) /\ c < p[j]
  BY <1>0, <1>1
<1>5. PICK i \in 1..Len(t) : p[i] = c
  BY <1>3, <1>4
<1>6. i < j
  <2>1. ~(j < i) /\ i # j
    <3>1. j < i => p[j] < p[i]
      OBVIOUS
    <3>2. p[i] # p[j] /\ ~(p[j] < p[i])
      BY <1>0, <1>4, <1>5
    <3> QED
      BY <3>1, <3>2
  <2> QED
    BY <1>0, <2>1
<1>7. ASSUME NEW l \in i + 1..j - 1 PROVE t[l].role = "tool"
  <2>1. l \in 1..Len(t) /\ i < l /\ l < j
    BY <1>0, <1>6
  <2>2. p[i] < p[l] /\ p[l] < p[j] /\ p[l] \in 1..Len(s)
    BY <2>1
  <2>3. p[l] \in c + 1..p[j] - 1
    BY <1>0, <1>4, <1>5, <2>2
  <2> QED
    BY <1>1, <2>1, <2>3
<1>8. Turns!CallerOf(t, j) = i
  <2>1. i \in 0..j - 1 /\ j \in 1..Len(t) + 1 /\ t[i].role # "tool"
    BY <1>0, <1>1, <1>5, <1>6
  <2> QED
    BY <1>7, <2>1, TurnCallerIs
<1> QED
  BY <1>0, <1>5, <1>6, <1>8 DEF c

LEMMA TurnSecondPassWellFormed ==
    ASSUME NEW s \in TurnSeqs, TurnGood(s)
    PROVE  Turns!WellFormed(Turns!SecondPass(s))
<1> DEFINE t == Turns!SecondPass(s)
<1>1. t \in TurnSeqs
  BY TurnSecondPassMap
<1>2. PICK p \in [1..Len(t) -> 1..Len(s)] :
          /\ \A i, j \in 1..Len(t) : i < j => p[i] < p[j]
          /\ \A j \in 1..Len(t) : t[j] = s[p[j]] /\ ~TurnGoes(s, p[j])
          /\ \A l \in 1..Len(s) : ~TurnGoes(s, l) => \E j \in 1..Len(t) : p[j] = l
  BY TurnSecondPassMap
<1> HIDE DEF t
<1>3. /\ DOMAIN t = 1..Len(t) /\ Len(t) \in Nat /\ Len(s) \in Nat
      /\ \A i \in 1..Len(t) : t[i].role \in {"user", "assistant", "call", "tool"}
  BY <1>1, TurnElement
<1>4. \A j \in 1..Len(t) : t[j].role = "tool" =>
          /\ Turns!CallerOf(t, j) \in 1..j - 1
          /\ p[Turns!CallerOf(t, j)] = Turns!CallerOf(s, p[j])
          /\ TurnOwned(s, p[j])
  <2> SUFFICES ASSUME NEW j \in 1..Len(t), t[j].role = "tool"
               PROVE  /\ Turns!CallerOf(t, j) \in 1..j - 1
                      /\ p[Turns!CallerOf(t, j)] = Turns!CallerOf(s, p[j])
                      /\ TurnOwned(s, p[j])
    OBVIOUS
  <2>1. Turns!CallerOf(t, j) \in 1..j - 1 /\ p[Turns!CallerOf(t, j)] = Turns!CallerOf(s, p[j])
    BY <1>1, <1>2, TurnMapCaller, SMTT(60)
  <2>2. p[j] \in 1..Len(s) /\ s[p[j]].role = "tool"
    BY <1>2
  <2> QED
    BY <2>1, <2>2 DEF TurnGood
<1>5. \A i, j \in 1..Len(t) : p[i] = p[j] => i = j
  <2> SUFFICES ASSUME NEW i \in 1..Len(t), NEW j \in 1..Len(t), p[i] = p[j], i # j PROVE FALSE
    OBVIOUS
  <2>1. p[i] \in Nat /\ p[j] \in Nat /\ (i < j \/ j < i)
    BY <1>2, <1>3
  <2> QED
    BY <1>2, <2>1
<1>6. ASSUME NEW i \in 1..Len(t), t[i].role = "call" PROVE Turns!Results(t, i) = Turns!Calls(t[i])
  <2>1. ASSUME NEW x \in Turns!Results(t, i) PROVE x \in Turns!Calls(t[i])
    <3>1. PICK j \in i + 1..Len(t) : t[j].role = "tool" /\ Turns!CallerOf(t, j) = i /\ x = <<t[j].n, t[j].k>>
      BY DEF Turns!Results
    <3>2. j \in 1..Len(t)
      BY <1>3
    <3>3. Turns!CallerOf(s, p[j]) = p[i] /\ TurnOwned(s, p[j])
      BY <1>4, <3>1, <3>2
    <3>4. t[j].n = t[i].n /\ t[j].k \in 1..t[i].k
      BY <1>2, <3>2, <3>3 DEF TurnOwned
    <3> QED
      BY <3>1, <3>4 DEF Turns!Calls
  <2>2. ASSUME NEW x \in Turns!Calls(t[i]) PROVE x \in Turns!Results(t, i)
    <3>1. t[i] = s[p[i]] /\ ~TurnGoes(s, p[i]) /\ p[i] \in 1..Len(s) /\ s[p[i]].role = "call"
      BY <1>2, <1>6
    <3>2. Turns!Complete(s, p[i])
      BY <3>1 DEF TurnGoes
    <3>3. x \in Turns!Results(s, p[i])
      BY <3>1, <3>2 DEF Turns!Complete
    <3>4. PICK l \in p[i] + 1..Len(s) : s[l].role = "tool" /\ Turns!CallerOf(s, l) = p[i] /\ x = <<s[l].n, s[l].k>>
      BY <3>3 DEF Turns!Results
    <3>5. l \in 1..Len(s) /\ p[i] < l
      BY <1>3, <3>1
    <3>6. ~TurnGoes(s, l)
      BY <3>2, <3>4 DEF TurnGoes
    <3>7. PICK j \in 1..Len(t) : p[j] = l
      BY <1>2, <3>5, <3>6
    <3>8. t[j] = s[l] /\ t[j].role = "tool"
      BY <1>2, <3>4, <3>7
    <3>9. p[Turns!CallerOf(t, j)] = p[i] /\ Turns!CallerOf(t, j) \in 1..j - 1
      BY <1>4, <3>4, <3>7, <3>8
    <3>10. Turns!CallerOf(t, j) = i /\ j \in i + 1..Len(t)
      <4>1. Turns!CallerOf(t, j) \in 1..Len(t)
        BY <1>3, <3>9
      <4>2. Turns!CallerOf(t, j) = i
        BY <1>5, <3>9, <4>1
      <4> QED
        BY <1>3, <3>9, <4>2
    <3> QED
      BY <3>4, <3>8, <3>10 DEF Turns!Results
  <2> QED
    BY <2>1, <2>2
<1>7. ASSUME NEW i \in 1..Len(t), t[i].role = "tool"
      PROVE  Turns!CallerOf(t, i) # 0 /\ t[Turns!CallerOf(t, i)].role = "call"
  <2>1. Turns!CallerOf(t, i) \in 1..Len(t) /\ Turns!CallerOf(t, i) # 0
    BY <1>3, <1>4, <1>7
  <2>2. s[p[Turns!CallerOf(t, i)]].role = "call"
    BY <1>4, <1>7 DEF TurnOwned
  <2> QED
    BY <1>2, <2>1, <2>2
<1>8. Turns!WellFormed(t)
  BY <1>3, <1>6, <1>7 DEF Turns!WellFormed
<1> QED
  BY <1>8 DEF t

\* Whatever a linked history leaves out, what the model is sent is well formed.
LEMMA TurnSanitized ==
    ASSUME NEW h \in TurnSeqs, TurnLinked(h)
    PROVE  Turns!WellFormed(Turns!sanitizeHistoryForProvider(h))
<1>1. Turns!FirstPass(h) \in TurnSeqs /\ TurnGood(Turns!FirstPass(h))
  BY TurnFirstPassGood
<1>2. \A s \in TurnSeqs : TurnGood(s) => Turns!WellFormed(Turns!SecondPass(s))
  BY TurnSecondPassWellFormed
<1> QED
  BY <1>1, <1>2 DEF Turns!sanitizeHistoryForProvider

-----------------------------------------------------------------------------
(* The sessions as they are stored                                         *)

TurnStored(h, n) == TurnLinked(h) /\ \A i \in 1..Len(h) : h[i].n <= n

\* The history waits for the model.
TurnAwaits(h) == h # << >> /\ h[Len(h)].role \in {"user", "tool"}

\* The messages that a truncation would drop and no summary is made from.
TurnLoose(h, c) == {i \in 1..Len(h) - 4 : h[i].n \notin c}

TurnLinks ==
    /\ TurnStored(hist, stored)
    /\ turnCall.n <= stored /\ appended <= stored

\* While tools run the history ends with their call or one of its results, and no
\* other call has its number.
TurnPlace ==
    /\ turnPc = "llm" => TurnAwaits(hist)
    /\ turnPc = "tools" =>
          /\ done < turnCall.k
          /\ hist # << >> /\ hist[Len(hist)].role \in {"call", "tool"} /\ hist[Len(hist)].n = turnCall.n
          /\ \A i \in 1..Len(hist) : hist[i].role = "call" /\ hist[i].n = turnCall.n => hist[i].k = turnCall.k
    /\ turnPc = "compress" => TurnStored(newHistory, stored) /\ TurnAwaits(newHistory)

\* As many loose messages as were stored since, or less, also in what a compression
\* is about to store; it read the history that the summarizer is to read.
TurnCovered ==
    /\ summ \in {"llm", "truncate"} => Cardinality(TurnLoose(hist, covers)) <= appended
    /\ turnPc = "compress" /\ summ \in {"llm", "truncate"} => Cardinality(TurnLoose(newHistory, covers)) <= appended
    /\ turnPc = "compress" /\ summ = "read" => newHistory = Turns!Compressed(hist) /\ Len(hist) > 4

TurnIInv == Turns!TypeOK /\ TurnLinks /\ TurnPlace /\ TurnCovered

LEMMA TurnLooseFinite ==
    ASSUME NEW h \in TurnSeqs, NEW c
    PROVE  IsFiniteSet(TurnLoose(h, c)) /\ Cardinality(TurnLoose(h, c)) \in Nat
<1>1. Len(h) \in Nat
  BY TurnElement
<1>2. IsFiniteSet(1..Len(h))
  BY <1>1, FS_Interval
<1>3. TurnLoose(h, c) \subseteq 1..Len(h)
  BY <1>1 DEF TurnLoose
<1> QED
  BY <1>2, <1>3, FS_Subset, FS_CardinalityType

\* What is stored next adds one message at the most to those.
LEMMA TurnLooseAppend ==
    ASSUME NEW h \in TurnSeqs, NEW m \in Turns!Messages, NEW c
    PROVE  Cardinality(TurnLoose(Append(h, m), c)) <= Cardinality(TurnLoose(h, c)) + 1
<1> DEFINE t == Append(h, m)
           B == TurnLoose(h, c) \cup {Len(h) - 3}
<1>1. Len(h) \in Nat /\ t \in TurnSeqs /\ Len(t) = Len(h) + 1 /\ \A i \in 1..Len(h) : t[i] = h[i]
  BY TurnElement DEF TurnSeqs
<1>2. TurnLoose(t, c) \subseteq B
  BY <1>1 DEF TurnLoose
<1>3. IsFiniteSet(TurnLoose(h, c)) /\ Cardinality(TurnLoose(h, c)) \in Nat
  BY TurnLooseFinite
<1>4. IsFiniteSet(B) /\ Cardinality(B) <= Cardinality(TurnLoose(h, c)) + 1
  BY <1>3, FS_AddElement
<1>5. IsFiniteSet(TurnLoose(t, c)) /\ Cardinality(TurnLoose(t, c)) \in Nat
  BY <1>1, TurnLooseFinite
<1>6. Cardinality(TurnLoose(t, c)) <= Cardinality(B) /\ Cardinality(B) \in Nat
  BY <1>2, <1>4, FS_Subset, FS_CardinalityType
<1> QED
  BY <1>3, <1>4, <1>5, <1>6

\* A cut that leaves the end of the history, with or without its first message.
TurnCut(h, t, d) ==
    /\ Len(t) + d = Len(h) /\ Len(t) >= 1
    /\ t[1] = h[1] \/ t[1] = h[1 + d]
    /\ \A j \in 2..Len(t) : t[j] = h[j + d]

LEMMA TurnCutMessage ==
    ASSUME NEW h \in TurnSeqs, NEW t \in TurnSeqs, NEW d \in Nat, TurnCut(h, t, d)
    PROVE  \A j \in 1..Len(t) : \E l \in 1..Len(h) : t[j] = h[l]
<1> SUFFICES ASSUME NEW j \in 1..Len(t) PROVE \E l \in 1..Len(h) : t[j] = h[l]
  OBVIOUS
<1>1. Len(t) \in Nat /\ Len(h) \in Nat /\ 1 \in 1..Len(h) /\ j + d \in 1..Len(h) /\ 1 + d \in 1..Len(h)
  BY TurnElement DEF TurnCut
<1>2. t[j] = h[j + d] \/ t[j] = h[1] \/ t[j] = h[1 + d]
  <2>1. j = 1 \/ j \in 2..Len(t)
    BY <1>1
  <2> QED
    BY <2>1 DEF TurnCut
<1> QED
  BY <1>1, <1>2

LEMMA TurnCutStored ==
    ASSUME NEW h \in TurnSeqs, NEW t \in TurnSeqs, NEW d \in Nat, TurnCut(h, t, d),
           NEW n, TurnStored(h, n)
    PROVE  TurnStored(t, n)
<1>0. Len(t) \in Nat /\ Len(h) \in Nat /\ Len(t) + d = Len(h)
  BY TurnElement DEF TurnCut
<1>1. \A j \in 1..Len(t) : \E l \in 1..Len(h) : t[j] = h[l]
  BY TurnCutMessage
<1>2. \A j \in 1..Len(t) : t[j].n <= n
  BY <1>1 DEF TurnStored
<1>3. ASSUME NEW i \in 3..Len(t)
      PROVE  /\ t[i].role = "tool" => t[i - 1].role \in {"call", "tool"} /\ t[i - 1].n = t[i].n
             /\ t[i].role = "call" => t[i - 1].role \in {"user", "tool"}
  <2>1. t[i] = h[i + d] /\ t[i - 1] = h[(i - 1) + d] /\ (i - 1) + d = (i + d) - 1 /\ i + d \in 3..Len(h)
    <3>1. i \in 2..Len(t) /\ i - 1 \in 2..Len(t)
      BY <1>0
    <3> QED
      BY <1>0, <3>1 DEF TurnCut
  <2> QED
    BY <2>1 DEF TurnStored, TurnLinked
<1>4. ASSUME NEW i \in 1..Len(t), NEW j \in 1..Len(t), t[i].role = "call", t[j].role = "tool", t[i].n = t[j].n
      PROVE  t[j].k \in 1..t[i].k
  <2>1. PICK l \in 1..Len(h), r \in 1..Len(h) : t[i] = h[l] /\ t[j] = h[r]
    BY <1>1
  <2> QED
    BY <1>4, <2>1 DEF TurnStored, TurnLinked
<1> QED
  BY <1>2, <1>3, <1>4 DEF TurnStored, TurnLinked

\* It drops as many messages that are not summarized, or less.
LEMMA TurnCutLoose ==
    ASSUME NEW h \in TurnSeqs, NEW t \in TurnSeqs, NEW d \in Nat, TurnCut(h, t, d), NEW c
    PROVE  Cardinality(TurnLoose(t, c)) <= Cardinality(TurnLoose(h, c))
<1> DEFINE p == [i \in TurnLoose(t, c) |-> IF i = 1 /\ t[1] = h[1] THEN 1 ELSE i + d]
<1>0. Len(t) \in Nat /\ Len(h) \in Nat /\ Len(t) + d = Len(h)
  BY TurnElement DEF TurnCut
<1>1. ASSUME NEW i \in TurnLoose(t, c) PROVE p[i] \in TurnLoose(h, c)
  <2>1. i \in 1..Len(t) - 4 /\ t[i].n \notin c
    BY DEF TurnLoose
  <2>2. p[i] \in 1..Len(h) - 4
    BY <1>0, <2>1
  <2>3. t[i] = h[p[i]]
    <3>1. CASE i = 1
      BY <3>1 DEF TurnCut
    <3>2. CASE i # 1
      <4>1. i \in 2..Len(t) /\ p[i] = i + d
        BY <1>0, <2>1, <3>2
      <4> QED
        BY <4>1 DEF TurnCut
    <3> QED
      BY <3>1, <3>2
  <2> HIDE DEF p
  <2> QED
    BY <2>1, <2>2, <2>3 DEF TurnLoose
<1>2. ASSUME NEW i \in TurnLoose(t, c), NEW j \in TurnLoose(t, c), p[i] = p[j] PROVE i = j
  <2>1. i \in 1..Len(t) - 4 /\ j \in 1..Len(t) - 4
    BY DEF TurnLoose
  <2> QED
    BY <1>0, <1>2, <2>1
<1>3. p \in Injection(TurnLoose(t, c), TurnLoose(h, c))
  <2>1. p \in [TurnLoose(t, c) -> TurnLoose(h, c)]
    BY <1>1
  <2> QED
    BY <1>2, <2>1, Zenon DEF Injection, IsInjective
<1>4. IsFiniteSet(TurnLoose(h, c)) /\ IsFiniteSet(TurnLoose(t, c))
  BY TurnLooseFinite
<1> HIDE DEF p
<1> QED
  BY <1>3, <1>4, FS_Injection

LEMMA TurnCompressedCut ==
    ASSUME NEW h \in TurnSeqs, Len(h) > 4
    PROVE  /\ Turns!Compressed(h) \in TurnSeqs
           /\ \E d \in Nat : TurnCut(h, Turns!Compressed(h), d)
           /\ Turns!Compressed(h) # << >>
           /\ Turns!Compressed(h)[Len(Turns!Compressed(h))] = h[Len(h)]
<1> DEFINE mid == (Len(h) - 2) \div 2
           r == SubSeq(h, mid + 2, Len(h))
           t == <<h[1]>> \o r
<1>1. Len(h) \in Nat /\ 1 \in 1..Len(h)
  BY TurnElement
<1>2. mid \in Nat /\ mid + 2 \in 1..Len(h)
  BY <1>1
<1>3. t = Turns!Compressed(h)
  BY DEF Turns!Compressed, Turns!KeepLast
<1> HIDE DEF mid
<1>4. r \in TurnSeqs /\ Len(r) = Len(h) - mid - 1 /\ \A j \in 1..Len(r) : r[j] = h[j + mid + 1]
  <2>1. h \in Seq(Turns!Messages)
    BY DEF TurnSeqs
  <2>2. r \in Seq(Turns!Messages) /\ Len(r) = Len(h) - (mid + 2) + 1
    BY <1>1, <1>2, <2>1
  <2>3. \A j \in 1..Len(r) : r[j] = h[(mid + 2) + j - 1]
    BY <1>1, <1>2, <2>1, <2>2
  <2> QED
    BY <1>1, <1>2, <2>2, <2>3 DEF TurnSeqs
<1> HIDE DEF r
<1>5. t \in TurnSeqs /\ Len(t) = Len(r) + 1 /\ t[1] = h[1] /\ \A j \in 2..Len(t) : t[j] = r[j - 1]
  <2>1. h[1] \in Turns!Messages /\ <<h[1]>> \in Seq(Turns!Messages) /\ Len(<<h[1]>>) = 1
    BY <1>1, TurnElement
  <2>2. r \in Seq(Turns!Messages) /\ Len(r) \in Nat
    BY <1>4, TurnElement DEF TurnSeqs
  <2> QED
    BY <2>1, <2>2 DEF TurnSeqs
<1> HIDE DEF t
<1>6. \A j \in 2..Len(t) : t[j] = h[j + mid]
  <2>1. \A j \in 2..Len(t) : j - 1 \in 1..Len(r) /\ (j - 1) + mid + 1 = j + mid
    BY <1>1, <1>2, <1>4, <1>5
  <2> QED
    BY <1>4, <1>5, <2>1
<1>7. TurnCut(h, t, mid)
  BY <1>1, <1>2, <1>4, <1>5, <1>6 DEF TurnCut
<1>8. t # << >> /\ t[Len(t)] = h[Len(h)]
  <2>1. Len(t) \in 2..Len(t) /\ Len(t) + mid = Len(h)
    BY <1>1, <1>2, <1>4, <1>5
  <2>2. t # << >>
    BY <1>5, <2>1
  <2> QED
    BY <1>6, <2>1, <2>2
<1> QED
  BY <1>2, <1>3, <1>5, <1>7, <1>8

\* TruncateHistory(4)
TurnLast4(h) == SubSeq(h, Len(h) - 4 + 1, Len(h))

LEMMA TurnLastCut ==
    ASSUME NEW h \in TurnSeqs, Len(h) > 4
    PROVE  /\ TurnLast4(h) \in TurnSeqs /\ Len(TurnLast4(h)) = 4
           /\ \E d \in Nat : TurnCut(h, TurnLast4(h), d)
           /\ TurnLast4(h) # << >> /\ TurnLast4(h)[4] = h[Len(h)]
<1> DEFINE d == Len(h) - 4
           t == SubSeq(h, d + 1, Len(h))
<1>1. Len(h) \in Nat /\ d \in Nat /\ d + 1 \in 1..Len(h) /\ h \in Seq(Turns!Messages)
  BY TurnElement DEF TurnSeqs
<1>2. t = TurnLast4(h)
  BY DEF TurnLast4
<1>3. t \in Seq(Turns!Messages) /\ Len(t) = Len(h) - (d + 1) + 1
  BY <1>1
<1>4. \A j \in 1..Len(t) : t[j] = h[(d + 1) + j - 1]
  BY <1>1, <1>3
<1>5. Len(t) = 4
  BY <1>1, <1>3
<1> HIDE DEF t
<1>6. Len(t) + d = Len(h)
  BY <1>1, <1>5
<1> HIDE DEF d
<1>7. \A j \in 1..Len(t) : t[j] = h[j + d]
  <2>1. \A j \in 1..Len(t) : (d + 1) + j - 1 = j + d
    BY <1>1
  <2> QED
    BY <1>4, <2>1
<1>8. TurnCut(h, t, d)
  BY <1>1, <1>5, <1>6, <1>7 DEF TurnCut
<1>9. t # << >> /\ t[4] = h[Len(h)]
  <2>1. 4 \in 1..Len(t) /\ 4 + d = Len(h)
    BY <1>1, <1>5, <1>6
  <2>2. t # << >>
    BY <1>5
  <2> QED
    BY <1>7, <2>1, <2>2
<1> QED
  BY <1>1, <1>2, <1>3, <1>5, <1>8, <1>9 DEF TurnSeqs

-----------------------------------------------------------------------------
(* The invariant of the turns                                              *)

LEMMA TurnAddStored ==
    ASSUME NEW h \in TurnSeqs, NEW n \in Nat, TurnStored(h, n), NEW m \in Turns!Messages, m.n <= n + 1,
           m.role = "tool" => /\ h # << >> /\ h[Len(h)].role \in {"call", "tool"} /\ h[Len(h)].n = m.n
                              /\ \A i \in 1..Len(h) : h[i].role = "call" /\ h[i].n = m.n => m.k \in 1..h[i].k,
           m.role = "call" => m.n = n + 1 /\ TurnAwaits(h)
    PROVE  TurnStored(Append(h, m), n + 1)
<1> DEFINE t == Append(h, m)
           e == Len(h) + 1
<1>1. Len(h) \in Nat /\ Len(t) = e /\ t[e] = m /\ \A i \in 1..Len(h) : t[i] = h[i] /\ h[i].n \in Nat
  BY TurnElement DEF TurnSeqs
<1>m. m.n \in Nat
  BY DEF Turns!Messages
<1> HIDE DEF t
<1>2. \A i \in 1..Len(t) : i = e \/ i \in 1..Len(h)
  BY <1>1
<1>3. \A i \in 1..Len(h) : h[i].n <= n
  BY DEF TurnStored
<1>4. \A i \in 1..Len(t) : t[i].n <= n + 1
  BY <1>1, <1>2, <1>3
<1>5. ASSUME NEW i \in 3..Len(t)
      PROVE  /\ t[i].role = "tool" => t[i - 1].role \in {"call", "tool"} /\ t[i - 1].n = t[i].n
             /\ t[i].role = "call" => t[i - 1].role \in {"user", "tool"}
  <2>1. i - 1 \in 1..Len(h) /\ t[i - 1] = h[i - 1]
    BY <1>1
  <2>2. CASE i = e
    <3>1. i - 1 = Len(h) /\ t[i] = m
      BY <1>1, <2>2
    <3> QED
      BY <2>1, <3>1 DEF TurnAwaits
  <2>3. CASE i # e
    <3>1. i \in 3..Len(h) /\ t[i] = h[i]
      BY <1>1, <2>3
    <3> QED
      BY <2>1, <3>1 DEF TurnStored, TurnLinked
  <2> QED
    BY <2>2, <2>3
<1>6. ASSUME NEW i \in 1..Len(t), NEW j \in 1..Len(t), t[i].role = "call", t[j].role = "tool", t[i].n = t[j].n
      PROVE  t[j].k \in 1..t[i].k
  <2>1. CASE i = e
    <3>1. t[i] = m /\ m.n = n + 1
      BY <1>1, <1>6, <2>1
    <3>2. j # e
      BY <1>1, <1>6, <2>1
    <3>3. j \in 1..Len(h) /\ t[j].n <= n
      BY <1>1, <1>2, <1>3, <3>2
    <3>4. t[j].n = n + 1
      BY <1>6, <3>1
    <3> QED
      BY <1>1, <3>3, <3>4
  <2>2. CASE j = e /\ i # e
    <3>1. t[j] = m /\ i \in 1..Len(h) /\ t[i] = h[i]
      BY <1>1, <1>2, <2>2
    <3> QED
      BY <1>6, <3>1
  <2>3. CASE i # e /\ j # e
    <3>1. i \in 1..Len(h) /\ j \in 1..Len(h) /\ t[i] = h[i] /\ t[j] = h[j]
      BY <1>1, <1>2, <2>3
    <3> QED
      BY <1>6, <3>1 DEF TurnStored, TurnLinked
  <2> QED
    BY <2>1, <2>2, <2>3
<1>7. TurnStored(t, n + 1)
  BY <1>4, <1>5, <1>6 DEF TurnStored, TurnLinked
<1> QED
  BY <1>7 DEF t

\* What the steps need of the invariant.
LEMMA TurnFacts ==
    ASSUME Turns!ConstantsAssumption, TurnIInv
    PROVE  /\ TurnMaxMsgs \in Nat /\ MaxToolCalls \in Nat /\ TurnMaxIterations \in Nat \ {0}
           /\ hist \in TurnSeqs /\ newHistory \in TurnSeqs /\ << >> \in TurnSeqs
           /\ stored \in 0..TurnMaxMsgs /\ appended \in 0..TurnMaxMsgs /\ appended <= stored
           /\ turnCall \in Turns!Messages \cup {Turns!NoCall} /\ turnCall.n \in Nat /\ turnCall.k \in Nat
           /\ TurnStored(hist, stored) /\ turnCall.n <= stored
<1>1. TurnMaxMsgs \in Nat /\ MaxToolCalls \in Nat /\ TurnMaxIterations \in Nat \ {0}
  BY DEF Turns!ConstantsAssumption
<1>2. hist \in TurnSeqs /\ newHistory \in TurnSeqs /\ << >> \in TurnSeqs
  BY DEF TurnIInv, Turns!TypeOK, TurnSeqs
<1>3. stored \in 0..TurnMaxMsgs /\ appended \in 0..TurnMaxMsgs /\ appended <= stored
      /\ TurnStored(hist, stored) /\ turnCall.n <= stored
  BY DEF TurnIInv, Turns!TypeOK, TurnLinks
<1>4. turnCall \in Turns!Messages \cup {Turns!NoCall} /\ turnCall.n \in Nat /\ turnCall.k \in Nat
  <2>1. turnCall \in Turns!Messages \cup {Turns!NoCall}
    BY DEF TurnIInv, Turns!TypeOK
  <2>2. \A m \in Turns!Messages \cup {Turns!NoCall} : m.n \in Nat /\ m.k \in Nat
    BY <1>1 DEF Turns!Messages, Turns!NoCall
  <2> QED
    BY <2>1, <2>2
<1> QED
  BY <1>1, <1>2, <1>3, <1>4

\* A message is stored.
LEMMA TurnAdds ==
    ASSUME Turns!ConstantsAssumption, TurnIInv,
           stored < TurnMaxMsgs, stored' = stored + 1,
           NEW m \in Turns!Messages, hist' = Append(hist, m), m.n <= stored + 1,
           m.role = "tool" => turnPc = "tools" /\ m.n = turnCall.n /\ m.k = done + 1,
           m.role = "call" => turnPc = "llm" /\ m.n = stored + 1
    PROVE  /\ hist' \in TurnSeqs /\ hist' # << >> /\ hist'[Len(hist')] = m
           /\ TurnStored(hist, stored)'
           /\ Cardinality(TurnLoose(hist', covers)) <= Cardinality(TurnLoose(hist, covers)) + 1
           /\ stored' \in 0..TurnMaxMsgs
           /\ \A i \in 1..Len(hist') : hist'[i] = m \/ (i \in 1..Len(hist) /\ hist'[i] = hist[i])
<1>1. hist \in TurnSeqs /\ stored \in Nat /\ TurnMaxMsgs \in Nat /\ TurnStored(hist, stored) /\ turnCall.k \in Nat
      /\ Len(hist) \in Nat
  BY TurnFacts, TurnElement
<1>2. /\ Len(hist') = Len(hist) + 1 /\ hist' \in TurnSeqs /\ hist'[Len(hist) + 1] = m
      /\ \A i \in 1..Len(hist) : hist'[i] = hist[i]
  BY <1>1 DEF TurnSeqs
<1>3. hist' # << >>
  <2>1. Len(hist') # 0
    BY <1>1, <1>2
  <2> QED
    BY <2>1
<1>4. m.role = "tool" => /\ hist # << >> /\ hist[Len(hist)].role \in {"call", "tool"} /\ hist[Len(hist)].n = m.n
                         /\ \A i \in 1..Len(hist) : hist[i].role = "call" /\ hist[i].n = m.n => m.k \in 1..hist[i].k
  <2> SUFFICES ASSUME m.role = "tool"
               PROVE /\ hist # << >> /\ hist[Len(hist)].role \in {"call", "tool"} /\ hist[Len(hist)].n = m.n
                     /\ \A i \in 1..Len(hist) : hist[i].role = "call" /\ hist[i].n = m.n => m.k \in 1..hist[i].k
    OBVIOUS
  <2>1. turnPc = "tools" /\ m.n = turnCall.n /\ m.k = done + 1 /\ done \in 0..turnCall.k
    BY DEF TurnIInv, Turns!TypeOK
  <2>2. /\ done < turnCall.k
        /\ hist # << >> /\ hist[Len(hist)].role \in {"call", "tool"} /\ hist[Len(hist)].n = turnCall.n
        /\ \A i \in 1..Len(hist) : hist[i].role = "call" /\ hist[i].n = turnCall.n => hist[i].k = turnCall.k
    BY <2>1 DEF TurnIInv, TurnPlace
  <2>3. m.k \in 1..turnCall.k
    BY <1>1, <2>1, <2>2
  <2> QED
    BY <2>1, <2>2, <2>3
<1>5. m.role = "call" => m.n = stored + 1 /\ TurnAwaits(hist)
  BY DEF TurnIInv, TurnPlace
<1>6. TurnStored(hist', stored')
  BY <1>1, <1>4, <1>5, TurnAddStored
<1>7. Cardinality(TurnLoose(hist', covers)) <= Cardinality(TurnLoose(hist, covers)) + 1
  BY <1>1, TurnLooseAppend
<1>8. \A i \in 1..Len(hist') : hist'[i] = m \/ (i \in 1..Len(hist) /\ hist'[i] = hist[i])
  <2>1. \A i \in 1..Len(hist') : i = Len(hist) + 1 \/ i \in 1..Len(hist)
    BY <1>1, <1>2
  <2> QED
    BY <1>2, <2>1
<1> QED
  BY <1>1, <1>2, <1>3, <1>6, <1>7, <1>8

\* What is stored is counted while a summarizer is at work.
LEMMA TurnAddCovered ==
    ASSUME Turns!ConstantsAssumption, TurnIInv, turnPc' # "compress", hist' \in TurnSeqs,
           Cardinality(TurnLoose(hist', covers)) <= Cardinality(TurnLoose(hist, covers)) + 1,
           covers' = covers, summ' \in {"llm", "truncate"} => summ' = summ /\ appended' = appended + 1
    PROVE  TurnCovered'
<1>1. hist \in TurnSeqs /\ appended \in Nat
  BY TurnFacts
<1>2. /\ Cardinality(TurnLoose(hist, covers)) \in Nat
      /\ Cardinality(TurnLoose(hist', covers)) \in Nat
  BY <1>1, TurnLooseFinite
<1>3. ASSUME summ' \in {"llm", "truncate"} PROVE Cardinality(TurnLoose(hist', covers')) <= appended'
  <2>1. Cardinality(TurnLoose(hist, covers)) <= appended
    BY <1>3 DEF TurnIInv, TurnCovered
  <2>2. Cardinality(TurnLoose(hist', covers)) <= appended + 1
    BY <1>1, <1>2, <2>1
  <2> QED
    BY <1>3, <2>2
<1> QED
  BY <1>3 DEF TurnCovered

LEMMA TurnBegins ==
    ASSUME Turns!ConstantsAssumption, TurnIInv, Turns!BeginTurn
    PROVE  TurnIInv'
<1> DEFINE m == [role |-> "user", n |-> stored + 1, k |-> 0]
<1>0. /\ TurnMaxMsgs \in Nat /\ MaxToolCalls \in Nat /\ TurnMaxIterations \in Nat \ {0}
      /\ stored \in Nat /\ appended \in Nat /\ appended <= stored /\ turnCall.n <= stored /\ turnCall.n \in Nat
      /\ Turns!TypeOK
  BY TurnFacts DEF TurnIInv
<1>1. /\ stored < TurnMaxMsgs /\ stored' = stored + 1 /\ hist' = Append(hist, m) /\ turnPc' = "llm"
      /\ appended' = IF summ = "none" THEN 0 ELSE appended + 1
      /\ user' = stored + 1 /\ turnIteration' = 1 /\ retry' = 0
      /\ UNCHANGED <<turnSummary, turnCall, done, newHistory, summ, covers, newSummary, clearedAt>>
  BY DEF Turns!BeginTurn, Turns!AddMessage
<1>2. m \in Turns!Messages
  BY <1>0, <1>1 DEF Turns!Messages
<1>3. m.role = "user" /\ m.n = stored + 1
  OBVIOUS
<1> HIDE DEF m
<1>4. /\ hist' \in TurnSeqs /\ hist' # << >> /\ hist'[Len(hist')] = m /\ TurnStored(hist, stored)'
      /\ Cardinality(TurnLoose(hist', covers)) <= Cardinality(TurnLoose(hist, covers)) + 1
      /\ stored' \in 0..TurnMaxMsgs
  BY <1>0, <1>1, <1>2, <1>3, TurnAdds
<1>5. Turns!TypeOK'
  <2>1. hist' \in Seq(Turns!Messages)
    BY <1>4 DEF TurnSeqs
  <2> QED
    BY <1>0, <1>1, <1>4, <2>1 DEF Turns!TypeOK, Turns!MaxRetries
<1>6. TurnLinks'
  BY <1>0, <1>1, <1>4 DEF TurnLinks
<1>7. TurnPlace'
  BY <1>1, <1>3, <1>4 DEF TurnPlace, TurnAwaits
<1>8. TurnCovered'
  BY <1>1, <1>4, TurnAddCovered
<1> QED
  BY <1>5, <1>6, <1>7, <1>8 DEF TurnIInv

LEMMA TurnCallsTools ==
    ASSUME Turns!ConstantsAssumption, TurnIInv, NEW k \in 1..MaxToolCalls, Turns!LLMCalls(k)
    PROVE  TurnIInv'
<1> DEFINE m == [role |-> "call", n |-> stored + 1, k |-> k]
<1>0. /\ TurnMaxMsgs \in Nat /\ MaxToolCalls \in Nat /\ k \in Nat /\ k >= 1
      /\ stored \in Nat /\ appended \in Nat /\ appended <= stored
      /\ Turns!TypeOK
  BY TurnFacts DEF TurnIInv
<1>1. /\ stored < TurnMaxMsgs /\ stored' = stored + 1 /\ hist' = Append(hist, m) /\ turnPc = "llm" /\ turnPc' = "tools"
      /\ appended' = IF summ = "none" THEN 0 ELSE appended + 1
      /\ turnCall' = m /\ done' = 0
      /\ UNCHANGED <<turnSummary, user, turnIteration, retry, newHistory, summ, covers, newSummary, clearedAt>>
  BY DEF Turns!LLMCalls, Turns!AddMessage
<1>2. m \in Turns!Messages
  BY <1>0, <1>1 DEF Turns!Messages
<1>3. m.role = "call" /\ m.n = stored + 1 /\ m.k = k
  OBVIOUS
<1> HIDE DEF m
<1>4. /\ hist' \in TurnSeqs /\ hist' # << >> /\ hist'[Len(hist')] = m /\ TurnStored(hist, stored)'
      /\ Cardinality(TurnLoose(hist', covers)) <= Cardinality(TurnLoose(hist, covers)) + 1
      /\ stored' \in 0..TurnMaxMsgs
      /\ \A i \in 1..Len(hist') : hist'[i] = m \/ (i \in 1..Len(hist) /\ hist'[i] = hist[i])
  BY <1>0, <1>1, <1>2, <1>3, TurnAdds
<1>5. Turns!TypeOK'
  <2>1. hist' \in Seq(Turns!Messages)
    BY <1>4 DEF TurnSeqs
  <2>2. turnCall' \in Turns!Messages \cup {Turns!NoCall} /\ done' \in 0..turnCall'.k
    BY <1>0, <1>1, <1>2, <1>3
  <2> QED
    BY <1>0, <1>1, <1>4, <2>1, <2>2 DEF Turns!TypeOK
<1>6. TurnLinks'
  BY <1>0, <1>1, <1>3, <1>4 DEF TurnLinks
<1>7. TurnPlace'
  <2>1. \A i \in 1..Len(hist') : hist'[i].role = "call" /\ hist'[i].n = m.n => hist'[i].k = m.k
    <3>1. \A i \in 1..Len(hist) : hist[i].n <= stored /\ hist[i].n \in Nat
      <4>1. hist \in TurnSeqs /\ TurnStored(hist, stored)
        BY TurnFacts
      <4> QED
        BY <4>1, TurnElement DEF TurnStored
    <3>2. \A i \in 1..Len(hist) : hist[i].n # m.n
      BY <1>0, <1>3, <3>1
    <3> QED
      BY <1>4, <3>2
  <2> QED
    BY <1>0, <1>1, <1>3, <1>4, <2>1 DEF TurnPlace
<1>8. TurnCovered'
  BY <1>1, <1>4, TurnAddCovered
<1> QED
  BY <1>5, <1>6, <1>7, <1>8 DEF TurnIInv

LEMMA TurnToolResult ==
    ASSUME Turns!ConstantsAssumption, TurnIInv, Turns!ToolResult
    PROVE  TurnIInv'
<1> DEFINE m == [role |-> "tool", n |-> turnCall.n, k |-> done + 1]
<1>0. /\ TurnMaxMsgs \in Nat /\ MaxToolCalls \in Nat /\ TurnMaxIterations \in Nat \ {0}
      /\ stored \in Nat /\ appended \in Nat /\ appended <= stored /\ turnCall.n <= stored
      /\ turnCall \in Turns!Messages \cup {Turns!NoCall} /\ turnCall.n \in Nat /\ turnCall.k \in Nat
      /\ Turns!TypeOK
  BY TurnFacts DEF TurnIInv
<1>1. /\ stored < TurnMaxMsgs /\ stored' = stored + 1 /\ hist' = Append(hist, m) /\ turnPc = "tools"
      /\ appended' = IF summ = "none" THEN 0 ELSE appended + 1
      /\ done' = done + 1
      /\ \/ done + 1 < turnCall.k /\ UNCHANGED <<turnPc, turnIteration, retry>>
         \/ turnPc' = "answer" /\ UNCHANGED <<turnIteration, retry>>
         \/ turnPc' = "llm" /\ turnIteration # TurnMaxIterations /\ turnIteration' = turnIteration + 1 /\ retry' = 0
      /\ UNCHANGED <<turnSummary, user, turnCall, newHistory, summ, covers, newSummary, clearedAt>>
  <2>1. IF done' < turnCall.k
        THEN UNCHANGED <<turnPc, turnIteration, retry>>
        ELSE IF turnIteration = TurnMaxIterations
        THEN turnPc' = "answer" /\ UNCHANGED <<turnIteration, retry>>
        ELSE turnPc' = "llm" /\ turnIteration' = turnIteration + 1 /\ retry' = 0
    BY DEF Turns!ToolResult
  <2> QED
    BY <2>1 DEF Turns!ToolResult, Turns!AddMessage
<1>2. /\ done < turnCall.k /\ done \in Nat
      /\ hist # << >> /\ hist[Len(hist)].role \in {"call", "tool"} /\ hist[Len(hist)].n = turnCall.n
      /\ \A i \in 1..Len(hist) : hist[i].role = "call" /\ hist[i].n = turnCall.n => hist[i].k = turnCall.k
  <2>1. turnPc = "tools" /\ done \in 0..turnCall.k
    BY <1>0, <1>1 DEF Turns!TypeOK
  <2> QED
    BY <1>0, <2>1 DEF TurnIInv, TurnPlace
<1>3. m \in Turns!Messages
  <2>1. turnCall \in Turns!Messages
    BY <1>0, <1>2 DEF Turns!NoCall
  <2>2. turnCall.n \in 1..TurnMaxMsgs /\ turnCall.k \in 0..MaxToolCalls
    BY <2>1 DEF Turns!Messages
  <2>3. done + 1 \in 0..MaxToolCalls
    BY <1>0, <1>2, <2>2
  <2> QED
    BY <2>2, <2>3 DEF Turns!Messages
<1>4. m.role = "tool" /\ m.n = turnCall.n /\ m.k = done + 1 /\ m.n <= stored + 1
  BY <1>0
<1> HIDE DEF m
<1>5. /\ hist' \in TurnSeqs /\ hist' # << >> /\ hist'[Len(hist')] = m /\ TurnStored(hist, stored)'
      /\ Cardinality(TurnLoose(hist', covers)) <= Cardinality(TurnLoose(hist, covers)) + 1
      /\ stored' \in 0..TurnMaxMsgs
      /\ \A i \in 1..Len(hist') : hist'[i] = m \/ (i \in 1..Len(hist) /\ hist'[i] = hist[i])
  BY <1>0, <1>1, <1>3, <1>4, TurnAdds
<1>6. Turns!TypeOK'
  <2>1. hist' \in Seq(Turns!Messages)
    BY <1>5 DEF TurnSeqs
  <2>2. turnIteration' \in 0..TurnMaxIterations /\ retry' \in 0..Turns!MaxRetries
        /\ turnPc' \in {"idle", "llm", "tools", "compress", "answer", "clear"}
    <3>1. turnIteration \in 0..TurnMaxIterations /\ retry \in 0..Turns!MaxRetries
      BY <1>0 DEF Turns!TypeOK
    <3>2. turnIteration' \in 0..TurnMaxIterations
      BY <1>0, <1>1, <3>1
    <3> QED
      BY <1>1, <3>1, <3>2 DEF Turns!MaxRetries
  <2>3. done' \in 0..turnCall'.k /\ appended' \in 0..TurnMaxMsgs
    BY <1>0, <1>1, <1>2
  <2>4. /\ turnSummary' \subseteq 1..TurnMaxMsgs
        /\ user' \in 0..TurnMaxMsgs
        /\ turnCall' \in Turns!Messages \cup {Turns!NoCall}
        /\ newHistory' \in Seq(Turns!Messages)
        /\ summ' \in {"none", "read", "llm", "truncate"}
        /\ covers' \cup newSummary' \subseteq 1..TurnMaxMsgs
        /\ clearedAt' \in 0..TurnMaxMsgs
    BY <1>0, <1>1 DEF Turns!TypeOK
  <2> QED
    BY <1>5, <2>1, <2>2, <2>3, <2>4 DEF Turns!TypeOK
<1>7. TurnLinks'
  BY <1>0, <1>1, <1>5 DEF TurnLinks
<1>8. TurnPlace'
  <2>1. turnPc' = "llm" => TurnAwaits(hist)'
    BY <1>4, <1>5 DEF TurnAwaits
  <2>2. turnPc' = "tools" => done' < turnCall'.k
    BY <1>1
  <2>3. hist' # << >> /\ hist'[Len(hist')].role \in {"call", "tool"} /\ hist'[Len(hist')].n = turnCall'.n
    BY <1>1, <1>4, <1>5
  <2>4. \A i \in 1..Len(hist') : hist'[i].role = "call" /\ hist'[i].n = turnCall'.n => hist'[i].k = turnCall'.k
    BY <1>1, <1>2, <1>4, <1>5
  <2>5. turnPc' # "compress"
    BY <1>1
  <2> QED
    BY <2>1, <2>2, <2>3, <2>4, <2>5 DEF TurnPlace
<1>9. TurnCovered'
  <2>1. turnPc' # "compress"
    BY <1>1
  <2> QED
    BY <1>1, <1>5, <2>1, TurnAddCovered
<1> QED
  BY <1>6, <1>7, <1>8, <1>9 DEF TurnIInv

LEMMA TurnAnswers ==
    ASSUME Turns!ConstantsAssumption, TurnIInv, Turns!Answer
    PROVE  TurnIInv'
<1> DEFINE m == [role |-> "assistant", n |-> stored + 1, k |-> 0]
<1>0. /\ TurnMaxMsgs \in Nat /\ MaxToolCalls \in Nat
      /\ stored \in Nat /\ appended \in Nat /\ appended <= stored /\ turnCall.n <= stored /\ turnCall.n \in Nat
      /\ Turns!TypeOK
  BY TurnFacts DEF TurnIInv
<1>1. /\ stored < TurnMaxMsgs /\ stored' = stored + 1 /\ hist' = Append(hist, m) /\ turnPc' = "idle"
      /\ \/ summ = "none" /\ summ' \in {"read", "none"} /\ UNCHANGED appended
         \/ summ # "none" /\ UNCHANGED summ /\ appended' = appended + 1
      /\ UNCHANGED <<turnSummary, user, turnIteration, retry, turnCall, done, newHistory, covers, newSummary, clearedAt>>
  BY DEF Turns!Answer
<1>2. m \in Turns!Messages
  BY <1>0, <1>1 DEF Turns!Messages
<1>3. m.role = "assistant" /\ m.n = stored + 1
  OBVIOUS
<1> HIDE DEF m
<1>4. /\ hist' \in TurnSeqs /\ TurnStored(hist, stored)'
      /\ Cardinality(TurnLoose(hist', covers)) <= Cardinality(TurnLoose(hist, covers)) + 1
      /\ stored' \in 0..TurnMaxMsgs
  BY <1>0, <1>1, <1>2, <1>3, TurnAdds
<1>5. Turns!TypeOK'
  <2>1. hist' \in Seq(Turns!Messages)
    BY <1>4 DEF TurnSeqs
  <2> QED
    BY <1>0, <1>1, <1>4, <2>1 DEF Turns!TypeOK
<1>6. TurnLinks'
  BY <1>0, <1>1, <1>4 DEF TurnLinks
<1>7. TurnPlace'
  BY <1>1 DEF TurnPlace
<1>8. TurnCovered'
  BY <1>1, <1>4, TurnAddCovered
<1> QED
  BY <1>5, <1>6, <1>7, <1>8 DEF TurnIInv

LEMMA TurnContextError ==
    ASSUME Turns!ConstantsAssumption, TurnIInv, Turns!LLMContextError
    PROVE  TurnIInv'
<1>0. hist \in TurnSeqs /\ Len(hist) \in Nat /\ Turns!TypeOK /\ TurnStored(hist, stored)
  BY TurnFacts, TurnElement DEF TurnIInv
<1>1. /\ turnPc = "llm" /\ retry < Turns!MaxRetries /\ retry' = retry + 1
      /\ newHistory' = Turns!Compressed(hist)
      /\ turnPc' = IF Len(hist) <= 4 THEN "llm" ELSE "compress"
      /\ UNCHANGED <<hist, turnSummary, stored, user, turnIteration, turnCall, done,
                     summ, covers, newSummary, appended, clearedAt>>
  BY DEF Turns!LLMContextError, Turns!summVars, Turns!KeepLast
<1>2. TurnAwaits(hist)
  BY <1>1 DEF TurnIInv, TurnPlace
<1>3. Len(hist) <= 4 => newHistory' = hist
  BY <1>1 DEF Turns!Compressed, Turns!KeepLast
<1>4. Len(hist) > 4 => /\ newHistory' \in TurnSeqs
                       /\ \E d \in Nat : TurnCut(hist, newHistory', d)
                       /\ newHistory' # << >> /\ newHistory'[Len(newHistory')] = hist[Len(hist)]
  BY <1>0, <1>1, TurnCompressedCut
<1>5. newHistory' \in TurnSeqs
  BY <1>0, <1>3, <1>4
<1>6. Turns!TypeOK'
  <2>1. newHistory' \in Seq(Turns!Messages) /\ hist' \in Seq(Turns!Messages)
    BY <1>0, <1>1, <1>5 DEF TurnSeqs
  <2> QED
    BY <1>0, <1>1, <2>1 DEF Turns!TypeOK, Turns!MaxRetries
<1>7. TurnLinks'
  BY <1>1 DEF TurnIInv, TurnLinks
<1>8. turnPc' = "compress" => TurnStored(newHistory', stored) /\ TurnAwaits(newHistory')
  <2> SUFFICES ASSUME Len(hist) > 4 PROVE TurnStored(newHistory', stored) /\ TurnAwaits(newHistory')
    BY <1>0, <1>1
  <2>1. PICK d \in Nat : TurnCut(hist, newHistory', d)
    BY <1>4
  <2>2. TurnStored(newHistory', stored)
    BY <1>0, <1>5, <2>1, TurnCutStored
  <2>3. TurnAwaits(newHistory')
    BY <1>2, <1>4 DEF TurnAwaits
  <2> QED
    BY <2>2, <2>3
<1>9. TurnPlace'
  <2>1. TurnAwaits(hist') /\ turnPc' # "tools"
    BY <1>1, <1>2
  <2>2. turnPc' = "compress" => TurnStored(newHistory', stored') /\ TurnAwaits(newHistory')
    BY <1>1, <1>8
  <2> QED
    BY <2>1, <2>2 DEF TurnPlace
<1>10. TurnCovered'
  <2>1. summ \in {"llm", "truncate"} => Cardinality(TurnLoose(hist, covers)) <= appended
    BY DEF TurnIInv, TurnCovered
  <2>2. turnPc' = "compress" => Len(hist) > 4
    BY <1>0, <1>1
  <2>3. Len(hist) > 4 => Cardinality(TurnLoose(newHistory', covers)) <= Cardinality(TurnLoose(hist, covers))
    <3> SUFFICES ASSUME Len(hist) > 4
                 PROVE  Cardinality(TurnLoose(newHistory', covers)) <= Cardinality(TurnLoose(hist, covers))
      OBVIOUS
    <3>1. PICK d \in Nat : TurnCut(hist, newHistory', d)
      BY <1>4
    <3> QED
      BY <1>0, <1>5, <3>1, TurnCutLoose
  <2>4. Cardinality(TurnLoose(newHistory', covers)) \in Nat /\ Cardinality(TurnLoose(hist, covers)) \in Nat
    BY <1>0, <1>5, TurnLooseFinite
  <2>5. appended \in Nat
    BY TurnFacts
  <2>6. turnPc' = "compress" /\ summ \in {"llm", "truncate"} => Cardinality(TurnLoose(newHistory', covers)) <= appended
    BY <2>1, <2>2, <2>3, <2>4, <2>5
  <2> QED
    BY <1>1, <2>1, <2>2, <2>6 DEF TurnCovered
<1> QED
  BY <1>6, <1>7, <1>9, <1>10 DEF TurnIInv

LEMMA TurnCompresses ==
    ASSUME Turns!ConstantsAssumption, TurnIInv, Turns!ForceCompression
    PROVE  TurnIInv'
<1>0. newHistory \in TurnSeqs /\ << >> \in TurnSeqs /\ Turns!TypeOK
  BY TurnFacts DEF TurnIInv
<1>1. /\ turnPc = "compress" /\ hist' = newHistory /\ newHistory' = << >> /\ turnPc' = "llm"
      /\ UNCHANGED <<turnSummary, stored, user, turnIteration, retry, turnCall, done,
                     summ, covers, newSummary, appended, clearedAt>>
  BY DEF Turns!ForceCompression, Turns!summVars
<1>2. TurnStored(newHistory, stored) /\ TurnAwaits(newHistory)
  BY <1>1 DEF TurnIInv, TurnPlace
<1>3. Turns!TypeOK'
  <2>1. newHistory' \in Seq(Turns!Messages) /\ hist' \in Seq(Turns!Messages)
    BY <1>0, <1>1 DEF TurnSeqs
  <2> QED
    BY <1>0, <1>1, <2>1 DEF Turns!TypeOK
<1>4. TurnLinks'
  BY <1>1, <1>2 DEF TurnIInv, TurnLinks
<1>5. TurnPlace'
  <2>1. TurnAwaits(hist') /\ turnPc' = "llm"
    BY <1>1, <1>2
  <2> QED
    BY <2>1 DEF TurnPlace
<1>6. TurnCovered'
  <2>1. summ \in {"llm", "truncate"} => Cardinality(TurnLoose(newHistory, covers)) <= appended
    BY <1>1 DEF TurnIInv, TurnCovered
  <2> QED
    BY <1>1, <2>1 DEF TurnCovered
<1> QED
  BY <1>3, <1>4, <1>5, <1>6 DEF TurnIInv

LEMMA TurnNothingLoose ==
    ASSUME NEW h \in TurnSeqs, NEW c, Turns!ToSummarize(h) \subseteq c
    PROVE  Cardinality(TurnLoose(h, c)) = 0
<1>1. TurnLoose(h, c) = {}
  BY DEF TurnLoose, Turns!ToSummarize, Turns!KeepLast
<1> QED
  BY <1>1, FS_EmptySet

LEMMA TurnSummarizerReads ==
    ASSUME Turns!ConstantsAssumption, TurnIInv, Turns!SummarizerReads
    PROVE  TurnIInv'
<1>0. /\ hist \in TurnSeqs /\ newHistory \in TurnSeqs /\ Len(hist) \in Nat /\ Turns!TypeOK
      /\ TurnMaxMsgs \in Nat /\ stored \in Nat
  BY TurnFacts, TurnElement DEF TurnIInv
<1>1. /\ summ = "read" /\ appended' = 0
      /\ UNCHANGED <<hist, turnSummary, stored, turnPc, user, turnIteration, retry, turnCall, done,
                     newHistory, clearedAt>>
      /\ \/ /\ summ' = "llm" /\ covers' = Turns!ToSummarize(hist)
            /\ newSummary' \subseteq {hist[i].n : i \in Turns!Valid(hist)} \cup turnSummary
         \/ summ' = "none" /\ covers' = {} /\ newSummary' = {}
  BY DEF Turns!SummarizerReads, Turns!SummarizerEnds, Turns!turnVars
<1>2. Turns!TypeOK'
  <2>1. \A i \in 1..Len(hist) : hist[i].n \in 1..TurnMaxMsgs
    BY <1>0, TurnElement
  <2>2. Turns!ToSummarize(hist) \subseteq 1..TurnMaxMsgs
    BY <1>0, <2>1 DEF Turns!ToSummarize, Turns!KeepLast
  <2>3. {hist[i].n : i \in Turns!Valid(hist)} \subseteq 1..TurnMaxMsgs
    BY <1>0, <2>1 DEF Turns!Valid, Turns!KeepLast
  <2>4. covers' \cup newSummary' \subseteq 1..TurnMaxMsgs
    BY <1>0, <1>1, <2>2, <2>3 DEF Turns!TypeOK
  <2> QED
    BY <1>0, <1>1, <2>4 DEF Turns!TypeOK
<1>3. TurnLinks'
  BY <1>0, <1>1 DEF TurnIInv, TurnLinks
<1>4. TurnPlace'
  BY <1>1 DEF TurnIInv, TurnPlace
<1>5. TurnCovered'
  <2> SUFFICES ASSUME covers' = Turns!ToSummarize(hist), summ' = "llm" PROVE TurnCovered'
    BY <1>1 DEF TurnCovered
  <2>1. Cardinality(TurnLoose(hist, covers')) = 0
    BY <1>0, TurnNothingLoose
  <2>2. turnPc = "compress" => Cardinality(TurnLoose(newHistory, covers')) <= 0
    <3> SUFFICES ASSUME turnPc = "compress" PROVE Cardinality(TurnLoose(newHistory, covers')) <= 0
      OBVIOUS
    <3>1. newHistory = Turns!Compressed(hist) /\ Len(hist) > 4
      BY <1>1 DEF TurnIInv, TurnCovered
    <3>2. PICK d \in Nat : TurnCut(hist, newHistory, d)
      BY <1>0, <3>1, TurnCompressedCut
    <3>3. Cardinality(TurnLoose(newHistory, covers')) <= Cardinality(TurnLoose(hist, covers'))
      BY <1>0, <3>2, TurnCutLoose
    <3> QED
      BY <2>1, <3>3
  <2> QED
    BY <1>1, <2>1, <2>2 DEF TurnCovered
<1> QED
  BY <1>2, <1>3, <1>4, <1>5 DEF TurnIInv

LEMMA TurnTruncates ==
    ASSUME Turns!ConstantsAssumption, TurnIInv, Turns!TruncateHistory
    PROVE  TurnIInv'
<1>0. hist \in TurnSeqs /\ Len(hist) \in Nat /\ Turns!TypeOK /\ TurnStored(hist, stored) /\ stored \in Nat
      /\ TurnMaxMsgs \in Nat
  BY TurnFacts, TurnElement DEF TurnIInv
<1>1. /\ summ = "truncate" /\ summ' = "none" /\ covers' = {} /\ newSummary' = {} /\ appended' = 0
      /\ hist' = IF Len(hist) <= 4 THEN hist ELSE TurnLast4(hist)
      /\ UNCHANGED <<turnSummary, stored, turnPc, user, turnIteration, retry, turnCall, done,
                     newHistory, clearedAt>>
  BY DEF Turns!TruncateHistory, Turns!SummarizerEnds, Turns!turnVars, Turns!KeepLast, TurnLast4
<1>2. /\ hist' \in TurnSeqs /\ TurnStored(hist', stored)
      /\ hist # << >> => hist' # << >> /\ hist'[Len(hist')] = hist[Len(hist)]
      /\ \A i \in 1..Len(hist') : \E l \in 1..Len(hist) : hist'[i] = hist[l]
  <2>1. CASE Len(hist) <= 4
    <3>1. hist' = hist
      BY <1>1, <2>1
    <3> QED
      BY <1>0, <3>1
  <2>2. CASE Len(hist) > 4
    <3>1. hist' = TurnLast4(hist)
      BY <1>0, <1>1, <2>2
    <3>2. hist' \in TurnSeqs /\ Len(hist') = 4 /\ hist' # << >> /\ hist'[4] = hist[Len(hist)]
      BY <1>0, <2>2, <3>1, TurnLastCut
    <3>3. PICK d \in Nat : TurnCut(hist, hist', d)
      BY <1>0, <2>2, <3>1, TurnLastCut
    <3>4. TurnStored(hist', stored)
      BY <1>0, <3>2, <3>3, TurnCutStored
    <3>5. \A i \in 1..Len(hist') : \E l \in 1..Len(hist) : hist'[i] = hist[l]
      BY <1>0, <3>2, <3>3, TurnCutMessage
    <3> QED
      BY <3>2, <3>4, <3>5
  <2> QED
    BY <1>0, <2>1, <2>2
<1>3. Turns!TypeOK'
  <2>1. hist' \in Seq(Turns!Messages)
    BY <1>2 DEF TurnSeqs
  <2> QED
    BY <1>0, <1>1, <2>1 DEF Turns!TypeOK
<1>4. TurnLinks'
  BY <1>0, <1>1, <1>2 DEF TurnIInv, TurnLinks
<1>5. TurnPlace'
  <2>1. turnPc = "llm" => TurnAwaits(hist')
    <3>1. turnPc = "llm" => TurnAwaits(hist)
      BY DEF TurnIInv, TurnPlace
    <3> QED
      BY <1>2, <3>1 DEF TurnAwaits
  <2>2. turnPc = "tools" =>
          /\ done < turnCall.k
          /\ hist' # << >> /\ hist'[Len(hist')].role \in {"call", "tool"} /\ hist'[Len(hist')].n = turnCall.n
          /\ \A i \in 1..Len(hist') : hist'[i].role = "call" /\ hist'[i].n = turnCall.n => hist'[i].k = turnCall.k
    <3> SUFFICES ASSUME turnPc = "tools"
                 PROVE  /\ done < turnCall.k
                        /\ hist' # << >> /\ hist'[Len(hist')].role \in {"call", "tool"} /\ hist'[Len(hist')].n = turnCall.n
                        /\ \A i \in 1..Len(hist') : hist'[i].role = "call" /\ hist'[i].n = turnCall.n => hist'[i].k = turnCall.k
      OBVIOUS
    <3>1. /\ done < turnCall.k
          /\ hist # << >> /\ hist[Len(hist)].role \in {"call", "tool"} /\ hist[Len(hist)].n = turnCall.n
          /\ \A i \in 1..Len(hist) : hist[i].role = "call" /\ hist[i].n = turnCall.n => hist[i].k = turnCall.k
      BY DEF TurnIInv, TurnPlace
    <3> QED
      BY <1>2, <3>1
  <2>3. turnPc = "compress" => TurnStored(newHistory, stored) /\ TurnAwaits(newHistory)
    BY DEF TurnIInv, TurnPlace
  <2> QED
    BY <1>1, <2>1, <2>2, <2>3 DEF TurnPlace
<1>6. TurnCovered'
  BY <1>1 DEF TurnCovered
<1> QED
  BY <1>3, <1>4, <1>5, <1>6 DEF TurnIInv

LEMMA TurnEmptyStored == ASSUME NEW n PROVE TurnStored(<< >>, n)
BY DEF TurnStored, TurnLinked

LEMMA TurnClears ==
    ASSUME Turns!ConstantsAssumption, TurnIInv, Turns!ClearHistory
    PROVE  TurnIInv'
<1>0. << >> \in TurnSeqs /\ Turns!TypeOK /\ appended \in Nat
  BY TurnFacts DEF TurnIInv
<1>1. /\ turnPc' = "clear" /\ hist' = << >>
      /\ UNCHANGED <<turnSummary, stored, user, turnIteration, retry, turnCall, done, newHistory,
                     summ, covers, newSummary, appended, clearedAt>>
  BY DEF Turns!ClearHistory, Turns!summVars
<1>2. Turns!TypeOK'
  <2>1. hist' \in Seq(Turns!Messages)
    BY <1>0, <1>1 DEF TurnSeqs
  <2> QED
    BY <1>0, <1>1, <2>1 DEF Turns!TypeOK
<1>3. TurnLinks'
  BY <1>1, TurnEmptyStored DEF TurnIInv, TurnLinks
<1>4. TurnPlace'
  BY <1>1 DEF TurnPlace
<1>5. TurnCovered'
  <2>1. Cardinality(TurnLoose(<< >>, covers)) = 0
    <3>1. TurnLoose(<< >>, covers) = {}
      BY DEF TurnLoose
    <3> QED
      BY <3>1, FS_EmptySet
  <2> QED
    BY <1>0, <1>1, <2>1 DEF TurnCovered
<1> QED
  BY <1>2, <1>3, <1>4, <1>5 DEF TurnIInv

LEMMA TurnCrashes ==
    ASSUME Turns!ConstantsAssumption, TurnIInv, Turns!Crash
    PROVE  TurnIInv'
<1>0. << >> \in TurnSeqs /\ Turns!TypeOK /\ stored \in Nat /\ TurnMaxMsgs \in Nat
  BY TurnFacts DEF TurnIInv
<1>1. /\ turnPc' = "idle" /\ newHistory' = << >> /\ summ' = "none" /\ covers' = {} /\ newSummary' = {} /\ appended' = 0
      /\ UNCHANGED <<hist, turnSummary, stored, user, turnIteration, retry, turnCall, done, clearedAt>>
  BY DEF Turns!Crash, Turns!SummarizerEnds
<1>2. Turns!TypeOK'
  <2>1. newHistory' \in Seq(Turns!Messages)
    BY <1>0, <1>1 DEF TurnSeqs
  <2> QED
    BY <1>0, <1>1, <2>1 DEF Turns!TypeOK
<1>3. TurnLinks'
  BY <1>0, <1>1 DEF TurnIInv, TurnLinks
<1>4. TurnPlace'
  BY <1>1 DEF TurnPlace
<1>5. TurnCovered'
  BY <1>1 DEF TurnCovered
<1> QED
  BY <1>2, <1>3, <1>4, <1>5 DEF TurnIInv

\* The steps that store nothing and cut nothing.
LEMMA TurnQuiet ==
    ASSUME Turns!ConstantsAssumption, TurnIInv,
           \/ Turns!LLMAnswers \/ Turns!LLMTimesOut \/ Turns!LLMFails \/ Turns!ClearSummary
           \/ Turns!SetSummary \/ Turns!BlankSummary
    PROVE  TurnIInv'
<1>0. Turns!TypeOK /\ stored \in 0..TurnMaxMsgs /\ TurnMaxMsgs \in Nat
  BY TurnFacts DEF TurnIInv
<1>1. /\ UNCHANGED <<hist, stored, user, turnIteration, turnCall, done, newHistory>>
      /\ turnPc' \in {turnPc, "answer", "idle"}
      /\ retry' = retry \/ (retry < Turns!MaxRetries /\ retry' = retry + 1)
      /\ turnSummary' \in {turnSummary, newSummary, {}}
      /\ clearedAt' \in {clearedAt, stored}
      /\ \/ summ' = summ /\ UNCHANGED <<covers, newSummary, appended>>
         \/ summ = "llm" /\ summ' = "truncate" /\ UNCHANGED <<covers, newSummary, appended>>
         \/ summ' = "none" /\ covers' = {} /\ newSummary' = {} /\ appended' = 0
  BY DEF Turns!LLMAnswers, Turns!LLMTimesOut, Turns!LLMFails, Turns!ClearSummary,
         Turns!SetSummary, Turns!BlankSummary, Turns!SummarizerEnds, Turns!summVars, Turns!turnVars
<1>2. Turns!TypeOK'
  <2>1. turnPc' \in {"idle", "llm", "tools", "compress", "answer", "clear"} /\ retry' \in 0..Turns!MaxRetries
    BY <1>0, <1>1 DEF Turns!TypeOK, Turns!MaxRetries
  <2>2. turnSummary' \subseteq 1..TurnMaxMsgs /\ clearedAt' \in 0..TurnMaxMsgs
        /\ summ' \in {"none", "read", "llm", "truncate"} /\ covers' \cup newSummary' \subseteq 1..TurnMaxMsgs
        /\ appended' \in 0..TurnMaxMsgs
    BY <1>0, <1>1 DEF Turns!TypeOK
  <2> QED
    BY <1>0, <1>1, <2>1, <2>2 DEF Turns!TypeOK
<1>3. TurnLinks'
  BY <1>0, <1>1 DEF TurnIInv, TurnLinks
<1>4. TurnPlace'
  BY <1>1 DEF TurnIInv, TurnPlace
<1>5. TurnCovered'
  BY <1>1 DEF TurnIInv, TurnCovered
<1> QED
  BY <1>2, <1>3, <1>4, <1>5 DEF TurnIInv

LEMMA TurnStep ==
    ASSUME Turns!ConstantsAssumption, TurnIInv, [Turns!Next]_(Turns!vars)
    PROVE  TurnIInv'
<1>1. CASE Turns!Next
  BY <1>1, TurnBegins, TurnCallsTools, TurnToolResult, TurnAnswers, TurnContextError, TurnCompresses,
     TurnSummarizerReads, TurnTruncates, TurnClears, TurnCrashes, TurnQuiet, Zenon DEF Turns!Next
<1>2. CASE UNCHANGED Turns!vars
  BY <1>2 DEF TurnIInv, Turns!TypeOK, TurnLinks, TurnPlace, TurnCovered, Turns!vars, Turns!turnVars, Turns!summVars
<1> QED
  BY <1>1, <1>2

LEMMA TurnInitInv == ASSUME Turns!ConstantsAssumption, Turns!Init PROVE TurnIInv
<1>1. TurnStored(<< >>, 0) /\ << >> \in Seq(Turns!Messages)
  BY TurnEmptyStored
<1>2. Turns!TypeOK
  BY <1>1 DEF Turns!Init, Turns!TypeOK, Turns!ConstantsAssumption, Turns!MaxRetries, Turns!NoCall
<1>3. TurnLinks
  BY <1>1 DEF Turns!Init, TurnLinks, Turns!NoCall
<1>4. TurnPlace /\ TurnCovered
  BY DEF Turns!Init, TurnPlace, TurnCovered
<1> QED
  BY <1>2, <1>3, <1>4 DEF TurnIInv

LEMMA TurnAlwaysInv == ASSUME Turns!ConstantsAssumption PROVE Turns!Spec => []TurnIInv
<1>1. Turns!Init => TurnIInv
  BY TurnInitInv
<1>2. TurnIInv /\ [Turns!Next]_(Turns!vars) => TurnIInv'
  BY TurnStep
<1> QED
  BY <1>1, <1>2, PTL DEF Turns!Spec

\* What the provider is sent is well formed, whatever summarizer, compression,
\* /clear and crashes left of the history.
THEOREM TurnsHold == ASSUME Turns!ConstantsAssumption
                     PROVE  Turns!Spec => [](Turns!TypeOK /\ Turns!ProviderSeesWellFormed)
<1>1. TurnIInv => Turns!TypeOK /\ Turns!ProviderSeesWellFormed
  <2> SUFFICES ASSUME TurnIInv PROVE Turns!TypeOK /\ Turns!ProviderSeesWellFormed
    OBVIOUS
  <2>1. hist \in TurnSeqs /\ TurnLinked(hist)
    BY TurnFacts DEF TurnStored
  <2>2. Turns!WellFormed(Turns!sanitizeHistoryForProvider(hist))
    BY <2>1, TurnSanitized
  <2> QED
    BY <2>2 DEF TurnIInv, Turns!ProviderSeesWellFormed
<1> QED
  BY <1>1, TurnAlwaysInv, PTL

\* The summarizer forgets a message that is in no summary only for one that was
\* stored while it waited for the model.
THEOREM TurnsForgetOnPurpose == ASSUME Turns!ConstantsAssumption
                                PROVE  Turns!Spec => Turns!UnsummarizedBounded
<1>1. TurnIInv /\ [Turns!Next]_(Turns!vars) =>
          [summ = "truncate" /\ summ' = "none" /\ turnPc' = turnPc =>
              Turns!Cardinality({i \in DOMAIN hist :
                  hist[i].n \notin covers /\ i <= Len(hist) - Len(hist')}) <= appended]_(Turns!vars)
  <2> DEFINE Gone == {i \in DOMAIN hist : hist[i].n \notin covers /\ i <= Len(hist) - Len(hist')}
  <2> SUFFICES ASSUME TurnIInv, Turns!Next, summ = "truncate", summ' = "none" PROVE Cardinality(Gone) <= appended
    <3>1. Turns!Cardinality(Gone) = Cardinality(Gone)
      BY Zenon DEF Turns!Cardinality, Cardinality
    <3> QED
      BY <3>1
  <2>0. hist \in TurnSeqs /\ Len(hist) \in Nat /\ DOMAIN hist = 1..Len(hist) /\ appended \in Nat
    BY TurnFacts, TurnElement
  <2>1. CASE Len(hist') = Len(hist)
    <3>1. Gone = {}
      BY <2>0, <2>1
    <3> HIDE DEF Gone
    <3> QED
      BY <2>0, <3>1, FS_EmptySet
  <2>2. CASE Len(hist) > 4 /\ hist' = TurnLast4(hist)
    <3>1. Len(hist') = 4
      BY <2>0, <2>2, TurnLastCut
    <3>2. Gone = TurnLoose(hist, covers)
      BY <2>0, <3>1 DEF TurnLoose
    <3> QED
      BY <3>2 DEF TurnIInv, TurnCovered
  <2>3. Turns!TruncateHistory \/ Turns!Crash
    BY DEF Turns!Next, Turns!BeginTurn, Turns!AddMessage, Turns!ClearHistory, Turns!LLMAnswers, Turns!LLMTimesOut,
           Turns!LLMContextError, Turns!LLMFails, Turns!LLMCalls, Turns!ToolResult, Turns!ForceCompression,
           Turns!Answer, Turns!ClearSummary, Turns!SummarizerReads, Turns!SetSummary, Turns!BlankSummary,
           Turns!summVars
  <2>4. Len(hist') = Len(hist) \/ (Len(hist) > 4 /\ hist' = TurnLast4(hist))
    BY <2>0, <2>3 DEF Turns!TruncateHistory, Turns!Crash, Turns!KeepLast, TurnLast4
  <2> QED
    BY <2>1, <2>2, <2>4
<1> QED
  BY <1>1, TurnAlwaysInv, PTL DEF Turns!Spec, Turns!UnsummarizedBounded

-----------------------------------------------------------------------------
(* Routing: the cascade                                                    *)

LEMMA CascadeFirst ==
    ASSUME NEW S \in SUBSET Nat, S # {}
    PROVE  Cascade!First(S) \in S /\ \A j \in S : Cascade!First(S) <= j
<1>0. S \subseteq Nat
  OBVIOUS
<1>1. PICK i \in S : \A j \in S : ~ (<<j, i>> \in OpToRel(<, Nat))
  BY <1>0, NatLessThanWellFounded, WFMin, Zenon
<1>2. \A j \in S : ~ (j < i)
  BY <1>0, <1>1 DEF OpToRel
<1>3. i \in S /\ \A j \in S : i <= j
  BY <1>0, <1>2
<1> QED
  BY <1>3, Zenon DEF Cascade!First

\* The names in a configuration, once they are normalised, stay as they are.
LEMMA CascadeNames ==
    ASSUME Cascade!NormalForms, NEW s \in Names
    PROVE  /\ Cascade!NormalizeAgentID(s) \in Names \ {""}
           /\ Cascade!NormalizeAgentID(Cascade!NormalizeAgentID(s)) = Cascade!NormalizeAgentID(s)
           /\ Cascade!NormalizeAccountID(s) \in Names
<1>1. Cascade!ToLower(s) \in Names /\ Cascade!ToLower(Cascade!ToLower(s)) = Cascade!ToLower(s)
      /\ (s # "" => Cascade!ToLower(s) # "") /\ Cascade!ToLower("main") = "main"
      /\ "main" \in Names /\ "default" \in Names
  BY DEF Cascade!NormalForms, Cascade!ToLower
<1>2. Cascade!NormalizeAccountID(s) \in Names
  BY <1>1 DEF Cascade!NormalizeAccountID
<1>3. CASE s = ""
  BY <1>1, <1>2, <1>3 DEF Cascade!NormalizeAgentID
<1>4. CASE s # ""
  BY <1>1, <1>2, <1>4 DEF Cascade!NormalizeAgentID
<1> QED
  BY <1>3, <1>4

LEMMA CascadeConfig ==
    ASSUME Cascade!NormalForms, Cascade!IsConfig(cfg)
    PROVE  /\ Len(cfg.bindings) \in Nat /\ DOMAIN cfg.bindings = 1..Len(cfg.bindings)
           /\ \A i \in DOMAIN cfg.bindings :
                 cfg.bindings[i] \in [channel : Names, account : Names, peer : {Cascade!None} \cup Cascade!Peers,
                                      guild : Names, team : Names, agent : Names]
           /\ Len(cfg.agents) \in Nat /\ DOMAIN cfg.agents = 1..Len(cfg.agents)
           /\ \A i \in DOMAIN cfg.agents : cfg.agents[i] \in [id : Names, default : BOOLEAN]
<1> DEFINE A == [id : Names, default : BOOLEAN]
           B == [channel : Names, account : Names, peer : {Cascade!None} \cup Cascade!Peers,
                 guild : Names, team : Names, agent : Names]
<1>1. cfg.agents \in Seq(A) /\ cfg.bindings \in Seq(B)
  BY DEF Cascade!IsConfig
<1> HIDE DEF A, B
<1>2. /\ Len(cfg.agents) \in Nat /\ DOMAIN cfg.agents = 1..Len(cfg.agents)
      /\ \A i \in DOMAIN cfg.agents : cfg.agents[i] \in A
  BY <1>1
<1>3. /\ Len(cfg.bindings) \in Nat /\ DOMAIN cfg.bindings = 1..Len(cfg.bindings)
      /\ \A i \in DOMAIN cfg.bindings : cfg.bindings[i] \in B
  BY <1>1
<1> QED
  BY <1>2, <1>3 DEF A, B

\* The default agent is one that is registered, under that name.
LEMMA CascadeDefault ==
    ASSUME Cascade!NormalForms, Cascade!IsConfig(cfg)
    PROVE  /\ Cascade!resolveDefaultAgentID \in Names \cap Cascade!registered
           /\ Cascade!pickAgentID(Cascade!resolveDefaultAgentID) = Cascade!resolveDefaultAgentID
<1> DEFINE marked == {i \in DOMAIN cfg.agents : cfg.agents[i].default /\ cfg.agents[i].id # ""}
           d == Cascade!resolveDefaultAgentID
<1>1. CASE cfg.agents = << >>
  <2>1. d = "main"
    BY <1>1 DEF Cascade!resolveDefaultAgentID
  <2>2. Cascade!NormalizeAgentID("main") = "main"
    BY DEF Cascade!NormalizeAgentID, Cascade!ToLower, Cascade!NormalForms
  <2>3. Cascade!pickAgentID("main") = "main"
    BY <1>1, <2>1, <2>2 DEF Cascade!pickAgentID
  <2>4. "main" \in Names
    BY DEF Cascade!NormalForms
  <2>5. d \in Cascade!registered
    BY <1>1, <2>1 DEF Cascade!registered
  <2> QED
    BY <2>1, <2>3, <2>4, <2>5
<1>2. CASE cfg.agents # << >>
  <2>1. PICK k \in DOMAIN cfg.agents : d = Cascade!NormalizeAgentID(cfg.agents[k].id)
    <3>1. d = Cascade!NormalizeAgentID(cfg.agents[IF marked = {} THEN 1 ELSE Cascade!First(marked)].id)
      BY <1>2 DEF Cascade!resolveDefaultAgentID
    <3>2. marked \in SUBSET Nat /\ marked \subseteq DOMAIN cfg.agents /\ 1 \in DOMAIN cfg.agents
      <4> DEFINE A == [id : Names, default : BOOLEAN]
      <4>1. cfg.agents \in Seq(A)
        BY DEF Cascade!IsConfig
      <4> HIDE DEF A
      <4>2. Len(cfg.agents) \in Nat /\ Len(cfg.agents) # 0
        BY <1>2, <4>1
      <4>3. DOMAIN cfg.agents = 1..Len(cfg.agents)
        BY CascadeConfig
      <4>4. DOMAIN cfg.agents \subseteq Nat /\ 1 \in DOMAIN cfg.agents
        BY <4>2, <4>3
      <4>5. marked \subseteq DOMAIN cfg.agents
        OBVIOUS
      <4> HIDE DEF marked
      <4> QED
        BY <4>4, <4>5
    <3> HIDE DEF marked, d
    <3>3. marked # {} => Cascade!First(marked) \in DOMAIN cfg.agents
      BY <3>2, CascadeFirst
    <3> QED
      BY <3>1, <3>2, <3>3
  <2>2. cfg.agents[k].id \in Names
    BY CascadeConfig
  <2>3. d \in Names \ {""} /\ Cascade!NormalizeAgentID(d) = d
    BY <2>1, <2>2, CascadeNames
  <2>4. d \in Cascade!registered
    BY <1>2, <2>1 DEF Cascade!registered
  <2> HIDE DEF d
  <2> QED
    BY <2>3, <2>4 DEF Cascade!pickAgentID, d
<1> QED
  BY <1>1, <1>2

\* What a binding is worth to a message, 7 if nothing.
CascadeRank(in, i) ==
    IF Cascade!Applies(cfg.bindings[i], in) THEN Cascade!Rank(cfg.bindings[i], in) ELSE 7

CascadeLevel(in, n) == Cascade!levels(in)[n][2]

LEMMA CascadeApplies ==
    ASSUME Cascade!NormalForms, Cascade!IsConfig(cfg), NEW in, Cascade!IsInput(in),
           NEW i \in DOMAIN cfg.bindings
    PROVE  Cascade!Applies(cfg.bindings[i], in) <=> i \in Cascade!filterBindings(in)
<1>1. cfg.bindings[i].account \in Names /\ in.account \in Names
  BY CascadeConfig DEF Cascade!IsInput
<1> QED
  BY <1>1 DEF Cascade!Applies, Cascade!filterBindings, Cascade!matchesAccountID, Cascade!NormalizeAccountID,
              Cascade!ToLower, Cascade!NormalForms

\* The bindings of a level are those worth as much, and maybe some worth more.
LEMMA CascadeLevels ==
    ASSUME Cascade!NormalForms, Cascade!IsConfig(cfg), NEW in, Cascade!IsInput(in),
           NEW i \in DOMAIN cfg.bindings
    PROVE  /\ CascadeRank(in, i) \in 1..7
           /\ \A n \in 1..6 : /\ CascadeRank(in, i) = n => i \in CascadeLevel(in, n)
                              /\ i \in CascadeLevel(in, n) => CascadeRank(in, i) <= n
<1> DEFINE b == cfg.bindings[i]
           B == Cascade!filterBindings(in)
           N == Cascade!None
<1>1. i \in B <=> Cascade!Applies(b, in)
  BY CascadeApplies
<1>2. /\ i \in CascadeLevel(in, 1) <=> i \in B /\ in.peer # N /\ b.peer = in.peer
      /\ i \in CascadeLevel(in, 2) <=> i \in B /\ in.parent # N /\ b.peer = in.parent
      /\ i \in CascadeLevel(in, 3) <=> i \in B /\ in.guild # "" /\ b.guild = in.guild
      /\ i \in CascadeLevel(in, 4) <=> i \in B /\ in.team # "" /\ b.team = in.team
      /\ i \in CascadeLevel(in, 5) <=> i \in B /\ b.account # "*" /\ Cascade!Unconditional(b)
      /\ i \in CascadeLevel(in, 6) <=> i \in B /\ b.account = "*" /\ Cascade!Unconditional(b)
  BY DEF CascadeLevel, Cascade!levels
<1>3. CascadeRank(in, i) = IF i \in B THEN Cascade!Rank(b, in) ELSE 7
  BY <1>1 DEF CascadeRank
<1>4. b.guild \in Names /\ b.team \in Names
  BY CascadeConfig
<1> HIDE DEF b, B
<1>5. Cascade!Rank(b, in) =
          IF b.peer # N /\ b.peer = in.peer THEN 1
          ELSE IF b.peer # N /\ b.peer = in.parent THEN 2
          ELSE IF b.guild # "" /\ b.guild = in.guild THEN 3
          ELSE IF b.team # "" /\ b.team = in.team THEN 4
          ELSE IF Cascade!Unconditional(b) THEN IF b.account # "*" THEN 5 ELSE 6
          ELSE 7
  BY <1>4 DEF Cascade!Rank, Cascade!Unconditional
<1> HIDE DEF N
<1>6. CascadeRank(in, i) =
          IF i \in CascadeLevel(in, 1) THEN 1
          ELSE IF i \in CascadeLevel(in, 2) THEN 2
          ELSE IF i \in CascadeLevel(in, 3) THEN 3
          ELSE IF i \in CascadeLevel(in, 4) THEN 4
          ELSE IF i \in CascadeLevel(in, 5) THEN 5
          ELSE IF i \in CascadeLevel(in, 6) THEN 6 ELSE 7
  BY <1>2, <1>3, <1>5, Zenon
<1> QED
  BY <1>6

\* The position that decides: the binding worth most, the first of those.
LEMMA CascadeFollows ==
    ASSUME Cascade!NormalForms, Cascade!IsConfig(cfg), NEW in, Cascade!IsInput(in)
    PROVE  LET best == {i \in DOMAIN cfg.bindings :
                            /\ CascadeRank(in, i) < 7
                            /\ \A j \in DOMAIN cfg.bindings :
                                  \/ CascadeRank(in, i) < CascadeRank(in, j)
                                  \/ CascadeRank(in, i) = CascadeRank(in, j) /\ i <= j}
           IN  \/ best = {} /\ Cascade!ResolveRoute(in) = <<Cascade!resolveDefaultAgentID, "default">>
               \/ \E i \in best, by \in Cascade!Reasons :
                     Cascade!ResolveRoute(in) = <<cfg.bindings[i].agent, by>>
<1> DEFINE D == DOMAIN cfg.bindings
           r(i) == CascadeRank(in, i)
           best == {i \in D : r(i) < 7 /\ \A j \in D : r(i) < r(j) \/ (r(i) = r(j) /\ i <= j)}
           hits == {n \in 1..6 : CascadeLevel(in, n) # {}}
           n == Cascade!First(hits)
           i == Cascade!First(CascadeLevel(in, n))
<1>1. /\ D \subseteq Nat
      /\ \A k \in D : r(k) \in 1..7
      /\ \A k \in D, m \in 1..6 : /\ r(k) = m => k \in CascadeLevel(in, m)
                                  /\ k \in CascadeLevel(in, m) => r(k) <= m
  BY CascadeLevels, CascadeConfig
<1>2. \A m \in 1..6 : CascadeLevel(in, m) \subseteq D /\ Cascade!levels(in)[m][1] \in Cascade!Reasons
  <2>1. \A k \in Cascade!filterBindings(in) : k \in D
    BY DEF Cascade!filterBindings
  <2>2. /\ CascadeLevel(in, 1) \subseteq D /\ CascadeLevel(in, 2) \subseteq D /\ CascadeLevel(in, 3) \subseteq D
        /\ CascadeLevel(in, 4) \subseteq D /\ CascadeLevel(in, 5) \subseteq D /\ CascadeLevel(in, 6) \subseteq D
    BY <2>1 DEF CascadeLevel, Cascade!levels
  <2>3. /\ Cascade!levels(in)[1][1] \in Cascade!Reasons /\ Cascade!levels(in)[2][1] \in Cascade!Reasons
        /\ Cascade!levels(in)[3][1] \in Cascade!Reasons /\ Cascade!levels(in)[4][1] \in Cascade!Reasons
        /\ Cascade!levels(in)[5][1] \in Cascade!Reasons /\ Cascade!levels(in)[6][1] \in Cascade!Reasons
    BY DEF Cascade!levels, Cascade!Reasons
  <2>4. \A m \in 1..6 : m = 1 \/ m = 2 \/ m = 3 \/ m = 4 \/ m = 5 \/ m = 6
    OBVIOUS
  <2> HIDE DEF D
  <2> QED
    BY <2>2, <2>3, <2>4, Zenon
<1>3. Cascade!ResolveRoute(in) =
          IF hits = {} THEN <<Cascade!resolveDefaultAgentID, "default">>
          ELSE <<cfg.bindings[i].agent, Cascade!levels(in)[n][1]>>
  BY Zenon DEF Cascade!ResolveRoute, CascadeLevel
<1> HIDE DEF D, r
<1>4. CASE hits = {}
  <2>0. \A m \in 1..6 : CascadeLevel(in, m) = {}
    BY <1>4
  <2> HIDE DEF hits, best
  <2>3. \A k \in D : r(k) \notin 1..6
    BY <1>1, <2>0
  <2>1. \A k \in D : r(k) = 7
    BY <1>1, <2>3
  <2>4. \A k \in best : k \in D /\ r(k) < 7
    BY DEF best
  <2>2. best = {}
    BY <2>1, <2>4
  <2> QED
    BY <1>3, <1>4, <2>2 DEF D, r, best
<1>5. CASE hits # {}
  <2>0. hits \in SUBSET Nat
    OBVIOUS
  <2> HIDE DEF hits
  <2>1. n \in hits /\ \A m \in hits : n <= m
    BY <1>5, <2>0, CascadeFirst
  <2> HIDE DEF n
  <2>2. n \in 1..6 /\ CascadeLevel(in, n) # {} /\ \A m \in 1..6 : CascadeLevel(in, m) # {} => n <= m
    BY <2>1 DEF hits
  <2>3. CascadeLevel(in, n) \in SUBSET Nat
    BY <1>1, <1>2, <2>2
  <2>4. i \in CascadeLevel(in, n) /\ \A j \in CascadeLevel(in, n) : i <= j
    BY <2>2, <2>3, CascadeFirst
  <2> HIDE DEF i
  <2>5. i \in D /\ r(i) = n
    <3>1. i \in D /\ r(i) \in 1..7 /\ r(i) <= n
      BY <1>1, <1>2, <2>2, <2>4
    <3>2. i \in CascadeLevel(in, r(i)) /\ r(i) \in 1..6
      BY <1>1, <2>2, <3>1
    <3>3. n <= r(i)
      BY <2>2, <3>2
    <3> QED
      BY <2>2, <3>1, <3>3
  <2>6. \A j \in D : n < r(j) \/ (n = r(j) /\ i <= j)
    BY <1>1, <2>2, <2>4
  <2>7. i \in best
    BY <2>2, <2>5, <2>6
  <2>8. Cascade!levels(in)[n][1] \in Cascade!Reasons
    BY <1>2, <2>2
  <2> HIDE DEF best
  <2>9. \E k \in best, by \in Cascade!Reasons : Cascade!ResolveRoute(in) = <<cfg.bindings[k].agent, by>>
    BY <1>3, <1>5, <2>7, <2>8
  <2> QED
    BY <2>9 DEF D, r, best
<1> QED
  BY <1>4, <1>5

LEMMA CascadeRegistered ==
    ASSUME Cascade!NormalForms, Cascade!IsConfig(cfg)
    PROVE  Cascade!registered \subseteq Names /\ Cascade!defaultAgents \subseteq Cascade!registered
<1>1. \A i \in DOMAIN cfg.agents : cfg.agents[i].id \in Names
  BY CascadeConfig
<1>2. \A i \in DOMAIN cfg.agents : Cascade!NormalizeAgentID(cfg.agents[i].id) \in Names
  BY <1>1, CascadeNames
<1>3. Cascade!registered \subseteq Names
  BY <1>2 DEF Cascade!registered, Cascade!NormalForms
<1> QED
  BY <1>3 DEF Cascade!defaultAgents

LEMMA CascadeAgents ==
    ASSUME Cascade!NormalForms, Cascade!IsConfig(cfg), NEW in, Cascade!IsInput(in)
    PROVE  /\ Cascade!ResolveRoute(in)[1] \in Names /\ Cascade!ResolveRoute(in)[2] \in Cascade!Reasons
           /\ Cascade!pickAgentID(Cascade!ResolveRoute(in)[1]) \in Names
<1>3. Cascade!ResolveRoute(in)[1] \in Names /\ Cascade!ResolveRoute(in)[2] \in Cascade!Reasons
  <2>1. \A i \in DOMAIN cfg.bindings : cfg.bindings[i].agent \in Names
    BY CascadeConfig
  <2>2. \/ Cascade!ResolveRoute(in) = <<Cascade!resolveDefaultAgentID, "default">>
        \/ \E i \in DOMAIN cfg.bindings, by \in Cascade!Reasons :
              Cascade!ResolveRoute(in) = <<cfg.bindings[i].agent, by>>
    BY CascadeFollows
  <2>3. "default" \in Cascade!Reasons /\ Cascade!resolveDefaultAgentID \in Names
    BY CascadeDefault DEF Cascade!Reasons
  <2> QED
    BY <2>1, <2>2, <2>3
<1>4. Cascade!pickAgentID(Cascade!ResolveRoute(in)[1]) \in Names
  BY <1>3, CascadeNames, CascadeDefault DEF Cascade!pickAgentID
<1> QED
  BY <1>3, <1>4

\* A key is a head of names with names after it.
LEMMA CascadeJoined ==
    ASSUME NEW p \in Seq(Names), NEW x \in Seq(Names)
    PROVE  /\ p \o x \in Seq(Names) /\ Len(p \o x) = Len(p) + Len(x)
           /\ \A i \in 1..Len(p) : (p \o x)[i] = p[i]
OBVIOUS

LEMMA CascadeTails ==
    ASSUME NEW p \in Seq(Names), NEW q \in Seq(Names), NEW x \in Seq(Names), NEW y \in Seq(Names),
           Len(p) = Len(q), p \o x = q \o y
    PROVE  p = q /\ x = y
<1>0. Len(p) \in Nat /\ Len(x) = Len(y)
  OBVIOUS
<1>1. \A i \in 1..Len(x) : (p \o x)[Len(p) + i] = x[i] /\ (q \o y)[Len(p) + i] = y[i]
  BY <1>0
<1>2. \A i \in 1..Len(x) : x[i] = y[i]
  BY <1>1
<1>3. \A i \in 1..Len(p) : (p \o x)[i] = p[i] /\ (q \o y)[i] = q[i]
  OBVIOUS
<1>4. \A i \in 1..Len(p) : p[i] = q[i]
  BY <1>3
<1>5. p = q
  BY <1>4
<1>6. x = y
  BY <1>0, <1>2
<1> QED
  BY <1>5, <1>6

LEMMA CascadeLowers ==
    ASSUME Cascade!NormalForms, NEW x \in Cascade!Ids
    PROVE  Cascade!LowerAll(x) \in Cascade!Ids
<1>0. x \in Seq(Names) /\ x # << >>
  BY DEF Cascade!Ids, Cascade!None
<1>a. Len(x) \in Nat /\ Len(x) # 0
  BY <1>0
<1>b. DOMAIN x = 1..Len(x) /\ \A i \in 1..Len(x) : x[i] \in Names
  BY <1>0
<1>1. x \in Seq(Names) /\ Len(x) \in Nat /\ DOMAIN x = 1..Len(x) /\ Len(x) # 0
  BY <1>0, <1>a, <1>b
<1>2. \A i \in 1..Len(x) : Cascade!ToLower(x[i]) \in Names
  BY <1>b DEF Cascade!NormalForms, Cascade!ToLower
<1>3. Cascade!LowerAll(x) = [i \in 1..Len(x) |-> Cascade!ToLower(x[i])]
  BY <1>1 DEF Cascade!LowerAll
<1>4. Cascade!LowerAll(x) \in Seq(Names) /\ Len(Cascade!LowerAll(x)) = Len(x)
  BY <1>1, <1>2, <1>3
<1> QED
  BY <1>1, <1>4 DEF Cascade!Ids, Cascade!None

LEMMA CascadeIdentities ==
    ASSUME Cascade!NormalForms, Cascade!IsConfig(cfg), NEW channel, NEW x \in Cascade!Ids
    PROVE  Cascade!identities(channel, x) \subseteq Cascade!Ids
<1> DEFINE names == Cascade!linked(cfg.links, channel, x)
<1>1. \A n \in DOMAIN cfg.links : n \in Names /\ Cascade!ToLower(n) \in Names
  BY DEF Cascade!IsConfig, Cascade!NormalForms, Cascade!ToLower
<1>2. names \subseteq Names
  BY <1>1 DEF Cascade!linked
<1>3. Cascade!identities(channel, x) \subseteq {<<n>> : n \in names} \cup {Cascade!LowerAll(x)}
  <2> HIDE DEF names
  <2> QED
    BY Zenon DEF Cascade!identities, names
<1> HIDE DEF names
<1>4. \A n \in names : <<n>> \in Cascade!Ids
  BY <1>2 DEF Cascade!Ids, Cascade!None
<1> QED
  BY <1>3, <1>4, CascadeLowers

LEMMA CascadeKeys ==
    ASSUME Cascade!NormalForms, Cascade!IsConfig(cfg), NEW in, Cascade!IsInput(in), NEW a \in Names,
           NEW k \in Cascade!sessionKeys(a, in)
    PROVE  k \in Cascade!Ids /\ k[2] = a
<1>0. in.channel \in Names /\ in.account \in Names /\ in.peer \in {Cascade!None} \cup Cascade!Peers
      /\ {"agent", "main", "direct"} \subseteq Names /\ Cascade!NormalizeAccountID(in.account) \in Names
  BY CascadeNames DEF Cascade!IsInput, Cascade!NormalForms
<1>1. Cascade!MainSessionKey(a) \in Cascade!Ids /\ Cascade!MainSessionKey(a)[2] = a
  BY <1>0 DEF Cascade!MainSessionKey, Cascade!Ids, Cascade!None
<1>2. ASSUME NEW p \in Seq(Names), Len(p) >= 3, p[2] = a, NEW x \in Cascade!Ids
      PROVE  p \o x \in Cascade!Ids /\ (p \o x)[2] = a
  <2>1. x \in Seq(Names)
    BY DEF Cascade!Ids
  <2>2. p \o x \in Seq(Names) /\ Len(p \o x) = Len(p) + Len(x) /\ (p \o x)[2] = p[2] /\ Len(x) \in Nat
    BY <1>2, <2>1, CascadeJoined
  <2>3. p \o x # << >>
    BY <1>2, <2>2
  <2> QED
    BY <1>2, <2>2, <2>3 DEF Cascade!Ids, Cascade!None
<1>3. CASE in.peer = Cascade!None
  BY <1>1, <1>3 DEF Cascade!sessionKeys
<1>4. CASE in.peer # Cascade!None /\ in.peer.kind = "direct"
  <2>1. PICK x \in Cascade!identities(in.channel, in.peer.id) :
            k = Cascade!directKey(a, in.channel, Cascade!NormalizeAccountID(in.account), x)
    BY <1>4 DEF Cascade!sessionKeys
  <2>2. x \in Cascade!Ids
    BY <1>0, <1>4, CascadeIdentities DEF Cascade!Peers
  <2> DEFINE acc == Cascade!NormalizeAccountID(in.account)
             p5 == <<"agent", a, in.channel, acc, "direct">>
             p4 == <<"agent", a, in.channel, "direct">>
             p3 == <<"agent", a, "direct">>
  <2>3. /\ p5 \in Seq(Names) /\ Len(p5) >= 3 /\ p5[2] = a
        /\ p4 \in Seq(Names) /\ Len(p4) >= 3 /\ p4[2] = a
        /\ p3 \in Seq(Names) /\ Len(p3) >= 3 /\ p3[2] = a
    BY <1>0
  <2>4. k \in {p5 \o x, p4 \o x, p3 \o x, Cascade!MainSessionKey(a)}
    BY <2>1, Zenon DEF Cascade!directKey
  <2> HIDE DEF p5, p4, p3
  <2> QED
    BY <1>1, <1>2, <2>2, <2>3, <2>4
<1>5. CASE in.peer # Cascade!None /\ in.peer.kind # "direct"
  <2> DEFINE p == <<"agent", a, in.channel, in.peer.kind>>
             x == Cascade!LowerAll(in.peer.id)
  <2>1. k = p \o x
    BY <1>5 DEF Cascade!sessionKeys, Cascade!groupKey
  <2>2. x \in Cascade!Ids /\ in.peer.kind \in Names
    BY <1>0, <1>5, CascadeLowers DEF Cascade!Peers
  <2>3. p \in Seq(Names) /\ Len(p) >= 3 /\ p[2] = a
    BY <1>0, <2>2
  <2> HIDE DEF p, x
  <2> QED
    BY <1>2, <2>1, <2>2, <2>3
<1> QED
  BY <1>3, <1>4, <1>5

CascadeIInv ==
    /\ Cascade!TypeOK
    /\ \A n \in DOMAIN routed :
          routed[n].agent = Cascade!pickAgentID(Cascade!ResolveRoute(routed[n].in)[1])

\* The route of a message depends on the configuration alone.
LEMMA CascadeSame ==
    ASSUME UNCHANGED cfg
    PROVE  \A x : Cascade!pickAgentID(Cascade!ResolveRoute(x)[1])' = Cascade!pickAgentID(Cascade!ResolveRoute(x)[1])
<1>1. Cascade!resolveDefaultAgentID' = Cascade!resolveDefaultAgentID /\ Cascade!registered' = Cascade!registered
  BY Zenon DEF Cascade!resolveDefaultAgentID, Cascade!registered
<1>2. \A x : Cascade!pickAgentID(x)' = Cascade!pickAgentID(x)
  BY <1>1, Zenon DEF Cascade!pickAgentID
<1>3. \A x : Cascade!levels(x)' = Cascade!levels(x)
  BY Zenon DEF Cascade!levels, Cascade!filterBindings
<1>4. \A x : Cascade!ResolveRoute(x)' = Cascade!ResolveRoute(x)
  BY <1>1, <1>3, Zenon DEF Cascade!ResolveRoute
<1> QED
  BY <1>2, <1>4, Zenon

LEMMA CascadeStep ==
    ASSUME Cascade!ConstantsAssumption, CascadeIInv, [Cascade!Next]_(Cascade!vars)
    PROVE  CascadeIInv'
<1> DEFINE R == [in : CascadeInputs, agent : Names, by : Cascade!Reasons, serves : Names, key : Cascade!Ids]
<1>0. /\ cfg \in CascadeConfigs /\ routed \in Seq(R)
      /\ routeTask \in {Cascade!None} \cup Cascade!Ids
      /\ reported = Cascade!None \/ reported \in [agent : Names, key : Cascade!Ids]
  BY DEF CascadeIInv, Cascade!TypeOK
<1>n. Cascade!NormalForms /\ Cascade!IsConfig(cfg) /\ \A in \in CascadeInputs : Cascade!IsInput(in)
  BY <1>0 DEF Cascade!ConstantsAssumption
<1>1. ASSUME NEW in \in CascadeInputs, Cascade!processMessage(in)
      PROVE  CascadeIInv'
  <2> DEFINE route == Cascade!ResolveRoute(in)
             agent == Cascade!pickAgentID(route[1])
             serving == IF agent \in Cascade!registered THEN {agent} ELSE Cascade!defaultAgents
  <2>1. PICK a \in serving, k \in Cascade!sessionKeys(agent, in) :
            routed' = Append(routed, [in |-> in, agent |-> agent, by |-> route[2], serves |-> a, key |-> k])
    BY <1>1, Zenon DEF Cascade!processMessage
  <2>2. UNCHANGED <<cfg, routeTask, reported>>
    BY <1>1 DEF Cascade!processMessage
  <2> DEFINE new == [in |-> in, agent |-> agent, by |-> route[2], serves |-> a, key |-> k]
  <2>3. agent \in Names /\ route[2] \in Cascade!Reasons /\ serving \subseteq Names
    BY <1>1, <1>n, CascadeAgents, CascadeRegistered
  <2>4. k \in Cascade!Ids
    BY <1>1, <1>n, <2>3, CascadeKeys
  <2>5. new \in R /\ new.in = in /\ new.agent = agent
    BY <1>1, <2>3, <2>4
  <2>6. Cascade!pickAgentID(Cascade!ResolveRoute(new.in)[1]) = agent
    BY <2>5
  <2> HIDE DEF new, R, agent, route, serving
  <2>7. routed' = Append(routed, new)
    BY <2>1 DEF new
  <2>8. routed' \in Seq(R) /\ DOMAIN routed' = DOMAIN routed \cup {Len(routed) + 1}
        /\ routed'[Len(routed) + 1] = new /\ \A n \in DOMAIN routed : routed'[n] = routed[n]
    BY <1>0, <2>5, <2>7
  <2>9. Cascade!TypeOK'
    BY <1>0, <2>2, <2>8 DEF Cascade!TypeOK, R
  <2>10. \A x : Cascade!pickAgentID(Cascade!ResolveRoute(x)[1])' = Cascade!pickAgentID(Cascade!ResolveRoute(x)[1])
    BY <2>2, CascadeSame
  <2>11. ASSUME NEW n \in DOMAIN routed'
         PROVE  routed'[n].agent = Cascade!pickAgentID(Cascade!ResolveRoute(routed'[n].in)[1])
    BY <2>5, <2>6, <2>8 DEF CascadeIInv
  <2> QED
    BY <2>9, <2>10, <2>11 DEF CascadeIInv
<1>2. CASE UNCHANGED <<cfg, routed>> /\ Cascade!TypeOK'
  <2>1. \A x : Cascade!pickAgentID(Cascade!ResolveRoute(x)[1])' = Cascade!pickAgentID(Cascade!ResolveRoute(x)[1])
    BY <1>2, CascadeSame
  <2>2. \A n \in DOMAIN routed' :
            routed'[n].agent = Cascade!pickAgentID(Cascade!ResolveRoute(routed'[n].in)[1])
    BY <1>2 DEF CascadeIInv
  <2> QED
    BY <1>2, <2>1, <2>2 DEF CascadeIInv
<1>3. CASE Cascade!Spawn
  <2>1. routed # << >> /\ routeTask' = routed[Len(routed)].key /\ UNCHANGED <<cfg, routed, reported>>
    BY <1>3 DEF Cascade!Spawn
  <2>2. \A x \in R : x.key \in Cascade!Ids
    OBVIOUS
  <2> HIDE DEF R
  <2>3. routed[Len(routed)] \in R
    BY <1>0, <2>1
  <2>4. Cascade!TypeOK'
    BY <1>0, <2>1, <2>2, <2>3 DEF Cascade!TypeOK, R
  <2> QED
    BY <1>2, <2>1, <2>4
<1>4. CASE Cascade!processSystemMessage
  <2>1. PICK a \in Cascade!defaultAgents : reported' = [agent |-> a, key |-> Cascade!MainSessionKey(a)]
    BY <1>4 DEF Cascade!processSystemMessage
  <2>2. UNCHANGED <<cfg, routed, routeTask>>
    BY <1>4 DEF Cascade!processSystemMessage
  <2>3. a \in Names
    BY <1>n, <2>1, CascadeRegistered
  <2>4. Cascade!MainSessionKey(a) \in Cascade!Ids
    <3>1. {"agent", "main"} \subseteq Names
      BY <1>n DEF Cascade!NormalForms
    <3> QED
      BY <2>3, <3>1 DEF Cascade!MainSessionKey, Cascade!Ids, Cascade!None
  <2>5. Cascade!TypeOK'
    BY <1>0, <2>1, <2>2, <2>3, <2>4 DEF Cascade!TypeOK
  <2> QED
    BY <1>2, <2>2, <2>5
<1>5. CASE UNCHANGED Cascade!vars
  BY <1>2, <1>5 DEF CascadeIInv, Cascade!TypeOK, Cascade!vars
<1> QED
  BY <1>1, <1>3, <1>4, <1>5 DEF Cascade!Next

\* CascadeFollowed is what the definition of the agent says.
LEMMA CascadeMeans ==
    ASSUME Cascade!ConstantsAssumption, CascadeIInv
    PROVE  Cascade!TypeOK /\ Cascade!CascadeFollowed
<1>0. cfg \in CascadeConfigs /\ \A n \in DOMAIN routed : routed[n].in \in CascadeInputs
  <2> DEFINE R == [in : CascadeInputs, agent : Names, by : Cascade!Reasons, serves : Names, key : Cascade!Ids]
  <2>1. cfg \in CascadeConfigs /\ routed \in Seq(R)
    BY DEF CascadeIInv, Cascade!TypeOK
  <2>2. \A x \in R : x.in \in CascadeInputs
    OBVIOUS
  <2> HIDE DEF R
  <2>3. \A n \in DOMAIN routed : routed[n] \in R
    BY <2>1
  <2> QED
    BY <2>1, <2>2, <2>3
<1>1. SUFFICES ASSUME NEW n \in DOMAIN routed
      PROVE  LET in == routed[n].in
                 rank(i) == IF Cascade!Applies(cfg.bindings[i], in) THEN Cascade!Rank(cfg.bindings[i], in) ELSE 7
                 best == {i \in DOMAIN cfg.bindings :
                             /\ rank(i) < 7
                             /\ \A j \in DOMAIN cfg.bindings : rank(i) < rank(j) \/ (rank(i) = rank(j) /\ i <= j)}
             IN  IF best = {} THEN routed[n].agent = Cascade!resolveDefaultAgentID
                 ELSE \E i \in best : routed[n].agent = Cascade!pickAgentID(cfg.bindings[i].agent)
  BY Zenon DEF CascadeIInv, Cascade!CascadeFollowed
<1> DEFINE in == routed[n].in
           best == {i \in DOMAIN cfg.bindings :
                       /\ CascadeRank(in, i) < 7
                       /\ \A j \in DOMAIN cfg.bindings :
                             \/ CascadeRank(in, i) < CascadeRank(in, j)
                             \/ CascadeRank(in, i) = CascadeRank(in, j) /\ i <= j}
<1>2. in \in CascadeInputs /\ routed[n].agent = Cascade!pickAgentID(Cascade!ResolveRoute(in)[1])
  BY <1>0 DEF CascadeIInv
<1>3. SUFFICES IF best = {} THEN routed[n].agent = Cascade!resolveDefaultAgentID
               ELSE \E i \in best : routed[n].agent = Cascade!pickAgentID(cfg.bindings[i].agent)
  BY Zenon DEF CascadeRank
<1>4. \/ best = {} /\ Cascade!ResolveRoute(in) = <<Cascade!resolveDefaultAgentID, "default">>
      \/ \E i \in best, by \in Cascade!Reasons : Cascade!ResolveRoute(in) = <<cfg.bindings[i].agent, by>>
  <2> HIDE DEF in
  <2>1. Cascade!NormalForms /\ Cascade!IsConfig(cfg) /\ Cascade!IsInput(in)
    BY <1>0, <1>2 DEF Cascade!ConstantsAssumption
  <2> QED
    BY <2>1, CascadeFollows
<1>5. Cascade!pickAgentID(Cascade!resolveDefaultAgentID) = Cascade!resolveDefaultAgentID
  BY <1>0, CascadeDefault DEF Cascade!ConstantsAssumption
<1> HIDE DEF best, in
<1> QED
  BY <1>2, <1>4, <1>5

-----------------------------------------------------------------------------
(* Routing: the sessions                                                   *)

\* Both instances of Routing read a configuration alike.
LEMMA ScopesAlike ==
    /\ Scopes!ConstantsAssumption <=> /\ Cascade!NormalForms /\ MaxRouted \in Nat
                                      /\ \A c \in SessionConfigs : Cascade!IsConfig(c)
                                      /\ \A in \in SessionInputs : Cascade!IsInput(in)
    /\ Scopes!Ids = Cascade!Ids /\ Scopes!None = Cascade!None /\ Scopes!Reasons = Cascade!Reasons
    /\ Scopes!registered = Cascade!registered /\ Scopes!defaultAgents = Cascade!defaultAgents
    /\ \A in : Scopes!ResolveRoute(in) = Cascade!ResolveRoute(in)
    /\ \A id : Scopes!pickAgentID(id) = Cascade!pickAgentID(id)
    /\ \A a, in : Scopes!sessionKeys(a, in) = Cascade!sessionKeys(a, in)
    /\ \A ch, id : Scopes!identities(ch, id) = Cascade!identities(ch, id)
    /\ \A x : Scopes!LowerAll(x) = Cascade!LowerAll(x)
    /\ \A x : Scopes!NormalizeAccountID(x) = Cascade!NormalizeAccountID(x)
    /\ \A a : Scopes!MainSessionKey(a) = Cascade!MainSessionKey(a)
<1> USE DEF Scopes!ToLower, Cascade!ToLower, Scopes!LowerAll, Cascade!LowerAll, Scopes!NormalizeAgentID,
            Cascade!NormalizeAgentID, Scopes!NormalizeAccountID, Cascade!NormalizeAccountID,
            Scopes!None, Cascade!None, Scopes!Ids, Cascade!Ids, Scopes!Peers, Cascade!Peers,
            Scopes!First, Cascade!First, Scopes!resolveDefaultAgentID, Cascade!resolveDefaultAgentID,
            Scopes!registered, Cascade!registered
<1>1. /\ Scopes!Ids = Cascade!Ids /\ Scopes!None = Cascade!None
      /\ Scopes!registered = Cascade!registered
      /\ \A x : Scopes!LowerAll(x) = Cascade!LowerAll(x)
      /\ \A x : Scopes!NormalizeAccountID(x) = Cascade!NormalizeAccountID(x)
  <2>1. Scopes!Ids = Cascade!Ids /\ Scopes!None = Cascade!None
    BY Zenon
  <2>2. Scopes!registered = Cascade!registered
    BY Zenon
  <2>3. \A x : Scopes!LowerAll(x) = Cascade!LowerAll(x)
    BY Zenon
  <2>4. \A x : Scopes!NormalizeAccountID(x) = Cascade!NormalizeAccountID(x)
    BY Zenon
  <2> QED
    BY <2>1, <2>2, <2>3, <2>4, Zenon
<1>2. Scopes!ConstantsAssumption <=> /\ Cascade!NormalForms /\ MaxRouted \in Nat
                                     /\ \A c \in SessionConfigs : Cascade!IsConfig(c)
                                     /\ \A in \in SessionInputs : Cascade!IsInput(in)
  <2>1. Scopes!NormalForms <=> Cascade!NormalForms
    BY Zenon DEF Scopes!NormalForms, Cascade!NormalForms
  <2>2. \A c : Scopes!IsConfig(c) <=> Cascade!IsConfig(c)
    BY Zenon DEF Scopes!IsConfig, Cascade!IsConfig
  <2>3. \A in : Scopes!IsInput(in) <=> Cascade!IsInput(in)
    BY Zenon DEF Scopes!IsInput, Cascade!IsInput
  <2> QED
    BY <2>1, <2>2, <2>3, Zenon DEF Scopes!ConstantsAssumption
<1>3. Scopes!Reasons = Cascade!Reasons /\ \A in : Scopes!ResolveRoute(in) = Cascade!ResolveRoute(in)
  <2>1. Scopes!Reasons = Cascade!Reasons
    BY Zenon DEF Scopes!Reasons, Cascade!Reasons
  <2>2. \A in : Scopes!ResolveRoute(in) = Cascade!ResolveRoute(in)
    BY ZenonT(60) DEF Scopes!ResolveRoute, Cascade!ResolveRoute, Scopes!levels, Cascade!levels,
                      Scopes!filterBindings, Cascade!filterBindings, Scopes!matchesAccountID,
                      Cascade!matchesAccountID, Scopes!Unconditional, Cascade!Unconditional
  <2> QED
    BY <2>1, <2>2, Zenon
<1>4. /\ \A id : Scopes!pickAgentID(id) = Cascade!pickAgentID(id)
      /\ Scopes!defaultAgents = Cascade!defaultAgents
  BY Zenon DEF Scopes!pickAgentID, Cascade!pickAgentID, Scopes!defaultAgents, Cascade!defaultAgents
<1>5. /\ \A a, in : Scopes!sessionKeys(a, in) = Cascade!sessionKeys(a, in)
      /\ \A ch, id : Scopes!identities(ch, id) = Cascade!identities(ch, id)
      /\ \A a : Scopes!MainSessionKey(a) = Cascade!MainSessionKey(a)
  BY Zenon DEF Scopes!sessionKeys, Cascade!sessionKeys, Scopes!MainSessionKey, Cascade!MainSessionKey,
               Scopes!directKey, Cascade!directKey, Scopes!groupKey, Cascade!groupKey, Scopes!identities,
               Cascade!identities, Scopes!linked, Cascade!linked
<1> QED
  BY <1>1, <1>2, <1>3, <1>4, <1>5, Zenon

\* Whom a direct message is from, in the sense of the links.
ScopesIdentity(in) == CHOOSE x \in Scopes!identities(in.channel, in.peer.id) : TRUE

\* A direct message that has a session of its own.
ScopesOwn(in) == Scopes!Direct(in) /\ cfg.dmScope # "main"

ScopesHead(a, in) ==
    CASE cfg.dmScope = "per-account-channel-peer" ->
            <<"agent", a, in.channel, Scopes!NormalizeAccountID(in.account), "direct">>
      [] cfg.dmScope = "per-channel-peer" -> <<"agent", a, in.channel, "direct">>
      [] OTHER -> <<"agent", a, "direct">>

ScopesKey(a, in) ==
    IF Scopes!Grouped(in) THEN <<"agent", a, in.channel, in.peer.kind>> \o Scopes!LowerAll(in.peer.id)
    ELSE IF ScopesOwn(in) THEN ScopesHead(a, in) \o ScopesIdentity(in)
    ELSE <<"agent", a, "main">>

ScopesGiven ==
    /\ Scopes!ConstantsAssumption /\ Scopes!NamesAssumption
    /\ cfg \in SessionConfigs

LEMMA ScopesFacts ==
    ASSUME ScopesGiven
    PROVE  /\ Cascade!NormalForms /\ Cascade!IsConfig(cfg)
           /\ {"agent", "main", "direct"} \subseteq Names
           /\ cfg.dmScope \in {"main", "per-peer", "per-channel-peer", "per-account-channel-peer"}
           /\ \A in \in SessionInputs : /\ Cascade!IsInput(in) /\ in.channel \in Names /\ in.channel # "direct"
                                        /\ Scopes!NormalizeAccountID(in.account) \in Names
                                        /\ in.peer # Scopes!None => in.peer.kind \in Names /\ in.peer.id \in Scopes!Ids
<1>1. Cascade!NormalForms /\ Cascade!IsConfig(cfg) /\ \A in \in SessionInputs : Cascade!IsInput(in)
  BY ScopesAlike DEF ScopesGiven
<1>2. {"agent", "main", "direct"} \subseteq Names
  BY <1>1 DEF Cascade!NormalForms
<1>3. cfg.dmScope \in {"main", "per-peer", "per-channel-peer", "per-account-channel-peer"}
      /\ \A in \in SessionInputs : in.channel # "direct"
  BY Zenon DEF ScopesGiven, Scopes!NamesAssumption
<1>4. ASSUME NEW in \in SessionInputs
      PROVE  in.channel \in Names /\ in.account \in Names
             /\ (in.peer # Cascade!None => in.peer.kind \in Names /\ in.peer.id \in Cascade!Ids)
  BY <1>1 DEF Cascade!IsInput, Cascade!Peers
<1>5. ASSUME NEW in \in SessionInputs PROVE Scopes!NormalizeAccountID(in.account) \in Names
  BY <1>1, <1>4, CascadeNames, ScopesAlike
<1> QED
  BY <1>1, <1>2, <1>3, <1>4, <1>5, ScopesAlike

LEMMA ScopesIdentities ==
    ASSUME ScopesGiven, NEW in \in SessionInputs, Scopes!Direct(in)
    PROVE  /\ Scopes!identities(in.channel, in.peer.id) = {ScopesIdentity(in)}
           /\ ScopesIdentity(in) \in Scopes!Ids
<1> DEFINE names == Scopes!linked(cfg.links, in.channel, in.peer.id)
           all == Scopes!identities(in.channel, in.peer.id)
<1>1. \A m, n \in names : m = n
  BY Zenon DEF ScopesGiven, Scopes!NamesAssumption
<1>2. all = IF cfg.dmScope # "main" /\ names # {} THEN {<<n>> : n \in names} ELSE {Scopes!LowerAll(in.peer.id)}
  BY Zenon DEF Scopes!identities
<1>3. all \subseteq Scopes!Ids
  <2>1. in.peer.id \in Cascade!Ids
    BY ScopesFacts, ScopesAlike DEF Scopes!Direct
  <2> QED
    BY <2>1, ScopesFacts, ScopesAlike, CascadeIdentities
<1> HIDE DEF names, all
<1>4. all # {} /\ \A x, y \in all : x = y
  BY <1>1, <1>2
<1>5. ScopesIdentity(in) \in all
  BY <1>4, Zenon DEF ScopesIdentity, all
<1>6. all = {ScopesIdentity(in)}
  BY <1>4, <1>5
<1> QED
  BY <1>3, <1>5, <1>6 DEF all

\* A message has one session.
LEMMA ScopesOneKey ==
    ASSUME ScopesGiven, NEW in \in SessionInputs, NEW a \in Names
    PROVE  Scopes!sessionKeys(a, in) = {ScopesKey(a, in)}
<1>1. CASE Scopes!Grouped(in)
  BY <1>1, Zenon DEF ScopesKey, Scopes!sessionKeys, Scopes!groupKey, Scopes!Grouped
<1>2. CASE in.peer = Scopes!None
  BY <1>2, Zenon DEF ScopesKey, ScopesOwn, Scopes!sessionKeys, Scopes!MainSessionKey, Scopes!Grouped, Scopes!Direct
<1>3. CASE Scopes!Direct(in)
  <2>1. Scopes!sessionKeys(a, in) =
            {Scopes!directKey(a, in.channel, Scopes!NormalizeAccountID(in.account), ScopesIdentity(in))}
    <3>1. Scopes!sessionKeys(a, in) =
              {Scopes!directKey(a, in.channel, Scopes!NormalizeAccountID(in.account), x) :
                  x \in Scopes!identities(in.channel, in.peer.id)}
      BY <1>3, Zenon DEF Scopes!sessionKeys, Scopes!Direct
    <3> QED
      BY <1>3, <3>1, ScopesIdentities
  <2>2. ~Scopes!Grouped(in) /\ (ScopesOwn(in) <=> cfg.dmScope # "main")
    BY <1>3 DEF ScopesOwn, Scopes!Direct, Scopes!Grouped
  <2>3. cfg.dmScope \in {"main", "per-peer", "per-channel-peer", "per-account-channel-peer"}
    BY ScopesFacts
  <2>4. Scopes!directKey(a, in.channel, Scopes!NormalizeAccountID(in.account), ScopesIdentity(in)) = ScopesKey(a, in)
    BY <2>2, <2>3 DEF Scopes!directKey, ScopesKey, ScopesHead, Scopes!MainSessionKey
  <2> QED
    BY <2>1, <2>4
<1> QED
  BY <1>1, <1>2, <1>3 DEF Scopes!Direct, Scopes!Grouped

\* What a session and a conversation show of the kind of message they are of.
LEMMA ScopesGroupKey ==
    ASSUME ScopesGiven, NEW in \in SessionInputs, NEW a \in Names, Scopes!Grouped(in)
    PROVE  LET k == ScopesKey(a, in)
           IN  /\ k[3] = in.channel /\ k[3] # "direct" /\ k[4] = in.peer.kind /\ k[4] # "direct" /\ Len(k) > 4
               /\ Scopes!Conversation(in) = <<"group", in.channel, in.peer.kind, in.peer.id>>
<1> DEFINE p == <<"agent", a, in.channel, in.peer.kind>>
           x == Scopes!LowerAll(in.peer.id)
           k == ScopesKey(a, in)
<1>1. /\ in.peer # Scopes!None /\ in.peer.kind # "direct" /\ in.peer.kind \in Names /\ in.peer.id \in Scopes!Ids
      /\ in.channel \in Names /\ in.channel # "direct" /\ "agent" \in Names
  BY ScopesFacts DEF Scopes!Grouped
<1>2. x \in Seq(Names) /\ Len(x) \in Nat /\ Len(x) # 0
  <2>1. x \in Cascade!Ids
    BY <1>1, ScopesFacts, ScopesAlike, CascadeLowers
  <2>2. x \in Seq(Names) /\ x # << >>
    BY <2>1 DEF Cascade!Ids, Cascade!None
  <2> HIDE DEF x
  <2> QED
    BY <2>2
<1>3. p \in Seq(Names) /\ Len(p) = 4 /\ p[3] = in.channel /\ p[4] = in.peer.kind
  BY <1>1
<1>4. k = p \o x
  BY DEF ScopesKey
<1>5. Scopes!Conversation(in) = <<"group", in.channel, in.peer.kind, in.peer.id>>
  BY <1>1, Zenon DEF Scopes!Conversation
<1> HIDE DEF p, x, k
<1>6. Len(k) = 4 + Len(x) /\ k[3] = p[3] /\ k[4] = p[4]
  <2>1. Len(p \o x) = Len(p) + Len(x) /\ \A i \in 1..Len(p) : (p \o x)[i] = p[i]
    BY <1>2, <1>3, CascadeJoined
  <2>2. 3 \in 1..Len(p) /\ 4 \in 1..Len(p)
    BY <1>3
  <2> QED
    BY <1>3, <1>4, <2>1, <2>2
<1> QED
  BY <1>1, <1>2, <1>3, <1>5, <1>6 DEF k

LEMMA ScopesOwnKey ==
    ASSUME ScopesGiven, NEW in \in SessionInputs, NEW a \in Names, ScopesOwn(in)
    PROVE  LET k == ScopesKey(a, in)
           IN  /\ k = ScopesHead(a, in) \o ScopesIdentity(in)
               /\ ScopesHead(a, in) \in Seq(Names) /\ ScopesIdentity(in) \in Seq(Names)
               /\ Len(k) > 3
               /\ cfg.dmScope = "per-peer" => k[3] = "direct"
               /\ cfg.dmScope = "per-channel-peer" => k[3] = in.channel /\ k[4] = "direct"
               /\ cfg.dmScope = "per-account-channel-peer" =>
                     k[3] = in.channel /\ k[4] = Scopes!NormalizeAccountID(in.account)
<1> DEFINE p == ScopesHead(a, in)
           x == ScopesIdentity(in)
           k == ScopesKey(a, in)
<1>1. /\ in.channel \in Names /\ {"agent", "direct"} \subseteq Names
      /\ Scopes!NormalizeAccountID(in.account) \in Names
      /\ cfg.dmScope \in {"per-peer", "per-channel-peer", "per-account-channel-peer"}
  BY ScopesFacts DEF ScopesOwn
<1>2. x \in Seq(Names) /\ Len(x) \in Nat /\ Len(x) # 0
  <2>1. x \in Cascade!Ids
    BY ScopesIdentities, ScopesAlike DEF ScopesOwn
  <2>2. x \in Seq(Names) /\ x # << >>
    BY <2>1 DEF Cascade!Ids, Cascade!None
  <2> HIDE DEF x
  <2> QED
    BY <2>2
<1>3. k = p \o x
  BY DEF ScopesKey, ScopesOwn, Scopes!Direct, Scopes!Grouped
<1> DEFINE acc == Scopes!NormalizeAccountID(in.account)
<1>4. CASE cfg.dmScope = "per-peer"
  <2>1. p = <<"agent", a, "direct">>
    BY <1>4 DEF ScopesHead
  <2>2. p \in Seq(Names) /\ Len(p) = 3 /\ p[3] = "direct"
    BY <1>1, <2>1
  <2> HIDE DEF p, x, k
  <2>3. Len(k) = Len(p) + Len(x) /\ \A i \in 1..Len(p) : k[i] = p[i]
    BY <1>2, <1>3, <2>2, CascadeJoined
  <2>4. 3 \in 1..Len(p)
    BY <2>2
  <2>5. Len(k) = 3 + Len(x) /\ k[3] = p[3]
    BY <2>2, <2>3, <2>4
  <2> QED
    BY <1>2, <1>3, <1>4, <2>2, <2>5 DEF p, x, k
<1>5. CASE cfg.dmScope = "per-channel-peer"
  <2>1. p = <<"agent", a, in.channel, "direct">>
    BY <1>5 DEF ScopesHead
  <2>2. p \in Seq(Names) /\ Len(p) = 4 /\ p[3] = in.channel /\ p[4] = "direct"
    BY <1>1, <2>1
  <2> HIDE DEF p, x, k
  <2>3. Len(k) = Len(p) + Len(x) /\ \A i \in 1..Len(p) : k[i] = p[i]
    BY <1>2, <1>3, <2>2, CascadeJoined
  <2>4. 3 \in 1..Len(p) /\ 4 \in 1..Len(p)
    BY <2>2
  <2>5. Len(k) = 4 + Len(x) /\ k[3] = p[3] /\ k[4] = p[4]
    BY <2>2, <2>3, <2>4
  <2> QED
    BY <1>2, <1>3, <1>5, <2>2, <2>5 DEF p, x, k
<1>6. CASE cfg.dmScope = "per-account-channel-peer"
  <2>1. p = <<"agent", a, in.channel, acc, "direct">>
    BY <1>6 DEF ScopesHead
  <2>2. p \in Seq(Names) /\ Len(p) = 5 /\ p[3] = in.channel /\ p[4] = acc
    BY <1>1, <2>1
  <2> HIDE DEF p, x, k
  <2>3. Len(k) = Len(p) + Len(x) /\ \A i \in 1..Len(p) : k[i] = p[i]
    BY <1>2, <1>3, <2>2, CascadeJoined
  <2>4. 3 \in 1..Len(p) /\ 4 \in 1..Len(p)
    BY <2>2
  <2>5. Len(k) = 5 + Len(x) /\ k[3] = p[3] /\ k[4] = p[4]
    BY <2>2, <2>3, <2>4
  <2> QED
    BY <1>2, <1>3, <1>6, <2>2, <2>5 DEF p, x, k
<1> QED
  BY <1>1, <1>4, <1>5, <1>6

ScopesIdentified(in) == Scopes!identities(in.channel, in.peer.id)

LEMMA ScopesOwnConversation ==
    ASSUME ScopesGiven, NEW in \in SessionInputs, ScopesOwn(in)
    PROVE  Scopes!Conversation(in) =
               IF cfg.dmScope = "per-peer" THEN <<"direct", ScopesIdentified(in)>>
               ELSE IF cfg.dmScope = "per-channel-peer" THEN <<"direct", in.channel, ScopesIdentified(in)>>
               ELSE <<"direct", in.channel, Scopes!NormalizeAccountID(in.account), ScopesIdentified(in)>>
<1>1. in.peer # Scopes!None /\ in.peer.kind = "direct"
      /\ cfg.dmScope \in {"per-peer", "per-channel-peer", "per-account-channel-peer"}
  BY ScopesFacts DEF ScopesOwn, Scopes!Direct
<1>2. CASE cfg.dmScope = "per-peer"
  BY <1>1, <1>2 DEF Scopes!Conversation, ScopesIdentified
<1>3. CASE cfg.dmScope = "per-channel-peer"
  BY <1>1, <1>3 DEF Scopes!Conversation, ScopesIdentified
<1>4. CASE cfg.dmScope = "per-account-channel-peer"
  BY <1>1, <1>4 DEF Scopes!Conversation, ScopesIdentified
<1> QED
  BY <1>1, <1>2, <1>3, <1>4

LEMMA ScopesMainKey ==
    ASSUME ScopesGiven, NEW in \in SessionInputs, NEW a \in Names, ~Scopes!Grouped(in), ~ScopesOwn(in)
    PROVE  ScopesKey(a, in) = <<"agent", a, "main">> /\ Scopes!Conversation(in) = <<"main">>
<1>1. ScopesKey(a, in) = <<"agent", a, "main">>
  BY DEF ScopesKey
<1>2. CASE in.peer = Scopes!None
  BY <1>1, <1>2 DEF Scopes!Conversation
<1>3. CASE in.peer # Scopes!None
  <2>1. in.peer.kind = "direct" /\ cfg.dmScope = "main"
    BY <1>3 DEF ScopesOwn, Scopes!Direct, Scopes!Grouped
  <2> QED
    BY <1>1, <1>3, <2>1 DEF Scopes!Conversation
<1> QED
  BY <1>2, <1>3

\* Messages of different kinds share neither.
LEMMA ScopesDiffer ==
    ASSUME ScopesGiven, NEW i \in SessionInputs, NEW j \in SessionInputs, NEW a \in Names,
           \/ ~Scopes!Grouped(i) /\ ~ScopesOwn(i) /\ (Scopes!Grouped(j) \/ ScopesOwn(j))
           \/ Scopes!Grouped(i) /\ ScopesOwn(j)
    PROVE  ScopesKey(a, i) # ScopesKey(a, j) /\ Scopes!Conversation(i) # Scopes!Conversation(j)
<1>1. ScopesOwn(j) => Scopes!Conversation(j)[1] = "direct"
  <2>1. ASSUME ScopesOwn(j) PROVE Scopes!Conversation(j)[1] = "direct"
    <3>1. <<"direct", ScopesIdentified(j)>>[1] = "direct"
          /\ <<"direct", j.channel, ScopesIdentified(j)>>[1] = "direct"
          /\ <<"direct", j.channel, Scopes!NormalizeAccountID(j.account), ScopesIdentified(j)>>[1] = "direct"
      OBVIOUS
    <3> QED
      BY <2>1, <3>1, ScopesOwnConversation
  <2> QED
    BY <2>1
<1>2. Scopes!Grouped(j) => Scopes!Conversation(j)[1] = "group"
  <2>1. ASSUME Scopes!Grouped(j) PROVE Scopes!Conversation(j)[1] = "group"
    <3>1. Scopes!Conversation(j) = <<"group", j.channel, j.peer.kind, j.peer.id>>
      BY <2>1, ScopesGroupKey
    <3> QED
      BY <3>1
  <2> QED
    BY <2>1
<1>3. CASE ~Scopes!Grouped(i) /\ ~ScopesOwn(i) /\ (Scopes!Grouped(j) \/ ScopesOwn(j))
  <2>1. ScopesKey(a, i) = <<"agent", a, "main">> /\ Scopes!Conversation(i) = <<"main">>
    BY <1>3, ScopesMainKey
  <2>2. Len(ScopesKey(a, i)) = 3 /\ Scopes!Conversation(i)[1] = "main"
    BY <2>1
  <2>3. Len(ScopesKey(a, j)) > 3
    BY <1>3, ScopesGroupKey, ScopesOwnKey
  <2>4. Scopes!Conversation(j)[1] # "main"
    BY <1>1, <1>2, <1>3
  <2> QED
    BY <2>2, <2>3, <2>4
<1>4. CASE Scopes!Grouped(i) /\ ScopesOwn(j)
  <2>1. ScopesKey(a, i)[3] # "direct" /\ ScopesKey(a, i)[4] = i.peer.kind /\ i.peer.kind # "direct"
    BY <1>4, ScopesGroupKey DEF Scopes!Grouped
  <2>2. i.peer.kind # Scopes!NormalizeAccountID(j.account)
    BY <1>4, Zenon DEF ScopesGiven, Scopes!NamesAssumption
  <2>3. cfg.dmScope \in {"per-peer", "per-channel-peer", "per-account-channel-peer"}
    BY <1>4, ScopesFacts DEF ScopesOwn
  <2>4. /\ cfg.dmScope = "per-peer" => ScopesKey(a, j)[3] = "direct"
        /\ cfg.dmScope = "per-channel-peer" => ScopesKey(a, j)[4] = "direct"
        /\ cfg.dmScope = "per-account-channel-peer" => ScopesKey(a, j)[4] = Scopes!NormalizeAccountID(j.account)
    BY <1>4, ScopesOwnKey
  <2>5. ScopesKey(a, i) # ScopesKey(a, j)
    BY <2>1, <2>2, <2>3, <2>4
  <2>6. Scopes!Conversation(i)[1] = "group"
    <3>1. Scopes!Conversation(i) = <<"group", i.channel, i.peer.kind, i.peer.id>>
      BY <1>4, ScopesGroupKey
    <3> QED
      BY <3>1
  <2> QED
    BY <1>1, <1>4, <2>5, <2>6
<1> QED
  BY <1>3, <1>4

LEMMA ScopesGroupsApart ==
    ASSUME ScopesGiven, NEW i \in SessionInputs, NEW j \in SessionInputs, NEW a \in Names,
           Scopes!Grouped(i), Scopes!Grouped(j)
    PROVE  ScopesKey(a, i) = ScopesKey(a, j) <=> Scopes!Conversation(i) = Scopes!Conversation(j)
<1> DEFINE p == <<"agent", a, i.channel, i.peer.kind>>
           q == <<"agent", a, j.channel, j.peer.kind>>
           x == Scopes!LowerAll(i.peer.id)
           y == Scopes!LowerAll(j.peer.id)
<1>1. ScopesKey(a, i) = p \o x /\ ScopesKey(a, j) = q \o y
  BY DEF ScopesKey
<1>2. /\ Scopes!Conversation(i) = <<"group", i.channel, i.peer.kind, i.peer.id>>
      /\ Scopes!Conversation(j) = <<"group", j.channel, j.peer.kind, j.peer.id>>
  BY ScopesGroupKey
<1>3. Scopes!Conversation(i) = Scopes!Conversation(j) <=>
          i.channel = j.channel /\ i.peer.kind = j.peer.kind /\ i.peer.id = j.peer.id
  BY <1>2
<1>4. x = y => i.peer.id = j.peer.id
  BY Zenon DEF ScopesGiven, Scopes!NamesAssumption
<1>5. ASSUME p \o x = q \o y PROVE i.channel = j.channel /\ i.peer.kind = j.peer.kind /\ x = y
  <2>1. /\ "agent" \in Names /\ i.channel \in Names /\ j.channel \in Names
        /\ i.peer.kind \in Names /\ j.peer.kind \in Names /\ i.peer.id \in Scopes!Ids /\ j.peer.id \in Scopes!Ids
    BY ScopesFacts DEF Scopes!Grouped
  <2>2. x \in Seq(Names) /\ y \in Seq(Names)
    <3>1. x \in Cascade!Ids /\ y \in Cascade!Ids
      BY <2>1, ScopesFacts, ScopesAlike, CascadeLowers
    <3> QED
      BY <3>1 DEF Cascade!Ids
  <2>3. p \in Seq(Names) /\ q \in Seq(Names) /\ Len(p) = Len(q)
    BY <2>1
  <2>4. p = q <=> i.channel = j.channel /\ i.peer.kind = j.peer.kind
    OBVIOUS
  <2> HIDE DEF p, q, x, y
  <2>5. p = q /\ x = y
    BY <1>5, <2>2, <2>3, CascadeTails
  <2> QED
    BY <2>4, <2>5
<1> QED
  BY <1>1, <1>3, <1>4, <1>5

LEMMA ScopesOwnApart ==
    ASSUME ScopesGiven, NEW i \in SessionInputs, NEW j \in SessionInputs, NEW a \in Names,
           ScopesOwn(i), ScopesOwn(j)
    PROVE  ScopesKey(a, i) = ScopesKey(a, j) <=> Scopes!Conversation(i) = Scopes!Conversation(j)
<1> DEFINE p == ScopesHead(a, i)
           q == ScopesHead(a, j)
           x == ScopesIdentity(i)
           y == ScopesIdentity(j)
<1>1. /\ ScopesKey(a, i) = p \o x /\ ScopesKey(a, j) = q \o y
      /\ p \in Seq(Names) /\ q \in Seq(Names) /\ x \in Seq(Names) /\ y \in Seq(Names)
  BY ScopesOwnKey
<1>2. cfg.dmScope \in {"per-peer", "per-channel-peer", "per-account-channel-peer"}
  BY ScopesFacts DEF ScopesOwn
<1>3. ScopesIdentified(i) = {x} /\ ScopesIdentified(j) = {y}
  BY ScopesIdentities DEF ScopesOwn, ScopesIdentified
<1> DEFINE X == ScopesIdentified(i)
           Y == ScopesIdentified(j)
<1>4. X = Y <=> x = y
  BY <1>3
<1> DEFINE m == Scopes!NormalizeAccountID(i.account)
           n == Scopes!NormalizeAccountID(j.account)
           c == Scopes!Conversation(i)
           d == Scopes!Conversation(j)
<1>5. Len(p) = Len(q) /\ (c = d <=> p = q /\ x = y)
  <2>1. CASE cfg.dmScope = "per-peer"
    <3>1. p = <<"agent", a, "direct">> /\ q = <<"agent", a, "direct">>
      BY <2>1 DEF ScopesHead
    <3>2. c = <<"direct", X>> /\ d = <<"direct", Y>>
      BY <2>1, ScopesOwnConversation
    <3> HIDE DEF p, q, x, y, X, Y, c, d
    <3>3. Len(p) = Len(q) /\ p = q
      BY <3>1
    <3>4. c = d <=> X = Y
      BY <3>2
    <3> QED
      BY <1>4, <3>3, <3>4, Zenon
  <2>2. CASE cfg.dmScope = "per-channel-peer"
    <3>1. p = <<"agent", a, i.channel, "direct">> /\ q = <<"agent", a, j.channel, "direct">>
      BY <2>2 DEF ScopesHead
    <3>2. c = <<"direct", i.channel, X>> /\ d = <<"direct", j.channel, Y>>
      BY <2>2, ScopesOwnConversation
    <3> DEFINE e == i.channel
               f == j.channel
    <3>3. p = <<"agent", a, e, "direct">> /\ q = <<"agent", a, f, "direct">>
          /\ c = <<"direct", e, X>> /\ d = <<"direct", f, Y>>
      BY <3>1, <3>2, Zenon
    <3> HIDE DEF p, q, x, y, X, Y, c, d, e, f
    <3>4. Len(p) = Len(q)
      BY <3>3
    <3>5. p = q <=> e = f
      BY <3>3
    <3>6. c = d <=> e = f /\ X = Y
      BY <3>3
    <3> QED
      BY <1>4, <3>4, <3>5, <3>6, Zenon
  <2>3. CASE cfg.dmScope = "per-account-channel-peer"
    <3>1. p = <<"agent", a, i.channel, m, "direct">> /\ q = <<"agent", a, j.channel, n, "direct">>
      BY <2>3 DEF ScopesHead
    <3>2. c = <<"direct", i.channel, m, X>> /\ d = <<"direct", j.channel, n, Y>>
      BY <2>3, ScopesOwnConversation
    <3> DEFINE e == i.channel
               f == j.channel
    <3>3. p = <<"agent", a, e, m, "direct">> /\ q = <<"agent", a, f, n, "direct">>
          /\ c = <<"direct", e, m, X>> /\ d = <<"direct", f, n, Y>>
      BY <3>1, <3>2, Zenon
    <3> HIDE DEF p, q, x, y, X, Y, c, d, e, f, m, n
    <3>4. Len(p) = Len(q)
      BY <3>3
    <3>5. p = q <=> e = f /\ m = n
      BY <3>3
    <3>6. c = d <=> e = f /\ m = n /\ X = Y
      BY <3>3
    <3> QED
      BY <1>4, <3>4, <3>5, <3>6, Zenon
  <2> QED
    BY <1>2, <2>1, <2>2, <2>3
<1> HIDE DEF p, q, x, y, m, n, X, Y
<1>6. p \o x = q \o y <=> p = q /\ x = y
  <2>1. ASSUME p \o x = q \o y PROVE p = q /\ x = y
    BY <1>1, <1>5, <2>1, CascadeTails
  <2> QED
    BY <2>1
<1>7. ScopesKey(a, i) = ScopesKey(a, j) <=> p = q /\ x = y
  BY <1>1, <1>6
<1> QED
  BY <1>5, <1>7, Zenon

\* Nobody shares a session with another conversation, and nobody loses his own.
LEMMA ScopesApart ==
    ASSUME ScopesGiven, NEW i \in SessionInputs, NEW j \in SessionInputs, NEW a \in Names, NEW b \in Names
    PROVE  ScopesKey(a, i) = ScopesKey(b, j) <=> a = b /\ Scopes!Conversation(i) = Scopes!Conversation(j)
<1>1. ScopesKey(a, i)[2] = a /\ ScopesKey(b, j)[2] = b
  <2>1. ScopesKey(a, i) \in Cascade!sessionKeys(a, i) /\ ScopesKey(b, j) \in Cascade!sessionKeys(b, j)
    BY ScopesOneKey, ScopesAlike
  <2> QED
    BY <2>1, ScopesFacts, CascadeKeys
<1>2. ScopesKey(a, i) = ScopesKey(a, j) <=> Scopes!Conversation(i) = Scopes!Conversation(j)
  <2>1. CASE Scopes!Grouped(i) /\ Scopes!Grouped(j)
    BY <2>1, ScopesGroupsApart
  <2>2. CASE ScopesOwn(i) /\ ScopesOwn(j)
    BY <2>2, ScopesOwnApart
  <2>3. CASE ~Scopes!Grouped(i) /\ ~ScopesOwn(i) /\ ~Scopes!Grouped(j) /\ ~ScopesOwn(j)
    BY <2>3, ScopesMainKey
  <2>4. ~(Scopes!Grouped(i) /\ ScopesOwn(i)) /\ ~(Scopes!Grouped(j) /\ ScopesOwn(j))
    BY DEF ScopesOwn, Scopes!Grouped, Scopes!Direct
  <2> QED
    BY <2>1, <2>2, <2>3, <2>4, ScopesDiffer
<1> QED
  BY <1>1, <1>2

\* The agent that is picked is registered: it was looked up, or is the default.
LEMMA ScopesPicked ==
    ASSUME ScopesGiven, NEW in \in SessionInputs
    PROVE  Scopes!pickAgentID(Scopes!ResolveRoute(in)[1]) \in Scopes!registered
<1> DEFINE id == Cascade!ResolveRoute(in)[1]
<1>1. Cascade!NormalForms /\ Cascade!IsConfig(cfg) /\ Cascade!IsInput(in)
  BY ScopesFacts
<1>2. Cascade!resolveDefaultAgentID \in Cascade!registered
      /\ Cascade!pickAgentID(Cascade!resolveDefaultAgentID) = Cascade!resolveDefaultAgentID
  BY <1>1, CascadeDefault
<1>3. id = Cascade!resolveDefaultAgentID \/ \E i \in DOMAIN cfg.bindings : id = cfg.bindings[i].agent
  <2>1. \/ Cascade!ResolveRoute(in) = <<Cascade!resolveDefaultAgentID, "default">>
        \/ \E i \in DOMAIN cfg.bindings, by \in Cascade!Reasons :
              Cascade!ResolveRoute(in) = <<cfg.bindings[i].agent, by>>
    BY <1>1, CascadeFollows
  <2> QED
    BY <2>1
<1>s. SUFFICES Cascade!pickAgentID(id) \in Cascade!registered
  BY ScopesAlike
<1> HIDE DEF id
<1>4. CASE cfg.agents # << >>
  BY <1>2, <1>4 DEF Cascade!pickAgentID
<1>5. CASE cfg.agents = << >> /\ \E i \in DOMAIN cfg.bindings : id = cfg.bindings[i].agent
  <2>1. Scopes!NormalizeAgentID(id) = Cascade!NormalizeAgentID(id)
    BY Zenon DEF Scopes!NormalizeAgentID, Cascade!NormalizeAgentID, Scopes!ToLower, Cascade!ToLower
  <2>2. Scopes!NormalizeAgentID(id) = "main"
    BY <1>5, Zenon DEF ScopesGiven, Scopes!NamesAssumption
  <2>3. Cascade!registered = {"main"}
    BY <1>5 DEF Cascade!registered
  <2> QED
    BY <1>2, <2>1, <2>2, <2>3 DEF Cascade!pickAgentID
<1> QED
  BY <1>2, <1>3, <1>4, <1>5

ScopesIInv ==
    /\ Scopes!TypeOK
    /\ \A n \in DOMAIN routed :
          /\ routed[n].serves = routed[n].agent
          /\ routed[n].key = ScopesKey(routed[n].agent, routed[n].in)

ScopesRouted == [in : SessionInputs, agent : Names, by : Scopes!Reasons, serves : Names, key : Scopes!Ids]

LEMMA ScopesStep ==
    ASSUME Scopes!ConstantsAssumption, Scopes!NamesAssumption, ScopesIInv, [Scopes!Next]_(Scopes!vars)
    PROVE  ScopesIInv'
<1>0. /\ cfg \in SessionConfigs /\ routed \in Seq(ScopesRouted)
      /\ routeTask \in {Scopes!None} \cup Scopes!Ids
      /\ reported = Scopes!None \/ reported \in [agent : Names, key : Scopes!Ids]
  BY DEF ScopesIInv, Scopes!TypeOK, ScopesRouted
<1>n. ScopesGiven /\ Cascade!NormalForms /\ Cascade!IsConfig(cfg) /\ \A in \in SessionInputs : Cascade!IsInput(in)
  <2>1. ScopesGiven
    BY <1>0 DEF ScopesGiven
  <2> QED
    BY <2>1, ScopesFacts
<1>k. ASSUME cfg' = cfg PROVE \A a, in : ScopesKey(a, in)' = ScopesKey(a, in)
  BY <1>k DEF ScopesKey, ScopesOwn, ScopesHead, ScopesIdentity, Scopes!Grouped, Scopes!Direct, Scopes!identities,
              Scopes!linked, Scopes!LowerAll, Scopes!NormalizeAccountID
<1>1. ASSUME NEW in \in SessionInputs, Scopes!processMessage(in)
      PROVE  ScopesIInv'
  <2> DEFINE route == Scopes!ResolveRoute(in)
             agent == Scopes!pickAgentID(route[1])
             serving == IF agent \in Scopes!registered THEN {agent} ELSE Scopes!defaultAgents
  <2>1. PICK a \in serving, k \in Scopes!sessionKeys(agent, in) :
            routed' = Append(routed, [in |-> in, agent |-> agent, by |-> route[2], serves |-> a, key |-> k])
    BY <1>1, Zenon DEF Scopes!processMessage
  <2>2. UNCHANGED <<cfg, routeTask, reported>>
    BY <1>1 DEF Scopes!processMessage
  <2> DEFINE new == [in |-> in, agent |-> agent, by |-> route[2], serves |-> a, key |-> k]
  <2>3. agent \in Names /\ route[2] \in Scopes!Reasons /\ agent \in Scopes!registered
    BY <1>1, <1>n, CascadeAgents, ScopesAlike, ScopesPicked
  <2>4. a = agent /\ k = ScopesKey(agent, in)
    BY <1>1, <1>n, <2>1, <2>3, ScopesOneKey
  <2>5. k \in Scopes!Ids
    BY <1>1, <1>n, <2>1, <2>3, CascadeKeys, ScopesAlike
  <2>6. new \in ScopesRouted /\ new.in = in /\ new.agent = agent /\ new.serves = agent /\ new.key = k
    BY <1>1, <2>3, <2>4, <2>5 DEF ScopesRouted
  <2> HIDE DEF new, agent, route, serving
  <2>7. routed' = Append(routed, new)
    BY <2>1 DEF new
  <2>8. routed' \in Seq(ScopesRouted) /\ DOMAIN routed' = DOMAIN routed \cup {Len(routed) + 1}
        /\ routed'[Len(routed) + 1] = new /\ \A n \in DOMAIN routed : routed'[n] = routed[n]
    BY <1>0, <2>6, <2>7
  <2>9. Scopes!TypeOK'
    BY <1>0, <2>2, <2>8 DEF Scopes!TypeOK, ScopesRouted
  <2>10. ASSUME NEW n \in DOMAIN routed'
         PROVE  routed'[n].serves = routed'[n].agent /\ routed'[n].key = ScopesKey(routed'[n].agent, routed'[n].in)
    BY <2>4, <2>6, <2>8 DEF ScopesIInv
  <2> QED
    BY <1>k, <2>2, <2>9, <2>10 DEF ScopesIInv
<1>2. CASE UNCHANGED <<cfg, routed>> /\ Scopes!TypeOK'
  <2>1. \A n \in DOMAIN routed' :
            routed'[n].serves = routed'[n].agent /\ routed'[n].key = ScopesKey(routed'[n].agent, routed'[n].in)
    BY <1>2 DEF ScopesIInv
  <2> QED
    BY <1>k, <1>2, <2>1 DEF ScopesIInv
<1>3. CASE Scopes!Spawn
  <2>1. routed # << >> /\ routeTask' = routed[Len(routed)].key /\ UNCHANGED <<cfg, routed, reported>>
    BY <1>3 DEF Scopes!Spawn
  <2>2. \A x \in ScopesRouted : x.key \in Scopes!Ids
    BY DEF ScopesRouted
  <2>3. routed[Len(routed)] \in ScopesRouted
    BY <1>0, <2>1
  <2>4. Scopes!TypeOK'
    BY <1>0, <2>1, <2>2, <2>3 DEF Scopes!TypeOK, ScopesRouted
  <2> QED
    BY <1>2, <2>1, <2>4
<1>4. CASE Scopes!processSystemMessage
  <2>1. PICK a \in Scopes!defaultAgents : reported' = [agent |-> a, key |-> Scopes!MainSessionKey(a)]
    BY <1>4 DEF Scopes!processSystemMessage
  <2>2. UNCHANGED <<cfg, routed, routeTask>>
    BY <1>4 DEF Scopes!processSystemMessage
  <2>3. a \in Names
    BY <1>n, <2>1, CascadeRegistered, ScopesAlike
  <2>4. Scopes!MainSessionKey(a) \in Scopes!Ids
    <3>1. {"agent", "main"} \subseteq Names
      BY <1>n, ScopesFacts
    <3> QED
      BY <2>3, <3>1 DEF Scopes!MainSessionKey, Scopes!Ids, Scopes!None
  <2>5. reported' \in [agent : Names, key : Scopes!Ids]
    BY <2>1, <2>3, <2>4
  <2>6. Scopes!TypeOK'
    BY <1>0, <2>2, <2>5 DEF Scopes!TypeOK, ScopesRouted
  <2> QED
    BY <1>2, <2>2, <2>6
<1>5. CASE UNCHANGED Scopes!vars
  BY <1>2, <1>5 DEF ScopesIInv, Scopes!TypeOK, Scopes!vars
<1> QED
  BY <1>1, <1>3, <1>4, <1>5 DEF Scopes!Next

\* One conversation, one session, served by the agent it is named for.
LEMMA ScopesMean ==
    ASSUME Scopes!ConstantsAssumption, Scopes!NamesAssumption, ScopesIInv
    PROVE  Scopes!TypeOK /\ Scopes!SessionsApart /\ Scopes!ServedByItsAgent
<1>0. ScopesGiven /\ \A n \in DOMAIN routed : routed[n].in \in SessionInputs /\ routed[n].agent \in Names
  <2>1. cfg \in SessionConfigs /\ routed \in Seq(ScopesRouted)
    BY DEF ScopesIInv, Scopes!TypeOK, ScopesRouted
  <2>2. \A x \in ScopesRouted : x.in \in SessionInputs /\ x.agent \in Names
    BY DEF ScopesRouted
  <2>3. \A n \in DOMAIN routed : routed[n] \in ScopesRouted
    BY <2>1
  <2> QED
    BY <2>1, <2>2, <2>3 DEF ScopesGiven
<1>1. ASSUME NEW m \in DOMAIN routed, NEW n \in DOMAIN routed
      PROVE  routed[m].key = routed[n].key <=>
                 /\ routed[m].agent = routed[n].agent
                 /\ Scopes!Conversation(routed[m].in) = Scopes!Conversation(routed[n].in)
  <2>1. /\ routed[m].key = ScopesKey(routed[m].agent, routed[m].in)
        /\ routed[n].key = ScopesKey(routed[n].agent, routed[n].in)
    BY DEF ScopesIInv
  <2> QED
    BY <1>0, <2>1, ScopesApart
<1>2. ASSUME NEW n \in DOMAIN routed PROVE routed[n].serves = routed[n].key[2]
  <2>1. routed[n].key \in Cascade!sessionKeys(routed[n].agent, routed[n].in)
    BY <1>0, ScopesOneKey, ScopesAlike DEF ScopesIInv
  <2>2. routed[n].key[2] = routed[n].agent
    BY <1>0, <2>1, ScopesFacts, CascadeKeys
  <2> QED
    BY <2>2 DEF ScopesIInv
<1> QED
  BY <1>1, <1>2 DEF ScopesIInv, Scopes!SessionsApart, Scopes!ServedByItsAgent

LEMMA CascadeInit ==
    ASSUME Cascade!ConstantsAssumption, Cascade!Init
    PROVE  CascadeIInv
<1>1. routed = << >> /\ DOMAIN routed = {}
  BY DEF Cascade!Init
<1>2. Cascade!TypeOK
  BY <1>1 DEF Cascade!Init, Cascade!TypeOK
<1> QED
  BY <1>1, <1>2 DEF CascadeIInv

LEMMA ScopesInit ==
    ASSUME Scopes!ConstantsAssumption, Scopes!Init
    PROVE  ScopesIInv
<1>1. routed = << >> /\ DOMAIN routed = {}
  BY DEF Scopes!Init
<1>2. Scopes!TypeOK
  BY <1>1 DEF Scopes!Init, Scopes!TypeOK
<1> QED
  BY <1>1, <1>2 DEF ScopesIInv

-----------------------------------------------------------------------------
(* The composition                                                         *)

\* Whichever component takes the steps, the others stand still: the composition
\* implements each of them.
LEMMA FallbackImplemented == MCSpec => Spec
<1>1. MCInit => Init
  BY DEF MCInit
<1>2. [MCNext]_allVars => [Next]_vars
  BY DEF MCNext, FallbackRuns, LoopRuns, DiscoveryRuns, McpRuns, CascadeRuns, ScopesRuns,
         StoreRuns, TornRuns, StartupRuns, TurnsRuns,
         allVars
<1> QED
  BY <1>1, <1>2, PTL DEF MCSpec, Spec

LEMMA LoopImplemented == MCSpec => Loop!Spec
<1>1. MCInit => Loop!Init
  BY DEF MCInit
<1>2. [MCNext]_allVars => [Loop!Next]_(Loop!vars)
  BY DEF MCNext, FallbackRuns, LoopRuns, DiscoveryRuns, McpRuns, CascadeRuns, ScopesRuns,
         StoreRuns, TornRuns, StartupRuns, TurnsRuns,
         allVars, loopVars, Loop!vars, Loop!busVars, Loop!reloadVars, Loop!turnVars,
         Loop!toldVars, Loop!stopVars
<1> QED
  BY <1>1, <1>2, PTL DEF MCSpec, Loop!Spec

LEMMA ToolsImplemented == MCSpec => Discovery!Spec
<1>1. MCInit => Discovery!Init
  BY DEF MCInit
<1>2. [MCNext]_allVars => [Discovery!Next]_(Discovery!vars)
  BY DEF MCNext, FallbackRuns, LoopRuns, DiscoveryRuns, McpRuns, CascadeRuns, ScopesRuns,
         StoreRuns, TornRuns, StartupRuns, TurnsRuns,
         allVars, toolsVars, Discovery!vars, Discovery!registryVars,
         Discovery!cacheVars, Discovery!turnVars
<1> QED
  BY <1>1, <1>2, PTL DEF MCSpec, Discovery!Spec

LEMMA McpImplemented == MCSpec => MCP!Spec
<1>1. MCInit => MCP!Init
  BY DEF MCInit
<1>2. [MCNext]_allVars => [MCP!Next]_(MCP!vars)
  BY DEF MCNext, FallbackRuns, LoopRuns, DiscoveryRuns, McpRuns, CascadeRuns, ScopesRuns,
         StoreRuns, TornRuns, StartupRuns, TurnsRuns,
         allVars, mcpVars, MCP!vars
<1> QED
  BY <1>1, <1>2, PTL DEF MCSpec, MCP!Spec

LEMMA BootImplemented == MCSpec => Startup!Spec
<1>1. MCInit => Startup!Init
  BY DEF MCInit
<1>2. [MCNext]_allVars => [Startup!Next]_(Startup!vars)
  BY DEF MCNext, FallbackRuns, LoopRuns, DiscoveryRuns, McpRuns, CascadeRuns, ScopesRuns,
         StoreRuns, TornRuns, StartupRuns, TurnsRuns,
         allVars, bootVars, Startup!vars, Startup!files, Startup!ghosts
<1> QED
  BY <1>1, <1>2, PTL DEF MCSpec, Startup!Spec

LEMMA StoreImplemented == MCSpec => Store!Spec
<1>1. MCInit => Store!Init
  BY DEF MCInit
<1>2. [MCNext]_allVars => [Store!Next]_(Store!vars)
  BY DEF MCNext, FallbackRuns, LoopRuns, DiscoveryRuns, McpRuns, CascadeRuns, ScopesRuns,
         StoreRuns, TornRuns, StartupRuns, TurnsRuns,
         allVars, storeVars, Store!vars, Store!fileVars, Store!metaVars, Store!opVars
<1> QED
  BY <1>1, <1>2, PTL DEF MCSpec, Store!Spec

LEMMA TornImplemented == MCSpec => Torn!Spec
<1>1. MCInit => Torn!Init
  BY DEF MCInit
<1>2. [MCNext]_allVars => [Torn!Next]_(Torn!vars)
  BY DEF MCNext, FallbackRuns, LoopRuns, DiscoveryRuns, McpRuns, CascadeRuns, ScopesRuns,
         StoreRuns, TornRuns, StartupRuns, TurnsRuns,
         allVars, tornVars, Torn!vars, Torn!fileVars, Torn!metaVars, Torn!opVars
<1> QED
  BY <1>1, <1>2, PTL DEF MCSpec, Torn!Spec

LEMMA TurnsImplemented == MCSpec => Turns!Spec
<1>1. MCInit => Turns!Init
  BY DEF MCInit
<1>2. [MCNext]_allVars => [Turns!Next]_(Turns!vars)
  BY DEF MCNext, FallbackRuns, LoopRuns, DiscoveryRuns, McpRuns, CascadeRuns, ScopesRuns,
         StoreRuns, TornRuns, StartupRuns, TurnsRuns,
         allVars, turnVars, Turns!vars, Turns!turnVars, Turns!summVars
<1> QED
  BY <1>1, <1>2, PTL DEF MCSpec, Turns!Spec

\* Within an hour of its last failure a provider's standard cooldown is over, and
\* within the failure window every billing disable.
THEOREM CooldownsAlwaysEnd == MCSpec => []BackInTime
BY FallbackImplemented, CooldownsEnd, PTL

\* A failure never shortens a cooldown that runs, in the composition too.
THEOREM NeverEverShortened == MCSpec => NeverShortened
BY FallbackImplemented, FailureNeverShortens, PTL

\* Every user whose message was handled is told something, whatever fails and
\* however often the registry is reloaded; until the first reload exactly once.
THEOREM LoopAlways == MCSpec => []LoopInv
<1>1. Loop!TypeOK /\ Loop!NotLost /\ (gen = 1 => Loop!AnsweredOnce) => LoopInv
  BY DEF LoopInv
<1>2. Loop!ConstantsAssumption /\ LoopAlone
  BY InstancesAssumption DEF LoopAlone
<1>3. MCSpec => [](Loop!TypeOK /\ Loop!NotLost /\ (gen = 1 => Loop!AnsweredOnce))
  BY <1>2, LoopImplemented, LoopHolds, PTL
<1> QED
  BY <1>1, <1>3, PTL

\* A tool the model is offered can be called, the search engine knows the tools of
\* the registry; closing the MCP servers takes no session from a call in flight
\* and leaves none open.
THEOREM ToolsAlways == MCSpec => []ToolsInv
<1>1. Discovery!TypeOK /\ Discovery!OfferedIsCallable /\ Discovery!EngineIsCurrent
        /\ MCP!TypeOK /\ MCP!CloseIsOrderly => ToolsInv
  BY DEF ToolsInv
<1>2. Discovery!ConstantsAssumption /\ ToolsOneTurn /\ MCP!ConstantsAssumption
  BY InstancesAssumption DEF ToolsOneTurn
<1>3. MCSpec => [](Discovery!TypeOK /\ Discovery!OfferedIsCallable /\ Discovery!EngineIsCurrent)
  BY <1>2, ToolsImplemented, ToolsHold, PTL
<1>4. MCSpec => [](MCP!TypeOK /\ MCP!CloseIsOrderly)
  BY <1>2, McpImplemented, McpHolds, PTL
<1> QED
  BY <1>1, <1>3, <1>4, PTL

\* The offset of a session's file stays inside the file, whatever is interrupted
\* where, with whole and with torn appends.
THEOREM StoreAlways == MCSpec => []StoreInv
<1>1. Store!TypeOK /\ Store!SkipWithinFile /\ Torn!TypeOK /\ Torn!SkipWithinFile => StoreInv
  BY DEF StoreInv
<1>2. Store!ConstantsAssumption /\ Torn!ConstantsAssumption
  BY InstancesAssumption
<1>3. MCSpec => [](Store!TypeOK /\ Store!SkipWithinFile)
  BY <1>2, StoreImplemented, StoreHolds, PTL
<1>4. MCSpec => [](Torn!TypeOK /\ Torn!SkipWithinFile)
  BY <1>2, TornImplemented, TornHolds, PTL
<1> QED
  BY <1>1, <1>3, <1>4, PTL

\* With whole appends the file and its metadata implement the abstract store:
\* every operation takes effect at once, and an interrupted rewrite brings back
\* what was truncated or changes nothing.
THEOREM StoreKeepsPromise == MCSpec => ImplementsStore
<1>1. Store!ConstantsAssumption /\ StoreWholeAppends
  BY InstancesAssumption DEF StoreWholeAppends
<1> QED
  BY <1>1, StoreImplemented, StoreHoldsPromise, PTL DEF ImplementsStore

\* A running agent sees every session as it was stored, through crashes,
\* interrupted migrations and restarts.
THEOREM StartupAlways == MCSpec => []StartupInv
<1>1. Startup!TypeOK /\ Startup!HistoryKept => StartupInv
  BY DEF StartupInv
<1>2. Startup!ConstantsAssumption
  BY InstancesAssumption
<1> QED
  BY <1>1, <1>2, BootImplemented, BootHolds, PTL

\* The provider only sees well-formed histories, whatever summarizer,
\* compression, /clear and crashes left of them.
THEOREM TurnsAlways == MCSpec => []TurnsInv
<1>1. Turns!TypeOK /\ Turns!ProviderSeesWellFormed => TurnsInv
  BY DEF TurnsInv
<1>2. Turns!ConstantsAssumption
  BY InstancesAssumption
<1> QED
  BY <1>1, <1>2, TurnsImplemented, TurnsHold, PTL

\* History is given up on purpose only: by TruncateHistory and SetHistory, also
\* with torn appends, and by the summarizer one message that is in no summary for
\* one that was stored while it waited for the model.
THEOREM AlwaysGivenUpOnPurpose == MCSpec => GivenUpOnPurpose
<1>1. Torn!ConstantsAssumption /\ Turns!ConstantsAssumption
  BY InstancesAssumption
<1>2. MCSpec => Torn!OnlyRemovalRemoves
  BY <1>1, TornImplemented, TornRemovesOnPurpose, PTL
<1>3. MCSpec => Turns!UnsummarizedBounded
  BY <1>1, TurnsImplemented, TurnsForgetOnPurpose, PTL
<1> QED
  BY <1>2, <1>3, PTL DEF GivenUpOnPurpose

\* The two instances of Routing have the same variables: which of them takes the
\* steps is chosen at the start.
RouteIInv == IF part = "scopes" THEN ScopesIInv ELSE CascadeIInv

LEMMA RouteInit == ASSUME MCInit PROVE RouteIInv
<1>1. /\ Cascade!ConstantsAssumption /\ Scopes!ConstantsAssumption
      /\ IF part = "scopes" THEN Scopes!Init ELSE Cascade!Init
  BY InstancesAssumption DEF MCInit
<1> QED
  BY <1>1, CascadeInit, ScopesInit DEF RouteIInv

LEMMA RouteStep == ASSUME RouteIInv, [MCNext]_allVars PROVE RouteIInv'
<1>1. Cascade!ConstantsAssumption /\ Scopes!ConstantsAssumption /\ Scopes!NamesAssumption
  BY InstancesAssumption
<1>2. part' = part
  BY DEF MCNext, FallbackRuns, LoopRuns, DiscoveryRuns, McpRuns, CascadeRuns, ScopesRuns,
         StoreRuns, TornRuns, StartupRuns, TurnsRuns, allVars
<1>3. CASE part = "scopes"
  <2>1. [Scopes!Next]_(Scopes!vars)
    BY <1>3 DEF MCNext, FallbackRuns, LoopRuns, DiscoveryRuns, McpRuns, CascadeRuns, ScopesRuns,
           StoreRuns, TornRuns, StartupRuns, TurnsRuns, allVars, routeVars, Scopes!vars
  <2> QED
    BY <1>1, <1>2, <1>3, <2>1, ScopesStep DEF RouteIInv
<1>4. CASE part # "scopes"
  <2>1. [Cascade!Next]_(Cascade!vars)
    BY <1>4 DEF MCNext, FallbackRuns, LoopRuns, DiscoveryRuns, McpRuns, CascadeRuns, ScopesRuns,
           StoreRuns, TornRuns, StartupRuns, TurnsRuns, allVars, routeVars, Cascade!vars
  <2> QED
    BY <1>1, <1>2, <1>4, <2>1, CascadeStep DEF RouteIInv
<1> QED
  BY <1>3, <1>4

LEMMA RouteMeans == RouteIInv => RoutingInv
<1>1. Cascade!ConstantsAssumption /\ Scopes!ConstantsAssumption /\ Scopes!NamesAssumption
  BY InstancesAssumption
<1>2. CASE part = "scopes"
  BY <1>1, <1>2, ScopesMean DEF RouteIInv, RoutingInv
<1>3. CASE part # "scopes"
  BY <1>1, <1>3, CascadeMeans DEF RouteIInv, RoutingInv
<1> QED
  BY <1>2, <1>3

\* The agent of a message is that of its best binding, the first of those in the
\* order of the file, and without one the default agent; two messages share a
\* session exactly when they belong to one conversation of one agent, and the
\* agent a session is named for is the one that serves it.
THEOREM RoutingAlways == MCSpec => []RoutingInv
<1>1. MCInit => RouteIInv
  BY RouteInit
<1>2. RouteIInv /\ [MCNext]_allVars => RouteIInv'
  BY RouteStep
<1> QED
  BY <1>1, <1>2, RouteMeans, PTL DEF MCSpec

=============================================================================
