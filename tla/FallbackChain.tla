--------------------------- MODULE FallbackChain ----------------------------
(***************************************************************************)
(* Model fallback (pkg/providers: fallback.go, cooldown.go,                *)
(* error_classifier.go): callers execute the chain side by side and share  *)
(* one CooldownTracker.  Times are in minutes; instead of points in time   *)
(* the tracker's entries hold the time left, and the time since.           *)
(***************************************************************************)
EXTENDS Integers, Sequences, FiniteSets

CONSTANTS
    Callers,    \* turns, jobs and heartbeats that call the LLM
    Providers,
    Candidates, \* the providers of the candidates, in order
    Errors,     \* the errors a call may return
    Durations,  \* how far the clock may move in one step
    MaxErrors,  \* bound on a provider's error count
    MaxSteps    \* bound on the clock's steps

ASSUME CandidatesAssumption ==
    /\ Candidates \in Seq(Providers)
    /\ Candidates # << >>
ASSUME ErrorsAssumption ==
    \A e \in Errors : /\ DOMAIN e = {"kind", "image", "status", "says"}
                      /\ e.kind \in {"canceled", "deadline", "other"}
                      /\ e.image \in BOOLEAN
                      /\ e.status \in 0..599
ASSUME BoundsAssumption ==
    /\ MaxErrors \in Nat
    /\ MaxSteps \in Nat
    /\ Durations \subseteq Nat

VARIABLES
    errorCount, \* [Providers -> Nat]
    billing,    \* FailureCounts[FailoverBilling]
    cooldown,   \* time left to CooldownEnd
    disabled,   \* time left to DisabledUntil
    since,      \* time since LastFailure, or Never
    steps,
    pc, at,     \* where each caller is, and its candidate
    attempts,   \* result.Attempts: "failed" or "skipped"
    canceled,   \* callers whose context is canceled
    outcome     \* what Execute last returned to each caller

trackerVars == <<errorCount, billing, cooldown, disabled, since>>
callVars == <<pc, at, attempts, canceled, outcome>>
vars == <<trackerVars, steps, callVars>>

Never == -1
failureWindow == 24 * 60

Outcomes == {"none", "response", "canceled", "unclassified", "format", "exhausted"}

TypeOK ==
    /\ errorCount \in [Providers -> Nat]
    /\ billing \in [Providers -> Nat]
    /\ cooldown \in [Providers -> Nat]
    /\ disabled \in [Providers -> Nat]
    /\ since \in [Providers -> Nat \cup {Never}]
    /\ steps \in Nat
    /\ pc \in [Callers -> {"idle", "next", "run"}]
    /\ at \in [Callers -> 1..Len(Candidates)]
    /\ attempts \in [Callers -> Seq({"failed", "skipped"})]
    /\ canceled \subseteq Callers
    /\ outcome \in [Callers -> Outcomes]

Init ==
    /\ errorCount = [p \in Providers |-> 0]
    /\ billing = [p \in Providers |-> 0]
    /\ cooldown = [p \in Providers |-> 0]
    /\ disabled = [p \in Providers |-> 0]
    /\ since = [p \in Providers |-> Never]
    /\ steps = 0
    /\ pc = [c \in Callers |-> "idle"]
    /\ at = [c \in Callers |-> 1]
    /\ attempts = [c \in Callers |-> << >>]
    /\ canceled = {}
    /\ outcome = [c \in Callers |-> "none"]

-----------------------------------------------------------------------------
(* Classification of errors                                                *)

classifyByStatus(status) ==
    CASE status \in {401, 403} -> "auth"
      [] status = 402 -> "billing"
      [] status \in {408, 500, 502, 503, 521, 522, 523, 524, 529} -> "timeout"
      [] status = 429 -> "rate_limit"
      [] status = 400 -> "format"
      [] OTHER -> ""

\* says: the families of patterns the message matches
classifyByMessage(says) ==
    CASE says \cap {"rate_limit", "overloaded"} # {} -> "rate_limit"
      [] says \cap {"rate_limit", "overloaded"} = {} /\ "billing" \in says -> "billing"
      [] says \cap {"rate_limit", "overloaded", "billing"} = {} /\ "timeout" \in says -> "timeout"
      [] says \cap {"rate_limit", "overloaded", "billing", "timeout"} = {} /\ "auth" \in says -> "auth"
      [] says = {"format"} -> "format"
      [] OTHER -> ""

ClassifyError(e) ==
    CASE e.kind = "canceled" -> ""
      [] e.kind = "deadline" -> "timeout"
      [] e.kind = "other" /\ e.image -> "format"
      [] e.kind = "other" /\ ~e.image /\ classifyByStatus(e.status) # "" -> classifyByStatus(e.status)
      [] OTHER -> classifyByMessage(e.says)

-----------------------------------------------------------------------------
(* The cooldown tracker                                                    *)

\* min(1h, 1min * 5^min(n-1, 3))
calculateStandardCooldown(n) ==
    IF n <= 1 THEN 1 ELSE IF n = 2 THEN 5 ELSE IF n = 3 THEN 25 ELSE 60

\* min(24h, 5h * 2^min(n-1, 10))
calculateBillingCooldown(n) ==
    IF n <= 1 THEN 300 ELSE IF n = 2 THEN 600 ELSE IF n = 3 THEN 1200 ELSE 1440

IsAvailable(p) == disabled[p] = 0 /\ cooldown[p] = 0

\* No failure within the window.
WindowOver(p) == since[p] # Never /\ since[p] > failureWindow

\* Mutant: a standard failure ends a billing disable
MarkFailureForgets(p, reason) ==
    LET n == IF WindowOver(p) THEN 1 ELSE errorCount[p] + 1
        b == (IF WindowOver(p) THEN 0 ELSE billing[p]) + (IF reason = "billing" THEN 1 ELSE 0)
    IN  /\ errorCount' = [errorCount EXCEPT ![p] = n]
        /\ billing' = [billing EXCEPT ![p] = b]
        /\ since' = [since EXCEPT ![p] = 0]
        /\ disabled' = [disabled EXCEPT ![p] = IF reason = "billing" THEN calculateBillingCooldown(b) ELSE 0]
        /\ cooldown' = [cooldown EXCEPT ![p] = IF reason = "billing" THEN @ ELSE calculateStandardCooldown(n)]

\* Mutant: LastFailure is recorded for standard failures only
MarkFailureUnrecorded(p, reason) ==
    LET n == IF WindowOver(p) THEN 1 ELSE errorCount[p] + 1
        b == (IF WindowOver(p) THEN 0 ELSE billing[p]) + (IF reason = "billing" THEN 1 ELSE 0)
    IN  /\ errorCount' = [errorCount EXCEPT ![p] = n]
        /\ billing' = [billing EXCEPT ![p] = b]
        /\ since' = [since EXCEPT ![p] = IF reason = "billing" THEN @ ELSE 0]
        /\ disabled' = [disabled EXCEPT ![p] = IF reason = "billing" THEN calculateBillingCooldown(b) ELSE @]
        /\ cooldown' = [cooldown EXCEPT ![p] = IF reason = "billing" THEN @ ELSE calculateStandardCooldown(n)]

MarkFailure(p, reason) ==
    LET n == IF WindowOver(p) THEN 1 ELSE errorCount[p] + 1
        b == (IF WindowOver(p) THEN 0 ELSE billing[p]) + (IF reason = "billing" THEN 1 ELSE 0)
    IN  /\ errorCount' = [errorCount EXCEPT ![p] = n]
        /\ billing' = [billing EXCEPT ![p] = b]
        /\ since' = [since EXCEPT ![p] = 0]
        /\ disabled' = [disabled EXCEPT ![p] = IF reason = "billing" THEN calculateBillingCooldown(b) ELSE @]
        /\ cooldown' = [cooldown EXCEPT ![p] = IF reason = "billing" THEN @ ELSE calculateStandardCooldown(n)]

\* LastFailure is kept.
MarkSuccess(p) ==
    /\ errorCount' = [errorCount EXCEPT ![p] = 0]
    /\ billing' = [billing EXCEPT ![p] = 0]
    /\ cooldown' = [cooldown EXCEPT ![p] = 0]
    /\ disabled' = [disabled EXCEPT ![p] = 0]
    /\ UNCHANGED since

Less(t, d) == IF t <= d THEN 0 ELSE t - d

Advance(d) ==
    /\ steps < MaxSteps
    /\ steps' = steps + 1
    /\ cooldown' = [p \in Providers |-> Less(cooldown[p], d)]
    /\ disabled' = [p \in Providers |-> Less(disabled[p], d)]
    /\ since' = [p \in Providers |-> IF since[p] = Never THEN Never ELSE since[p] + d]
    /\ UNCHANGED <<errorCount, billing, callVars>>

-----------------------------------------------------------------------------
(* Execute                                                                 *)

Begin(c) ==
    /\ pc[c] = "idle"
    /\ pc' = [pc EXCEPT ![c] = "next"]
    /\ at' = [at EXCEPT ![c] = 1]
    /\ attempts' = [attempts EXCEPT ![c] = << >>]
    /\ canceled' = canceled \ {c}
    /\ outcome' = [outcome EXCEPT ![c] = "none"]
    /\ UNCHANGED <<trackerVars, steps>>

Cancel(c) ==
    /\ pc[c] # "idle"
    /\ canceled' = canceled \cup {c}
    /\ UNCHANGED <<trackerVars, steps, pc, at, attempts, outcome>>

Return(c, o) ==
    /\ pc' = [pc EXCEPT ![c] = "idle"]
    /\ outcome' = [outcome EXCEPT ![c] = o]

\* The next candidate, or the aggregate error after the last.
NextCandidate(c, attempt) ==
    /\ attempts' = [attempts EXCEPT ![c] = Append(@, attempt)]
    /\ IF at[c] = Len(Candidates)
       THEN Return(c, "exhausted") /\ UNCHANGED at
       ELSE /\ at' = [at EXCEPT ![c] = @ + 1]
            /\ pc' = [pc EXCEPT ![c] = "next"]
            /\ UNCHANGED outcome

Aborts(c) ==
    /\ pc[c] = "next"
    /\ c \in canceled
    /\ Return(c, "canceled")
    /\ UNCHANGED <<trackerVars, steps, at, attempts, canceled>>

Skips(c) ==
    /\ pc[c] = "next"
    /\ c \notin canceled
    /\ ~IsAvailable(Candidates[at[c]])
    /\ NextCandidate(c, "skipped")
    /\ UNCHANGED <<trackerVars, steps, canceled>>

Calls(c) ==
    /\ pc[c] = "next"
    /\ c \notin canceled
    /\ IsAvailable(Candidates[at[c]])
    /\ pc' = [pc EXCEPT ![c] = "run"]
    /\ UNCHANGED <<trackerVars, steps, at, attempts, canceled, outcome>>

\* A response counts even if the context was canceled meanwhile.
Succeeds(c) ==
    /\ pc[c] = "run"
    /\ MarkSuccess(Candidates[at[c]])
    /\ Return(c, "response")
    /\ UNCHANGED <<steps, at, attempts, canceled>>

FailsCanceled(c) ==
    /\ pc[c] = "run"
    /\ c \in canceled
    /\ Return(c, "canceled")
    /\ UNCHANGED <<trackerVars, steps, at, attempts, canceled>>

\* Unclassified and non-retriable errors end the chain and are not counted.
FailsForGood(c, e) ==
    /\ pc[c] = "run"
    /\ c \notin canceled
    /\ ClassifyError(e) \in {"", "format"}
    /\ Return(c, IF ClassifyError(e) = "" THEN "unclassified" ELSE "format")
    /\ UNCHANGED <<trackerVars, steps, at, attempts, canceled>>

FailsRetriable(c, e) ==
    /\ pc[c] = "run"
    /\ c \notin canceled
    /\ ClassifyError(e) \notin {"", "format"}
    /\ errorCount[Candidates[at[c]]] < MaxErrors
    /\ MarkFailure(Candidates[at[c]], ClassifyError(e))
    /\ NextCandidate(c, "failed")
    /\ UNCHANGED <<steps, canceled>>

Next ==
    \/ \E d \in Durations : Advance(d)
    \/ \E c \in Callers : Begin(c)
    \/ \E c \in Callers : Cancel(c)
    \/ \E c \in Callers : Aborts(c)
    \/ \E c \in Callers : Skips(c)
    \/ \E c \in Callers : Calls(c)
    \/ \E c \in Callers : Succeeds(c)
    \/ \E c \in Callers : FailsCanceled(c)
    \/ \E c \in Callers, e \in Errors : FailsForGood(c, e)
    \/ \E c \in Callers, e \in Errors : FailsRetriable(c, e)

Spec == Init /\ [][Next]_vars

-----------------------------------------------------------------------------
(* Properties                                                              *)

\* A failure never shortens a cooldown that is running, although the counters
\* start again after the failure window, a billing disable and a standard cooldown
\* run side by side, and a call that began before the cooldown may fail during it.
NeverShortened ==
    [][ \A p \in Providers :
            errorCount'[p] > 0 /\ steps' = steps =>
                cooldown'[p] >= cooldown[p] /\ disabled'[p] >= disabled[p] ]_vars

\* Cooldowns are bounded: within the failure window after its last failure a
\* provider is available again, so the counters are only reset when nothing runs.
BackInTime ==
    \A p \in Providers :
        /\ ~IsAvailable(p) => since[p] # Never
        /\ cooldown[p] > 0 => since[p] + cooldown[p] <= 60
        /\ disabled[p] > 0 => since[p] + disabled[p] <= failureWindow

\* The doc of Execute: "Retriable errors trigger fallback to next candidate."  A
\* candidate is not skipped because of the failure this call fell back from.
FallbackReachesNext ==
    [][ \A c \in Callers :
            pc[c] = "next" /\ Len(attempts'[c]) > Len(attempts[c]) =>
                ~\E j \in DOMAIN attempts[c] :
                    attempts[c][j] = "failed" /\ Candidates[j] = Candidates[at[c]] ]_vars

=============================================================================
