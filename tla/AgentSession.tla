---------------------------- MODULE AgentSession ----------------------------
(***************************************************************************)
(* The life of one session in pkg/agent/loop.go: the agent's turns (LLM    *)
(* calls, tool calls, retries, forced compression), the /clear command,    *)
(* and the summarizer that runs beside them.  Each call of the session     *)
(* store is one step; a crash loses everything but the store.              *)
(*                                                                         *)
(* First sanitizeHistoryForProvider (context.go): what of a stored history *)
(* is sent to the model.  A message is                                     *)
(*   [role |-> "user" | "assistant" | "call" | "tool", n |-> N, k |-> K]   *)
(* where "call" is an assistant message with K tool calls <<N, 1>> ..      *)
(* <<N, K>>, and a "tool" message is the result of call <<N, K>>.          *)
(***************************************************************************)
EXTENDS Naturals, Sequences, FiniteSets

\* Index of the nearest message before i that is not a tool result, or 0.
CallerOf(s, i) ==
    LET C == {j \in 1..i - 1 : s[j].role # "tool"}
    IN  IF C = {} THEN 0 ELSE CHOOSE j \in C : \A l \in C : l <= j

\* First pass, one message: m comes after the messages kept so far.
Keeps(s, m) ==
    CASE m.role = "tool" ->
            LET c == CallerOf(s, Len(s) + 1) IN c # 0 /\ s[c].role = "call"
      [] m.role = "call" ->
            s # << >> /\ s[Len(s)].role \in {"user", "tool"}
      [] OTHER -> TRUE

FirstPass(h) ==
    LET pass[i \in 0..Len(h)] ==
            IF i = 0 THEN << >>
            ELSE IF Keeps(pass[i - 1], h[i]) THEN Append(pass[i - 1], h[i])
            ELSE pass[i - 1]
    IN  pass[Len(h)]

\* The results that directly follow message i.
Results(s, i) ==
    {<<s[j].n, s[j].k>> : j \in {l \in i + 1..Len(s) : s[l].role = "tool" /\ CallerOf(s, l) = i}}

Calls(m) == {<<m.n, j>> : j \in 1..m.k}

Complete(s, i) == Calls(s[i]) \subseteq Results(s, i)

\* Mutant: the second pass drops the assistant message and keeps its results
SecondPassKeepsResults(s) ==
    LET kept[i \in 0..Len(s)] ==
            IF i = 0 THEN << >>
            ELSE IF s[i].role = "call" /\ ~Complete(s, i) THEN kept[i - 1]
            ELSE Append(kept[i - 1], s[i])
    IN  kept[Len(s)]

\* Second pass: an assistant message whose calls are not all answered goes,
\* with the results that follow it.
SecondPass(s) ==
    LET Goes(i) ==
            LET c == IF s[i].role = "tool" THEN CallerOf(s, i) ELSE i
            IN  s[c].role = "call" /\ ~Complete(s, c)
        kept[i \in 0..Len(s)] ==
            IF i = 0 THEN << >>
            ELSE IF Goes(i) THEN kept[i - 1] ELSE Append(kept[i - 1], s[i])
    IN  kept[Len(s)]

sanitizeHistoryForProvider(h) == SecondPass(FirstPass(h))

\* What strict providers require: an assistant message with tool calls is
\* followed by one result per call and no others, and no result stands alone.
WellFormed(s) ==
    \A i \in DOMAIN s :
        CASE s[i].role = "call" -> Results(s, i) = Calls(s[i])
          [] s[i].role = "tool" -> CallerOf(s, i) # 0 /\ s[CallerOf(s, i)].role = "call"
          [] OTHER -> TRUE

-----------------------------------------------------------------------------

CONSTANTS
    MaxMsgs,        \* bound on messages stored
    MaxIterations,  \* agent.MaxIterations
    MaxToolCalls,   \* bound on the tool calls of one response
    Threshold,      \* agent.SummarizeMessageThreshold
    MaxSummarizationMessages    \* 10 in the code

\* The configuration's 0 for MaxIterations means 20 (pkg/agent/instance.go:121).
ConstantsAssumption ==
    /\ {MaxMsgs, MaxToolCalls, Threshold, MaxSummarizationMessages} \subseteq Nat
    /\ MaxIterations \in Nat \ {0}

KeepLast == 4       \* messages kept by the summarizer and the least to compress
MaxRetries == 2

VARIABLES
    hist,       \* Sessions.GetHistory
    summary,    \* numbers of the messages the stored summary was made from
    stored,     \* messages stored so far
    pc,         \* where the agent's turn is
    user,       \* number of the turn's user message
    iteration, retry,
    call, done, \* the message whose calls are executed, results stored
    newHistory, \* what forceCompression is about to store
    summ,       \* the summarizer: "none", "read", "llm", "truncate"
    covers,     \* numbers of the messages it read and is to summarize
    newSummary, \* numbers of the messages its summary is made from
    appended,   \* history: messages stored since it read the history
    clearedAt   \* history: messages stored when /clear last completed

turnVars == <<pc, user, iteration, retry, call, done, newHistory>>
summVars == <<summ, covers, newSummary, appended>>
vars == <<hist, summary, stored, turnVars, summVars, clearedAt>>

NoCall == [role |-> "call", n |-> 0, k |-> 0]
Messages == [role : {"user", "assistant", "call", "tool"}, n : 1..MaxMsgs, k : 0..MaxToolCalls]

TypeOK ==
    /\ hist \in Seq(Messages)
    /\ summary \subseteq 1..MaxMsgs
    /\ stored \in 0..MaxMsgs
    /\ pc \in {"idle", "llm", "tools", "compress", "answer", "clear"}
    /\ user \in 0..MaxMsgs
    /\ iteration \in 0..MaxIterations
    /\ retry \in 0..MaxRetries
    /\ call \in Messages \cup {NoCall}
    /\ done \in 0..call.k
    /\ newHistory \in Seq(Messages)
    /\ summ \in {"none", "read", "llm", "truncate"}
    /\ covers \cup newSummary \subseteq 1..MaxMsgs
    /\ appended \in 0..MaxMsgs
    /\ clearedAt \in 0..MaxMsgs

Init ==
    /\ hist = << >>
    /\ summary = {}
    /\ stored = 0
    /\ pc = "idle"
    /\ user = 0
    /\ iteration = 0
    /\ retry = 0
    /\ call = NoCall
    /\ done = 0
    /\ newHistory = << >>
    /\ summ = "none"
    /\ covers = {}
    /\ newSummary = {}
    /\ appended = 0
    /\ clearedAt = 0

-----------------------------------------------------------------------------

\* Sessions.AddMessage and AddFullMessage.
AddMessage(role, n, k) ==
    /\ stored < MaxMsgs
    /\ stored' = stored + 1
    /\ hist' = Append(hist, [role |-> role, n |-> n, k |-> k])
    /\ appended' = IF summ = "none" THEN 0 ELSE appended + 1

\* runAgentLoop: the messages are built from the history, then the user's
\* message is stored
BeginTurn ==
    /\ pc = "idle"
    /\ AddMessage("user", stored + 1, 0)
    /\ pc' = "llm"
    /\ user' = stored'
    /\ iteration' = 1
    /\ retry' = 0
    /\ UNCHANGED <<summary, call, done, newHistory, summ, covers, newSummary, clearedAt>>

\* A response without tool calls ends the loop.
LLMAnswers ==
    /\ pc = "llm"
    /\ pc' = "answer"
    /\ UNCHANGED <<hist, summary, stored, user, iteration, retry, call, done, newHistory, summVars, clearedAt>>

\* A response with k tool calls is stored; the tools run in parallel.
LLMCalls(k) ==
    /\ pc = "llm"
    /\ AddMessage("call", stored + 1, k)
    /\ call' = [role |-> "call", n |-> stored', k |-> k]
    /\ done' = 0
    /\ pc' = "tools"
    /\ UNCHANGED <<summary, user, iteration, retry, newHistory, summ, covers, newSummary, clearedAt>>

\* The results are stored one after the other, in the order of the calls; then
\* the next iteration begins, unless it was the last.
ToolResult ==
    /\ pc = "tools"
    /\ AddMessage("tool", call.n, done + 1)
    /\ done' = done + 1
    /\ IF done' < call.k
       THEN UNCHANGED <<pc, iteration, retry>>
       ELSE IF iteration = MaxIterations
       THEN pc' = "answer" /\ UNCHANGED <<iteration, retry>>
       ELSE pc' = "llm" /\ iteration' = iteration + 1 /\ retry' = 0
    /\ UNCHANGED <<summary, user, call, newHistory, summ, covers, newSummary, clearedAt>>

\* A timeout is retried twice.
LLMTimesOut ==
    /\ pc = "llm"
    /\ retry < MaxRetries
    /\ retry' = retry + 1
    /\ UNCHANGED <<hist, summary, stored, pc, user, iteration, call, done, newHistory, summVars, clearedAt>>

\* Any other error, or one too many, ends the turn without an answer.
LLMFails ==
    /\ pc = "llm"
    /\ pc' = "idle"
    /\ UNCHANGED <<hist, summary, stored, user, iteration, retry, call, done, newHistory, summVars, clearedAt>>

\* forceCompression: without the older half of what lies between the first and
\* the last message
Compressed(h) ==
    LET mid == (Len(h) - 2) \div 2
    IN  IF Len(h) <= KeepLast THEN h
        ELSE <<h[1]>> \o SubSeq(h, mid + 2, Len(h))

\* A context-window error, up to twice: read the history ...
LLMContextError ==
    /\ pc = "llm"
    /\ retry < MaxRetries
    /\ retry' = retry + 1
    /\ newHistory' = Compressed(hist)
    /\ pc' = IF Len(hist) <= KeepLast THEN "llm" ELSE "compress"
    /\ UNCHANGED <<hist, summary, stored, user, iteration, call, done, summVars, clearedAt>>

\* ... and replace it; the messages for the next call are built from it.
ForceCompression ==
    /\ pc = "compress"
    /\ hist' = newHistory
    /\ newHistory' = << >>
    /\ pc' = "llm"
    /\ UNCHANGED <<summary, stored, user, iteration, retry, call, done, summVars, clearedAt>>

\* The answer is stored.  maybeSummarize starts a summarizer when the history is
\* long and none runs for this session.
Answer ==
    /\ pc = "answer"
    /\ stored < MaxMsgs
    /\ stored' = stored + 1
    /\ hist' = Append(hist, [role |-> "assistant", n |-> stored', k |-> 0])
    /\ pc' = "idle"
    /\ IF summ = "none"
       THEN /\ summ' = IF Len(hist') > Threshold THEN "read" ELSE "none"
            /\ UNCHANGED appended
       ELSE /\ appended' = appended + 1
            /\ UNCHANGED summ
    /\ UNCHANGED <<summary, user, iteration, retry, call, done, newHistory, covers, newSummary, clearedAt>>

-----------------------------------------------------------------------------
(* The summarizer                                                          *)

SummarizerEnds ==
    /\ summ' = "none"
    /\ covers' = {}
    /\ newSummary' = {}
    /\ appended' = 0

\* Mutant: the last messages are summarized as well as kept out
ReadsTooFew(h) == {h[i].n : i \in 1..Len(h) - KeepLast - 1}

\* toSummarize
ToSummarize(h) == {h[i].n : i \in 1..Len(h) - KeepLast}

\* The positions of the user's and the assistant's messages among them.
Valid(h) == {i \in 1..Len(h) - KeepLast : h[i].role # "tool"}

\* summarizeSession reads the history and the summary.  The existing summary goes
\* into the new one unless that is made in two parts.  An oversized message is
\* only noted; when every message is, or there are few, it returns at once.
SummarizerReads ==
    /\ summ = "read"
    /\ \/ /\ Valid(hist) # {}
          /\ covers' = ToSummarize(hist)
          /\ newSummary' = {hist[i].n : i \in Valid(hist)} \cup
                 (IF Cardinality(Valid(hist)) > MaxSummarizationMessages THEN {} ELSE summary)
          /\ summ' = "llm"
          /\ appended' = 0
       \/ SummarizerEnds
    /\ UNCHANGED <<hist, summary, stored, turnVars, clearedAt>>

\* The LLM answers, or the fallback text is used after three attempts.
SetSummary ==
    /\ summ = "llm"
    /\ summary' = newSummary
    /\ summ' = "truncate"
    /\ UNCHANGED <<hist, stored, turnVars, covers, newSummary, appended, clearedAt>>

\* An answer of blanks is no summary.
BlankSummary ==
    /\ summ = "llm"
    /\ SummarizerEnds
    /\ UNCHANGED <<hist, summary, stored, turnVars, clearedAt>>

\* TruncateHistory(4), Save
TruncateHistory ==
    /\ summ = "truncate"
    /\ hist' = IF Len(hist) <= KeepLast THEN hist
               ELSE SubSeq(hist, Len(hist) - KeepLast + 1, Len(hist))
    /\ SummarizerEnds
    /\ UNCHANGED <<summary, stored, turnVars, clearedAt>>

-----------------------------------------------------------------------------
(* /clear and crashes                                                      *)

\* ClearHistory: SetHistory with nothing, ...
ClearHistory ==
    /\ pc = "idle"
    /\ hist' = << >>
    /\ pc' = "clear"
    /\ UNCHANGED <<summary, stored, user, iteration, retry, call, done, newHistory, summVars, clearedAt>>

\* ... then SetSummary with nothing.
ClearSummary ==
    /\ pc = "clear"
    /\ summary' = {}
    /\ clearedAt' = stored
    /\ pc' = "idle"
    /\ UNCHANGED <<hist, stored, user, iteration, retry, call, done, newHistory, summVars>>

Crash ==
    /\ pc # "idle" \/ summ # "none"
    /\ pc' = "idle"
    /\ newHistory' = << >>
    /\ SummarizerEnds
    /\ UNCHANGED <<hist, summary, stored, user, iteration, retry, call, done, clearedAt>>

Turn ==
    \/ LLMAnswers \/ LLMTimesOut \/ LLMContextError \/ LLMFails
    \/ \E k \in 1..MaxToolCalls : LLMCalls(k)
    \/ ToolResult \/ ForceCompression \/ Answer \/ ClearSummary

Summarize == SummarizerReads \/ SetSummary \/ BlankSummary \/ TruncateHistory

Next ==
    \/ BeginTurn \/ ClearHistory \/ Crash
    \/ LLMAnswers \/ LLMTimesOut \/ LLMContextError \/ LLMFails
    \/ \E k \in 1..MaxToolCalls : LLMCalls(k)
    \/ ToolResult \/ ForceCompression \/ Answer \/ ClearSummary
    \/ SummarizerReads \/ SetSummary \/ BlankSummary \/ TruncateHistory

Spec == Init /\ [][Next]_vars

\* The loop runs, and the provider answers or fails in the end.
FairSpec == Spec /\ WF_vars(Turn) /\ WF_vars(Summarize)

-----------------------------------------------------------------------------
(* Properties                                                              *)

\* Whatever the summarizer cut off, the compression dropped and a crash left
\* unfinished, the history sent to the provider is well formed: every tool call
\* has its result and every result its call.
ProviderSeesWellFormed ==
    pc \in {"idle", "llm"} => WellFormed(sanitizeHistoryForProvider(hist))

Numbers(h) == {h[i].n : i \in DOMAIN h}

\* The summarizer's truncation removes messages that are in no summary only to
\* make room for those stored while it was waiting for the LLM, one for one.
UnsummarizedBounded ==
    [][ summ = "truncate" /\ summ' = "none" /\ pc' = pc =>
            Cardinality({i \in DOMAIN hist :
                hist[i].n \notin covers /\ i <= Len(hist) - Len(hist')}) <= appended ]_vars

\* A turn ends, with or without an answer.
TurnEnds == pc # "idle" ~> (pc = "idle" \/ stored = MaxMsgs)

\* The comment in forceCompression: "Keep system prompt (usually [0]) and the very
\* last message (user's trigger)".
TriggerKept ==
    [][ pc = "compress" /\ pc' = "llm" /\ user \in Numbers(hist) => user \in Numbers(hist') ]_vars

\* The reply of /clear: "Chat history cleared!".  What was said before the
\* command is neither in the history nor in the summary any more.
ClearedIsGone == \A n \in summary : n > clearedAt

=============================================================================
