----------------------------- MODULE OAuthFlows -----------------------------
(***************************************************************************)
(* Logging in and out of model providers through the web launcher          *)
(* (web/backend/api/oauth.go), the credential file (pkg/auth/store.go) and *)
(* the gateway process that refreshes tokens in the same file              *)
(* (pkg/providers/codex_provider.go, antigravity_provider.go).             *)
(*                                                                         *)
(* A flow is one browser or device-code login; its map entry and the index *)
(* by OAuth state are guarded by oauthMu, and every look at them first     *)
(* collects expired and old flows.  A request holds no lock while it talks *)
(* to the provider, and the credential file and the configuration are read *)
(* whole, changed and written whole without any lock.                      *)
(*                                                                         *)
(* Time is two sets: late, the flows whose ExpiresAt has passed, and old,  *)
(* the ended flows last updated more than half an hour ago.  want, saved   *)
(* and synced are history.                                                 *)
(***************************************************************************)
EXTENDS Naturals, FiniteSets

CONSTANTS
    Providers,      \* the ones in use, among those of oauthProviderMethods
    Flows,          \* flow identifiers
    Requests,       \* requests being served at the same time
    Refreshes,      \* refreshes of the gateway that may be under way
    CanFail         \* whether reading or writing a file may fail

ASSUME OAuthAssumption ==
    /\ Providers \subseteq {"openai", "anthropic", "google-antigravity"}
    /\ Requests \cap Refreshes = {}
    /\ CanFail \in BOOLEAN

VARIABLES
    status, method, provider,   \* oauthFlows
    index,                      \* oauthState: the flows a state leads to
    late, old,
    file, cfg,                  \* auth.json and the auth methods of config.json
    pc, flow, target, input, copy,
    want, saved, synced

flowVars == <<status, method, provider, index, late, old>>
reqVars == <<pc, flow, target, input, copy>>
history == <<want, saved, synced>>
vars == <<flowVars, file, cfg, reqVars, history>>

Workers == Requests \cup Refreshes
NoFlow == "no flow"
NoCopy == [p \in Providers |-> "none"]
Methods == {"none", "oauth", "token"}
Ended == {"success", "error", "expired"}

oauthProviderMethods(p) ==
    CASE p = "openai" -> {"browser", "device_code", "token"}
      [] p = "anthropic" -> {"token"}
      [] OTHER -> {"browser"}

TypeOK ==
    /\ status \in [Flows -> {"absent", "pending"} \cup Ended]
    /\ method \in [Flows -> {"browser", "device_code"}]
    /\ provider \in [Flows -> Providers]
    /\ index \subseteq Flows /\ late \subseteq Flows /\ old \subseteq Flows
    /\ file \in [Providers -> Methods] /\ cfg \in [Providers -> Methods]
    /\ pc \in [Workers -> {"idle", "exchange", "poll", "refresh", "load", "save",
                           "cfgLoad", "cfgSave", "end", "fail", "answer"}]
    /\ flow \in [Workers -> Flows \cup {NoFlow}]
    /\ target \in [Workers -> Providers]
    /\ input \in [Workers -> Methods]
    /\ copy \in [Workers -> [Providers -> Methods]]
    /\ want \in [Providers -> {"in", "out"}]
    /\ saved \subseteq Flows /\ synced \subseteq Flows

Init ==
    /\ status = [f \in Flows |-> "absent"]
    /\ method \in [Flows -> {"browser", "device_code"}]
    /\ provider \in [Flows -> Providers]
    /\ \A f \in Flows : method[f] \in oauthProviderMethods(provider[f])
    /\ index = {} /\ late = {} /\ old = {}
    /\ file = [p \in Providers |-> "none"] /\ cfg = file
    /\ pc = [w \in Workers |-> "idle"]
    /\ flow = [w \in Workers |-> NoFlow]
    /\ \E p \in Providers : target = [w \in Workers |-> p]
    /\ input = [w \in Workers |-> "none"]
    /\ copy = [w \in Workers |-> NoCopy]
    /\ want = [p \in Providers |-> "out"]
    /\ saved = {} /\ synced = {}

-----------------------------------------------------------------------------
\* Time.

ExpiresAt(f) ==
    /\ status[f] = "pending" /\ f \notin late
    /\ late' = late \cup {f}
    /\ UNCHANGED <<status, method, provider, index, old, file, cfg, reqVars, history>>

GrowsOld(f) ==
    /\ status[f] \in Ended /\ f \notin old
    /\ old' = old \cup {f}
    /\ UNCHANGED <<status, method, provider, index, late, file, cfg, reqVars, history>>

\* gcOAuthFlowsLocked: expire, then drop what ended long ago.
collected == [f \in Flows |->
    IF status[f] = "pending" /\ f \in late THEN "expired"
    ELSE IF status[f] \in Ended /\ f \in old THEN "absent"
    ELSE status[f]]

\* Mutant: an expired flow stays in the index until it is dropped
collectedIndexExpiredStays == index \ {f \in Flows : collected[f] = "absent"}

collectedIndex == index \ {f \in Flows : collected[f] # status[f]}

gc ==
    /\ status' = collected
    /\ index' = collectedIndex
    /\ old' = old \ {f \in Flows : collected[f] = "absent"}
    /\ UNCHANGED <<method, provider, late>>

-----------------------------------------------------------------------------
\* Requests.

Goto(w, at) == pc' = [pc EXCEPT ![w] = at]

\* The handler returns; its variables are gone.
Return(w) ==
    /\ Goto(w, "idle")
    /\ flow' = [flow EXCEPT ![w] = NoFlow]
    /\ input' = [input EXCEPT ![w] = "none"]
    /\ copy' = [copy EXCEPT ![w] = NoCopy]
    /\ UNCHANGED target

\* Begin work for provider p on behalf of flow f; m is what to write.
Begin(w, at, f, p, m) ==
    /\ Goto(w, at)
    /\ flow' = [flow EXCEPT ![w] = f]
    /\ target' = [target EXCEPT ![w] = p]
    /\ input' = [input EXCEPT ![w] = m]
    /\ UNCHANGED copy

\* handleOAuthLogin, token
LoginToken(w, p) ==
    /\ w \in Requests /\ pc[w] = "idle"
    /\ "token" \in oauthProviderMethods(p)
    /\ Begin(w, "load", NoFlow, p, "token")
    /\ UNCHANGED <<flowVars, file, cfg, history>>

\* handleOAuthLogin, browser or device code, up to storeOAuthFlow.  The
\* request keeps nothing afterwards.  Identifiers are random: one that nothing
\* refers to any more stands for a new one.
Login(f) ==
    /\ status[f] = "absent" /\ \A w \in Workers : flow[w] # f
    /\ status' = [collected EXCEPT ![f] = "pending"]
    /\ index' = IF method[f] = "browser" THEN collectedIndex \cup {f} ELSE collectedIndex
    /\ old' = old \ {g \in Flows : collected[g] = "absent"}
    /\ late' = late \ {f}
    /\ saved' = saved \ {f} /\ synced' = synced \ {f}
    /\ UNCHANGED <<method, provider, file, cfg, reqVars, want>>

\* handleGetOAuthFlow
GetFlow ==
    /\ gc
    /\ UNCHANGED <<file, cfg, reqVars, history>>

\* handleOAuthCallback up to the exchange: an unknown state, a flow that is
\* not pending, an error from the provider or no code, or a code.
Callback(w, f) ==
    /\ w \in Requests /\ pc[w] = "idle" /\ method[f] = "browser"
    /\ gc
    /\ \/ /\ f \notin index' \/ status'[f] # "pending"
          /\ UNCHANGED reqVars
       \/ /\ f \in index' /\ status'[f] = "pending"
          /\ \E at \in {"fail", "exchange"} : Begin(w, at, f, provider[f], "oauth")
    /\ UNCHANGED <<file, cfg, history>>

\* handlePollOAuthFlow up to PollDeviceCodeOnce
Poll(w, f) ==
    /\ w \in Requests /\ pc[w] = "idle" /\ method[f] = "device_code"
    /\ gc
    /\ \/ /\ status'[f] # "pending"
          /\ UNCHANGED reqVars
       \/ /\ status'[f] = "pending"
          /\ Begin(w, "poll", f, provider[f], "oauth")
    /\ UNCHANGED <<file, cfg, history>>

\* What the provider answers: a credential, an error, or (to a poll) pending.
ProviderAnswers(w) ==
    /\ \/ pc[w] = "exchange" /\ \E at \in {"load", "fail"} : Goto(w, at)
       \/ pc[w] = "poll" /\ \E at \in {"load", "fail", "answer"} : Goto(w, at)
       \/ pc[w] = "refresh" /\ Goto(w, "load")
    /\ UNCHANGED <<flowVars, file, cfg, flow, target, input, copy, history>>

\* RefreshAccessToken fails: the request to the model fails with it.
RefreshFails(w) ==
    /\ pc[w] = "refresh"
    /\ Return(w)
    /\ UNCHANGED <<flowVars, file, cfg, history>>

\* handleOAuthLogout
Logout(w, p) ==
    /\ w \in Requests /\ pc[w] = "idle"
    /\ Begin(w, "load", NoFlow, p, "none")
    /\ UNCHANGED <<flowVars, file, cfg, history>>

\* createCodexTokenSource, createAntigravityTokenSource: a credential that
\* needs a refresh
Refresh(w, p) ==
    /\ w \in Refreshes /\ pc[w] = "idle"
    /\ p \in {"openai", "google-antigravity"} /\ file[p] = "oauth"
    /\ Begin(w, "refresh", NoFlow, p, "oauth")
    /\ UNCHANGED <<flowVars, file, cfg, history>>

-----------------------------------------------------------------------------
\* The two files.

\* SetCredential and DeleteCredential: LoadStore
Load(w) ==
    /\ pc[w] = "load"
    /\ copy' = [copy EXCEPT ![w] = file]
    /\ Goto(w, "save")
    /\ UNCHANGED <<flowVars, file, cfg, flow, target, input, history>>

\* SaveStore
Save(w) ==
    /\ pc[w] = "save"
    /\ file' = [copy[w] EXCEPT ![target[w]] = input[w]]
    /\ want' = IF w \in Refreshes THEN want
               ELSE [want EXCEPT ![target[w]] = IF input[w] = "none" THEN "out" ELSE "in"]
    /\ saved' = saved \cup ({flow[w]} \cap Flows)
    /\ IF w \in Refreshes THEN Return(w)
       ELSE Goto(w, "cfgLoad") /\ UNCHANGED <<flow, target, input, copy>>
    /\ UNCHANGED <<flowVars, cfg, synced>>

\* syncProviderAuthMethod: LoadConfig
CfgLoad(w) ==
    /\ pc[w] = "cfgLoad"
    /\ copy' = [copy EXCEPT ![w] = cfg]
    /\ Goto(w, "cfgSave")
    /\ UNCHANGED <<flowVars, file, cfg, flow, target, input, history>>

\* ... and SaveConfig, with the method set for the provider and its models
CfgSave(w) ==
    /\ pc[w] = "cfgSave"
    /\ cfg' = [copy[w] EXCEPT ![target[w]] = input[w]]
    /\ synced' = synced \cup ({flow[w]} \cap Flows)
    /\ IF flow[w] = NoFlow THEN Return(w)
       ELSE Goto(w, "end") /\ UNCHANGED <<flow, target, input, copy>>
    /\ UNCHANGED <<flowVars, file, want, saved>>

\* Mutant: what fails to be saved is only logged
FileFailsLogged(w) ==
    /\ CanFail
    /\ pc[w] \in {"load", "save", "cfgLoad", "cfgSave"}
    /\ IF flow[w] = NoFlow THEN Return(w)
       ELSE Goto(w, "end") /\ UNCHANGED <<flow, target, input, copy>>
    /\ UNCHANGED <<flowVars, file, cfg, history>>

\* A file cannot be read or written: the handler gives up.
FileFails(w) ==
    /\ CanFail
    /\ pc[w] \in {"load", "save", "cfgLoad", "cfgSave"}
    /\ IF flow[w] = NoFlow THEN Return(w)
       ELSE Goto(w, "fail") /\ UNCHANGED <<flow, target, input, copy>>
    /\ UNCHANGED <<flowVars, file, cfg, history>>

\* setOAuthFlowSuccess or setOAuthFlowError, unless the flow was dropped
SetFlow(w, outcome) ==
    LET f == flow[w] IN
    /\ f \in Flows
    /\ \/ /\ status[f] = "absent"
          /\ UNCHANGED <<status, index, old>>
       \/ /\ status[f] # "absent"
          /\ status' = [status EXCEPT ![f] = outcome]
          /\ index' = index \ {f}
          /\ old' = old \ {f}
    /\ IF method[f] = "browser" THEN Return(w)
       ELSE Goto(w, "answer") /\ UNCHANGED <<flow, target, input, copy>>
    /\ UNCHANGED <<method, provider, late, file, cfg, history>>

FlowSucceeds(w) == pc[w] = "end" /\ SetFlow(w, "success")
FlowFails(w) == pc[w] = "fail" /\ SetFlow(w, "error")

\* The answer to a poll: the flow as it is now
Answer(w) ==
    /\ pc[w] = "answer"
    /\ gc
    /\ Return(w)
    /\ UNCHANGED <<file, cfg, history>>

Next ==
    \/ \E f \in Flows : ExpiresAt(f)
    \/ \E f \in Flows : GrowsOld(f)
    \/ \E w \in Workers, p \in Providers : LoginToken(w, p)
    \/ \E f \in Flows : Login(f)
    \/ GetFlow
    \/ \E w \in Workers, f \in Flows : Callback(w, f)
    \/ \E w \in Workers, f \in Flows : Poll(w, f)
    \/ \E w \in Workers : ProviderAnswers(w)
    \/ \E w \in Workers : RefreshFails(w)
    \/ \E w \in Workers, p \in Providers : Logout(w, p)
    \/ \E w \in Workers, p \in Providers : Refresh(w, p)
    \/ \E w \in Workers : Load(w)
    \/ \E w \in Workers : Save(w)
    \/ \E w \in Workers : CfgLoad(w)
    \/ \E w \in Workers : CfgSave(w)
    \/ \E w \in Workers : FileFails(w)
    \/ \E w \in Workers : FlowSucceeds(w)
    \/ \E w \in Workers : FlowFails(w)
    \/ \E w \in Workers : Answer(w)

Spec == Init /\ [][Next]_vars

-----------------------------------------------------------------------------

\* oauthState leads exactly to the browser flows that are waiting for their
\* callback: an ended flow cannot be completed a second time by its state,
\* and no waiting flow is unreachable, however requests, expiry and
\* collection interleave.
IndexIsPending == index = {f \in Flows : status[f] = "pending" /\ method[f] = "browser"}

\* A flow that reports success has its credential written to auth.json and
\* its auth method to the configuration, whatever failed on the way.
SuccessMeansSaved == \A f \in Flows : status[f] = "success" => f \in saved \cap synced

\* Served one at a time, requests leave the outcome of a flow alone: success
\* and error are never replaced by another outcome.
OutcomeKept ==
    [][\A f \in Flows : status[f] \in {"success", "error"} => status'[f] \in {status[f], "absent"}]_vars

\* auth.json holds a credential for exactly the providers whose last completed
\* login or logout was a login (handleOAuthLogin, handleOAuthLogout,
\* SetCredential, DeleteCredential).
StoreAsAsked == \A p \in Providers : file[p] # "none" <=> want[p] = "in"

\* Between requests the configuration names an auth method for exactly the
\* providers that have a credential (syncProviderAuthMethod).
ConfigMatchesStore == (\A w \in Workers : pc[w] = "idle") => cfg = file

\* store_test.go: credentials of several providers are kept side by side.  A
\* login that was saved is not lost to work on another provider.
LoginKept == \A p \in Providers : want[p] = "in" => file[p] # "none"

\* oauth_test.go: "expected credential deleted" after a logout.
LogoutKept == \A p \in Providers : want[p] = "out" => file[p] = "none"
=============================================================================
