--------------------------- MODULE LauncherProofs ---------------------------
(***************************************************************************)
(* The web launcher, for any values of the constants: OAuth logins (any    *)
(* providers, flows, requests and refreshes), the gateway process (any     *)
(* number of processes, restarts and status requests) and its log (a ring  *)
(* of any size, any lines and runs), the skills (any calls that install    *)
(* and remove one, any searches), and at the end what the run of           *)
(* MCLauncher checks.  The proofs about the configuration file are in      *)
(* LauncherConfig.                                                         *)
(***************************************************************************)
EXTENDS MCLauncher, Sequences, FiniteSetTheorems, FunctionTheorems, TLAPS

-----------------------------------------------------------------------------
(* OAuthFlows                                                              *)

Statuses == {"absent", "pending"} \cup Ended

FlowsOK ==
    /\ status \in [Flows -> Statuses]
    /\ method \in [Flows -> {"browser", "device_code"}]
    /\ provider \in [Flows -> Providers]
    /\ index \subseteq Flows /\ late \subseteq Flows /\ old \subseteq Flows

Inv == FlowsOK /\ IndexIsPending

\* A look at the flows (gcOAuthFlowsLocked) keeps the invariant.
LEMMA CollectKeeps ==
    ASSUME Inv, gc
    PROVE  Inv'
<1>1. collected \in [Flows -> Statuses]
  BY DEF collected, Inv, FlowsOK, Statuses, Ended
<1>2. FlowsOK'
  BY <1>1 DEF gc, collectedIndex, Inv, FlowsOK
<1>3. ASSUME NEW f \in Flows
      PROVE  f \in collectedIndex <=> collected[f] = "pending" /\ method[f] = "browser"
  BY DEF collectedIndex, collected, Inv, FlowsOK, IndexIsPending, Ended
<1>4. IndexIsPending'
  BY <1>2, <1>3 DEF gc, IndexIsPending, FlowsOK
<1> QED
  BY <1>2, <1>4 DEF Inv

\* A new flow (storeOAuthFlow) is pending, and in the index if it has a state.
LEMMA LoginKeeps ==
    ASSUME Inv, NEW f \in Flows, Login(f)
    PROVE  Inv'
<1>1. collected \in [Flows -> Statuses]
  BY DEF collected, Inv, FlowsOK, Statuses, Ended
<1>2. FlowsOK'
  BY <1>1 DEF Login, collectedIndex, Inv, FlowsOK, Statuses
<1>3. ASSUME NEW g \in Flows
      PROVE  g \in collectedIndex <=> collected[g] = "pending" /\ method[g] = "browser"
  BY DEF collectedIndex, collected, Inv, FlowsOK, IndexIsPending, Ended
<1>4. collected[f] = "absent"
  BY DEF collected, Login, Ended
<1>5. ASSUME NEW g \in Flows
      PROVE  g \in index' <=> status'[g] = "pending" /\ method'[g] = "browser"
  BY <1>1, <1>3, <1>4 DEF Login
<1>6. IndexIsPending'
  BY <1>2, <1>5 DEF IndexIsPending, FlowsOK
<1> QED
  BY <1>2, <1>6 DEF Inv

\* The end of a flow (setOAuthFlowSuccess, setOAuthFlowError).
LEMMA OutcomeKeeps ==
    ASSUME Inv, NEW w \in Workers, NEW outcome \in Ended, SetFlow(w, outcome)
    PROVE  Inv'
<1>1. FlowsOK'
  BY DEF SetFlow, Inv, FlowsOK, Statuses
<1>2. ASSUME NEW g \in Flows
      PROVE  g \in index' <=> status'[g] = "pending" /\ method'[g] = "browser"
  BY DEF SetFlow, Inv, FlowsOK, IndexIsPending, Ended
<1>3. IndexIsPending'
  BY <1>1, <1>2 DEF IndexIsPending, FlowsOK
<1> QED
  BY <1>1, <1>3 DEF Inv

\* Steps that leave the flows alone.
LEMMA ElsewhereKeeps ==
    ASSUME Inv, FlowsOK', UNCHANGED <<status, method, index>>
    PROVE  Inv'
BY DEF Inv, FlowsOK, IndexIsPending


Places == {"idle", "exchange", "poll", "refresh", "load", "save",
           "cfgLoad", "cfgSave", "end", "fail", "answer"}

RequestsOK ==
    /\ pc \in [Workers -> Places]
    /\ flow \in [Workers -> Flows \cup {NoFlow}]
    /\ target \in [Workers -> Providers]
    /\ input \in [Workers -> Methods]
    /\ copy \in [Workers -> [Providers -> Methods]]

FilesOK ==
    /\ file \in [Providers -> Methods] /\ cfg \in [Providers -> Methods]
    /\ want \in [Providers -> {"in", "out"}]
    /\ saved \subseteq Flows /\ synced \subseteq Flows

\* A request that is past SaveStore has saved its flow, and one that is past
\* SaveConfig has synchronized it.
SavedSoFar ==
    \A w \in Workers : flow[w] \in Flows =>
        /\ pc[w] \in {"cfgLoad", "cfgSave", "end"} => flow[w] \in saved
        /\ pc[w] = "end" => flow[w] \in synced

Saving == SavedSoFar /\ SuccessMeansSaved

IInv == Inv /\ RequestsOK /\ FilesOK /\ Saving

LEMMA TypesAre == TypeOK <=> FlowsOK /\ RequestsOK /\ FilesOK
BY DEF TypeOK, FlowsOK, RequestsOK, FilesOK, Statuses, Places

LEMMA GotoOK ==
    ASSUME RequestsOK, NEW w \in Workers, NEW at \in Places,
           Goto(w, at), UNCHANGED <<flow, target, input, copy>>
    PROVE  RequestsOK'
BY DEF Goto, RequestsOK

LEMMA ReturnOK ==
    ASSUME RequestsOK, NEW w \in Workers, Return(w)
    PROVE  RequestsOK'
<1>1. NoCopy \in [Providers -> Methods] /\ "none" \in Methods /\ "idle" \in Places
  BY DEF NoCopy, Methods, Places
<1> QED
  BY <1>1 DEF Return, Goto, RequestsOK

LEMMA BeginOK ==
    ASSUME RequestsOK, NEW w \in Workers, NEW at \in Places, NEW f \in Flows \cup {NoFlow},
           NEW p \in Providers, NEW m \in Methods, Begin(w, at, f, p, m)
    PROVE  RequestsOK'
BY DEF Begin, Goto, RequestsOK

\* A request that goes on before SaveStore, fails or returns promises nothing.
LEMMA OneMoves ==
    ASSUME RequestsOK, Saving, NEW w \in Workers,
           \A x \in Workers : x # w => pc'[x] = pc[x] /\ flow'[x] = flow[x],
           pc'[w] \notin {"cfgLoad", "cfgSave", "end"},
           UNCHANGED <<status, saved, synced>>
    PROVE  Saving'
BY DEF Saving, SavedSoFar, SuccessMeansSaved, RequestsOK

\* A look at the flows makes no success.
LEMMA CollectSaves ==
    ASSUME Inv, Saving, gc, UNCHANGED <<saved, synced>>
    PROVE  SuccessMeansSaved'
BY DEF Inv, FlowsOK, Saving, SuccessMeansSaved, gc, collected

LEMMA CollectOK ==
    ASSUME Inv, gc
    PROVE  FlowsOK'
BY CollectKeeps DEF Inv

LEMMA InitIInv == Init => IInv
<1> SUFFICES ASSUME Init
             PROVE  IInv
  OBVIOUS
<1>1. Inv
  BY DEF Init, Inv, FlowsOK, IndexIsPending, Statuses
<1>2. NoCopy \in [Providers -> Methods]
  BY DEF NoCopy, Methods
<1>3. RequestsOK
  BY <1>2 DEF Init, RequestsOK, Places, Methods
<1>4. FilesOK
  BY DEF Init, FilesOK, Methods
<1>5. Saving
  BY DEF Init, Saving, SavedSoFar, SuccessMeansSaved
<1> QED
  BY <1>1, <1>3, <1>4, <1>5 DEF IInv

LEMMA TimeSteps ==
    ASSUME IInv, NEW f \in Flows, ExpiresAt(f) \/ GrowsOld(f)
    PROVE  IInv'
<1>1. FlowsOK'
  BY DEF ExpiresAt, GrowsOld, IInv, Inv, FlowsOK
<1>2. Inv'
  BY <1>1, ElsewhereKeeps DEF ExpiresAt, GrowsOld, IInv
<1>3. RequestsOK' /\ FilesOK' /\ Saving'
  BY DEF ExpiresAt, GrowsOld, reqVars, history, IInv, RequestsOK, FilesOK, Saving, SavedSoFar,
         SuccessMeansSaved
<1> QED
  BY <1>2, <1>3 DEF IInv

\* A flow that begins has its marks taken away; no request is about it.
LEMMA LoginStep ==
    ASSUME IInv, NEW f \in Flows, Login(f)
    PROVE  IInv'
<1>1. Inv'
  BY LoginKeeps DEF IInv
<1>2. RequestsOK' /\ FilesOK'
  BY DEF Login, reqVars, IInv, RequestsOK, FilesOK
<1>3. SavedSoFar'
  BY DEF Login, reqVars, IInv, Saving, SavedSoFar
<1>4. SuccessMeansSaved'
  BY DEF Login, IInv, Inv, FlowsOK, Saving, SuccessMeansSaved, collected
<1> QED
  BY <1>1, <1>2, <1>3, <1>4 DEF IInv, Saving

LEMMA GetFlowStep ==
    ASSUME IInv, GetFlow
    PROVE  IInv'
<1>1. Inv'
  BY CollectKeeps DEF IInv, GetFlow
<1>2. RequestsOK' /\ FilesOK' /\ SavedSoFar'
  BY DEF GetFlow, reqVars, history, IInv, RequestsOK, FilesOK, Saving, SavedSoFar
<1>3. SuccessMeansSaved'
  BY CollectSaves DEF IInv, GetFlow, history
<1> QED
  BY <1>1, <1>2, <1>3 DEF IInv, Saving

\* Requests that begin.
LEMMA BeginSteps ==
    ASSUME IInv, NEW w \in Workers, NEW p \in Providers,
           LoginToken(w, p) \/ Logout(w, p) \/ Refresh(w, p)
    PROVE  IInv'
<1>1. PICK at \in {"load", "refresh"}, m \in Methods : Begin(w, at, NoFlow, p, m)
  BY DEF LoginToken, Logout, Refresh, Methods
<1>2. RequestsOK'
  BY <1>1, BeginOK DEF IInv, Places
<1>3. UNCHANGED flowVars /\ UNCHANGED <<file, cfg, history>>
  BY DEF LoginToken, Logout, Refresh
<1>4. FlowsOK'
  BY <1>3 DEF IInv, Inv, FlowsOK, flowVars
<1>5. Inv'
  BY <1>3, <1>4, ElsewhereKeeps DEF IInv, flowVars
<1>6. FilesOK'
  BY <1>3 DEF IInv, FilesOK, history
<1>7. Saving'
  <2>1. pc'[w] = at /\ \A x \in Workers : x # w => pc'[x] = pc[x] /\ flow'[x] = flow[x]
    BY <1>1 DEF Begin, Goto, IInv, RequestsOK
  <2> QED
    BY <2>1, <1>3, OneMoves DEF IInv, flowVars, history
<1> QED
  BY <1>2, <1>5, <1>6, <1>7 DEF IInv

\* Callbacks and polls: they look at the flows, and may begin work for one.
LEMMA LookSteps ==
    ASSUME IInv, NEW w \in Workers, NEW f \in Flows, Callback(w, f) \/ Poll(w, f)
    PROVE  IInv'
<1>1. gc /\ UNCHANGED <<file, cfg, history>>
  BY DEF Callback, Poll
<1>2. Inv'
  BY <1>1, CollectKeeps DEF IInv
<1>3. FilesOK'
  BY <1>1 DEF IInv, FilesOK, history
<1>4. SuccessMeansSaved'
  BY <1>1, CollectSaves DEF IInv, history
<1>5. RequestsOK' /\ SavedSoFar'
  <2>1. CASE UNCHANGED reqVars
    BY <2>1, <1>1 DEF reqVars, history, IInv, RequestsOK, Saving, SavedSoFar
  <2>2. CASE \E at \in {"fail", "exchange", "poll"} : Begin(w, at, f, provider[f], "oauth")
    <3>1. PICK at \in {"fail", "exchange", "poll"} : Begin(w, at, f, provider[f], "oauth")
      BY <2>2
    <3>2. provider[f] \in Providers /\ "oauth" \in Methods
      BY DEF IInv, Inv, FlowsOK, Methods
    <3>3. RequestsOK'
      BY <3>1, <3>2, BeginOK DEF IInv, Places
    <3>4. pc'[w] = at /\ \A x \in Workers : x # w => pc'[x] = pc[x] /\ flow'[x] = flow[x]
      BY <3>1 DEF Begin, Goto, IInv, RequestsOK
    <3>5. SavedSoFar'
      BY <3>4, <1>1 DEF IInv, Saving, SavedSoFar, history
    <3> QED
      BY <3>3, <3>5
  <2> QED
    BY <2>1, <2>2 DEF Callback, Poll
<1> QED
  BY <1>2, <1>3, <1>4, <1>5 DEF IInv, Saving

\* What neither the provider's answer nor a failure changes.
LEMMA MoveSteps ==
    ASSUME IInv, NEW w \in Workers, ProviderAnswers(w) \/ RefreshFails(w) \/ Load(w) \/ FileFails(w)
    PROVE  IInv'
<1>1. UNCHANGED flowVars /\ UNCHANGED <<file, cfg, history>>
  BY DEF ProviderAnswers, RefreshFails, Load, FileFails
<1>2. FlowsOK'
  BY <1>1 DEF IInv, Inv, FlowsOK, flowVars
<1>3. Inv'
  BY <1>1, <1>2, ElsewhereKeeps DEF IInv, flowVars
<1>4. FilesOK'
  BY <1>1 DEF IInv, FilesOK, history
<1>5. RequestsOK'
  <2>1. CASE Load(w)
    BY <2>1 DEF Load, Goto, IInv, RequestsOK, FilesOK, Places
  <2>2. CASE Return(w)
    BY <2>2, ReturnOK DEF IInv
  <2>3. CASE \E at \in {"load", "fail", "answer"} : Goto(w, at) /\ UNCHANGED <<flow, target, input, copy>>
    BY <2>3, GotoOK DEF IInv, Places
  <2> QED
    BY <2>1, <2>2, <2>3 DEF ProviderAnswers, RefreshFails, FileFails
<1>6. Saving'
  <2>1. /\ pc'[w] \notin {"cfgLoad", "cfgSave", "end"}
        /\ \A x \in Workers : x # w => pc'[x] = pc[x] /\ flow'[x] = flow[x]
    BY DEF ProviderAnswers, RefreshFails, Load, FileFails, Return, Goto, IInv, RequestsOK
  <2> QED
    BY <2>1, <1>1, OneMoves DEF IInv, flowVars, history
<1> QED
  BY <1>3, <1>4, <1>5, <1>6 DEF IInv

\* The three steps that write, or have just read, a file on behalf of a flow.
LEMMA FileSteps ==
    ASSUME IInv, NEW w \in Workers, Save(w) \/ CfgLoad(w) \/ CfgSave(w)
    PROVE  IInv'
<1>1. UNCHANGED flowVars
  BY DEF Save, CfgLoad, CfgSave
<1>2. FlowsOK'
  BY <1>1 DEF IInv, Inv, FlowsOK, flowVars
<1>3. Inv'
  BY <1>1, <1>2, ElsewhereKeeps DEF IInv, flowVars
<1>4. FilesOK'
  <2>1. /\ copy[w] \in [Providers -> Methods] /\ target[w] \in Providers /\ input[w] \in Methods
        /\ FilesOK
    BY DEF IInv, RequestsOK
  <2>2. [copy[w] EXCEPT ![target[w]] = input[w]] \in [Providers -> Methods]
    BY <2>1
  <2>3. CASE Save(w)
    BY <2>1, <2>2, <2>3 DEF Save, FilesOK
  <2>4. CASE CfgLoad(w)
    BY <2>1, <2>4 DEF CfgLoad, FilesOK, history
  <2>5. CASE CfgSave(w)
    BY <2>1, <2>2, <2>5 DEF CfgSave, FilesOK
  <2> QED
    BY <2>3, <2>4, <2>5
<1>5. RequestsOK'
  <2>1. CASE CfgLoad(w)
    BY <2>1 DEF CfgLoad, Goto, IInv, RequestsOK, FilesOK, Places
  <2>2. CASE Return(w)
    BY <2>2, ReturnOK DEF IInv
  <2>3. CASE \E at \in {"cfgLoad", "end"} : Goto(w, at) /\ UNCHANGED <<flow, target, input, copy>>
    BY <2>3, GotoOK DEF IInv, Places
  <2> QED
    BY <2>1, <2>2, <2>3 DEF Save, CfgSave
<1>6. Saving'
  <2>1. /\ \A x \in Workers : x # w => pc'[x] = pc[x] /\ flow'[x] = flow[x]
        /\ saved \subseteq saved' /\ synced \subseteq synced' /\ status' = status
    BY DEF Save, CfgLoad, CfgSave, Return, Goto, IInv, RequestsOK, flowVars, history
  <2>2. CASE pc'[w] \notin {"cfgLoad", "cfgSave", "end"}
    BY <2>1, <2>2 DEF IInv, Saving, SavedSoFar, SuccessMeansSaved, RequestsOK
  <2>3. CASE Save(w) /\ pc'[w] \in {"cfgLoad", "cfgSave", "end"}
    <3>1. pc'[w] = "cfgLoad" /\ flow'[w] = flow[w] /\ (flow[w] \in Flows => flow[w] \in saved')
      BY <2>3 DEF Save, Return, Goto, IInv, RequestsOK
    <3> QED
      BY <3>1, <2>1 DEF IInv, Saving, SavedSoFar, SuccessMeansSaved
  <2>4. CASE CfgLoad(w)
    <3>1. pc[w] = "cfgLoad" /\ pc'[w] = "cfgSave" /\ flow'[w] = flow[w]
      BY <2>4 DEF CfgLoad, Goto, IInv, RequestsOK
    <3> QED
      BY <3>1, <2>1 DEF IInv, Saving, SavedSoFar, SuccessMeansSaved
  <2>5. CASE CfgSave(w) /\ pc'[w] \in {"cfgLoad", "cfgSave", "end"}
    <3>1. /\ pc[w] = "cfgSave" /\ pc'[w] = "end" /\ flow'[w] = flow[w]
          /\ flow[w] \in Flows => flow[w] \in synced'
      BY <2>5 DEF CfgSave, Return, Goto, IInv, RequestsOK
    <3> QED
      BY <3>1, <2>1 DEF IInv, Saving, SavedSoFar, SuccessMeansSaved
  <2> QED
    BY <2>2, <2>3, <2>4, <2>5
<1> QED
  BY <1>3, <1>4, <1>5, <1>6 DEF IInv

\* The end of a flow: success is only reported from "end".
LEMMA OutcomeSteps ==
    ASSUME IInv, NEW w \in Workers, FlowSucceeds(w) \/ FlowFails(w)
    PROVE  IInv'
<1>1. PICK outcome \in {"success", "error"} :
          SetFlow(w, outcome) /\ (outcome = "success" => pc[w] = "end")
  BY DEF FlowSucceeds, FlowFails
<1>2. Inv'
  BY <1>1, OutcomeKeeps DEF IInv, Ended
<1>3. FilesOK' /\ UNCHANGED history
  BY <1>1 DEF SetFlow, IInv, FilesOK, history
<1>4. RequestsOK'
  <2>1. CASE Return(w)
    BY <2>1, ReturnOK DEF IInv
  <2>2. CASE Goto(w, "answer") /\ UNCHANGED <<flow, target, input, copy>>
    BY <2>2, GotoOK DEF IInv, Places
  <2> QED
    BY <1>1, <2>1, <2>2 DEF SetFlow
<1>5. SavedSoFar'
  <2>1. /\ pc'[w] \notin {"cfgLoad", "cfgSave", "end"}
        /\ \A x \in Workers : x # w => pc'[x] = pc[x] /\ flow'[x] = flow[x]
    BY <1>1 DEF SetFlow, Return, Goto, IInv, RequestsOK
  <2> QED
    BY <2>1, <1>3 DEF IInv, Saving, SavedSoFar, history
<1>6. SuccessMeansSaved'
  BY <1>1, <1>3 DEF SetFlow, IInv, Inv, FlowsOK, Saving, SavedSoFar, SuccessMeansSaved, history
<1> QED
  BY <1>2, <1>3, <1>4, <1>5, <1>6 DEF IInv, Saving

LEMMA AnswerStep ==
    ASSUME IInv, NEW w \in Workers, Answer(w)
    PROVE  IInv'
<1>1. gc /\ Return(w) /\ UNCHANGED <<file, cfg, history>>
  BY DEF Answer
<1>2. Inv' /\ RequestsOK'
  BY <1>1, CollectKeeps, ReturnOK DEF IInv
<1>3. FilesOK'
  BY <1>1 DEF IInv, FilesOK, history
<1>4. SuccessMeansSaved'
  BY <1>1, CollectSaves DEF IInv, history
<1>5. /\ pc'[w] = "idle"
      /\ \A x \in Workers : x # w => pc'[x] = pc[x] /\ flow'[x] = flow[x]
  BY <1>1 DEF Return, Goto, IInv, RequestsOK
<1>6. SavedSoFar'
  BY <1>1, <1>5 DEF IInv, Saving, SavedSoFar, history
<1> QED
  BY <1>2, <1>3, <1>4, <1>6 DEF IInv, Saving

LEMMA NextIInv == IInv /\ [Next]_vars => IInv'
<1> SUFFICES ASSUME IInv, [Next]_vars
             PROVE  IInv'
  OBVIOUS
<1>1. CASE UNCHANGED vars
  BY <1>1 DEF vars, flowVars, reqVars, history, IInv, Inv, FlowsOK, IndexIsPending, RequestsOK, FilesOK,
              Saving, SavedSoFar, SuccessMeansSaved
<1>2. CASE Next
  BY <1>2, TimeSteps, LoginStep, GetFlowStep, BeginSteps, LookSteps, MoveSteps, FileSteps,
     OutcomeSteps, AnswerStep DEF Next
<1> QED
  BY <1>1, <1>2

\* The index of states and the map of flows agree in every reachable state: a
\* completed or expired flow cannot be reached through its state again.
THEOREM IndexAlwaysPending == Spec => []IndexIsPending
<1>1. IInv => IndexIsPending
  BY DEF IInv, Inv
<1> QED
  BY <1>1, InitIInv, NextIInv, PTL DEF Spec

\* A flow is reported as a success only after its credential and its auth method
\* were saved, whatever fails or overlaps.
THEOREM SuccessAlwaysSaved == Spec => [](TypeOK /\ SuccessMeansSaved)
<1>1. IInv => TypeOK /\ SuccessMeansSaved
  BY TypesAre DEF IInv, Inv, Saving
<1> QED
  BY <1>1, InitIInv, NextIInv, PTL DEF Spec

-----------------------------------------------------------------------------
(* LauncherGateway                                                         *)

ProcessOneUser == \A u, v \in {User} : u = v

\* A process that was not reaped is waited for.
ProcessWaiterOfProcess ==
    \A p \in Process!Procs : waiter[p] \in {"clean", "tell", "done"} => proc[p] = "reaped"

\* A restart's old process is the one in the record until its waiter clears it;
\* the new one is started when the old one is gone.
ProcessRestartKnows ==
    \A u \in {User} : user[u] # "idle" =>
        /\ cmd \in {0, previousCmd[u]}
        /\ previousCmd[u] # 0 => proc[previousCmd[u]] # "none"
        /\ user[u] = "start" => ~Process!Alive(previousCmd[u])

ProcessTypes ==
    /\ proc \in [Process!Procs -> {"none", "up", "serving", "exited", "reaped"}]
    /\ waiter \in [Process!Procs -> {"none", "wait", "clean", "tell", "done"}]
    /\ cmd \in 0..MaxProcs /\ (cmd # 0 => proc[cmd] # "none")

ProcessUserTypes ==
    /\ user \in [{User} -> {"idle", "stop", "term", "kill", "fail", "start"}]
    /\ previousCmd \in [{User} -> 0..MaxProcs] /\ restarts \in 0..MaxRestarts

ProcessOtherTypes ==
    /\ signaled \subseteq Process!Procs /\ killed \subseteq Process!Procs
    /\ prober \in [Process!Procs -> {"none", "probe", "healthy", "tell", "done"}]
    /\ poll \in [Polls -> {"idle", "dead", "probe", "ok", "bad", "unreached"}]
    /\ lastEvent \in Process!Statuses

ProcessStatusTypes ==
    /\ runtimeStatus \in Process!Statuses /\ expired \in BOOLEAN
    /\ expired => runtimeStatus \in {"starting", "restarting"}

ProcessOwned == Process!NoOrphan /\ ProcessWaiterOfProcess /\ ProcessRestartKnows

ProcessIInv == ProcessTypes /\ ProcessUserTypes /\ ProcessOtherTypes /\ ProcessStatusTypes /\ ProcessOwned

LEMMA ProcessTypesAre == Process!TypeOK <=> ProcessTypes /\ ProcessUserTypes /\ ProcessOtherTypes /\ ProcessStatusTypes
BY DEF Process!TypeOK, ProcessTypes, ProcessUserTypes, ProcessOtherTypes, ProcessStatusTypes

LEMMA ProcessInitIInv ==
    ASSUME Process!ConstantsAssumption, Process!Init
    PROVE  ProcessIInv
<1>1. ProcessTypes /\ ProcessUserTypes
  BY DEF Process!Init, ProcessTypes, ProcessUserTypes, Process!ConstantsAssumption
<1>2. ProcessOtherTypes /\ ProcessStatusTypes
  BY DEF Process!Init, ProcessOtherTypes, ProcessStatusTypes, Process!Statuses
<1>3. ProcessOwned
  BY DEF Process!Init, ProcessOwned, Process!NoOrphan, Process!Running,
       ProcessWaiterOfProcess, ProcessRestartKnows
<1> QED
  BY <1>1, <1>2, <1>3 DEF ProcessIInv

LEMMA ProcessStatusSet ==
    ASSUME NEW s \in Process!Statuses, Process!SetStatus(s)
    PROVE  ProcessStatusTypes'
BY DEF Process!SetStatus, ProcessStatusTypes

\* No process runs when the one in the record does not.
LEMMA ProcessNoneRuns ==
    ASSUME ProcessIInv, ~Process!Alive(cmd)
    PROVE  Process!Running = {}
BY DEF ProcessIInv, ProcessOwned, Process!NoOrphan, Process!Running, Process!Alive,
     Process!Procs, Process!ConstantsAssumption

LEMMA ProcessNoneRunsAtRestart ==
    ASSUME ProcessIInv, NEW u \in {User}, user[u] = "start"
    PROVE  ~Process!Alive(cmd)
BY DEF ProcessIInv, ProcessOwned, ProcessRestartKnows, Process!Alive

\* A process is started while none runs, by the one user.
LEMMA ProcessStartKeeps ==
    ASSUME Process!ConstantsAssumption, ProcessOneUser, ProcessIInv, NEW u \in {User}, NEW p \in Process!Procs, NEW s \in Process!Statuses,
           Process!startGateway(p, s), Process!Running = {}, user'[u] = "idle", ProcessUserTypes',
           UNCHANGED <<signaled, killed, poll>>
    PROVE  ProcessIInv'
<1>1. ProcessTypes'
  <2>1. p \in 0..MaxProcs
    BY DEF Process!Procs, Process!ConstantsAssumption
  <2> QED
    BY <2>1 DEF Process!startGateway, ProcessIInv, ProcessTypes
<1>2. ProcessOtherTypes'
  BY DEF Process!startGateway, ProcessIInv, ProcessOtherTypes
<1>3. ProcessStatusTypes'
  BY ProcessStatusSet DEF Process!startGateway
<1>4. Process!NoOrphan'
  BY DEF Process!startGateway, ProcessIInv, ProcessTypes, Process!NoOrphan, Process!Running
<1>5. ProcessWaiterOfProcess'
  BY DEF Process!startGateway, ProcessIInv, ProcessTypes, ProcessOwned,
       ProcessWaiterOfProcess
<1>6. ProcessRestartKnows'
  BY DEF ProcessOneUser, ProcessRestartKnows
<1> QED
  BY <1>1, <1>2, <1>3, <1>4, <1>5, <1>6 DEF ProcessIInv, ProcessOwned

\* The record is dropped while none runs.
LEMMA ProcessDropKeeps ==
    ASSUME Process!ConstantsAssumption, ProcessIInv, Process!Running = {}, cmd' = 0,
           ProcessUserTypes', \A u \in {User} : user'[u] = "idle" \/ user'[u] = user[u],
           UNCHANGED <<proc, signaled, killed, waiter, prober, previousCmd, poll, lastEvent>>, ProcessStatusTypes'
    PROVE  ProcessIInv'
<1>1. ProcessTypes' /\ ProcessOtherTypes'
  BY DEF ProcessIInv, ProcessTypes, ProcessOtherTypes, Process!ConstantsAssumption
<1>2. Process!NoOrphan' /\ ProcessWaiterOfProcess' /\ ProcessRestartKnows'
  BY DEF ProcessIInv, ProcessOwned, Process!NoOrphan, Process!Running,
       ProcessWaiterOfProcess, ProcessRestartKnows, Process!Alive
<1> QED
  BY <1>1, <1>2 DEF ProcessIInv, ProcessOwned

LEMMA ProcessUserSteps ==
    ASSUME Process!ConstantsAssumption, ProcessOneUser, ProcessIInv, NEW u \in {User}, Process!UserStep(u)
    PROVE  ProcessIInv'
<1>1. ASSUME NEW p \in Process!Procs, Process!handleGatewayStart(u, p)
      PROVE  ProcessIInv'
  <2>1. /\ Process!startGateway(p, "starting") /\ user[u] = "idle" /\ ~Process!Alive(cmd)
        /\ UNCHANGED <<signaled, killed, Process!userVars, poll>>
    BY <1>1 DEF Process!handleGatewayStart
  <2>2. ProcessUserTypes' /\ user'[u] = "idle"
    BY <2>1 DEF ProcessIInv, ProcessUserTypes, Process!userVars
  <2> QED
    BY <2>1, <2>2, ProcessNoneRuns, ProcessStartKeeps DEF Process!Statuses
<1>2. CASE Process!StartFails(u)
  <2>1. ProcessUserTypes' /\ user' = user
    BY <1>2 DEF Process!StartFails, ProcessIInv, ProcessUserTypes, Process!userVars
  <2>2. ProcessStatusTypes'
    BY <1>2, ProcessStatusSet DEF Process!StartFails, Process!Statuses
  <2> QED
    BY <1>2, <2>1, <2>2, ProcessNoneRuns, ProcessDropKeeps DEF Process!StartFails,
         Process!procVars, Process!userVars
<1>3. CASE Process!handleGatewayStop(u)
  <2>1. ProcessTypes' /\ ProcessUserTypes' /\ ProcessStatusTypes'
    BY <1>3 DEF Process!handleGatewayStop, ProcessIInv, ProcessTypes, ProcessUserTypes,
         ProcessStatusTypes, Process!gatewayVars, Process!userVars
  <2>2. ProcessOtherTypes'
    BY <1>3 DEF Process!handleGatewayStop, Process!Alive, ProcessIInv, ProcessOtherTypes,
         ProcessTypes, Process!Procs, Process!gatewayVars, Process!ConstantsAssumption
  <2>3. ProcessOwned'
    BY <1>3 DEF Process!handleGatewayStop, ProcessIInv, ProcessOwned, Process!NoOrphan,
         Process!Running, ProcessWaiterOfProcess, ProcessRestartKnows, Process!Alive,
                Process!gatewayVars, Process!userVars
  <2> QED
    BY <2>1, <2>2, <2>3 DEF ProcessIInv
<1>4. CASE Process!RestartBegins(u)
  <2>1. ProcessTypes' /\ ProcessOtherTypes'
    BY <1>4 DEF Process!RestartBegins, ProcessIInv, ProcessTypes, ProcessOtherTypes,
         Process!procVars, Process!Statuses
  <2>2. ProcessUserTypes'
    BY <1>4 DEF Process!RestartBegins, ProcessIInv, ProcessTypes, ProcessUserTypes,
         Process!ConstantsAssumption
  <2>3. ProcessStatusTypes'
    BY <1>4, ProcessStatusSet DEF Process!RestartBegins, Process!Statuses
  <2>4. Process!NoOrphan' /\ ProcessWaiterOfProcess'
    BY <1>4 DEF Process!RestartBegins, ProcessIInv, ProcessOwned, Process!NoOrphan,
         Process!Running, ProcessWaiterOfProcess, Process!procVars
  <2>5. ProcessRestartKnows'
    BY <1>4 DEF Process!RestartBegins, ProcessOneUser, ProcessIInv, ProcessTypes,
         ProcessUserTypes, ProcessRestartKnows, Process!procVars
  <2> QED
    BY <2>1, <2>2, <2>3, <2>4, <2>5 DEF ProcessIInv, ProcessOwned
<1> QED
  BY <1>1, <1>2, <1>3, <1>4 DEF Process!UserStep

LEMMA ProcessRestartSteps ==
    ASSUME Process!ConstantsAssumption, ProcessOneUser, ProcessIInv, NEW u \in {User}, Process!RestartStep(u)
    PROVE  ProcessIInv'
<1>1. CASE Process!RestartSeesExit(u) \/ Process!RestartSignals(u)
  <2>1. ProcessTypes' /\ ProcessStatusTypes'
    BY <1>1 DEF Process!RestartSeesExit, Process!RestartSignals, ProcessIInv,
         ProcessTypes, ProcessStatusTypes, Process!procVars, Process!gatewayVars
  <2>2. ProcessUserTypes'
    BY <1>1 DEF Process!RestartSeesExit, Process!RestartSignals, ProcessIInv,
         ProcessUserTypes
  <2>3. ProcessOtherTypes'
    <3>1. Process!Alive(previousCmd[u]) => previousCmd[u] \in Process!Procs
      BY DEF Process!Alive, ProcessIInv, ProcessUserTypes, Process!Procs,
           Process!ConstantsAssumption
    <3> QED
      BY <1>1, <3>1 DEF Process!RestartSeesExit, Process!RestartSignals, ProcessIInv,
           ProcessOtherTypes, Process!procVars
  <2>4. Process!NoOrphan' /\ ProcessWaiterOfProcess'
    BY <1>1 DEF Process!RestartSeesExit, Process!RestartSignals, ProcessIInv,
         ProcessOwned, Process!NoOrphan, Process!Running, ProcessWaiterOfProcess,
         Process!procVars,
                Process!gatewayVars
  <2>5. ProcessRestartKnows'
    BY <1>1 DEF Process!RestartSeesExit, Process!RestartSignals, ProcessIInv,
         ProcessUserTypes, ProcessOwned, ProcessRestartKnows, Process!Alive, Process!procVars,
                Process!gatewayVars
  <2> QED
    BY <2>1, <2>2, <2>3, <2>4, <2>5 DEF ProcessIInv, ProcessOwned
<1>2. CASE Process!RestartFails(u)
  <2>1. ProcessUserTypes' /\ \A v \in {User} : user'[v] = "idle" \/ user'[v] = user[v]
    BY <1>2 DEF Process!RestartFails, ProcessIInv, ProcessUserTypes
  <2>2. CASE ~Process!Alive(cmd) /\ Process!SetStatus("error") /\ cmd' = 0
    BY <1>2, <2>1, <2>2, ProcessNoneRuns, ProcessStatusSet, ProcessDropKeeps
         DEF Process!RestartFails, Process!procVars, Process!Statuses
  <2>3. CASE cmd' = cmd /\ ProcessStatusTypes'
    <3>1. ProcessTypes' /\ ProcessOtherTypes'
      BY <1>2, <2>3 DEF Process!RestartFails, ProcessIInv, ProcessTypes,
           ProcessOtherTypes, Process!procVars
    <3>2. Process!NoOrphan' /\ ProcessWaiterOfProcess'
      BY <1>2, <2>3 DEF Process!RestartFails, ProcessIInv, ProcessOwned, Process!NoOrphan,
           Process!Running, ProcessWaiterOfProcess, Process!procVars
    <3>3. ProcessRestartKnows'
      BY <1>2, <2>1, <2>3 DEF Process!RestartFails, ProcessIInv, ProcessOwned,
           ProcessRestartKnows, Process!Alive, Process!procVars
    <3> QED
      BY <2>1, <2>3, <3>1, <3>2, <3>3 DEF ProcessIInv, ProcessOwned
  <2>4. CASE Process!SetStatus("running") /\ cmd' = cmd
    BY <2>3, <2>4, ProcessStatusSet DEF Process!Statuses
  <2>5. CASE UNCHANGED Process!gatewayVars
    BY <2>3, <2>5 DEF ProcessIInv, ProcessStatusTypes, Process!gatewayVars
  <2> QED
    BY <1>2, <2>2, <2>4, <2>5 DEF Process!RestartFails
<1>3. ASSUME NEW p \in Process!Procs, Process!RestartStarts(u, p)
      PROVE  ProcessIInv'
  <2>1. Process!startGateway(p, "restarting") /\ user[u] = "start" /\ user'[u] = "idle" /\ ProcessUserTypes'
    BY <1>3 DEF Process!RestartStarts, ProcessIInv, ProcessUserTypes
  <2>2. Process!Running = {}
    BY <2>1, ProcessNoneRunsAtRestart, ProcessNoneRuns
  <2> QED
    BY <1>3, <2>1, <2>2, ProcessStartKeeps DEF Process!RestartStarts, Process!Statuses
<1>4. CASE Process!RestartCannotStart(u)
  <2>1. ProcessUserTypes' /\ \A v \in {User} : user'[v] = "idle" \/ user'[v] = user[v]
    BY <1>4 DEF Process!RestartCannotStart, ProcessIInv, ProcessUserTypes
  <2>2. Process!Running = {}
    BY <1>4, ProcessNoneRunsAtRestart, ProcessNoneRuns DEF Process!RestartCannotStart
  <2> QED
    BY <1>4, <2>1, <2>2, ProcessStatusSet, ProcessDropKeeps
         DEF Process!RestartCannotStart, Process!procVars, Process!Statuses
<1> QED
  BY <1>1, <1>2, <1>3, <1>4 DEF Process!RestartStep

\* Serving, exiting and being reaped end nobody's ownership.
LEMMA ProcessLifeSteps ==
    ASSUME ProcessIInv, NEW p \in Process!Procs, Process!Serve(p) \/ Process!Exit(p) \/ Process!Reap(p)
    PROVE  ProcessIInv'
<1>1. /\ proc[p] \in {"up", "serving", "exited"}
      /\ UNCHANGED <<signaled, killed, Process!gatewayVars, prober, Process!userVars, poll, lastEvent>>
  BY DEF Process!Serve, Process!Exit, Process!Reap, Process!Running
<1>2. PICK s \in {"serving", "exited", "reaped"} :
          /\ proc' = [proc EXCEPT ![p] = s]
          /\ waiter' = IF s = "reaped" THEN [waiter EXCEPT ![p] = "clean"] ELSE waiter
          /\ s = "serving" \/ s = "exited" => p \in Process!Running
  <2>1. CASE Process!Serve(p)
    BY <2>1 DEF Process!Serve, Process!Running
  <2>2. CASE Process!Exit(p)
    BY <2>2 DEF Process!Exit
  <2>3. CASE Process!Reap(p)
    BY <2>3 DEF Process!Reap
  <2> QED
    BY <2>1, <2>2, <2>3
<1>3. ProcessTypes'
  BY <1>1, <1>2 DEF ProcessIInv, ProcessTypes, Process!gatewayVars
<1>4. ProcessUserTypes' /\ ProcessOtherTypes' /\ ProcessStatusTypes'
  BY <1>1 DEF ProcessIInv, ProcessUserTypes, ProcessOtherTypes, ProcessStatusTypes,
       Process!gatewayVars, Process!userVars
<1>5. Process!NoOrphan'
  BY <1>1, <1>2 DEF ProcessIInv, ProcessTypes, ProcessOwned, Process!NoOrphan,
       Process!Running, Process!gatewayVars
<1>6. ProcessWaiterOfProcess'
  BY <1>1, <1>2 DEF ProcessIInv, ProcessTypes, ProcessOwned, ProcessWaiterOfProcess
<1>7. ProcessRestartKnows'
  <2> SUFFICES ASSUME NEW u \in {User}, user[u] # "idle"
               PROVE  /\ cmd \in {0, previousCmd[u]}
                      /\ previousCmd[u] # 0 => proc'[previousCmd[u]] # "none"
                      /\ user[u] = "start" => ~(previousCmd[u] # 0 /\ proc'[previousCmd[u]] \in {"up", "serving", "exited"})
    BY <1>1 DEF ProcessRestartKnows, Process!Alive, Process!gatewayVars, Process!userVars
  <2>1. /\ cmd \in {0, previousCmd[u]}
        /\ previousCmd[u] # 0 => proc[previousCmd[u]] # "none"
        /\ user[u] = "start" => ~(previousCmd[u] # 0 /\ proc[previousCmd[u]] \in {"up", "serving", "exited"})
    BY DEF ProcessIInv, ProcessOwned, ProcessRestartKnows, Process!Alive
  <2>2. proc'[previousCmd[u]] = IF previousCmd[u] = p THEN s ELSE proc[previousCmd[u]]
    BY <1>2 DEF ProcessIInv, ProcessTypes
  <2> QED
    BY <1>1, <2>1, <2>2
<1> QED
  BY <1>3, <1>4, <1>5, <1>6, <1>7 DEF ProcessIInv, ProcessOwned

LEMMA ProcessGoroutineSteps ==
    ASSUME Process!ConstantsAssumption, ProcessIInv, NEW p \in Process!Procs,
           Process!WaiterCleans(p) \/ Process!WaiterTells(p) \/ Process!Probe(p) \/ Process!ProberSets(p) \/ Process!ProberTells(p)
    PROVE  ProcessIInv'
<1>1. ProcessUserTypes'
  BY DEF Process!WaiterCleans, Process!WaiterTells, Process!Probe, Process!ProberSets,
       Process!ProberTells, ProcessIInv, ProcessUserTypes, Process!userVars
<1>2. ProcessOtherTypes'
  BY DEF Process!WaiterCleans, Process!WaiterTells, Process!Probe, Process!ProberSets,
       Process!ProberTells, ProcessIInv, ProcessOtherTypes, Process!procVars, Process!Statuses
<1>3. ProcessStatusTypes'
  BY ProcessStatusSet DEF Process!WaiterCleans, Process!WaiterTells, Process!Probe,
       Process!ProberSets, Process!ProberTells, ProcessIInv, ProcessStatusTypes,
       Process!gatewayVars,
                          Process!Statuses
<1>4. /\ proc' = proc
      /\ cmd' = cmd \/ (cmd' = 0 /\ cmd = p /\ waiter[p] = "clean")
      /\ UNCHANGED <<user, previousCmd>>
      /\ \/ waiter' = waiter
         \/ waiter[p] \in {"clean", "tell"} /\ \E s \in {"tell", "done"} : waiter' = [waiter EXCEPT ![p] = s]
  <2>1. CASE Process!WaiterCleans(p)
    BY <2>1 DEF Process!WaiterCleans, Process!procVars, Process!userVars,
         Process!gatewayVars
  <2>2. CASE Process!WaiterTells(p)
    BY <2>2 DEF Process!WaiterTells, Process!procVars, Process!userVars, Process!gatewayVars
  <2>3. CASE Process!Probe(p) \/ Process!ProberSets(p) \/ Process!ProberTells(p)
    BY <2>3 DEF Process!Probe, Process!ProberSets, Process!ProberTells, Process!procVars,
         Process!userVars, Process!gatewayVars
  <2> QED
    BY <2>1, <2>2, <2>3
<1>5. ProcessTypes'
  BY <1>4 DEF ProcessIInv, ProcessTypes, Process!ConstantsAssumption
<1>6. Process!NoOrphan'
  BY <1>4 DEF ProcessIInv, ProcessTypes, ProcessOwned, Process!NoOrphan, Process!Running,
       ProcessWaiterOfProcess
<1>7. ProcessWaiterOfProcess'
  BY <1>4 DEF ProcessIInv, ProcessTypes, ProcessOwned, ProcessWaiterOfProcess
<1>8. ProcessRestartKnows'
  BY <1>4 DEF ProcessIInv, ProcessOwned, ProcessRestartKnows, Process!Alive
<1> QED
  BY <1>1, <1>2, <1>3, <1>5, <1>6, <1>7, <1>8 DEF ProcessIInv, ProcessOwned

LEMMA ProcessPollSteps ==
    ASSUME ProcessIInv, Process!Expire \/ \E q \in Polls : Process!PollStep(q)
    PROVE  ProcessIInv'
<1>1. ProcessOtherTypes'
  BY DEF Process!Expire, Process!PollStep, Process!PollBegins, Process!PollProbes,
       Process!PollEnds, ProcessIInv, ProcessOtherTypes, Process!procVars
<1>2. ProcessStatusTypes'
  BY ProcessStatusSet DEF Process!Expire, Process!PollStep, Process!PollBegins,
       Process!PollProbes, Process!PollEnds, ProcessIInv, ProcessStatusTypes,
       Process!gatewayVars, Process!Statuses
<1>3. UNCHANGED <<proc, cmd, waiter, user, previousCmd, restarts>>
  BY DEF Process!Expire, Process!PollStep, Process!PollBegins, Process!PollProbes,
       Process!PollEnds, Process!procVars, Process!gatewayVars, Process!userVars
<1>4. ProcessTypes' /\ ProcessUserTypes'
  BY <1>3 DEF ProcessIInv, ProcessTypes, ProcessUserTypes
<1>5. ProcessOwned'
  BY <1>3 DEF ProcessIInv, ProcessOwned, Process!NoOrphan, Process!Running,
       ProcessWaiterOfProcess, ProcessRestartKnows, Process!Alive
<1> QED
  BY <1>1, <1>2, <1>4, <1>5 DEF ProcessIInv

LEMMA ProcessNextIInv ==
    ASSUME Process!ConstantsAssumption, ProcessOneUser, ProcessIInv, [Process!Next]_(Process!vars)
    PROVE  ProcessIInv'
<1>1. CASE UNCHANGED Process!vars
  BY <1>1 DEF Process!vars, Process!procVars, Process!gatewayVars, Process!userVars,
       ProcessIInv, ProcessTypes, ProcessUserTypes, ProcessOtherTypes, ProcessStatusTypes,
              ProcessOwned, Process!NoOrphan, Process!Running, ProcessWaiterOfProcess, ProcessRestartKnows, Process!Alive
<1>2. CASE Process!Next
  BY <1>2, ProcessUserSteps, ProcessRestartSteps, ProcessLifeSteps, ProcessGoroutineSteps,
       ProcessPollSteps DEF Process!Next, Process!ProcStep
<1> QED
  BY <1>1, <1>2

\* One user who waits for each answer never loses a gateway that runs.
THEOREM ProcessNeverOrphaned ==
    ASSUME Process!ConstantsAssumption, ProcessOneUser
    PROVE  Process!Spec => [](Process!TypeOK /\ Process!NoOrphan)
<1>1. Process!Init => ProcessIInv
  BY ProcessInitIInv
<1>2. ProcessIInv /\ [Process!Next]_(Process!vars) => ProcessIInv'
  BY ProcessNextIInv
<1>3. ProcessIInv => Process!TypeOK /\ Process!NoOrphan
  BY ProcessTypesAre DEF ProcessIInv, ProcessOwned
<1> QED
  BY <1>1, <1>2, <1>3, PTL DEF Process!Spec

-----------------------------------------------------------------------------
(* LogBuffer                                                               *)

\* Facts about % that are needed for a ring of any size.
LEMMA LogDivMod ==
    ASSUME NEW a \in Nat, NEW c \in Nat \ {0}
    PROVE  a % c \in 0..(c - 1) /\ a \div c \in Nat /\ a = c * (a \div c) + (a % c)
OBVIOUS

LEMMA LogRemainderUnique ==
    ASSUME NEW c \in Nat \ {0}, NEW q \in Nat, NEW s \in Nat, NEW r \in 0..(c - 1), NEW t \in 0..(c - 1),
           c * q + r = c * s + t
    PROVE  r = t
<1>1. CASE q > s
  <2>1. c * q >= c * (s + 1)
    BY <1>1
  <2>2. c * (s + 1) = c * s + c
    OBVIOUS
  <2> QED
    BY <2>1, <2>2
<1>2. CASE q < s
  <2>1. c * s >= c * (q + 1)
    BY <1>2
  <2>2. c * (q + 1) = c * q + c
    OBVIOUS
  <2> QED
    BY <2>1, <2>2
<1>3. CASE q = s
  BY <1>3
<1> QED
  BY <1>1, <1>2, <1>3

LEMMA LogModSum ==
    ASSUME NEW a \in Nat, NEW b \in Nat, NEW c \in Nat \ {0}
    PROVE  ((a % c) + b) % c = (a + b) % c
<1> DEFINE u == (a % c) + b
<1>1. a % c \in Nat /\ u \in Nat /\ a + b \in Nat
  BY LogDivMod
<1>2. PICK q \in Nat : a = c * q + (a % c)
  BY LogDivMod
<1>3. PICK s \in Nat : u = c * s + (u % c)
  BY <1>1, LogDivMod
<1>4. PICK t \in Nat : a + b = c * t + ((a + b) % c)
  BY <1>1, LogDivMod
<1>5. u % c \in 0..(c - 1) /\ (a + b) % c \in 0..(c - 1)
  BY <1>1, LogDivMod
<1>6. a + b = c * q + u
  BY <1>1, <1>2
<1>7. c * q + c * s = c * (q + s)
  OBVIOUS
<1> HIDE DEF u
<1>8. c * q \in Nat /\ c * s \in Nat /\ c * (q + s) \in Nat /\ u % c \in Nat
  BY <1>5
<1>9. c * (q + s) + (u % c) = c * t + ((a + b) % c)
  BY <1>3, <1>4, <1>6, <1>7, <1>8
<1> DEFINE m == q + s
           r == u % c
           v == (a + b) % c
<1>10. m \in Nat /\ r \in 0..(c - 1) /\ v \in 0..(c - 1) /\ c * m + r = c * t + v
  BY <1>5, <1>9
<1> HIDE DEF m, r, v
<1>11. r = v
  BY <1>10, LogRemainderUnique
<1> QED
  BY <1>11 DEF r, v, u

LEMMA LogModApart ==
    ASSUME NEW a \in Nat, NEW b \in Nat, NEW c \in Nat \ {0}, a < b, b < a + c
    PROVE  a % c # b % c
<1> SUFFICES ASSUME a % c = b % c
             PROVE  FALSE
  OBVIOUS
<1>1. PICK q \in Nat : a = c * q + (a % c)
  BY LogDivMod
<1>2. PICK s \in Nat : b = c * s + (b % c)
  BY LogDivMod
<1>3. a % c \in Nat /\ c * q \in Nat /\ c * s \in Nat
  BY LogDivMod
<1>4. c * q < c * s /\ c * s < c * q + c
  BY <1>1, <1>2, <1>3
<1>5. CASE s <= q
  <2>1. c * s <= c * q
    BY <1>5
  <2> QED
    BY <1>3, <1>4, <2>1
<1>6. CASE s >= q + 1
  <2>1. c * s >= c * (q + 1)
    BY <1>6
  <2>2. c * (q + 1) = c * q + c
    OBVIOUS
  <2> QED
    BY <1>3, <1>4, <2>1, <2>2
<1> QED
  BY <1>5, <1>6

LEMMA LogModSmall ==
    ASSUME NEW a \in Nat, NEW c \in Nat \ {0}, a < c
    PROVE  a % c = a
OBVIOUS

\* Sequences.
LEMMA LogSubSeqIs ==
    ASSUME NEW S, NEW q \in Seq(S), NEW a \in Nat \ {0}, NEW b \in Nat, a <= b + 1, b <= Len(q)
    PROVE  /\ SubSeq(q, a, b) \in Seq(S) /\ Len(SubSeq(q, a, b)) = b + 1 - a
           /\ \A i \in 1..(b + 1 - a) : SubSeq(q, a, b)[i] = q[a + i - 1]
OBVIOUS

LEMMA LogAppendIs ==
    ASSUME NEW S, NEW q \in Seq(S), NEW e \in S
    PROVE  /\ Append(q, e) \in Seq(S) /\ Len(Append(q, e)) = Len(q) + 1
           /\ \A i \in 1..Len(q) : Append(q, e)[i] = q[i]
           /\ Append(q, e)[Len(q) + 1] = e
OBVIOUS

LEMMA LogReplaceIs ==
    ASSUME NEW S, NEW q \in Seq(S), NEW e \in S, NEW k \in 1..Len(q)
    PROVE  /\ [q EXCEPT ![k] = e] \in Seq(S) /\ Len([q EXCEPT ![k] = e]) = Len(q)
           /\ \A i \in 1..Len(q) : [q EXCEPT ![k] = e][i] = IF i = k THEN e ELSE q[i]
OBVIOUS

LEMMA LogConcatIs ==
    ASSUME NEW S, NEW q \in Seq(S), NEW r \in Seq(S)
    PROVE  /\ q \o r \in Seq(S) /\ Len(q \o r) = Len(q) + Len(r)
           /\ \A i \in 1..Len(q) : (q \o r)[i] = q[i]
           /\ \A i \in (Len(q) + 1)..(Len(q) + Len(r)) : (q \o r)[i] = r[i - Len(q)]
OBVIOUS

LEMMA LogFitsMore ==
    ASSUME NEW w \in Nat, NEW q \in Seq(1..w)
    PROVE  q \in Seq(1..(w + 1)) /\ \A i \in 1..Len(q) : q[i] \in 1..w
<1>1. \A i \in 1..Len(q) : q[i] \in 1..w /\ q[i] \in 1..(w + 1)
  OBVIOUS
<1> QED
  BY <1>1

-----------------------------------------------------------------------------

\* log holds the lines of the run in the order of their writing.
LogOrdered ==
    /\ Len(log) = total /\ total <= written
    /\ \A i, j \in 1..total : i < j => log[i] < log[j]

\* The k-th line of the run, from 0, is in its slot until it is overwritten.
LogRingRight ==
    /\ Len(lines) = IF total < cap THEN total ELSE cap
    /\ \A k \in 0..(total - 1) : total <= k + cap => lines[(k % cap) + 1] = log[k + 1]

\* A browser that knows the run has shown lines up to its offset, and reads on
\* from there.
LogClientKnows ==
    /\ clientRun <= runID
    /\ clientRun = runID =>
          /\ offset <= total
          /\ \A i \in DOMAIN seen : offset >= 1 /\ seen[i] <= log[offset]
          /\ logPc = "read" => from = offset

LogIInv == Log!TypeOK /\ LogOrdered /\ LogRingRight /\ LogClientKnows /\ Log!ShownInOrder

LEMMA LogInitIInv == ASSUME Log!ConstantsAssumption, Log!Init PROVE LogIInv
<1>1. Log!TypeOK
  BY DEF Log!Init, Log!TypeOK, Log!ConstantsAssumption
<1>2. LogOrdered /\ LogRingRight /\ LogClientKnows /\ Log!ShownInOrder
  BY DEF Log!Init, LogOrdered, LogRingRight, LogClientKnows, Log!ShownInOrder,
       Log!ConstantsAssumption
<1> QED
  BY <1>1, <1>2 DEF LogIInv

\* What a request for k returns: the newest lines after k that are still there.
LogNewCount(k) ==
    IF k >= total THEN 0
    ELSE IF total - k > Len(lines) THEN Len(lines) ELSE total - k

LEMMA LogLinesSinceIs ==
    ASSUME Log!ConstantsAssumption, LogIInv, NEW k \in Nat
    PROVE  /\ LogNewCount(k) \in 0..total /\ (k <= total => k <= total - LogNewCount(k))
           /\ Log!LinesSince(k) \in Seq(1..written)
           /\ Len(Log!LinesSince(k)) = LogNewCount(k)
           /\ \A i \in 1..LogNewCount(k) : Log!LinesSince(k)[i] = log[total - LogNewCount(k) + i]
<1> DEFINE n == LogNewCount(k)
<1>1. /\ lines \in Seq(1..written) /\ Len(lines) \in Nat /\ log \in Seq(1..written)
      /\ total \in Nat /\ cap \in Nat \ {0} /\ written \in Nat
      /\ Len(lines) = IF total < cap THEN total ELSE cap
      /\ Len(log) = total
  BY DEF LogIInv, Log!TypeOK, LogRingRight, LogOrdered, Log!ConstantsAssumption
<1>2. n \in 0..total /\ (k <= total => k <= total - n) /\ n <= Len(lines)
  BY <1>1 DEF LogNewCount
<1>3. CASE k >= total
  BY <1>1, <1>3 DEF LogNewCount, Log!LinesSince
<1>4. CASE ~(k >= total) /\ total <= cap
  <2>1. Log!LinesSince(k) = SubSeq(lines, Len(lines) - n + 1, Len(lines))
    BY <1>1, <1>4 DEF LogNewCount, Log!LinesSince
  <2>2. Len(lines) = total
    BY <1>1, <1>4
  <2>3. n = total - k
    BY <1>1, <1>4, <2>2 DEF LogNewCount
  <2> HIDE DEF n
  <2>4. /\ Log!LinesSince(k) \in Seq(1..written) /\ Len(Log!LinesSince(k)) = n
        /\ \A i \in 1..n : Log!LinesSince(k)[i] = lines[total - n + i]
    <3>1. PICK a \in Nat : a = total - n + 1
      BY <1>1, <1>2, <2>2
    <3>2. a \in Nat \ {0} /\ a <= total + 1 /\ total \in Nat /\ total <= Len(lines)
          /\ total + 1 - a = n /\ n \in Nat
      BY <1>1, <1>2, <2>2, <3>1
    <3>3. PICK S : S = 1..written
      OBVIOUS
    <3>4. lines \in Seq(S)
      BY <1>1, <3>3
    <3>5. Log!LinesSince(k) = SubSeq(lines, a, total)
      BY <2>1, <2>2, <3>1
    <3>6. /\ Log!LinesSince(k) \in Seq(S) /\ Len(Log!LinesSince(k)) = n
          /\ \A i \in 1..n : Log!LinesSince(k)[i] = lines[a + i - 1]
      BY <3>2, <3>4, <3>5, LogSubSeqIs
    <3>7. \A i \in 1..n : a + i - 1 = total - n + i
      BY <3>1, <3>2
    <3> QED
      BY <3>3, <3>6, <3>7
  <2>5. ASSUME NEW i \in 1..n
        PROVE  lines[total - n + i] = log[total - n + i]
    <3>1. total - n + i - 1 \in 0..(total - 1) /\ total - n + i - 1 < cap /\ total - n + i - 1 \in Nat
      BY <1>1, <1>2, <1>4
    <3>2. (total - n + i - 1) % cap = total - n + i - 1
      BY <1>1, <3>1, LogModSmall
    <3>3. lines[((total - n + i - 1) % cap) + 1] = log[(total - n + i - 1) + 1]
      BY <1>1, <1>4, <3>1, SMTT(30) DEF LogIInv, LogRingRight
    <3>4. (total - n + i - 1) + 1 = total - n + i
      BY <1>1, <1>2
    <3> QED
      BY <3>2, <3>3, <3>4
  <2> QED
    BY <1>2, <2>4, <2>5 DEF n
<1>5. CASE ~(k >= total) /\ ~(total <= cap)
  <2> DEFINE start == (total - n) % cap
  <2>1. Log!LinesSince(k) = [i \in 1..n |-> lines[((start + i - 1) % cap) + 1]]
    BY <1>1, <1>5 DEF LogNewCount, Log!LinesSince
  <2> HIDE DEF n
  <2>2. ASSUME NEW i \in 1..n
        PROVE  lines[((start + i - 1) % cap) + 1] = log[total - n + i] /\ log[total - n + i] \in 1..written
    <3>1. total - n \in Nat /\ i - 1 \in Nat /\ total - n + i - 1 \in 0..(total - 1)
          /\ total <= (total - n + i - 1) + cap
      BY <1>1, <1>2, <1>5
    <3>2. (start + (i - 1)) % cap = ((total - n) + (i - 1)) % cap
      BY <1>1, <3>1, LogModSum, ZenonT(60)
    <3>3. start + i - 1 = start + (i - 1) /\ (total - n) + (i - 1) = total - n + i - 1
      BY <1>1, <1>2, <3>1, LogDivMod
    <3>4. lines[((total - n + i - 1) % cap) + 1] = log[(total - n + i - 1) + 1]
      BY <3>1 DEF LogIInv, LogRingRight
    <3>5. (total - n + i - 1) + 1 = total - n + i /\ total - n + i \in 1..total
      BY <1>1, <1>2
    <3> QED
      BY <1>1, <3>2, <3>3, <3>4, <3>5
  <2> HIDE DEF start
  <2>3. Log!LinesSince(k) = [i \in 1..n |-> log[total - n + i]]
    BY <2>1, <2>2
  <2>4. /\ Log!LinesSince(k) \in Seq(1..written) /\ Len(Log!LinesSince(k)) = n
        /\ \A i \in 1..n : Log!LinesSince(k)[i] = log[total - n + i]
    BY <1>2, <2>2, <2>3
  <2> QED
    BY <1>2, <2>4 DEF n
<1> QED
  BY <1>3, <1>4, <1>5

\* Those are the lines that the run still has after k.
LEMMA LogRightLines ==
    ASSUME Log!ConstantsAssumption, LogIInv
    PROVE  Log!LinesSinceRight
<1> SUFFICES ASSUME NEW k \in 0..(total + 1)
             PROVE  Log!LinesSince(k) = Log!Last(Log!Last(log, cap), IF k >= total THEN 0 ELSE total - k)
  BY DEF Log!LinesSinceRight
<1>1. /\ lines \in Seq(1..written) /\ log \in Seq(1..written)
      /\ total \in Nat /\ cap \in Nat \ {0} /\ written \in Nat
      /\ Len(lines) = IF total < cap THEN total ELSE cap
      /\ Len(log) = total /\ k \in Nat
  BY DEF LogIInv, Log!TypeOK, LogRingRight, LogOrdered, Log!ConstantsAssumption
<1> DEFINE n == LogNewCount(k)
           m == IF k >= total THEN 0 ELSE total - k
           kept == IF total < cap THEN total ELSE cap
           whole == Log!Last(log, cap)
<1>2. /\ n \in 0..total
      /\ Log!LinesSince(k) \in Seq(1..written) /\ Len(Log!LinesSince(k)) = n
      /\ \A i \in 1..n : Log!LinesSince(k)[i] = log[total - n + i]
  BY <1>1, LogLinesSinceIs
<1>3. n = IF m >= kept THEN kept ELSE m
  BY <1>1 DEF LogNewCount
<1>4. m \in Nat /\ kept \in 0..total
  BY <1>1
<1>5. whole = SubSeq(log, total - kept + 1, total)
  <2>1. CASE cap >= total
    <3>1. kept = total /\ total - kept + 1 = 1
      BY <1>1, <2>1
    <3> HIDE DEF kept
    <3> QED
      BY <1>1, <2>1, <3>1 DEF Log!Last
  <2>2. CASE ~(cap >= total)
    <3>1. kept = cap
      BY <1>1, <2>2
    <3> HIDE DEF kept
    <3> QED
      BY <1>1, <2>2, <3>1 DEF Log!Last
  <2> QED
    BY <2>1, <2>2
<1> HIDE DEF n, m, kept, whole
<1>6. /\ whole \in Seq(1..written) /\ Len(whole) = kept
      /\ \A i \in 1..kept : whole[i] = log[total - kept + i]
  <2>1. /\ total - kept + 1 \in Nat \ {0} /\ total - kept + 1 <= total + 1 /\ total <= Len(log) /\ kept \in Nat
        /\ total + 1 - (total - kept + 1) = kept
        /\ \A i \in 1..kept : total - kept + 1 + i - 1 = total - kept + i
    BY <1>1, <1>4
  <2> QED
    BY <1>1, <1>5, <2>1, LogSubSeqIs
<1>7. Log!Last(whole, m) = SubSeq(whole, kept - n + 1, kept)
  <2>1. CASE m >= kept
    <3>1. kept - n + 1 = 1
      BY <1>3, <1>4, <2>1
    <3> QED
      BY <1>6, <2>1, <3>1 DEF Log!Last
  <2>2. CASE ~(m >= kept)
    BY <1>3, <1>6, <2>2 DEF Log!Last
  <2> QED
    BY <2>1, <2>2
<1>8. n <= kept
  BY <1>3, <1>4
<1>9. /\ Log!Last(whole, m) \in Seq(1..written) /\ Len(Log!Last(whole, m)) = n
      /\ \A i \in 1..n : Log!Last(whole, m)[i] = whole[kept - n + i]
  <2>1. /\ kept - n + 1 \in Nat \ {0} /\ kept - n + 1 <= kept + 1 /\ kept \in Nat /\ kept <= Len(whole) /\ n \in Nat
        /\ kept + 1 - (kept - n + 1) = n
        /\ \A i \in 1..n : kept - n + 1 + i - 1 = kept - n + i
    BY <1>1, <1>2, <1>4, <1>6, <1>8
  <2> DEFINE a == kept - n + 1
             tail == SubSeq(whole, a, kept)
  <2>2. /\ tail \in Seq(1..written) /\ Len(tail) = kept + 1 - a
        /\ \A i \in 1..(kept + 1 - a) : tail[i] = whole[a + i - 1]
    <3>1. a \in Nat \ {0} /\ a <= kept + 1
      BY <2>1
    <3>2. PICK S : S = 1..written
      OBVIOUS
    <3>3. kept \in Nat /\ kept <= Len(whole) /\ whole \in Seq(S)
      BY <1>6, <2>1, <3>2
    <3> HIDE DEF a
    <3>4. /\ tail \in Seq(S) /\ Len(tail) = kept + 1 - a
          /\ \A i \in 1..(kept + 1 - a) : tail[i] = whole[a + i - 1]
      BY <3>1, <3>3, LogSubSeqIs
    <3> QED
      BY <3>2, <3>4
  <2>3. Log!Last(whole, m) = tail
    BY <1>7
  <2> HIDE DEF tail
  <2> QED
    BY <2>1, <2>2, <2>3
<1>10. ASSUME NEW i \in 1..n
       PROVE  Log!Last(whole, m)[i] = Log!LinesSince(k)[i]
  <2>1. PICK j \in 1..kept : j = kept - n + i
    BY <1>1, <1>2, <1>4, <1>8
  <2>2. total - kept + j = total - n + i
    BY <1>1, <1>2, <1>4, <2>1
  <2>3. Log!Last(whole, m)[i] = whole[j]
    BY <1>9, <2>1
  <2>4. whole[j] = log[total - kept + j]
    BY <1>6
  <2> QED
    BY <1>2, <2>2, <2>3, <2>4
<1>11. Log!Last(whole, m) = Log!LinesSince(k)
  BY <1>2, <1>9, <1>10
<1> QED
  BY <1>11 DEF whole, m

\* A line goes into the slot of the one that falls out.
LEMMA LogAppendStep ==
    ASSUME Log!ConstantsAssumption, LogIInv, Log!AppendLine
    PROVE  LogIInv'
<1>1. /\ lines \in Seq(1..written) /\ log \in Seq(1..written)
      /\ total \in 0..MaxLines /\ cap \in Nat \ {0} /\ written \in 0..MaxLines /\ MaxLines \in Nat
      /\ Len(log) = total /\ total <= written
      /\ Len(lines) = IF total < cap THEN total ELSE cap
  BY DEF LogIInv, Log!TypeOK, LogRingRight, LogOrdered, Log!ConstantsAssumption
<1>2. /\ written < MaxLines /\ written' = written + 1 /\ total' = total + 1
      /\ lines' = Log!Put(lines, total, written + 1) /\ log' = Append(log, written + 1)
      /\ UNCHANGED <<runID, offset, clientRun, logPc, from, seen>>
  BY DEF Log!AppendLine
<1>3. /\ log \in Seq(1..(written + 1)) /\ lines \in Seq(1..(written + 1)) /\ written + 1 \in 1..MaxLines
      /\ written + 1 \in 1..(written + 1) /\ written \in Nat
      /\ \A i \in 1..Len(log) : log[i] \in 1..written
  <2>1. written \in Nat /\ written + 1 \in 1..MaxLines /\ written + 1 \in 1..(written + 1)
    BY <1>1, <1>2
  <2> QED
    BY <1>1, <2>1, LogFitsMore
<1>4. /\ log' \in Seq(1..written') /\ Len(log') = total + 1
      /\ \A i \in 1..total : log'[i] = log[i]
      /\ log'[total + 1] = written + 1
      /\ \A i \in 1..total : log[i] \in 1..written
  <2>1. Append(log, written + 1) \in Seq(1..(written + 1)) /\ Len(Append(log, written + 1)) = Len(log) + 1
        /\ \A i \in 1..Len(log) : Append(log, written + 1)[i] = log[i]
        /\ Append(log, written + 1)[Len(log) + 1] = written + 1
    BY <1>3, LogAppendIs
  <2> QED
    BY <1>1, <1>2, <1>3, <2>1
<1>5. /\ lines' \in Seq(1..written') /\ Len(lines') = IF total + 1 < cap THEN total + 1 ELSE cap
      /\ lines'[(total % cap) + 1] = written + 1
      /\ \A j \in 1..Len(lines) : j # (total % cap) + 1 => lines'[j] = lines[j]
  <2>1. total % cap \in 0..(cap - 1) /\ (total < cap => total % cap = total)
    <3>1. total \in Nat /\ cap \in Nat \ {0}
      BY <1>1
    <3>2. total % cap \in 0..(cap - 1)
      BY <3>1, LogDivMod
    <3>3. total < cap => total % cap = total
      BY <3>1, LogModSmall
    <3> QED
      BY <3>2, <3>3
  <2>2. CASE Len(lines) < cap
    <3>1. lines' = Append(lines, written + 1) /\ Len(lines) = total /\ total < cap /\ total % cap = total
      BY <1>1, <1>2, <2>1, <2>2 DEF Log!Put
    <3>2. /\ lines' \in Seq(1..written') /\ Len(lines') = total + 1
          /\ \A j \in 1..Len(lines) : lines'[j] = lines[j]
          /\ lines'[total + 1] = written + 1
      <4>1. Append(lines, written + 1) \in Seq(1..(written + 1)) /\ Len(Append(lines, written + 1)) = Len(lines) + 1
            /\ \A j \in 1..Len(lines) : Append(lines, written + 1)[j] = lines[j]
            /\ Append(lines, written + 1)[Len(lines) + 1] = written + 1
        BY <1>3, LogAppendIs
      <4> QED
        <5> DEFINE new == Append(lines, written + 1)
        <5>1. lines' = new /\ written' = written + 1 /\ Len(lines) = total
          BY <1>2, <3>1
        <5>2. /\ new \in Seq(1..(written + 1)) /\ Len(new) = Len(lines) + 1
              /\ \A j \in 1..Len(lines) : new[j] = lines[j]
              /\ new[Len(lines) + 1] = written + 1
          BY <4>1
        <5> HIDE DEF new
        <5> QED
          BY <5>1, <5>2
    <3>3. total + 1 = IF total + 1 < cap THEN total + 1 ELSE cap
      BY <1>1, <3>1
    <3> QED
      BY <3>1, <3>2, <3>3
  <2>3. CASE ~(Len(lines) < cap)
    <3>1. lines' = [lines EXCEPT ![(total % cap) + 1] = written + 1] /\ Len(lines) = cap /\ total >= cap
      BY <1>1, <1>2, <2>3 DEF Log!Put
    <3>2. (total % cap) + 1 \in 1..Len(lines)
      BY <1>1, <2>1, <3>1
    <3>3. /\ lines' \in Seq(1..written') /\ Len(lines') = cap
          /\ \A j \in 1..Len(lines) : lines'[j] = IF j = (total % cap) + 1 THEN written + 1 ELSE lines[j]
      <4> DEFINE new == [lines EXCEPT ![(total % cap) + 1] = written + 1]
      <4>1. /\ new \in Seq(1..(written + 1)) /\ Len(new) = Len(lines)
            /\ \A j \in 1..Len(lines) : new[j] = IF j = (total % cap) + 1 THEN written + 1 ELSE lines[j]
        BY <1>3, <3>2, LogReplaceIs
      <4> HIDE DEF new
      <4>2. lines' = new
        BY <3>1 DEF new
      <4> QED
        BY <1>2, <3>1, <4>1, <4>2
    <3>4. cap = IF total + 1 < cap THEN total + 1 ELSE cap
      BY <1>1, <3>1
    <3> QED
      BY <3>2, <3>3, <3>4
  <2> QED
    BY <2>2, <2>3
<1>6. Log!TypeOK'
  <2>1. Len(lines') <= cap
    BY <1>1, <1>5
  <2>2. seen \in Seq(1..(written + 1))
    BY <1>1 DEF LogIInv, Log!TypeOK
  <2> QED
    BY <1>1, <1>2, <1>3, <1>4, <1>5, <2>1, <2>2 DEF LogIInv, Log!TypeOK
<1>7. LogOrdered'
  <2>1. Len(log') = total' /\ total' <= written'
    BY <1>1, <1>2, <1>4
  <2>2. ASSUME NEW i \in 1..(total + 1), NEW j \in 1..(total + 1), i < j
        PROVE  log'[i] < log'[j]
    <3>1. CASE j = total + 1
      <4>1. i \in 1..total /\ log[i] \in 1..written
        BY <1>1, <1>4, <2>2, <3>1
      <4> QED
        BY <1>1, <1>4, <3>1, <4>1
    <3>2. CASE j # total + 1
      BY <1>1, <1>4, <2>2, <3>2 DEF LogIInv, LogOrdered
    <3> QED
      BY <3>1, <3>2
  <2> QED
    BY <1>2, <2>1, <2>2 DEF LogOrdered
<1>8. LogRingRight'
  <2>1. ASSUME NEW k \in 0..total, total + 1 <= k + cap
        PROVE  lines'[(k % cap) + 1] = log'[k + 1]
    <3>1. CASE k = total
      BY <1>1, <1>4, <1>5, <3>1
    <3>2. CASE k # total
      <4>1. k \in 0..(total - 1) /\ k \in Nat /\ total \in Nat /\ k < total /\ total < k + cap /\ total <= k + cap
            /\ k + 1 \in 1..total
        BY <1>1, <2>1, <3>2
      <4>2. k % cap # total % cap /\ k % cap \in 0..(cap - 1) /\ total % cap \in 0..(cap - 1)
        BY <1>1, <4>1, LogModApart, LogDivMod
      <4>3. (k % cap) + 1 \in 1..Len(lines)
        <5>1. CASE total < cap
          <6>1. k < cap /\ Len(lines) = total
            BY <1>1, <4>1, <5>1
          <6>2. k % cap = k
            BY <1>1, <4>1, <6>1, LogModSmall
          <6> QED
            BY <4>1, <6>1, <6>2
        <5>2. CASE ~(total < cap)
          BY <1>1, <4>2, <5>2
        <5> QED
          BY <5>1, <5>2
      <4>4. (k % cap) + 1 # (total % cap) + 1
        BY <4>2
      <4>5. lines'[(k % cap) + 1] = lines[(k % cap) + 1]
        BY <1>5, <4>3, <4>4
      <4>6. lines[(k % cap) + 1] = log[k + 1]
        BY <4>1 DEF LogIInv, LogRingRight
      <4> QED
        BY <1>4, <4>1, <4>5, <4>6
    <3> QED
      BY <3>1, <3>2
  <2>2. 0..(total' - 1) = 0..total
    BY <1>1, <1>2
  <2> QED
    BY <1>2, <1>5, <2>1, <2>2 DEF LogRingRight
<1>9. LogClientKnows'
  <2> SUFFICES ASSUME clientRun = runID
               PROVE  /\ offset <= total + 1
                      /\ \A i \in DOMAIN seen : offset >= 1 /\ seen[i] <= log'[offset]
                      /\ logPc = "read" => from = offset
    BY <1>2 DEF LogIInv, LogClientKnows
  <2>1. /\ offset <= total /\ offset \in Nat
        /\ \A i \in DOMAIN seen : offset >= 1 /\ seen[i] <= log[offset]
        /\ logPc = "read" => from = offset
    BY DEF LogIInv, Log!TypeOK, LogClientKnows
  <2>2. offset >= 1 => log'[offset] = log[offset]
    BY <1>1, <1>4, <2>1
  <2> QED
    BY <1>1, <2>1, <2>2
<1>10. Log!ShownInOrder'
  BY <1>2 DEF LogIInv, Log!ShownInOrder
<1> QED
  BY <1>6, <1>7, <1>8, <1>9, <1>10 DEF LogIInv

LEMMA LogResetStep ==
    ASSUME Log!ConstantsAssumption, LogIInv, Log!Reset
    PROVE  LogIInv'
<1>1. /\ runID < MaxRuns /\ runID' = runID + 1 /\ total' = 0 /\ lines' = << >> /\ log' = << >>
      /\ UNCHANGED <<written, offset, clientRun, logPc, from, seen>>
  BY DEF Log!Reset
<1>2. /\ runID \in 0..MaxRuns /\ MaxRuns \in Nat /\ MaxLines \in Nat /\ written \in Nat /\ cap \in Nat \ {0}
      /\ clientRun \in 0..MaxRuns /\ clientRun <= runID
  BY DEF LogIInv, Log!TypeOK, LogClientKnows, Log!ConstantsAssumption
<1>3. Log!TypeOK'
  BY <1>1, <1>2 DEF LogIInv, Log!TypeOK
<1>4. LogOrdered' /\ LogRingRight'
  BY <1>1, <1>2 DEF LogOrdered, LogRingRight
<1>5. LogClientKnows'
  BY <1>1, <1>2 DEF LogClientKnows
<1>6. Log!ShownInOrder'
  BY <1>1 DEF LogIInv, Log!ShownInOrder
<1> QED
  BY <1>3, <1>4, <1>5, <1>6 DEF LogIInv

LEMMA LogRequestRunStep ==
    ASSUME Log!ConstantsAssumption, LogIInv, Log!RequestRun
    PROVE  LogIInv'
<1>1. Log!TypeOK'
  BY DEF Log!RequestRun, Log!bufVars, LogIInv, Log!TypeOK
<1>2. LogOrdered' /\ LogRingRight' /\ Log!ShownInOrder'
  BY DEF Log!RequestRun, Log!bufVars, LogIInv, LogOrdered, LogRingRight, Log!ShownInOrder
<1>3. LogClientKnows'
  BY DEF Log!RequestRun, Log!bufVars, LogIInv, LogClientKnows
<1> QED
  BY <1>1, <1>2, <1>3 DEF LogIInv

\* What the answer adds is newer than all that is shown.
LEMMA LogRequestLinesStep ==
    ASSUME Log!ConstantsAssumption, LogIInv, Log!RequestLines
    PROVE  LogIInv'
<1> DEFINE add == Log!LinesSince(from)
           n == LogNewCount(from)
<1>1. /\ logPc = "read" /\ offset' = total /\ clientRun' = runID /\ logPc' = "idle"
      /\ seen' = IF clientRun = runID THEN seen \o add ELSE add
      /\ UNCHANGED <<lines, total, runID, log, written, from>>
  BY DEF Log!RequestLines, Log!bufVars
<1>2. /\ from \in Nat /\ total \in Nat /\ log \in Seq(1..written) /\ Len(log) = total /\ written \in Nat
      /\ seen \in Seq(1..written)
  BY DEF LogIInv, Log!TypeOK, LogOrdered
<1>3. /\ n \in 0..total /\ (from <= total => from <= total - n)
      /\ add \in Seq(1..written) /\ Len(add) = n
      /\ \A i \in 1..n : add[i] = log[total - n + i]
  BY <1>2, LogLinesSinceIs
<1> HIDE DEF add, n
<1>4. \A i, j \in 1..total : i < j => log[i] < log[j]
  BY DEF LogIInv, LogOrdered
<1>5. \A i \in 1..total : log[i] \in Nat
  BY <1>2
<1>6. \A i, j \in 1..n : i < j => add[i] < add[j]
  BY <1>2, <1>3, <1>4
<1>7. \A i \in 1..n : total >= 1 /\ add[i] <= log[total]
  <2> TAKE i \in 1..n
  <2>1. total - n + i \in 1..total /\ total \in 1..total
    BY <1>2, <1>3
  <2>2. CASE total - n + i = total
    BY <1>2, <1>3, <1>5, <2>1, <2>2
  <2>3. CASE total - n + i < total
    BY <1>2, <1>3, <1>4, <1>5, <2>1, <2>3
  <2> QED
    BY <1>2, <1>3, <2>1, <2>2, <2>3
<1>8. DOMAIN add = 1..n /\ \A i \in 1..n : add[i] \in Nat
  BY <1>2, <1>3, LogFitsMore
<1>9. /\ seen' \in Seq(1..written)
      /\ \A i, j \in DOMAIN seen' : i < j => seen'[i] < seen'[j]
      /\ \A i \in DOMAIN seen' : total >= 1 /\ seen'[i] <= log[total]
  <2>1. CASE clientRun # runID
    BY <1>1, <1>3, <1>6, <1>7, <1>8, <2>1
  <2>2. CASE clientRun = runID
    <3> DEFINE s == Len(seen)
    <3>1. /\ offset \in Nat /\ offset <= total /\ from = offset
          /\ \A i \in 1..s : offset >= 1 /\ seen[i] <= log[offset]
          /\ \A i, j \in 1..s : i < j => seen[i] < seen[j]
          /\ s \in Nat /\ \A i \in 1..s : seen[i] \in Nat
      BY <1>1, <1>2, <2>2, SMTT(30) DEF LogIInv, Log!TypeOK, LogClientKnows, Log!ShownInOrder
    <3>2. /\ seen' \in Seq(1..written) /\ Len(seen') = s + n /\ DOMAIN seen' = 1..(s + n)
          /\ \A i \in 1..s : seen'[i] = seen[i]
          /\ \A i \in (s + 1)..(s + n) : seen'[i] = add[i - s]
      <4>1. /\ seen \o add \in Seq(1..written) /\ Len(seen \o add) = Len(seen) + Len(add)
            /\ \A i \in 1..Len(seen) : (seen \o add)[i] = seen[i]
            /\ \A i \in (Len(seen) + 1)..(Len(seen) + Len(add)) : (seen \o add)[i] = add[i - Len(seen)]
        BY <1>2, <1>3, LogConcatIs
      <4>2. seen' = seen \o add
        BY <1>1, <2>2
      <4>3. seen' \in Seq(1..written) => DOMAIN seen' = 1..Len(seen')
        OBVIOUS
      <4> QED
        BY <1>3, <4>1, <4>2, <4>3
    <3> HIDE DEF s
    <3>3. \A i \in 1..s, j \in 1..n : seen[i] < add[j]
      <4> SUFFICES ASSUME NEW i \in 1..s, NEW j \in 1..n
                   PROVE  seen[i] < add[j]
        OBVIOUS
      <4>1. offset \in 1..total /\ total - n + j \in 1..total /\ offset < total - n + j
        BY <1>2, <1>3, <3>1
      <4>2. log[offset] < log[total - n + j] /\ log[offset] \in Nat /\ log[total - n + j] \in Nat
        BY <1>4, <1>5, <4>1
      <4>3. seen[i] <= log[offset] /\ add[j] = log[total - n + j] /\ seen[i] \in Nat
        BY <1>3, <3>1
      <4> QED
        BY <4>2, <4>3
    <3>4. ASSUME NEW i \in 1..(s + n), NEW j \in 1..(s + n), i < j
          PROVE  seen'[i] < seen'[j]
      <4>1. CASE j \in 1..s
        BY <3>1, <3>2, <3>4, <4>1
      <4>2. CASE i \in 1..s /\ j \in (s + 1)..(s + n)
        <5>1. j - s \in 1..n
          BY <1>3, <3>1, <4>2
        <5> QED
          BY <3>2, <3>3, <4>2, <5>1
      <4>3. CASE i \in (s + 1)..(s + n) /\ j \in (s + 1)..(s + n)
        <5>1. i - s \in 1..n /\ j - s \in 1..n /\ i - s < j - s
          BY <1>3, <3>1, <3>4, <4>3
        <5> QED
          BY <1>6, <3>2, <4>3, <5>1
      <4> QED
        BY <1>3, <3>1, <3>4, <4>1, <4>2, <4>3
    <3>5. ASSUME NEW i \in 1..(s + n)
          PROVE  total >= 1 /\ seen'[i] <= log[total]
      <4>1. CASE i \in 1..s
        <5>1. offset \in 1..total /\ total \in 1..total /\ seen[i] <= log[offset] /\ seen[i] \in Nat
          BY <1>2, <3>1, <4>1
        <5>2. log[offset] <= log[total] /\ log[offset] \in Nat /\ log[total] \in Nat
          BY <1>2, <1>4, <1>5, <5>1
        <5> QED
          BY <3>2, <4>1, <5>1, <5>2
      <4>2. CASE i \in (s + 1)..(s + n)
        <5>1. i - s \in 1..n
          BY <1>3, <3>1, <4>2
        <5> QED
          BY <1>7, <3>2, <4>2, <5>1
      <4> QED
        BY <1>3, <3>1, <4>1, <4>2
    <3> QED
      BY <3>2, <3>4, <3>5
  <2> QED
    BY <2>1, <2>2
<1>10. Log!TypeOK'
  BY <1>1, <1>2, <1>9 DEF LogIInv, Log!TypeOK
<1>11. LogOrdered' /\ LogRingRight'
  BY <1>1 DEF LogIInv, LogOrdered, LogRingRight
<1>12. LogClientKnows'
  <2>1. clientRun' <= runID' /\ offset' <= total' /\ logPc' # "read"
    BY <1>1, <1>2 DEF LogIInv, Log!TypeOK
  <2> QED
    BY <1>1, <1>9, <2>1 DEF LogClientKnows
<1>13. Log!ShownInOrder'
  BY <1>9 DEF Log!ShownInOrder
<1> QED
  BY <1>10, <1>11, <1>12, <1>13 DEF LogIInv

LEMMA LogNextIInv ==
    ASSUME Log!ConstantsAssumption, LogIInv, [Log!Next]_(Log!vars)
    PROVE  LogIInv'
<1>1. CASE UNCHANGED Log!vars
  BY <1>1 DEF Log!vars, Log!bufVars, LogIInv, Log!TypeOK, LogOrdered, LogRingRight,
       LogClientKnows, Log!ShownInOrder
<1> QED
  BY <1>1, LogAppendStep, LogResetStep, LogRequestRunStep, LogRequestLinesStep DEF Log!Next

\* For a ring of any size LinesSince returns the lines after the offset that are
\* left, wrapped or not, and a browser shows the lines of a run in order and once.
THEOREM LogAlways ==
    ASSUME Log!ConstantsAssumption
    PROVE  Log!Spec => [](Log!TypeOK /\ Log!LinesSinceRight /\ Log!ShownInOrder)
<1>1. Log!Init => LogIInv
  BY LogInitIInv
<1>2. LogIInv /\ [Log!Next]_(Log!vars) => LogIInv'
  BY LogNextIInv
<1>3. LogIInv => Log!TypeOK /\ Log!LinesSinceRight /\ Log!ShownInOrder
  BY LogRightLines DEF LogIInv
<1> QED
  BY <1>1, <1>2, <1>3, PTL DEF Log!Spec

-----------------------------------------------------------------------------
(* SkillInstall                                                            *)

\* Which call is where.
SkPlace(c) ==
    /\ skillPc[c] \in {"meta", "download", "extract", "first", "second", "moderation", "cleanup"}
          => Install!Installs(c)
    /\ skillPc[c] = "origin" => Install!FromAgent(c) /\ ~flag[c]
    /\ skillPc[c] \in {"list", "root", "subdirs", "raw", "stat"} => kind[c] = "github"
    /\ skillPc[c] \in {"mkdir", "write"} => kind[c] = "import"
    /\ skillPc[c] = "remove" => kind[c] \in {"delete", "uninstall"}
    /\ result[c] # "none" <=> skillPc[c] = "returned"

\* An install has files in the directory from its first one to its cleanup.
SkLeaves(c) ==
    Install!Installs(c) /\ c \in Install!Writers =>
        skillPc[c] \in {"second", "moderation", "cleanup", "origin"} \/ result[c] = "ok"

\* How far an install is that nobody disturbs.
SkStage(c) ==
    /\ skillPc[c] \in {"meta", "download", "extract"} => dir = Install!Absent
    /\ skillPc[c] = "first" => Install!Files = {}
    /\ skillPc[c] = "second" => Install!Files = {"SKILL.md"} /\ dir["SKILL.md"] = c
    /\ skillPc[c] \in {"moderation", "origin"} =>
          Install!Files = {"SKILL.md", "scripts"} /\ \A f \in Install!Files : dir[f] = c

SkStaged(c) == ~touched[c] \/ Install!OfOneTool => SkStage(c)

\* What another call did not change was found absent, and has files of this call only.
SkOwn(c) ==
    /\ kind[c] \in {"tool", "registry"} /\ Install!Active(c) => found[c] = Install!Absent
    /\ kind[c] \in {"github", "import"} /\ Install!Active(c) /\ ~touched[c]
          => Install!Writers \subseteq {c}

\* AllOrNothing of one call.
SkDone(c) ==
    skillPc[c] = "returned" /\ ~touched[c] =>
        /\ result[c] = "ok" /\ kind[c] \in {"delete", "uninstall"} => dir = Install!Absent
        /\ result[c] = "ok" /\ Install!Installs(c) =>
              Install!Files \ {"origin"} = {"SKILL.md", "scripts"} /\ \A f \in Install!Files : dir[f] = c
        /\ result[c] = "ok" /\ kind[c] \in {"github", "import"} =>
              "SKILL.md" \in Install!Files /\ Install!Writers = {c}
        /\ result[c] = "error" /\ kind[c] = "force" => dir = Install!Absent
        /\ result[c] = "error" /\ kind[c] \notin {"force", "github", "import"} => dir = found[c]

SkCallInv(c) == SkPlace(c) /\ SkLeaves(c) /\ SkStaged(c) /\ SkOwn(c) /\ SkDone(c)

\* The lock of an instance.
SkTurns ==
    \A c, x \in SkillCalls :
        Install!FromAgent(c) /\ Install!FromAgent(x) /\ tool[c] = tool[x]
            => ~Install!Active(c) \/ ~Install!Active(x) \/ c = x

SkTypes == Install!TypeOK /\ DOMAIN skillPc = SkillCalls /\ DOMAIN found = SkillCalls

SkIInv == SkTypes /\ (\A c \in SkillCalls : SkCallInv(c)) /\ SkTurns /\ Install!TakeTurns

-----------------------------------------------------------------------------
\* What a step may do to the directory.
SkWrote(c, f) ==
    /\ f \in Install!FileNames
    /\ dir' # Install!Absent /\ Install!Files' = Install!Files \cup {f} /\ DOMAIN dir' = Install!Files'
    /\ dir'[f] = c /\ \A x \in Install!Files \ {f} : dir'[x] = dir[x]
    /\ Install!Writers' \subseteq Install!Writers \cup {c} /\ c \in Install!Writers'

SkMade ==
    /\ dir' # Install!Absent /\ Install!Files' = Install!Files
    /\ \A x \in Install!Files : dir'[x] = dir[x]
    /\ Install!Writers' = Install!Writers

SkGone == dir' = Install!Absent /\ Install!Files' = {} /\ Install!Writers' = {}

LEMMA SkWrites ==
    ASSUME SkTypes, NEW c \in SkillCalls, NEW f \in Install!FileNames, Install!Write(c, f)
    PROVE  SkWrote(c, f)
<1>1. dir' = [x \in Install!Files \cup {f} |-> IF x = f THEN c ELSE dir[x]]
  BY DEF Install!Write, Install!Becomes
<1>2. DOMAIN dir' = Install!Files \cup {f}
  BY <1>1
<1>3. DOMAIN Install!Absent = {"absent"}
  BY DEF Install!Absent
<1>4. dir' # Install!Absent
  BY <1>2, <1>3 DEF SkTypes, Install!TypeOK, Install!FileNames
<1>5. Install!Files' = DOMAIN dir'
  BY <1>4 DEF Install!Files
<1> QED
  BY <1>1, <1>2, <1>4, <1>5 DEF SkWrote, Install!Writers

LEMMA SkMakes ==
    ASSUME SkTypes, NEW c \in SkillCalls, Install!MkdirAll(c)
    PROVE  SkMade
<1>1. dir' = [x \in Install!Files |-> dir[x]]
  BY DEF Install!MkdirAll, Install!Becomes
<1>2. DOMAIN dir' = Install!Files
  BY <1>1
<1>3. DOMAIN Install!Absent = {"absent"}
  BY DEF Install!Absent
<1>4. dir' # Install!Absent
  BY <1>2, <1>3 DEF SkTypes, Install!TypeOK, Install!FileNames
<1>5. Install!Files' = DOMAIN dir'
  BY <1>4 DEF Install!Files
<1> QED
  BY <1>1, <1>2, <1>4, <1>5 DEF SkMade, Install!Writers

LEMMA SkRemoves ==
    ASSUME dir' = Install!Absent
    PROVE  SkGone
BY DEF SkGone, Install!Files, Install!Writers

\* What every step of call c has in common.
SkActs(c) ==
    /\ UNCHANGED <<kind, tool, blocked>>
    /\ SkTypes'
    /\ skillPc[c] # "returned" /\ skillPc'[c] # "start"
    /\ Install!FromAgent(c) => Install!Active(c) \/ Install!Unlocked(c)
    /\ \A x \in SkillCalls \ {c} :
          /\ skillPc'[x] = skillPc[x] /\ result'[x] = result[x]
          /\ flag'[x] = flag[x] /\ found'[x] = found[x]
          /\ touched[x] => touched'[x]
          /\ dir' # dir /\ skillPc[x] # "start" => touched'[x]
    /\ touched'[c] = touched[c]
    /\ Install!Writers' \subseteq Install!Writers \cup {c}

LEMMA SkBecomes ==
    ASSUME SkTypes, NEW c \in SkillCalls, NEW d, Install!Becomes(c, d)
    PROVE  /\ touched' \in [SkillCalls -> BOOLEAN] /\ touched'[c] = touched[c]
           /\ \A x \in SkillCalls \ {c} :
                 /\ touched[x] => touched'[x]
                 /\ dir' # dir /\ skillPc[x] # "start" => touched'[x]
BY DEF SkTypes, Install!TypeOK, Install!Becomes

\* The directory after a step.
SkDirMoves(c) ==
    \/ Install!Keeps
    \/ Install!Becomes(c, Install!Absent)
    \/ Install!MkdirAll(c)
    \/ \E f \in Install!FileNames : Install!Write(c, f)

LEMMA SkDirActs ==
    ASSUME SkTypes, NEW c \in SkillCalls, SkDirMoves(c)
    PROVE  /\ touched' \in [SkillCalls -> BOOLEAN] /\ touched'[c] = touched[c]
           /\ \A x \in SkillCalls \ {c} :
                 /\ touched[x] => touched'[x]
                 /\ dir' # dir /\ skillPc[x] # "start" => touched'[x]
           /\ Install!Writers' \subseteq Install!Writers \cup {c}
           /\ Install!Files' \subseteq Install!FileNames
<1>1. CASE Install!Keeps
  BY <1>1 DEF Install!Keeps, SkTypes, Install!TypeOK, Install!Writers, Install!Files
<1>2. CASE Install!Becomes(c, Install!Absent)
  <2>1. SkGone
    BY <1>2, SkRemoves DEF Install!Becomes
  <2> QED
    BY <1>2, <2>1, SkBecomes DEF SkGone
<1>3. CASE Install!MkdirAll(c)
  <2>1. SkMade
    BY <1>3, SkMakes
  <2> QED
    BY <1>3, <2>1, SkBecomes DEF SkMade, Install!MkdirAll, SkTypes, Install!TypeOK
<1>4. ASSUME NEW f \in Install!FileNames, Install!Write(c, f)
      PROVE  /\ touched' \in [SkillCalls -> BOOLEAN] /\ touched'[c] = touched[c]
             /\ \A x \in SkillCalls \ {c} :
                   /\ touched[x] => touched'[x]
                   /\ dir' # dir /\ skillPc[x] # "start" => touched'[x]
             /\ Install!Writers' \subseteq Install!Writers \cup {c}
             /\ Install!Files' \subseteq Install!FileNames
  <2>1. SkWrote(c, f)
    BY <1>4, SkWrites
  <2> QED
    BY <1>4, <2>1, SkBecomes DEF SkWrote, Install!Write, SkTypes, Install!TypeOK
<1> QED
  BY <1>1, <1>2, <1>3, <1>4 DEF SkDirMoves

\* A step of call c moves it on, or returns from it.
SkPcMoves(c) ==
    \/ \E l : l \notin {"start", "returned"} /\ Install!Goto(c, l)
    \/ \E r \in {"ok", "error"} : Install!Returns(c, r)

LEMMA SkActsOf ==
    ASSUME SkTypes, NEW c \in SkillCalls, SkDirMoves(c), SkPcMoves(c),
           UNCHANGED <<kind, tool, blocked>>, skillPc[c] # "returned",
           Install!FromAgent(c) => Install!Active(c) \/ Install!Unlocked(c),
           flag' \in [SkillCalls -> BOOLEAN], \A x \in SkillCalls \ {c} : flag'[x] = flag[x],
           DOMAIN found' = SkillCalls, \A x \in SkillCalls \ {c} : found'[x] = found[x]
    PROVE  SkActs(c)
<1>1. /\ DOMAIN skillPc' = SkillCalls /\ skillPc'[c] # "start"
      /\ result' \in [SkillCalls -> {"none", "ok", "error"}]
      /\ \A x \in SkillCalls \ {c} : skillPc'[x] = skillPc[x] /\ result'[x] = result[x]
  BY DEF SkPcMoves, Install!Goto, Install!Returns, SkTypes, Install!TypeOK
<1>2. /\ Install!Writers' \subseteq Install!Writers \cup {c} /\ Install!Files' \subseteq Install!FileNames
      /\ touched' \in [SkillCalls -> BOOLEAN]
  BY SkDirActs
<1>3. SkTypes'
  BY <1>1, <1>2 DEF SkTypes, Install!TypeOK
<1> QED
  BY <1>1, <1>2, <1>3, SkDirActs DEF SkActs

SkSteps(c) ==
    \/ Install!AlreadyThere(c) \/ Install!RemoveFirst(c) \/ Install!NotThere(c) \/ Install!GetSkillMeta(c)
    \/ Install!Download(c) \/ Install!Extract(c) \/ Install!ExtractFails(c) \/ Install!Cleanup(c)
    \/ Install!Moderation(c) \/ Install!WriteOriginMeta(c) \/ Install!ListFiles(c) \/ Install!DownloadFiles(c)
    \/ Install!StatSkill(c) \/ Install!DownloadRaw(c) \/ Install!ImportMkdir(c) \/ Install!ImportWrite(c)
    \/ Install!FindsIt(c) \/ Install!RemoveIt(c)

LEMMA SkStepActs ==
    ASSUME SkTypes, NEW c \in SkillCalls, SkSteps(c), kind[c] \in Install!AllKinds
    PROVE  SkActs(c)
<1> USE DEF Install!Active
<1>f. {"SKILL.md", "scripts", "origin"} = Install!FileNames
  BY DEF Install!FileNames
<1>o. ASSUME Install!Same \/ (Install!Begin(c) /\ Install!Active(c)') \/ Install!Begin(c)
      PROVE  /\ UNCHANGED <<kind, tool, blocked>>
             /\ flag' \in [SkillCalls -> BOOLEAN] /\ \A x \in SkillCalls \ {c} : flag'[x] = flag[x]
             /\ DOMAIN found' = SkillCalls /\ \A x \in SkillCalls \ {c} : found'[x] = found[x]
  BY <1>o DEF Install!Same, Install!Begin, SkTypes, Install!TypeOK
<1>b. ASSUME Install!Begin(c) PROVE Install!FromAgent(c) => Install!Unlocked(c)
  BY <1>b DEF Install!Begin, Install!Locks
<1>1. ASSUME Install!Begin(c), SkDirMoves(c), SkPcMoves(c) PROVE SkActs(c)
  <2>1. skillPc[c] # "returned"
    BY <1>1 DEF Install!Begin
  <2> QED
    BY <1>1, <1>o, <1>b, <2>1, SkActsOf
<1>2. ASSUME Install!Same, skillPc[c] \notin {"start", "returned"}, SkDirMoves(c), SkPcMoves(c)
      PROVE  SkActs(c)
  BY <1>2, <1>o, SkActsOf
<1>3. CASE Install!AlreadyThere(c)
  BY <1>1, <1>3 DEF Install!AlreadyThere, SkDirMoves, SkPcMoves
<1>4. CASE Install!RemoveFirst(c)
  BY <1>1, <1>4 DEF Install!RemoveFirst, SkDirMoves, SkPcMoves
<1>5. CASE Install!NotThere(c)
  <2>1. SkPcMoves(c)
    BY <1>5 DEF Install!NotThere, SkPcMoves, Install!AllKinds, Install!Installs
  <2> QED
    BY <1>1, <1>5, <2>1 DEF Install!NotThere, SkDirMoves
<1>6. CASE Install!GetSkillMeta(c)
  <2>1. /\ skillPc[c] \notin {"start", "returned"} /\ SkDirMoves(c) /\ SkPcMoves(c)
        /\ UNCHANGED <<kind, tool, blocked, found>>
    BY <1>6 DEF Install!GetSkillMeta, SkDirMoves, SkPcMoves
  <2>2. flag' \in [SkillCalls -> BOOLEAN] /\ \A x \in SkillCalls \ {c} : flag'[x] = flag[x]
    BY <1>6 DEF Install!GetSkillMeta, SkTypes, Install!TypeOK
  <2> QED
    BY <2>1, <2>2, SkActsOf DEF SkTypes
<1>7. CASE Install!Download(c)
  BY <1>2, <1>7 DEF Install!Download, SkDirMoves, SkPcMoves
<1>8. CASE Install!Extract(c)
  BY <1>2, <1>8, <1>f DEF Install!Extract, SkDirMoves, SkPcMoves
<1>9. CASE Install!ExtractFails(c)
  BY <1>2, <1>9 DEF Install!ExtractFails, SkDirMoves, SkPcMoves
<1>10. CASE Install!Cleanup(c)
  BY <1>2, <1>10 DEF Install!Cleanup, SkDirMoves, SkPcMoves
<1>11. CASE Install!Moderation(c)
  <2>1. SkPcMoves(c)
    BY <1>11 DEF Install!Moderation, SkPcMoves, SkTypes, Install!TypeOK
  <2> QED
    BY <1>2, <1>11, <2>1 DEF Install!Moderation, SkDirMoves
<1>12. CASE Install!WriteOriginMeta(c)
  BY <1>2, <1>12, <1>f DEF Install!WriteOriginMeta, SkDirMoves, SkPcMoves
<1>13. CASE Install!ListFiles(c)
  BY <1>2, <1>13 DEF Install!ListFiles, SkDirMoves, SkPcMoves
<1>14. CASE Install!DownloadFiles(c)
  BY <1>2, <1>14, <1>f DEF Install!DownloadFiles, SkDirMoves, SkPcMoves
<1>15. CASE Install!StatSkill(c)
  BY <1>2, <1>15 DEF Install!StatSkill, SkDirMoves, SkPcMoves
<1>16. CASE Install!DownloadRaw(c)
  BY <1>2, <1>16, <1>f DEF Install!DownloadRaw, SkDirMoves, SkPcMoves
<1>17. CASE Install!ImportMkdir(c)
  BY <1>2, <1>17 DEF Install!ImportMkdir, SkDirMoves, SkPcMoves
<1>18. CASE Install!ImportWrite(c)
  BY <1>2, <1>18, <1>f DEF Install!ImportWrite, SkDirMoves, SkPcMoves
<1>19. CASE Install!FindsIt(c)
  BY <1>1, <1>19 DEF Install!FindsIt, SkDirMoves, SkPcMoves
<1>20. CASE Install!RemoveIt(c)
  BY <1>2, <1>20 DEF Install!RemoveIt, SkDirMoves, SkPcMoves
<1> QED
  BY <1>3, <1>4, <1>5, <1>6, <1>7, <1>8, <1>9, <1>10, <1>11, <1>12, <1>13, <1>14, <1>15, <1>16,
     <1>17, <1>18, <1>19, <1>20 DEF SkSteps

\* A step of call c leaves what is known of the others.
LEMMA SkOthers ==
    ASSUME SkIInv, NEW c \in SkillCalls, SkActs(c), NEW x \in SkillCalls, x # c
    PROVE  SkCallInv(x)'
<1>1. SkCallInv(x)
  BY DEF SkIInv
<1>2. /\ skillPc'[x] = skillPc[x] /\ result'[x] = result[x] /\ flag'[x] = flag[x] /\ found'[x] = found[x]
      /\ kind' = kind /\ tool' = tool
      /\ touched[x] => touched'[x]
      /\ dir' # dir /\ skillPc[x] # "start" => touched'[x]
      /\ Install!Writers' \subseteq Install!Writers \cup {c}
      /\ touched[x] \in BOOLEAN /\ touched'[x] \in BOOLEAN
  BY DEF SkActs, SkIInv, SkTypes, Install!TypeOK
<1>3. Install!OfOneTool' => Install!OfOneTool /\ ~Install!Active(x)
  <2>1. Install!OfOneTool' => Install!OfOneTool
    BY <1>2 DEF Install!OfOneTool, Install!FromAgent
  <2>2. ASSUME Install!OfOneTool, Install!Active(x) PROVE FALSE
    <3>1. Install!FromAgent(c) /\ Install!FromAgent(x) /\ tool[c] = tool[x]
      BY <2>2 DEF Install!OfOneTool
    <3>2. ~Install!Active(c)
      BY <2>2, <3>1 DEF SkIInv, SkTurns
    <3> QED
      BY <2>2, <3>1, <3>2 DEF SkActs, Install!Unlocked
  <2> QED
    BY <2>1, <2>2
<1>4. dir' = dir => Install!Files' = Install!Files /\ Install!Writers' = Install!Writers
  BY DEF Install!Files, Install!Writers
<1>5. SkPlace(x)' /\ SkLeaves(x)'
  BY <1>1, <1>2 DEF SkCallInv, SkPlace, SkLeaves, Install!Installs, Install!FromAgent
<1>6. SkStaged(x)'
  <2> SUFFICES ASSUME ~touched'[x] \/ Install!OfOneTool' PROVE SkStage(x)'
    BY DEF SkStaged
  <2>1. CASE ~Install!Active(x)
    BY <1>2, <2>1 DEF SkStage, Install!Active
  <2>2. CASE Install!Active(x)
    <3>1. dir' = dir /\ ~touched[x]
      BY <1>2, <1>3, <2>2 DEF Install!Active
    <3> QED
      BY <1>1, <1>2, <1>4, <3>1 DEF SkCallInv, SkStaged, SkStage
  <2> QED
    BY <2>1, <2>2
<1>7. SkOwn(x)'
  BY <1>1, <1>2, <1>4 DEF SkCallInv, SkOwn, Install!Active
<1>8. SkDone(x)'
  <2> SUFFICES ASSUME skillPc'[x] = "returned", ~touched'[x] PROVE SkDone(x)'
    BY DEF SkDone
  <2>1. dir' = dir /\ ~touched[x] /\ skillPc[x] = "returned"
    BY <1>2
  <2> QED
    BY <1>1, <1>2, <1>4, <2>1 DEF SkCallInv, SkDone, Install!Installs, Install!FromAgent
<1> QED
  BY <1>5, <1>6, <1>7, <1>8 DEF SkCallInv

\* Once a call begins, nothing of it is there.
LEMMA SkBegins ==
    ASSUME SkIInv, NEW c \in SkillCalls, Install!Begin(c), kind[c] \in Install!AllKinds
    PROVE  /\ skillPc[c] = "start" /\ result[c] = "none" /\ found'[c] = dir
           /\ Install!Installs(c) => c \notin Install!Writers
<1>1. SkPlace(c) /\ SkLeaves(c)
  BY DEF SkIInv, SkCallInv
<1>2. skillPc[c] = "start" /\ found'[c] = dir
  BY DEF Install!Begin, SkIInv, SkTypes
<1> QED
  BY <1>1, <1>2 DEF SkPlace, SkLeaves

LEMMA SkAlreadyThereStep ==
    ASSUME SkIInv, NEW c \in SkillCalls, SkActs(c), Install!AlreadyThere(c), kind[c] \in Install!AllKinds
    PROVE  SkCallInv(c)'
<1> USE DEF Install!AlreadyThere, Install!Active, Install!Goto, Install!Returns
<1>k. kind' = kind /\ touched'[c] = touched[c] /\ touched[c] \in BOOLEAN
  BY DEF SkActs, SkIInv, SkTypes, Install!TypeOK
<1>i. SkCallInv(c)
  BY DEF SkIInv
<1>t. c \in DOMAIN skillPc /\ c \in DOMAIN result /\ c \in DOMAIN flag
  BY DEF SkIInv, SkTypes, Install!TypeOK
<1>d. /\ dir' = dir /\ Install!Files' = Install!Files /\ Install!Writers' = Install!Writers
  BY DEF Install!Keeps, Install!Files, Install!Writers
<1>b. /\ skillPc[c] = "start" /\ result[c] = "none" /\ found'[c] = dir
      /\ Install!Installs(c) => c \notin Install!Writers
  BY SkBegins
<1>1. SkPlace(c)'
  BY <1>k, <1>i, <1>t, <1>d, <1>b
  DEF SkCallInv, SkPlace, Install!Installs, Install!FromAgent, Install!Same, Install!AllKinds
<1>2. SkLeaves(c)'
  BY <1>k, <1>i, <1>t, <1>d, <1>b
  DEF SkCallInv, SkLeaves, SkPlace, Install!Installs, Install!AllKinds
<1>3. SkStaged(c)'
  <2> SUFFICES ASSUME ~touched'[c] \/ Install!OfOneTool' PROVE SkStage(c)'
    BY DEF SkStaged
  <2>1. Install!OfOneTool' => Install!OfOneTool
    BY DEF SkActs, Install!OfOneTool, Install!FromAgent
  <2>2. SkStage(c)
    BY <1>k, <1>i, <2>1 DEF SkCallInv, SkStaged
  <2> QED
    BY <1>k, <1>i, <1>t, <1>d, <1>b, <2>2
    DEF SkCallInv, SkPlace, SkStage, Install!Installs, Install!FromAgent, Install!AllKinds
<1>4. SkOwn(c)'
  BY <1>k, <1>i, <1>t, <1>d, <1>b
  DEF SkCallInv, SkOwn, SkPlace, Install!Installs, Install!FromAgent, Install!Same,
      Install!AllKinds
<1>5. SkDone(c)'
  BY <1>k, <1>i, <1>t, <1>d, <1>3, <1>b
  DEF SkCallInv, SkDone, SkOwn, SkPlace, SkStaged, SkStage, Install!Installs,
      Install!FromAgent, Install!Same, Install!AllKinds
<1> QED
  BY <1>1, <1>2, <1>3, <1>4, <1>5 DEF SkCallInv

LEMMA SkRemoveFirstStep ==
    ASSUME SkIInv, NEW c \in SkillCalls, SkActs(c), Install!RemoveFirst(c), kind[c] \in Install!AllKinds
    PROVE  SkCallInv(c)'
<1> USE DEF Install!RemoveFirst, Install!Active, Install!Goto, Install!Returns
<1>k. kind' = kind /\ touched'[c] = touched[c] /\ touched[c] \in BOOLEAN
  BY DEF SkActs, SkIInv, SkTypes, Install!TypeOK
<1>i. SkCallInv(c)
  BY DEF SkIInv
<1>t. c \in DOMAIN skillPc /\ c \in DOMAIN result /\ c \in DOMAIN flag
  BY DEF SkIInv, SkTypes, Install!TypeOK
<1>d. SkGone
  BY SkRemoves DEF Install!Becomes
<1>b. /\ skillPc[c] = "start" /\ result[c] = "none" /\ found'[c] = dir
      /\ Install!Installs(c) => c \notin Install!Writers
  BY SkBegins
<1>1. SkPlace(c)'
  BY <1>k, <1>i, <1>t, <1>d, <1>b
  DEF SkCallInv, SkPlace, Install!Installs, Install!FromAgent, Install!Same, Install!AllKinds,
      SkGone
<1>2. SkLeaves(c)'
  BY <1>k, <1>i, <1>t, <1>d, <1>b
  DEF SkCallInv, SkLeaves, SkPlace, Install!Installs, Install!AllKinds, SkGone
<1>3. SkStaged(c)'
  <2> SUFFICES ASSUME ~touched'[c] \/ Install!OfOneTool' PROVE SkStage(c)'
    BY DEF SkStaged
  <2>1. Install!OfOneTool' => Install!OfOneTool
    BY DEF SkActs, Install!OfOneTool, Install!FromAgent
  <2>2. SkStage(c)
    BY <1>k, <1>i, <2>1 DEF SkCallInv, SkStaged
  <2> QED
    BY <1>k, <1>i, <1>t, <1>d, <1>b, <2>2
    DEF SkCallInv, SkPlace, SkStage, Install!Installs, Install!FromAgent, Install!AllKinds,
        SkGone
<1>4. SkOwn(c)'
  BY <1>k, <1>i, <1>t, <1>d, <1>b
  DEF SkCallInv, SkOwn, SkPlace, Install!Installs, Install!FromAgent, Install!Same,
      Install!AllKinds, SkGone
<1>5. SkDone(c)'
  BY <1>k, <1>i, <1>t, <1>d, <1>3, <1>b
  DEF SkCallInv, SkDone, SkOwn, SkPlace, SkStaged, SkStage, Install!Installs,
      Install!FromAgent, Install!Same, Install!AllKinds, SkGone
<1> QED
  BY <1>1, <1>2, <1>3, <1>4, <1>5 DEF SkCallInv

LEMMA SkNotThereStep ==
    ASSUME SkIInv, NEW c \in SkillCalls, SkActs(c), Install!NotThere(c), kind[c] \in Install!AllKinds
    PROVE  SkCallInv(c)'
<1> USE DEF Install!NotThere, Install!Active, Install!Goto, Install!Returns
<1>k. kind' = kind /\ touched'[c] = touched[c] /\ touched[c] \in BOOLEAN
  BY DEF SkActs, SkIInv, SkTypes, Install!TypeOK
<1>i. SkCallInv(c)
  BY DEF SkIInv
<1>t. c \in DOMAIN skillPc /\ c \in DOMAIN result /\ c \in DOMAIN flag
  BY DEF SkIInv, SkTypes, Install!TypeOK
<1>d. /\ dir' = dir /\ Install!Files' = Install!Files /\ Install!Writers' = Install!Writers
  BY DEF Install!Keeps, Install!Files, Install!Writers
<1>b. /\ skillPc[c] = "start" /\ result[c] = "none" /\ found'[c] = dir
      /\ Install!Installs(c) => c \notin Install!Writers
  BY SkBegins
<1>1. SkPlace(c)'
  BY <1>k, <1>i, <1>t, <1>d, <1>b
  DEF SkCallInv, SkPlace, Install!Installs, Install!FromAgent, Install!Same, Install!AllKinds
<1>2. SkLeaves(c)'
  BY <1>k, <1>i, <1>t, <1>d, <1>b
  DEF SkCallInv, SkLeaves, SkPlace, Install!Installs, Install!AllKinds
<1>3. SkStaged(c)'
  <2> SUFFICES ASSUME ~touched'[c] \/ Install!OfOneTool' PROVE SkStage(c)'
    BY DEF SkStaged
  <2>1. Install!OfOneTool' => Install!OfOneTool
    BY DEF SkActs, Install!OfOneTool, Install!FromAgent
  <2>2. SkStage(c)
    BY <1>k, <1>i, <2>1 DEF SkCallInv, SkStaged
  <2> QED
    BY <1>k, <1>i, <1>t, <1>d, <1>b, <2>2
    DEF SkCallInv, SkPlace, SkStage, Install!Installs, Install!FromAgent, Install!AllKinds
<1>4. SkOwn(c)'
  <2>1. dir = Install!Absent => Install!Writers = {}
    BY DEF Install!Writers, Install!Files
  <2> QED
    BY <2>1, <1>k, <1>i, <1>t, <1>d, <1>b
    DEF SkCallInv, SkOwn, SkPlace, Install!Installs, Install!FromAgent, Install!Same,
        Install!AllKinds
<1>5. SkDone(c)'
  BY <1>k, <1>i, <1>t, <1>d, <1>3, <1>b
  DEF SkCallInv, SkDone, SkOwn, SkPlace, SkStaged, SkStage, Install!Installs,
      Install!FromAgent, Install!Same, Install!AllKinds
<1> QED
  BY <1>1, <1>2, <1>3, <1>4, <1>5 DEF SkCallInv

LEMMA SkGetSkillMetaStep ==
    ASSUME SkIInv, NEW c \in SkillCalls, SkActs(c), Install!GetSkillMeta(c), kind[c] \in Install!AllKinds
    PROVE  SkCallInv(c)'
<1> USE DEF Install!GetSkillMeta, Install!Active, Install!Goto, Install!Returns
<1>k. kind' = kind /\ touched'[c] = touched[c] /\ touched[c] \in BOOLEAN
  BY DEF SkActs, SkIInv, SkTypes, Install!TypeOK
<1>i. SkCallInv(c)
  BY DEF SkIInv
<1>t. c \in DOMAIN skillPc /\ c \in DOMAIN result /\ c \in DOMAIN flag
  BY DEF SkIInv, SkTypes, Install!TypeOK
<1>d. /\ dir' = dir /\ Install!Files' = Install!Files /\ Install!Writers' = Install!Writers
  BY DEF Install!Keeps, Install!Files, Install!Writers
<1>1. SkPlace(c)'
  BY <1>k, <1>i, <1>t, <1>d
  DEF SkCallInv, SkPlace, Install!Installs, Install!FromAgent, Install!Same, Install!AllKinds
<1>2. SkLeaves(c)'
  BY <1>k, <1>i, <1>t, <1>d DEF SkCallInv, SkLeaves, SkPlace, Install!Installs, Install!AllKinds
<1>3. SkStaged(c)'
  <2> SUFFICES ASSUME ~touched'[c] \/ Install!OfOneTool' PROVE SkStage(c)'
    BY DEF SkStaged
  <2>1. Install!OfOneTool' => Install!OfOneTool
    BY DEF SkActs, Install!OfOneTool, Install!FromAgent
  <2>2. SkStage(c)
    BY <1>k, <1>i, <2>1 DEF SkCallInv, SkStaged
  <2> QED
    BY <1>k, <1>i, <1>t, <1>d, <2>2
    DEF SkCallInv, SkPlace, SkStage, Install!Installs, Install!FromAgent, Install!AllKinds
<1>4. SkOwn(c)'
  BY <1>k, <1>i, <1>t, <1>d
  DEF SkCallInv, SkOwn, SkPlace, Install!Installs, Install!FromAgent, Install!Same,
      Install!AllKinds
<1>5. SkDone(c)'
  BY <1>k, <1>i, <1>t, <1>d, <1>3
  DEF SkCallInv, SkDone, SkOwn, SkPlace, SkStaged, SkStage, Install!Installs,
      Install!FromAgent, Install!Same, Install!AllKinds
<1> QED
  BY <1>1, <1>2, <1>3, <1>4, <1>5 DEF SkCallInv

LEMMA SkDownloadStep ==
    ASSUME SkIInv, NEW c \in SkillCalls, SkActs(c), Install!Download(c), kind[c] \in Install!AllKinds
    PROVE  SkCallInv(c)'
<1> USE DEF Install!Download, Install!Active, Install!Goto, Install!Returns
<1>k. kind' = kind /\ touched'[c] = touched[c] /\ touched[c] \in BOOLEAN
  BY DEF SkActs, SkIInv, SkTypes, Install!TypeOK
<1>i. SkCallInv(c)
  BY DEF SkIInv
<1>t. c \in DOMAIN skillPc /\ c \in DOMAIN result /\ c \in DOMAIN flag
  BY DEF SkIInv, SkTypes, Install!TypeOK
<1>d. /\ dir' = dir /\ Install!Files' = Install!Files /\ Install!Writers' = Install!Writers
  BY DEF Install!Keeps, Install!Files, Install!Writers
<1>1. SkPlace(c)'
  BY <1>k, <1>i, <1>t, <1>d
  DEF SkCallInv, SkPlace, Install!Installs, Install!FromAgent, Install!Same, Install!AllKinds
<1>2. SkLeaves(c)'
  BY <1>k, <1>i, <1>t, <1>d DEF SkCallInv, SkLeaves, SkPlace, Install!Installs, Install!AllKinds
<1>3. SkStaged(c)'
  <2> SUFFICES ASSUME ~touched'[c] \/ Install!OfOneTool' PROVE SkStage(c)'
    BY DEF SkStaged
  <2>1. Install!OfOneTool' => Install!OfOneTool
    BY DEF SkActs, Install!OfOneTool, Install!FromAgent
  <2>2. SkStage(c)
    BY <1>k, <1>i, <2>1 DEF SkCallInv, SkStaged
  <2> QED
    BY <1>k, <1>i, <1>t, <1>d, <2>2
    DEF SkCallInv, SkPlace, SkStage, Install!Installs, Install!FromAgent, Install!AllKinds
<1>4. SkOwn(c)'
  BY <1>k, <1>i, <1>t, <1>d
  DEF SkCallInv, SkOwn, SkPlace, Install!Installs, Install!FromAgent, Install!Same,
      Install!AllKinds
<1>5. SkDone(c)'
  BY <1>k, <1>i, <1>t, <1>d, <1>3
  DEF SkCallInv, SkDone, SkOwn, SkPlace, SkStaged, SkStage, Install!Installs,
      Install!FromAgent, Install!Same, Install!AllKinds
<1> QED
  BY <1>1, <1>2, <1>3, <1>4, <1>5 DEF SkCallInv

LEMMA SkExtractStep ==
    ASSUME SkIInv, NEW c \in SkillCalls, SkActs(c), Install!Extract(c), kind[c] \in Install!AllKinds
    PROVE  SkCallInv(c)'
<1> USE DEF Install!Extract, Install!Active, Install!Goto, Install!Returns
<1>k. kind' = kind /\ touched'[c] = touched[c] /\ touched[c] \in BOOLEAN
  BY DEF SkActs, SkIInv, SkTypes, Install!TypeOK
<1>i. SkCallInv(c)
  BY DEF SkIInv
<1>t. c \in DOMAIN skillPc /\ c \in DOMAIN result /\ c \in DOMAIN flag
  BY DEF SkIInv, SkTypes, Install!TypeOK
<1>d. \/ skillPc[c] = "extract" /\ SkMade
      \/ skillPc[c] = "first" /\ SkWrote(c, "SKILL.md")
      \/ skillPc[c] = "second" /\ SkWrote(c, "scripts")
  <2>1. {"SKILL.md", "scripts", "origin"} \subseteq Install!FileNames /\ SkTypes
    BY DEF Install!FileNames, SkIInv
  <2>2. Install!Keeps => UNCHANGED <<dir, Install!Files, Install!Writers>>
    BY DEF Install!Keeps, Install!Files, Install!Writers
  <2> QED
    BY <1>t, <2>1, <2>2, SkWrites, SkMakes
<1>1. SkPlace(c)'
  BY <1>k, <1>i, <1>t, <1>d
  DEF SkCallInv, SkPlace, Install!Installs, Install!FromAgent, Install!Same, Install!AllKinds,
      SkWrote, SkMade
<1>2. SkLeaves(c)'
  BY <1>k, <1>i, <1>t, <1>d
  DEF SkCallInv, SkLeaves, SkPlace, Install!Installs, Install!AllKinds, SkWrote, SkMade
<1>3. SkStaged(c)'
  <2> SUFFICES ASSUME ~touched'[c] \/ Install!OfOneTool' PROVE SkStage(c)'
    BY DEF SkStaged
  <2>1. Install!OfOneTool' => Install!OfOneTool
    BY DEF SkActs, Install!OfOneTool, Install!FromAgent
  <2>2. SkStage(c)
    BY <1>k, <1>i, <2>1 DEF SkCallInv, SkStaged
  <2> QED
    <3>1. CASE skillPc[c] = "extract"
      <4>1. Install!Files = {} /\ Install!Files' = {} /\ skillPc'[c] = "first"
        BY <1>d, <1>t, <2>2, <3>1 DEF SkStage, Install!Files, SkMade
      <4> QED
        BY <4>1 DEF SkStage
    <3>2. CASE skillPc[c] = "first"
      <4>1. Install!Files' = {"SKILL.md"} /\ dir'["SKILL.md"] = c /\ skillPc'[c] = "second"
        BY <1>d, <1>t, <2>2, <3>2 DEF SkStage, SkWrote
      <4> QED
        BY <4>1 DEF SkStage
    <3>3. CASE skillPc[c] = "second"
      <4>1. Install!Files' = {"SKILL.md", "scripts"} /\ dir'["SKILL.md"] = c /\ dir'["scripts"] = c
            /\ skillPc'[c] = "moderation"
        BY <1>d, <1>t, <2>2, <3>3 DEF SkStage, SkWrote
      <4> QED
        BY <4>1 DEF SkStage
    <3> QED
      BY <3>1, <3>2, <3>3
<1>4. SkOwn(c)'
  BY <1>k, <1>i, <1>t, <1>d
  DEF SkCallInv, SkOwn, SkPlace, Install!Installs, Install!FromAgent, Install!Same,
      Install!AllKinds, SkWrote, SkMade
<1>5. SkDone(c)'
  BY <1>k, <1>i, <1>t, <1>d, <1>3
  DEF SkCallInv, SkDone, SkOwn, SkPlace, SkStaged, SkStage, Install!Installs,
      Install!FromAgent, Install!Same, Install!AllKinds, SkWrote, SkMade
<1> QED
  BY <1>1, <1>2, <1>3, <1>4, <1>5 DEF SkCallInv

LEMMA SkExtractFailsStep ==
    ASSUME SkIInv, NEW c \in SkillCalls, SkActs(c), Install!ExtractFails(c), kind[c] \in Install!AllKinds
    PROVE  SkCallInv(c)'
<1> USE DEF Install!ExtractFails, Install!Active, Install!Goto, Install!Returns
<1>k. kind' = kind /\ touched'[c] = touched[c] /\ touched[c] \in BOOLEAN
  BY DEF SkActs, SkIInv, SkTypes, Install!TypeOK
<1>i. SkCallInv(c)
  BY DEF SkIInv
<1>t. c \in DOMAIN skillPc /\ c \in DOMAIN result /\ c \in DOMAIN flag
  BY DEF SkIInv, SkTypes, Install!TypeOK
<1>d. /\ dir' = dir /\ Install!Files' = Install!Files /\ Install!Writers' = Install!Writers
  BY DEF Install!Keeps, Install!Files, Install!Writers
<1>1. SkPlace(c)'
  BY <1>k, <1>i, <1>t, <1>d
  DEF SkCallInv, SkPlace, Install!Installs, Install!FromAgent, Install!Same, Install!AllKinds
<1>2. SkLeaves(c)'
  BY <1>k, <1>i, <1>t, <1>d DEF SkCallInv, SkLeaves, SkPlace, Install!Installs, Install!AllKinds
<1>3. SkStaged(c)'
  <2> SUFFICES ASSUME ~touched'[c] \/ Install!OfOneTool' PROVE SkStage(c)'
    BY DEF SkStaged
  <2>1. Install!OfOneTool' => Install!OfOneTool
    BY DEF SkActs, Install!OfOneTool, Install!FromAgent
  <2>2. SkStage(c)
    BY <1>k, <1>i, <2>1 DEF SkCallInv, SkStaged
  <2> QED
    BY <1>k, <1>i, <1>t, <1>d, <2>2
    DEF SkCallInv, SkPlace, SkStage, Install!Installs, Install!FromAgent, Install!AllKinds
<1>4. SkOwn(c)'
  BY <1>k, <1>i, <1>t, <1>d
  DEF SkCallInv, SkOwn, SkPlace, Install!Installs, Install!FromAgent, Install!Same,
      Install!AllKinds
<1>5. SkDone(c)'
  BY <1>k, <1>i, <1>t, <1>d, <1>3
  DEF SkCallInv, SkDone, SkOwn, SkPlace, SkStaged, SkStage, Install!Installs,
      Install!FromAgent, Install!Same, Install!AllKinds
<1> QED
  BY <1>1, <1>2, <1>3, <1>4, <1>5 DEF SkCallInv

LEMMA SkCleanupStep ==
    ASSUME SkIInv, NEW c \in SkillCalls, SkActs(c), Install!Cleanup(c), kind[c] \in Install!AllKinds
    PROVE  SkCallInv(c)'
<1> USE DEF Install!Cleanup, Install!Active, Install!Goto, Install!Returns
<1>k. kind' = kind /\ touched'[c] = touched[c] /\ touched[c] \in BOOLEAN
  BY DEF SkActs, SkIInv, SkTypes, Install!TypeOK
<1>i. SkCallInv(c)
  BY DEF SkIInv
<1>t. c \in DOMAIN skillPc /\ c \in DOMAIN result /\ c \in DOMAIN flag
  BY DEF SkIInv, SkTypes, Install!TypeOK
<1>d. SkGone
  BY SkRemoves DEF Install!Becomes
<1>1. SkPlace(c)'
  BY <1>k, <1>i, <1>t, <1>d
  DEF SkCallInv, SkPlace, Install!Installs, Install!FromAgent, Install!Same, Install!AllKinds,
      SkGone
<1>2. SkLeaves(c)'
  BY <1>k, <1>i, <1>t, <1>d
  DEF SkCallInv, SkLeaves, SkPlace, Install!Installs, Install!AllKinds, SkGone
<1>3. SkStaged(c)'
  <2> SUFFICES ASSUME ~touched'[c] \/ Install!OfOneTool' PROVE SkStage(c)'
    BY DEF SkStaged
  <2>1. Install!OfOneTool' => Install!OfOneTool
    BY DEF SkActs, Install!OfOneTool, Install!FromAgent
  <2>2. SkStage(c)
    BY <1>k, <1>i, <2>1 DEF SkCallInv, SkStaged
  <2> QED
    BY <1>k, <1>i, <1>t, <1>d, <2>2
    DEF SkCallInv, SkPlace, SkStage, Install!Installs, Install!FromAgent, Install!AllKinds,
        SkGone
<1>4. SkOwn(c)'
  BY <1>k, <1>i, <1>t, <1>d
  DEF SkCallInv, SkOwn, SkPlace, Install!Installs, Install!FromAgent, Install!Same,
      Install!AllKinds, SkGone
<1>5. SkDone(c)'
  BY <1>k, <1>i, <1>t, <1>d, <1>3
  DEF SkCallInv, SkDone, SkOwn, SkPlace, SkStaged, SkStage, Install!Installs,
      Install!FromAgent, Install!Same, Install!AllKinds, SkGone
<1> QED
  BY <1>1, <1>2, <1>3, <1>4, <1>5 DEF SkCallInv

LEMMA SkModerationStep ==
    ASSUME SkIInv, NEW c \in SkillCalls, SkActs(c), Install!Moderation(c), kind[c] \in Install!AllKinds
    PROVE  SkCallInv(c)'
<1> USE DEF Install!Moderation, Install!Active, Install!Goto, Install!Returns
<1>k. kind' = kind /\ touched'[c] = touched[c] /\ touched[c] \in BOOLEAN
  BY DEF SkActs, SkIInv, SkTypes, Install!TypeOK
<1>i. SkCallInv(c)
  BY DEF SkIInv
<1>t. c \in DOMAIN skillPc /\ c \in DOMAIN result /\ c \in DOMAIN flag
  BY DEF SkIInv, SkTypes, Install!TypeOK
<1>d. /\ dir' = dir /\ Install!Files' = Install!Files /\ Install!Writers' = Install!Writers
  BY DEF Install!Keeps, Install!Files, Install!Writers
<1>1. SkPlace(c)'
  BY <1>k, <1>i, <1>t, <1>d
  DEF SkCallInv, SkPlace, Install!Installs, Install!FromAgent, Install!Same, Install!AllKinds
<1>2. SkLeaves(c)'
  BY <1>k, <1>i, <1>t, <1>d DEF SkCallInv, SkLeaves, SkPlace, Install!Installs, Install!AllKinds
<1>3. SkStaged(c)'
  <2> SUFFICES ASSUME ~touched'[c] \/ Install!OfOneTool' PROVE SkStage(c)'
    BY DEF SkStaged
  <2>1. Install!OfOneTool' => Install!OfOneTool
    BY DEF SkActs, Install!OfOneTool, Install!FromAgent
  <2>2. SkStage(c)
    BY <1>k, <1>i, <2>1 DEF SkCallInv, SkStaged
  <2> QED
    BY <1>k, <1>i, <1>t, <1>d, <2>2
    DEF SkCallInv, SkPlace, SkStage, Install!Installs, Install!FromAgent, Install!AllKinds
<1>4. SkOwn(c)'
  BY <1>k, <1>i, <1>t, <1>d
  DEF SkCallInv, SkOwn, SkPlace, Install!Installs, Install!FromAgent, Install!Same,
      Install!AllKinds
<1>5. SkDone(c)'
  BY <1>k, <1>i, <1>t, <1>d, <1>3
  DEF SkCallInv, SkDone, SkOwn, SkPlace, SkStaged, SkStage, Install!Installs,
      Install!FromAgent, Install!Same, Install!AllKinds
<1> QED
  BY <1>1, <1>2, <1>3, <1>4, <1>5 DEF SkCallInv

LEMMA SkWriteOriginMetaStep ==
    ASSUME SkIInv, NEW c \in SkillCalls, SkActs(c), Install!WriteOriginMeta(c), kind[c] \in Install!AllKinds
    PROVE  SkCallInv(c)'
<1> USE DEF Install!WriteOriginMeta, Install!Active, Install!Goto, Install!Returns
<1>k. kind' = kind /\ touched'[c] = touched[c] /\ touched[c] \in BOOLEAN
  BY DEF SkActs, SkIInv, SkTypes, Install!TypeOK
<1>i. SkCallInv(c)
  BY DEF SkIInv
<1>t. c \in DOMAIN skillPc /\ c \in DOMAIN result /\ c \in DOMAIN flag
  BY DEF SkIInv, SkTypes, Install!TypeOK
<1>d. SkWrote(c, "origin") \/ (dir' = dir /\ Install!Files' = Install!Files /\ Install!Writers' = Install!Writers)
  <2>1. {"SKILL.md", "scripts", "origin"} \subseteq Install!FileNames /\ SkTypes
    BY DEF Install!FileNames, SkIInv
  <2>2. Install!Keeps => UNCHANGED <<dir, Install!Files, Install!Writers>>
    BY DEF Install!Keeps, Install!Files, Install!Writers
  <2> QED
    BY <1>t, <2>1, <2>2, SkWrites, SkMakes
<1>1. SkPlace(c)'
  BY <1>k, <1>i, <1>t, <1>d
  DEF SkCallInv, SkPlace, Install!Installs, Install!FromAgent, Install!Same, Install!AllKinds,
      SkWrote, SkMade
<1>2. SkLeaves(c)'
  BY <1>k, <1>i, <1>t, <1>d
  DEF SkCallInv, SkLeaves, SkPlace, Install!Installs, Install!AllKinds, SkWrote, SkMade
<1>3. SkStaged(c)'
  <2> SUFFICES ASSUME ~touched'[c] \/ Install!OfOneTool' PROVE SkStage(c)'
    BY DEF SkStaged
  <2>1. Install!OfOneTool' => Install!OfOneTool
    BY DEF SkActs, Install!OfOneTool, Install!FromAgent
  <2>2. SkStage(c)
    BY <1>k, <1>i, <2>1 DEF SkCallInv, SkStaged
  <2> QED
    BY <1>k, <1>i, <1>t, <1>d, <2>2
    DEF SkCallInv, SkPlace, SkStage, Install!Installs, Install!FromAgent, Install!AllKinds,
        SkWrote, SkMade
<1>4. SkOwn(c)'
  BY <1>k, <1>i, <1>t, <1>d
  DEF SkCallInv, SkOwn, SkPlace, Install!Installs, Install!FromAgent, Install!Same,
      Install!AllKinds, SkWrote, SkMade
<1>5. SkDone(c)'
  BY <1>k, <1>i, <1>t, <1>d, <1>3
  DEF SkCallInv, SkDone, SkOwn, SkPlace, SkStaged, SkStage, Install!Installs,
      Install!FromAgent, Install!Same, Install!AllKinds, SkWrote, SkMade
<1> QED
  BY <1>1, <1>2, <1>3, <1>4, <1>5 DEF SkCallInv

LEMMA SkListFilesStep ==
    ASSUME SkIInv, NEW c \in SkillCalls, SkActs(c), Install!ListFiles(c), kind[c] \in Install!AllKinds
    PROVE  SkCallInv(c)'
<1> USE DEF Install!ListFiles, Install!Active, Install!Goto, Install!Returns
<1>k. kind' = kind /\ touched'[c] = touched[c] /\ touched[c] \in BOOLEAN
  BY DEF SkActs, SkIInv, SkTypes, Install!TypeOK
<1>i. SkCallInv(c)
  BY DEF SkIInv
<1>t. c \in DOMAIN skillPc /\ c \in DOMAIN result /\ c \in DOMAIN flag
  BY DEF SkIInv, SkTypes, Install!TypeOK
<1>d. /\ dir' = dir /\ Install!Files' = Install!Files /\ Install!Writers' = Install!Writers
  BY DEF Install!Keeps, Install!Files, Install!Writers
<1>1. SkPlace(c)'
  BY <1>k, <1>i, <1>t, <1>d
  DEF SkCallInv, SkPlace, Install!Installs, Install!FromAgent, Install!Same, Install!AllKinds
<1>2. SkLeaves(c)'
  BY <1>k, <1>i, <1>t, <1>d DEF SkCallInv, SkLeaves, SkPlace, Install!Installs, Install!AllKinds
<1>3. SkStaged(c)'
  <2> SUFFICES ASSUME ~touched'[c] \/ Install!OfOneTool' PROVE SkStage(c)'
    BY DEF SkStaged
  <2>1. Install!OfOneTool' => Install!OfOneTool
    BY DEF SkActs, Install!OfOneTool, Install!FromAgent
  <2>2. SkStage(c)
    BY <1>k, <1>i, <2>1 DEF SkCallInv, SkStaged
  <2> QED
    BY <1>k, <1>i, <1>t, <1>d, <2>2
    DEF SkCallInv, SkPlace, SkStage, Install!Installs, Install!FromAgent, Install!AllKinds
<1>4. SkOwn(c)'
  BY <1>k, <1>i, <1>t, <1>d
  DEF SkCallInv, SkOwn, SkPlace, Install!Installs, Install!FromAgent, Install!Same,
      Install!AllKinds
<1>5. SkDone(c)'
  BY <1>k, <1>i, <1>t, <1>d, <1>3
  DEF SkCallInv, SkDone, SkOwn, SkPlace, SkStaged, SkStage, Install!Installs,
      Install!FromAgent, Install!Same, Install!AllKinds
<1> QED
  BY <1>1, <1>2, <1>3, <1>4, <1>5 DEF SkCallInv

LEMMA SkDownloadFilesStep ==
    ASSUME SkIInv, NEW c \in SkillCalls, SkActs(c), Install!DownloadFiles(c), kind[c] \in Install!AllKinds
    PROVE  SkCallInv(c)'
<1> USE DEF Install!DownloadFiles, Install!Active, Install!Goto, Install!Returns
<1>k. kind' = kind /\ touched'[c] = touched[c] /\ touched[c] \in BOOLEAN
  BY DEF SkActs, SkIInv, SkTypes, Install!TypeOK
<1>i. SkCallInv(c)
  BY DEF SkIInv
<1>t. c \in DOMAIN skillPc /\ c \in DOMAIN result /\ c \in DOMAIN flag
  BY DEF SkIInv, SkTypes, Install!TypeOK
<1>d. \/ SkWrote(c, "SKILL.md") \/ SkWrote(c, "scripts") \/ SkMade
      \/ (dir' = dir /\ Install!Files' = Install!Files /\ Install!Writers' = Install!Writers)
  <2>1. {"SKILL.md", "scripts", "origin"} \subseteq Install!FileNames /\ SkTypes
    BY DEF Install!FileNames, SkIInv
  <2>2. Install!Keeps => UNCHANGED <<dir, Install!Files, Install!Writers>>
    BY DEF Install!Keeps, Install!Files, Install!Writers
  <2> QED
    BY <1>t, <2>1, <2>2, SkWrites, SkMakes
<1>1. SkPlace(c)'
  BY <1>k, <1>i, <1>t, <1>d
  DEF SkCallInv, SkPlace, Install!Installs, Install!FromAgent, Install!Same, Install!AllKinds,
      SkWrote, SkMade
<1>2. SkLeaves(c)'
  BY <1>k, <1>i, <1>t, <1>d
  DEF SkCallInv, SkLeaves, SkPlace, Install!Installs, Install!AllKinds, SkWrote, SkMade
<1>3. SkStaged(c)'
  <2> SUFFICES ASSUME ~touched'[c] \/ Install!OfOneTool' PROVE SkStage(c)'
    BY DEF SkStaged
  <2>1. Install!OfOneTool' => Install!OfOneTool
    BY DEF SkActs, Install!OfOneTool, Install!FromAgent
  <2>2. SkStage(c)
    BY <1>k, <1>i, <2>1 DEF SkCallInv, SkStaged
  <2> QED
    BY <1>k, <1>i, <1>t, <1>d, <2>2
    DEF SkCallInv, SkPlace, SkStage, Install!Installs, Install!FromAgent, Install!AllKinds,
        SkWrote, SkMade
<1>4. SkOwn(c)'
  BY <1>k, <1>i, <1>t, <1>d
  DEF SkCallInv, SkOwn, SkPlace, Install!Installs, Install!FromAgent, Install!Same,
      Install!AllKinds, SkWrote, SkMade
<1>5. SkDone(c)'
  BY <1>k, <1>i, <1>t, <1>d, <1>3
  DEF SkCallInv, SkDone, SkOwn, SkPlace, SkStaged, SkStage, Install!Installs,
      Install!FromAgent, Install!Same, Install!AllKinds, SkWrote, SkMade
<1> QED
  BY <1>1, <1>2, <1>3, <1>4, <1>5 DEF SkCallInv

LEMMA SkStatSkillStep ==
    ASSUME SkIInv, NEW c \in SkillCalls, SkActs(c), Install!StatSkill(c), kind[c] \in Install!AllKinds
    PROVE  SkCallInv(c)'
<1> USE DEF Install!StatSkill, Install!Active, Install!Goto, Install!Returns
<1>k. kind' = kind /\ touched'[c] = touched[c] /\ touched[c] \in BOOLEAN
  BY DEF SkActs, SkIInv, SkTypes, Install!TypeOK
<1>i. SkCallInv(c)
  BY DEF SkIInv
<1>t. c \in DOMAIN skillPc /\ c \in DOMAIN result /\ c \in DOMAIN flag
  BY DEF SkIInv, SkTypes, Install!TypeOK
<1>d. /\ dir' = dir /\ Install!Files' = Install!Files /\ Install!Writers' = Install!Writers
  BY DEF Install!Keeps, Install!Files, Install!Writers
<1>1. SkPlace(c)'
  BY <1>k, <1>i, <1>t, <1>d
  DEF SkCallInv, SkPlace, Install!Installs, Install!FromAgent, Install!Same, Install!AllKinds
<1>2. SkLeaves(c)'
  BY <1>k, <1>i, <1>t, <1>d DEF SkCallInv, SkLeaves, SkPlace, Install!Installs, Install!AllKinds
<1>3. SkStaged(c)'
  <2> SUFFICES ASSUME ~touched'[c] \/ Install!OfOneTool' PROVE SkStage(c)'
    BY DEF SkStaged
  <2>1. Install!OfOneTool' => Install!OfOneTool
    BY DEF SkActs, Install!OfOneTool, Install!FromAgent
  <2>2. SkStage(c)
    BY <1>k, <1>i, <2>1 DEF SkCallInv, SkStaged
  <2> QED
    BY <1>k, <1>i, <1>t, <1>d, <2>2
    DEF SkCallInv, SkPlace, SkStage, Install!Installs, Install!FromAgent, Install!AllKinds
<1>4. SkOwn(c)'
  BY <1>k, <1>i, <1>t, <1>d
  DEF SkCallInv, SkOwn, SkPlace, Install!Installs, Install!FromAgent, Install!Same,
      Install!AllKinds
<1>5. SkDone(c)'
  <2>1. "SKILL.md" \in Install!Files => Install!Writers # {}
    BY DEF Install!Writers
  <2> QED
    BY <2>1, <1>k, <1>i, <1>t, <1>d, <1>3
    DEF SkCallInv, SkDone, SkOwn, SkPlace, SkStaged, SkStage, Install!Installs,
        Install!FromAgent, Install!Same, Install!AllKinds
<1> QED
  BY <1>1, <1>2, <1>3, <1>4, <1>5 DEF SkCallInv

LEMMA SkDownloadRawStep ==
    ASSUME SkIInv, NEW c \in SkillCalls, SkActs(c), Install!DownloadRaw(c), kind[c] \in Install!AllKinds
    PROVE  SkCallInv(c)'
<1> USE DEF Install!DownloadRaw, Install!Active, Install!Goto, Install!Returns
<1>k. kind' = kind /\ touched'[c] = touched[c] /\ touched[c] \in BOOLEAN
  BY DEF SkActs, SkIInv, SkTypes, Install!TypeOK
<1>i. SkCallInv(c)
  BY DEF SkIInv
<1>t. c \in DOMAIN skillPc /\ c \in DOMAIN result /\ c \in DOMAIN flag
  BY DEF SkIInv, SkTypes, Install!TypeOK
<1>d. \/ SkWrote(c, "SKILL.md") /\ result'[c] = "ok"
      \/ SkMade /\ result'[c] = "error"
      \/ (dir' = dir /\ Install!Files' = Install!Files /\ Install!Writers' = Install!Writers) /\ result'[c] = "error"
  <2>1. {"SKILL.md", "scripts", "origin"} \subseteq Install!FileNames /\ SkTypes
    BY DEF Install!FileNames, SkIInv
  <2>2. Install!Keeps => UNCHANGED <<dir, Install!Files, Install!Writers>>
    BY DEF Install!Keeps, Install!Files, Install!Writers
  <2> QED
    BY <1>t, <2>1, <2>2, SkWrites, SkMakes
<1>1. SkPlace(c)'
  BY <1>k, <1>i, <1>t, <1>d
  DEF SkCallInv, SkPlace, Install!Installs, Install!FromAgent, Install!Same, Install!AllKinds,
      SkWrote, SkMade
<1>2. SkLeaves(c)'
  BY <1>k, <1>i, <1>t, <1>d
  DEF SkCallInv, SkLeaves, SkPlace, Install!Installs, Install!AllKinds, SkWrote, SkMade
<1>3. SkStaged(c)'
  <2> SUFFICES ASSUME ~touched'[c] \/ Install!OfOneTool' PROVE SkStage(c)'
    BY DEF SkStaged
  <2>1. Install!OfOneTool' => Install!OfOneTool
    BY DEF SkActs, Install!OfOneTool, Install!FromAgent
  <2>2. SkStage(c)
    BY <1>k, <1>i, <2>1 DEF SkCallInv, SkStaged
  <2> QED
    BY <1>k, <1>i, <1>t, <1>d, <2>2
    DEF SkCallInv, SkPlace, SkStage, Install!Installs, Install!FromAgent, Install!AllKinds,
        SkWrote, SkMade
<1>4. SkOwn(c)'
  BY <1>k, <1>i, <1>t, <1>d
  DEF SkCallInv, SkOwn, SkPlace, Install!Installs, Install!FromAgent, Install!Same,
      Install!AllKinds, SkWrote, SkMade
<1>5. SkDone(c)'
  BY <1>k, <1>i, <1>t, <1>d, <1>3
  DEF SkCallInv, SkDone, SkOwn, SkPlace, SkStaged, SkStage, Install!Installs,
      Install!FromAgent, Install!Same, Install!AllKinds, SkWrote, SkMade
<1> QED
  BY <1>1, <1>2, <1>3, <1>4, <1>5 DEF SkCallInv

LEMMA SkImportMkdirStep ==
    ASSUME SkIInv, NEW c \in SkillCalls, SkActs(c), Install!ImportMkdir(c), kind[c] \in Install!AllKinds
    PROVE  SkCallInv(c)'
<1> USE DEF Install!ImportMkdir, Install!Active, Install!Goto, Install!Returns
<1>k. kind' = kind /\ touched'[c] = touched[c] /\ touched[c] \in BOOLEAN
  BY DEF SkActs, SkIInv, SkTypes, Install!TypeOK
<1>i. SkCallInv(c)
  BY DEF SkIInv
<1>t. c \in DOMAIN skillPc /\ c \in DOMAIN result /\ c \in DOMAIN flag
  BY DEF SkIInv, SkTypes, Install!TypeOK
<1>d. \/ SkMade /\ skillPc'[c] = "write"
      \/ (dir' = dir /\ Install!Files' = Install!Files /\ Install!Writers' = Install!Writers) /\ result'[c] = "error" /\ skillPc'[c] = "returned"
  <2>1. {"SKILL.md", "scripts", "origin"} \subseteq Install!FileNames /\ SkTypes
    BY DEF Install!FileNames, SkIInv
  <2>2. Install!Keeps => UNCHANGED <<dir, Install!Files, Install!Writers>>
    BY DEF Install!Keeps, Install!Files, Install!Writers
  <2> QED
    BY <1>t, <2>1, <2>2, SkWrites, SkMakes
<1>1. SkPlace(c)'
  BY <1>k, <1>i, <1>t, <1>d
  DEF SkCallInv, SkPlace, Install!Installs, Install!FromAgent, Install!Same, Install!AllKinds,
      SkWrote, SkMade
<1>2. SkLeaves(c)'
  BY <1>k, <1>i, <1>t, <1>d
  DEF SkCallInv, SkLeaves, SkPlace, Install!Installs, Install!AllKinds, SkWrote, SkMade
<1>3. SkStaged(c)'
  <2> SUFFICES ASSUME ~touched'[c] \/ Install!OfOneTool' PROVE SkStage(c)'
    BY DEF SkStaged
  <2>1. Install!OfOneTool' => Install!OfOneTool
    BY DEF SkActs, Install!OfOneTool, Install!FromAgent
  <2>2. SkStage(c)
    BY <1>k, <1>i, <2>1 DEF SkCallInv, SkStaged
  <2> QED
    BY <1>k, <1>i, <1>t, <1>d, <2>2
    DEF SkCallInv, SkPlace, SkStage, Install!Installs, Install!FromAgent, Install!AllKinds,
        SkWrote, SkMade
<1>4. SkOwn(c)'
  BY <1>k, <1>i, <1>t, <1>d
  DEF SkCallInv, SkOwn, SkPlace, Install!Installs, Install!FromAgent, Install!Same,
      Install!AllKinds, SkWrote, SkMade
<1>5. SkDone(c)'
  BY <1>k, <1>i, <1>t, <1>d, <1>3
  DEF SkCallInv, SkDone, SkOwn, SkPlace, SkStaged, SkStage, Install!Installs,
      Install!FromAgent, Install!Same, Install!AllKinds, SkWrote, SkMade
<1> QED
  BY <1>1, <1>2, <1>3, <1>4, <1>5 DEF SkCallInv

LEMMA SkImportWriteStep ==
    ASSUME SkIInv, NEW c \in SkillCalls, SkActs(c), Install!ImportWrite(c), kind[c] \in Install!AllKinds
    PROVE  SkCallInv(c)'
<1> USE DEF Install!ImportWrite, Install!Active, Install!Goto, Install!Returns
<1>k. kind' = kind /\ touched'[c] = touched[c] /\ touched[c] \in BOOLEAN
  BY DEF SkActs, SkIInv, SkTypes, Install!TypeOK
<1>i. SkCallInv(c)
  BY DEF SkIInv
<1>t. c \in DOMAIN skillPc /\ c \in DOMAIN result /\ c \in DOMAIN flag
  BY DEF SkIInv, SkTypes, Install!TypeOK
<1>d. \/ SkWrote(c, "SKILL.md") /\ result'[c] = "ok"
      \/ (dir' = dir /\ Install!Files' = Install!Files /\ Install!Writers' = Install!Writers) /\ result'[c] = "error"
  <2>1. {"SKILL.md", "scripts", "origin"} \subseteq Install!FileNames /\ SkTypes
    BY DEF Install!FileNames, SkIInv
  <2>2. Install!Keeps => UNCHANGED <<dir, Install!Files, Install!Writers>>
    BY DEF Install!Keeps, Install!Files, Install!Writers
  <2> QED
    BY <1>t, <2>1, <2>2, SkWrites, SkMakes
<1>1. SkPlace(c)'
  BY <1>k, <1>i, <1>t, <1>d
  DEF SkCallInv, SkPlace, Install!Installs, Install!FromAgent, Install!Same, Install!AllKinds,
      SkWrote, SkMade
<1>2. SkLeaves(c)'
  BY <1>k, <1>i, <1>t, <1>d
  DEF SkCallInv, SkLeaves, SkPlace, Install!Installs, Install!AllKinds, SkWrote, SkMade
<1>3. SkStaged(c)'
  <2> SUFFICES ASSUME ~touched'[c] \/ Install!OfOneTool' PROVE SkStage(c)'
    BY DEF SkStaged
  <2>1. Install!OfOneTool' => Install!OfOneTool
    BY DEF SkActs, Install!OfOneTool, Install!FromAgent
  <2>2. SkStage(c)
    BY <1>k, <1>i, <2>1 DEF SkCallInv, SkStaged
  <2> QED
    BY <1>k, <1>i, <1>t, <1>d, <2>2
    DEF SkCallInv, SkPlace, SkStage, Install!Installs, Install!FromAgent, Install!AllKinds,
        SkWrote, SkMade
<1>4. SkOwn(c)'
  BY <1>k, <1>i, <1>t, <1>d
  DEF SkCallInv, SkOwn, SkPlace, Install!Installs, Install!FromAgent, Install!Same,
      Install!AllKinds, SkWrote, SkMade
<1>5. SkDone(c)'
  BY <1>k, <1>i, <1>t, <1>d, <1>3
  DEF SkCallInv, SkDone, SkOwn, SkPlace, SkStaged, SkStage, Install!Installs,
      Install!FromAgent, Install!Same, Install!AllKinds, SkWrote, SkMade
<1> QED
  BY <1>1, <1>2, <1>3, <1>4, <1>5 DEF SkCallInv

LEMMA SkFindsItStep ==
    ASSUME SkIInv, NEW c \in SkillCalls, SkActs(c), Install!FindsIt(c), kind[c] \in Install!AllKinds
    PROVE  SkCallInv(c)'
<1> USE DEF Install!FindsIt, Install!Active, Install!Goto, Install!Returns
<1>k. kind' = kind /\ touched'[c] = touched[c] /\ touched[c] \in BOOLEAN
  BY DEF SkActs, SkIInv, SkTypes, Install!TypeOK
<1>i. SkCallInv(c)
  BY DEF SkIInv
<1>t. c \in DOMAIN skillPc /\ c \in DOMAIN result /\ c \in DOMAIN flag
  BY DEF SkIInv, SkTypes, Install!TypeOK
<1>d. /\ dir' = dir /\ Install!Files' = Install!Files /\ Install!Writers' = Install!Writers
  BY DEF Install!Keeps, Install!Files, Install!Writers
<1>b. /\ skillPc[c] = "start" /\ result[c] = "none" /\ found'[c] = dir
      /\ Install!Installs(c) => c \notin Install!Writers
  BY SkBegins
<1>1. SkPlace(c)'
  BY <1>k, <1>i, <1>t, <1>d, <1>b
  DEF SkCallInv, SkPlace, Install!Installs, Install!FromAgent, Install!Same, Install!AllKinds
<1>2. SkLeaves(c)'
  BY <1>k, <1>i, <1>t, <1>d, <1>b
  DEF SkCallInv, SkLeaves, SkPlace, Install!Installs, Install!AllKinds
<1>3. SkStaged(c)'
  <2> SUFFICES ASSUME ~touched'[c] \/ Install!OfOneTool' PROVE SkStage(c)'
    BY DEF SkStaged
  <2>1. Install!OfOneTool' => Install!OfOneTool
    BY DEF SkActs, Install!OfOneTool, Install!FromAgent
  <2>2. SkStage(c)
    BY <1>k, <1>i, <2>1 DEF SkCallInv, SkStaged
  <2> QED
    BY <1>k, <1>i, <1>t, <1>d, <1>b, <2>2
    DEF SkCallInv, SkPlace, SkStage, Install!Installs, Install!FromAgent, Install!AllKinds
<1>4. SkOwn(c)'
  BY <1>k, <1>i, <1>t, <1>d, <1>b
  DEF SkCallInv, SkOwn, SkPlace, Install!Installs, Install!FromAgent, Install!Same,
      Install!AllKinds
<1>5. SkDone(c)'
  BY <1>k, <1>i, <1>t, <1>d, <1>3, <1>b
  DEF SkCallInv, SkDone, SkOwn, SkPlace, SkStaged, SkStage, Install!Installs,
      Install!FromAgent, Install!Same, Install!AllKinds
<1> QED
  BY <1>1, <1>2, <1>3, <1>4, <1>5 DEF SkCallInv

LEMMA SkRemoveItStep ==
    ASSUME SkIInv, NEW c \in SkillCalls, SkActs(c), Install!RemoveIt(c), kind[c] \in Install!AllKinds
    PROVE  SkCallInv(c)'
<1> USE DEF Install!RemoveIt, Install!Active, Install!Goto, Install!Returns
<1>k. kind' = kind /\ touched'[c] = touched[c] /\ touched[c] \in BOOLEAN
  BY DEF SkActs, SkIInv, SkTypes, Install!TypeOK
<1>i. SkCallInv(c)
  BY DEF SkIInv
<1>t. c \in DOMAIN skillPc /\ c \in DOMAIN result /\ c \in DOMAIN flag
  BY DEF SkIInv, SkTypes, Install!TypeOK
<1>d. SkGone
  BY SkRemoves DEF Install!Becomes
<1>1. SkPlace(c)'
  BY <1>k, <1>i, <1>t, <1>d
  DEF SkCallInv, SkPlace, Install!Installs, Install!FromAgent, Install!Same, Install!AllKinds,
      SkGone
<1>2. SkLeaves(c)'
  BY <1>k, <1>i, <1>t, <1>d
  DEF SkCallInv, SkLeaves, SkPlace, Install!Installs, Install!AllKinds, SkGone
<1>3. SkStaged(c)'
  <2> SUFFICES ASSUME ~touched'[c] \/ Install!OfOneTool' PROVE SkStage(c)'
    BY DEF SkStaged
  <2>1. Install!OfOneTool' => Install!OfOneTool
    BY DEF SkActs, Install!OfOneTool, Install!FromAgent
  <2>2. SkStage(c)
    BY <1>k, <1>i, <2>1 DEF SkCallInv, SkStaged
  <2> QED
    BY <1>k, <1>i, <1>t, <1>d, <2>2
    DEF SkCallInv, SkPlace, SkStage, Install!Installs, Install!FromAgent, Install!AllKinds,
        SkGone
<1>4. SkOwn(c)'
  BY <1>k, <1>i, <1>t, <1>d
  DEF SkCallInv, SkOwn, SkPlace, Install!Installs, Install!FromAgent, Install!Same,
      Install!AllKinds, SkGone
<1>5. SkDone(c)'
  BY <1>k, <1>i, <1>t, <1>d, <1>3
  DEF SkCallInv, SkDone, SkOwn, SkPlace, SkStaged, SkStage, Install!Installs,
      Install!FromAgent, Install!Same, Install!AllKinds, SkGone
<1> QED
  BY <1>1, <1>2, <1>3, <1>4, <1>5 DEF SkCallInv

LEMMA SkCallKeeps ==
    ASSUME SkIInv, NEW c \in SkillCalls, SkActs(c), SkSteps(c), kind[c] \in Install!AllKinds
    PROVE  SkCallInv(c)'
BY SkAlreadyThereStep, SkRemoveFirstStep, SkNotThereStep, SkGetSkillMetaStep, SkDownloadStep, SkExtractStep, SkExtractFailsStep,
   SkCleanupStep, SkModerationStep, SkWriteOriginMetaStep, SkListFilesStep,
   SkDownloadFilesStep, SkStatSkillStep, SkDownloadRawStep, SkImportMkdirStep, SkImportWriteStep, SkFindsItStep, SkRemoveItStep
   DEF SkSteps

LEMMA SkTurnsKept ==
    ASSUME SkIInv, NEW c \in SkillCalls, SkActs(c)
    PROVE  SkTurns'
<1> SUFFICES ASSUME NEW x \in SkillCalls, NEW y \in SkillCalls, x # y,
                    Install!FromAgent(x)', Install!FromAgent(y)', tool'[x] = tool'[y],
                    Install!Active(x)', Install!Active(y)'
             PROVE  FALSE
  BY DEF SkTurns
<1>1. /\ kind' = kind /\ tool' = tool /\ skillPc[c] # "returned"
      /\ \A z \in SkillCalls \ {c} : skillPc'[z] = skillPc[z]
  BY DEF SkActs
<1>2. Install!FromAgent(x) /\ Install!FromAgent(y) /\ tool[x] = tool[y]
  BY <1>1 DEF Install!FromAgent
<1>3. (x # c => Install!Active(x)) /\ (y # c => Install!Active(y))
  BY <1>1 DEF Install!Active
<1>4. x = c \/ y = c
  BY <1>2, <1>3 DEF SkIInv, SkTurns
<1>5. ~Install!Active(c)
  BY <1>2, <1>3, <1>4 DEF SkIInv, SkTurns
<1>6. Install!Unlocked(c)
  BY <1>2, <1>4, <1>5 DEF SkActs
<1> QED
  BY <1>2, <1>3, <1>4, <1>6 DEF Install!Unlocked

\* One install of which a call has returned is that of this call from then on.
LEMMA SkOneInstallStays ==
    ASSUME SkIInv, NEW c \in SkillCalls, SkActs(c), dir' = dir, Install!OneInstall(dir)
    PROVE  Install!OneInstall(dir)'
<1>1. CASE dir \in {Install!Absent, Install!Whole(Install!Before)}
  BY <1>1 DEF Install!OneInstall, Install!Absent, Install!Whole, Install!Before
<1>2. ASSUME NEW x \in SkillCalls, result[x] = "ok", ~flag[x],
             {"SKILL.md", "scripts"} \subseteq DOMAIN dir, \A f \in DOMAIN dir : dir[f] = x
      PROVE  Install!OneInstall(dir)'
  <2>1. SkPlace(x)
    BY DEF SkIInv, SkCallInv
  <2>2. x # c
    BY <1>2, <2>1 DEF SkActs, SkPlace
  <2>3. result'[x] = "ok" /\ ~flag'[x]
    BY <1>2, <2>2 DEF SkActs
  <2> QED
    BY <1>2, <2>3 DEF Install!OneInstall
<1> QED
  BY <1>1, <1>2 DEF Install!OneInstall

LEMMA SkTakeTurns ==
    ASSUME SkIInv, NEW c \in SkillCalls, SkActs(c), SkSteps(c), SkCallInv(c)'
    PROVE  Install!TakeTurns'
<1> SUFFICES ASSUME Install!OfOneTool', Install!Quiet' PROVE Install!OneInstall(dir)'
  BY DEF Install!TakeTurns
<1>1. Install!FromAgent(c) /\ Install!OfOneTool
  BY DEF SkActs, Install!OfOneTool, Install!FromAgent
<1>2. \A x \in SkillCalls \ {c} : ~Install!Active(x)
  BY DEF SkActs, Install!Quiet, Install!Active
<1>3. ~Install!Active(c)'
  BY DEF Install!Quiet
<1>4. SkPlace(c) /\ SkStage(c)
  BY <1>1 DEF SkIInv, SkCallInv, SkStaged
<1>5. c \in DOMAIN skillPc
  BY DEF SkIInv, SkTypes
<1>6. kind[c] \in {"tool", "force"}
  BY <1>1 DEF Install!FromAgent
<1>7. CASE Install!Begin(c)
  <2>1. Install!AlreadyThere(c) \/ Install!RemoveFirst(c) \/ Install!NotThere(c) \/ Install!FindsIt(c)
    BY <1>7 DEF SkSteps, Install!Begin, Install!GetSkillMeta, Install!Download, Install!Extract,
       Install!ExtractFails, Install!Cleanup, Install!Moderation, Install!WriteOriginMeta, Install!ListFiles,
       Install!DownloadFiles, Install!StatSkill, Install!DownloadRaw, Install!ImportMkdir,
       Install!ImportWrite, Install!RemoveIt
  <2>2. Install!AlreadyThere(c)
    BY <1>3, <1>5, <1>6, <2>1
    DEF Install!RemoveFirst, Install!NotThere, Install!FindsIt, Install!Goto,
       Install!Active, Install!Installs
  <2>3. dir' = dir
    BY <2>2 DEF Install!AlreadyThere, Install!Keeps
  <2>4. Install!Quiet
    BY <1>2, <1>7 DEF Install!Quiet, Install!Active, Install!Begin
  <2>5. Install!OneInstall(dir)
    BY <1>1, <2>4 DEF SkIInv, Install!TakeTurns
  <2> QED
    BY <2>3, <2>5, SkOneInstallStays
<1>8. CASE Install!Cleanup(c)
  BY <1>8 DEF Install!Cleanup, Install!Becomes, Install!OneInstall, Install!Absent
<1>9. CASE Install!WriteOriginMeta(c)
  <2>1. ~flag'[c] /\ result'[c] = "ok"
    BY <1>4, <1>9 DEF Install!WriteOriginMeta, Install!Returns, Install!Same, SkPlace,
       SkIInv, SkTypes, Install!TypeOK
  <2>2. Install!Files = {"SKILL.md", "scripts"} /\ \A f \in Install!Files : dir[f] = c
    BY <1>4, <1>9 DEF Install!WriteOriginMeta, SkStage
  <2>3. SkTypes /\ "origin" \in Install!FileNames
    BY DEF SkIInv, Install!FileNames
  <2>4. SkWrote(c, "origin") \/ dir' = dir
    BY <1>9, <2>3, SkWrites DEF Install!WriteOriginMeta, Install!Keeps
  <2>5. {"SKILL.md", "scripts"} \subseteq DOMAIN dir' /\ \A f \in DOMAIN dir' : dir'[f] = c
    <3>1. CASE SkWrote(c, "origin")
      BY <2>2, <3>1 DEF SkWrote
    <3>2. CASE dir' = dir
      <4>1. dir # Install!Absent
        BY <2>2 DEF Install!Files
      <4> QED
        BY <2>2, <3>2, <4>1 DEF Install!Files
    <3> QED
      BY <2>4, <3>1, <3>2
  <2> QED
    BY <2>1, <2>5 DEF Install!OneInstall
<1> QED
  BY <1>1, <1>3, <1>4, <1>5, <1>6, <1>7, <1>8, <1>9
  DEF SkSteps, SkPlace, Install!AlreadyThere, Install!RemoveFirst, Install!NotThere,
      Install!FindsIt,
      Install!GetSkillMeta, Install!Download, Install!Extract, Install!ExtractFails, Install!Moderation,
      Install!ListFiles, Install!DownloadFiles, Install!StatSkill, Install!DownloadRaw, Install!ImportMkdir,
      Install!ImportWrite, Install!RemoveIt, Install!Goto, Install!Active

LEMMA SkInitIInv ==
    ASSUME Install!ConstantsAssumption, Install!Init
    PROVE  SkIInv
<1> USE DEF Install!Init, Install!ConstantsAssumption
<1>1. Install!Whole(Install!Before) # Install!Absent
  <2>1. DOMAIN Install!Whole(Install!Before) = {"SKILL.md", "scripts"} /\ DOMAIN Install!Absent = {"absent"}
    BY DEF Install!Whole, Install!Absent
  <2> QED
    BY <2>1
<1>2. /\ Install!Files \subseteq Install!FileNames
      /\ \A f \in Install!Files : dir[f] = Install!Before
  BY <1>1 DEF Install!Files, Install!FileNames, Install!Whole
<1>3. Install!Writers \subseteq {Install!Before}
  BY <1>2 DEF Install!Writers
<1>4. SkTypes
  BY <1>2, <1>3 DEF SkTypes, Install!TypeOK
<1>5. ASSUME NEW c \in SkillCalls PROVE SkCallInv(c)
  <2>1. skillPc[c] = "start" /\ result[c] = "none" /\ c \notin Install!Writers
    BY <1>3
  <2> HIDE DEF Install!Init
  <2> QED
    BY <2>1 DEF SkCallInv, SkPlace, SkLeaves, SkStaged, SkStage, SkOwn, SkDone, Install!Active
<1>6. SkTurns
  BY DEF SkTurns, Install!Active
<1>7. Install!TakeTurns
  BY DEF Install!TakeTurns, Install!OneInstall
<1> QED
  BY <1>4, <1>5, <1>6, <1>7 DEF SkIInv

LEMMA SkNextIInv ==
    ASSUME Install!ConstantsAssumption, SkIInv, [Install!Next]_(Install!vars)
    PROVE  SkIInv'
<1>1. CASE UNCHANGED Install!vars
  BY <1>1
  DEF Install!vars, SkIInv, SkTypes, Install!TypeOK, SkTurns, SkCallInv, SkPlace, SkLeaves,
      SkStaged,
     SkStage, SkOwn, SkDone, Install!TakeTurns, Install!OneInstall, Install!Files, Install!Writers, Install!Installs,
     Install!FromAgent, Install!OfOneTool, Install!Quiet, Install!Active
<1>2. ASSUME NEW c \in SkillCalls, SkSteps(c) PROVE SkIInv'
  <2>1. SkTypes /\ kind[c] \in Install!AllKinds
    BY DEF SkIInv, SkTypes, Install!TypeOK, Install!ConstantsAssumption
  <2>2. SkActs(c)
    BY <1>2, <2>1, SkStepActs
  <2>3. SkCallInv(c)'
    BY <1>2, <2>1, <2>2, SkCallKeeps
  <2>4. \A x \in SkillCalls : SkCallInv(x)'
    BY <2>2, <2>3, SkOthers
  <2>5. SkTypes' /\ SkTurns' /\ Install!TakeTurns'
    BY <1>2, <2>2, <2>3, SkTurnsKept, SkTakeTurns DEF SkActs
  <2> QED
    BY <2>4, <2>5 DEF SkIInv
<1> QED
  BY <1>1, <1>2 DEF Install!Next, SkSteps

LEMMA SkMeans ==
    ASSUME Install!ConstantsAssumption, SkIInv
    PROVE  Install!TypeOK /\ Install!SkillInv
<1>1. Install!FailuresLeaveNothing
  <2> SUFFICES ASSUME NEW c \in SkillCalls, Install!Installs(c), result[c] = "error" PROVE c \notin Install!Writers
    BY DEF Install!FailuresLeaveNothing
  <2> QED
    BY DEF SkIInv, SkCallInv, SkLeaves, SkPlace
<1>2. Install!AllOrNothing
  <2> SUFFICES ASSUME NEW c \in SkillCalls, skillPc[c] = "returned", ~touched[c]
               PROVE  CASE result[c] = "ok" /\ kind[c] \in {"delete", "uninstall"} -> dir = Install!Absent
                        [] result[c] = "ok" /\ Install!Installs(c) ->
                               Install!Whole(c) = [f \in Install!Files \ {"origin"} |-> dir[f]]
                        [] result[c] = "ok" /\ kind[c] \in {"github", "import"} ->
                               "SKILL.md" \in Install!Files /\ Install!Writers = {c}
                        [] result[c] = "error" /\ kind[c] = "force" -> dir = Install!Absent
                        [] result[c] = "error" /\ kind[c] \notin {"force", "github", "import"} -> dir = found[c]
                        [] OTHER -> TRUE
    BY DEF Install!AllOrNothing
  <2>1. SkDone(c)
    BY DEF SkIInv, SkCallInv
  <2>2. result[c] = "ok" /\ Install!Installs(c) =>
            Install!Whole(c) = [f \in Install!Files \ {"origin"} |-> dir[f]]
    BY <2>1 DEF SkDone, Install!Whole
  <2> QED
    BY <2>1, <2>2 DEF SkDone, Install!Installs
<1> QED
  BY <1>1, <1>2 DEF SkIInv, SkTypes, Install!SkillInv

\* For any number of calls in any number of processes: what one tool's calls leave
\* is one whole install or nothing, a failed install leaves none of its files, and
\* a call nobody disturbed did all of its work or none.
THEOREM SkillsInstalledWhole ==
    ASSUME Install!ConstantsAssumption
    PROVE  Install!Spec => [](Install!TypeOK /\ Install!SkillInv)
<1>1. Install!Init => SkIInv
  BY SkInitIInv
<1>2. SkIInv /\ [Install!Next]_(Install!vars) => SkIInv'
  BY SkNextIInv
<1>3. SkIInv => Install!TypeOK /\ Install!SkillInv
  BY SkMeans
<1> QED
  BY <1>1, <1>2, <1>3, PTL DEF Install!Spec

-----------------------------------------------------------------------------
(* SkillSearch                                                             *)

\* The numbers of a set in order: each of them once, the smaller ones first.
LEMMA SxInOrder ==
    ASSUME NEW b \in SUBSET Nat, IsFiniteSet(b)
    PROVE  /\ Cardinality(b) \in Nat
           /\ Search!InOrder(b) \in [1..Cardinality(b) -> b]
           /\ \A i, j \in 1..Cardinality(b) : i < j => Search!InOrder(b)[i] < Search!InOrder(b)[j]
           /\ \A p \in b : \E i \in 1..Cardinality(b) : Search!InOrder(b)[i] = p
<1> DEFINE upTo(p) == {q \in b : q <= p}
           rank == [p \in b |-> Cardinality(upTo(p))]
           n == Cardinality(b)
           s == Search!InOrder(b)
           choice(i) == CHOOSE p \in b : Search!Cardinality({q \in b : q <= p}) = i
<1>1. n \in Nat
  BY FS_CardinalityType
<1>2. \A p \in b : /\ IsFiniteSet(upTo(p)) /\ Cardinality(upTo(p)) \in 1..n
  <2> TAKE p \in b
  <2>1. IsFiniteSet(upTo(p)) /\ Cardinality(upTo(p)) <= n
    BY FS_Subset
  <2>2. upTo(p) # {}
    OBVIOUS
  <2> QED
    BY <1>1, <2>1, <2>2, FS_CardinalityType, FS_EmptySet
<1>3. \A p, q \in b : p < q => Cardinality(upTo(p)) < Cardinality(upTo(q))
  <2> TAKE p, q \in b
  <2> HAVE p < q
  <2>1. upTo(p) \subseteq upTo(q) /\ upTo(p) # upTo(q)
    <3>1. p \in Nat /\ q \in Nat /\ q \in upTo(q) /\ q \notin upTo(p)
      OBVIOUS
    <3>2. ASSUME NEW x \in upTo(p) PROVE x \in upTo(q)
      <4>1. x \in b /\ x \in Nat /\ x <= p
        BY <3>2
      <4> QED
        BY <3>1, <4>1
    <3> QED
      BY <3>1, <3>2
  <2>2. Cardinality(upTo(p)) <= Cardinality(upTo(q)) /\ Cardinality(upTo(p)) # Cardinality(upTo(q))
    BY <1>2, <2>1, FS_Subset
  <2> QED
    BY <1>2, <2>2
<1>4. rank \in Injection(b, 1..n)
  <2>1. rank \in [b -> 1..n]
    BY <1>2
  <2>2. \A p, q \in b : rank[p] = rank[q] => p = q
    BY <1>2, <1>3
  <2> QED
    BY <2>1, <2>2 DEF Injection, IsInjective
<1>5. rank \in Surjection(b, 1..n)
  <2>1. IsFiniteSet(1..n) /\ Cardinality(1..n) = n
    BY <1>1, FS_Interval
  <2> HIDE DEF rank, n
  <2> QED
    BY <1>4, <2>1, FS_Injection DEF n
<1>6. \A i \in 1..n : \E p \in b : rank[p] = i
  BY <1>5 DEF Surjection
<1>c. \A i \in 1..n : choice(i) \in b /\ rank[choice(i)] = i
  <2>1. \A c : Search!Cardinality(c) = Cardinality(c)
    BY Zenon DEF Search!Cardinality, Cardinality
  <2>2. \A p \in b : rank[p] = Search!Cardinality({q \in b : q <= p})
    BY <2>1
  <2> HIDE DEF rank, n
  <2> TAKE i \in 1..n
  <2>3. \E p \in b : Search!Cardinality({q \in b : q <= p}) = i
    BY <1>6, <2>2, Zenon
  <2>4. choice(i) \in b /\ Search!Cardinality({q \in b : q <= choice(i)}) = i
    BY <2>3, Zenon
  <2> HIDE DEF choice
  <2> QED
    BY <2>2, <2>4, Zenon
<1>d. Search!Cardinality(b) = n
  BY Zenon DEF Search!Cardinality, Cardinality
<1>e. s = [i \in 1..Search!Cardinality(b) |-> choice(i)]
  BY Zenon DEF Search!InOrder
<1>12. s \in [1..n -> b]
  <2> HIDE DEF s, choice, rank, n
  <2> QED
    BY <1>c, <1>d, <1>e
<1>7. \A i \in 1..n : s[i] \in b /\ rank[s[i]] = i
  <2> HIDE DEF s, choice, rank, n
  <2> QED
    BY <1>c, <1>d, <1>e
<1>8. \A i \in 1..n : \A p \in b : rank[p] = i => s[i] = p
  BY <1>4, <1>7 DEF Injection, IsInjective
<1>10. \A i, j \in 1..n : i < j => s[i] < s[j]
  <2> TAKE i, j \in 1..n
  <2> HAVE i < j
  <2>1. s[i] \in b /\ s[j] \in b /\ rank[s[i]] = i /\ rank[s[j]] = j
    BY <1>7
  <2>2. rank[s[i]] = Cardinality(upTo(s[i])) /\ rank[s[j]] = Cardinality(upTo(s[j]))
    BY <2>1
  <2>4. \A p, q \in b : p < q => rank[p] < rank[q]
    BY <1>3
  <2>5. s[i] \in Nat /\ s[j] \in Nat
    BY <2>1
  <2> HIDE DEF s, rank
  <2>6. s[i] # s[j]
    BY <2>1
  <2>7. ~(s[j] < s[i])
    <3> SUFFICES ASSUME s[j] < s[i] PROVE FALSE
      OBVIOUS
    <3>1. rank[s[j]] < rank[s[i]]
      BY <2>1, <2>4
    <3> QED
      BY <1>1, <2>1, <3>1
  <2> QED
    BY <2>5, <2>6, <2>7
<1>11. \A p \in b : \E i \in 1..n : s[i] = p
  <2> TAKE p \in b
  <2>1. rank[p] \in 1..n
    BY <1>2
  <2> HIDE DEF s, rank
  <2> QED
    BY <1>8, <2>1
<1> HIDE DEF s, rank
<1> QED
  BY <1>1, <1>10, <1>11, <1>12 DEF s

\* Part t of a sequence s: what is in t is in s, each once if it is so in s, and in
\* the same order.
SxPart(t, s) ==
    /\ t \in Seq(Queries) /\ Len(t) <= Len(s)
    /\ Search!Elements(t) \subseteq Search!Elements(s)
    /\ Search!EachOnce(s) => Search!EachOnce(t)
    /\ \A i, j \in 1..Len(t) : i < j =>
          \E m, n \in 1..Len(s) : m < n /\ s[m] = t[i] /\ s[n] = t[j]

\* Keeping: just the elements in the set are kept, in their order.
LEMMA SxKeeping ==
    ASSUME NEW s \in Seq(Queries), NEW S
    PROVE  LET t == Search!Keeping(s, S)
           IN  /\ SxPart(t, s)
               /\ Search!Elements(t) = Search!Elements(s) \cap S
               /\ \A m, n \in 1..Len(s) : m < n /\ s[m] \in S /\ s[n] \in S =>
                     \E i, j \in 1..Len(t) : i < j /\ t[i] = s[m] /\ t[j] = s[n]
               /\ (\E q \in Search!Elements(s) : q \notin S) => Len(t) < Len(s)
<1> DEFINE at == {i \in 1..Len(s) : s[i] \in S}
           n == Cardinality(at)
           t == Search!Keeping(s, S)
           h == Search!InOrder(at)
<1>1. Len(s) \in Nat /\ DOMAIN s = 1..Len(s) /\ \A i \in 1..Len(s) : s[i] \in Queries
  OBVIOUS
<1>2. IsFiniteSet(1..Len(s)) /\ Cardinality(1..Len(s)) = Len(s)
  <2> HIDE DEF t, h, at, n
  <2> DEFINE l == Len(s)
  <2>1. l \in Nat
    BY <1>1
  <2> HIDE DEF l
  <2>2. IsFiniteSet(1..l) /\ Cardinality(1..l) = l
    BY <2>1, FS_Interval
  <2> QED
    BY <2>2 DEF l
<1>3. IsFiniteSet(at) /\ n <= Len(s) /\ at \in SUBSET Nat
  BY <1>1, <1>2, FS_Subset
<1>4. /\ n \in Nat /\ h \in [1..n -> at]
      /\ \A i, j \in 1..n : i < j => h[i] < h[j]
      /\ \A p \in at : \E i \in 1..n : h[i] = p
  BY <1>3, SxInOrder
<1>d. Search!Cardinality(at) = n
  BY Zenon DEF Search!Cardinality, Cardinality
<1>5. t = [i \in 1..n |-> s[h[i]]]
  <2>1. t = [k \in 1..Search!Cardinality({i \in DOMAIN s : s[i] \in S}) |->
                s[Search!InOrder({i \in DOMAIN s : s[i] \in S})[k]]]
    BY Zenon DEF Search!Keeping
  <2>2. at = {i \in DOMAIN s : s[i] \in S}
    BY <1>1
  <2> HIDE DEF at, n, t
  <2> QED
    BY <1>d, <2>1, <2>2, Zenon DEF h
<1> HIDE DEF t, h, n
<1>6. \A i \in 1..n : h[i] \in 1..Len(s) /\ s[h[i]] \in S /\ s[h[i]] \in Queries
  BY <1>1, <1>4
<1>7. t \in Seq(Queries) /\ Len(t) = n /\ DOMAIN t = 1..n
  BY <1>4, <1>5, <1>6
<1>8. \A i \in 1..n : t[i] = s[h[i]]
  BY <1>5
<1>9. \A k \in 1..Len(s) : s[k] \in S => \E i \in 1..n : h[i] = k /\ t[i] = s[k]
  BY <1>4, <1>8
<1> HIDE DEF at
<1>10. Search!Elements(t) = Search!Elements(s) \cap S
  <2>1. Search!Elements(t) = {t[i] : i \in 1..n} /\ Search!Elements(s) = {s[i] : i \in 1..Len(s)}
    BY <1>1, <1>7 DEF Search!Elements
  <2>2. {t[i] : i \in 1..n} \subseteq {s[i] : i \in 1..Len(s)} \cap S
    BY <1>6, <1>8
  <2>3. {s[i] : i \in 1..Len(s)} \cap S \subseteq {t[i] : i \in 1..n}
    BY <1>9
  <2> QED
    BY <2>1, <2>2, <2>3
<1>11. Search!EachOnce(s) => Search!EachOnce(t)
  <2> SUFFICES ASSUME Search!EachOnce(s), NEW i \in 1..n, NEW j \in 1..n, t[i] = t[j] PROVE i = j
    BY <1>7 DEF Search!EachOnce
  <2>1. h[i] = h[j]
    BY <1>1, <1>6, <1>8 DEF Search!EachOnce
  <2>2. h[i] \in Nat /\ h[j] \in Nat
    BY <1>1, <1>6
  <2> QED
    BY <1>4, <2>1, <2>2
<1>12. \A i, j \in 1..n : i < j => \E m, k \in 1..Len(s) : m < k /\ s[m] = t[i] /\ s[k] = t[j]
  BY <1>4, <1>6, <1>8
<1>13. \A m, k \in 1..Len(s) : m < k /\ s[m] \in S /\ s[k] \in S =>
          \E i, j \in 1..n : i < j /\ t[i] = s[m] /\ t[j] = s[k]
  <2> TAKE m, k \in 1..Len(s)
  <2> HAVE m < k /\ s[m] \in S /\ s[k] \in S
  <2>1. PICK i \in 1..n, j \in 1..n : h[i] = m /\ t[i] = s[m] /\ h[j] = k /\ t[j] = s[k]
    BY <1>9
  <2>2. i # j /\ ~(j < i)
    BY <1>1, <1>4, <2>1
  <2> QED
    BY <1>4, <2>1, <2>2
<1>14. (\E q \in Search!Elements(s) : q \notin S) => n < Len(s)
  <2> SUFFICES ASSUME NEW k \in 1..Len(s), s[k] \notin S PROVE n < Len(s)
    BY <1>1 DEF Search!Elements
  <2>1. at \subseteq 1..Len(s) /\ at # 1..Len(s)
    BY DEF at
  <2>2. n # Len(s)
    BY <1>2, <2>1, FS_Subset DEF n
  <2>3. n \in Nat /\ Len(s) \in Nat /\ n <= Len(s)
    BY <1>1, <1>3, <1>4
  <2> QED
    BY <2>2, <2>3
<1> QED
  BY <1>3, <1>7, <1>10, <1>11, <1>12, <1>13, <1>14 DEF SxPart, t

\* The sequence that has x at its end, and what else is in s before it.
SxMoved(t, s, x) ==
    /\ t \in Seq(Queries)
    /\ Search!Elements(t) = Search!Elements(s) \cup {x}
    /\ Search!EachOnce(s) => Search!EachOnce(t)
    /\ x \in Search!Elements(s) => Len(t) <= Len(s)
    /\ Len(t) <= Len(s) + 1
    /\ \A i, j \in 1..Len(t) : i < j =>
          /\ t[i] # x /\ t[i] \in Search!Elements(s)
          /\ \/ t[j] = x
             \/ \E m, n \in 1..Len(s) : m < n /\ s[m] = t[i] /\ s[n] = t[j] /\ s[n] # x
    /\ \A m, n \in 1..Len(s) : m < n /\ s[m] # x /\ s[n] # x =>
          \E i, j \in 1..Len(t) : i < j /\ t[i] = s[m] /\ t[j] = s[n]
    /\ \A q \in Search!Elements(s) : q # x =>
          \E i, j \in 1..Len(t) : i < j /\ t[i] = q /\ t[j] = x

LEMMA SxMoving ==
    ASSUME NEW s \in Seq(Queries), NEW x \in Queries
    PROVE  SxMoved(Append(Search!Without(s, x), x), s, x)
<1> DEFINE S == Search!Elements(s) \ {x}
           w == Search!Keeping(s, S)
           t == Append(w, x)
<1>1. /\ SxPart(w, s)
      /\ Search!Elements(w) = Search!Elements(s) \cap S
      /\ \A m, n \in 1..Len(s) : m < n /\ s[m] \in S /\ s[n] \in S =>
            \E i, j \in 1..Len(w) : i < j /\ w[i] = s[m] /\ w[j] = s[n]
      /\ (\E q \in Search!Elements(s) : q \notin S) => Len(w) < Len(s)
  BY SxKeeping
<1>2. t = Append(Search!Without(s, x), x)
  BY DEF Search!Without
<1>3. DOMAIN s = 1..Len(s) /\ Len(s) \in Nat
  OBVIOUS
<1> HIDE DEF w
<1>4. w \in Seq(Queries) /\ Len(w) \in Nat /\ DOMAIN w = 1..Len(w)
  BY <1>1 DEF SxPart
<1>5. /\ t \in Seq(Queries) /\ Len(t) = Len(w) + 1 /\ DOMAIN t = 1..Len(w) + 1
      /\ \A i \in 1..Len(w) : t[i] = w[i]
      /\ t[Len(w) + 1] = x
  BY <1>4
<1> HIDE DEF t
<1>6. Search!Elements(s) = {s[i] : i \in 1..Len(s)} /\ Search!Elements(w) = {w[i] : i \in 1..Len(w)}
      /\ Search!Elements(t) = {t[i] : i \in 1..Len(w) + 1}
  BY <1>3, <1>4, <1>5 DEF Search!Elements
<1>7. \A i \in 1..Len(w) : w[i] \in Search!Elements(s) /\ w[i] # x
  <2> TAKE i \in 1..Len(w)
  <2>1. w[i] \in Search!Elements(w)
    BY <1>6
  <2> QED
    BY <1>1, <2>1
<1>8. \A q \in Search!Elements(s) : q # x => \E i \in 1..Len(w) : w[i] = q
  <2> TAKE q \in Search!Elements(s)
  <2> HAVE q # x
  <2>1. q \in Search!Elements(w)
    BY <1>1
  <2> QED
    BY <1>6, <2>1
<1>9. \A i \in 1..Len(w) + 1 : i \in 1..Len(w) \/ i = Len(w) + 1
  BY <1>4
<1>10. Search!Elements(t) = Search!Elements(s) \cup {x}
  <2>1. Search!Elements(t) \subseteq Search!Elements(s) \cup {x}
    BY <1>5, <1>6, <1>7, <1>9
  <2>2. \A i \in 1..Len(w) : i \in 1..Len(w) + 1
    BY <1>4
  <2>3. Len(w) + 1 \in 1..Len(w) + 1
    BY <1>4
  <2>4. x \in Search!Elements(t)
    BY <1>5, <1>6, <2>3
  <2>5. ASSUME NEW q \in Search!Elements(s), q # x PROVE q \in Search!Elements(t)
    <3>1. PICK i \in 1..Len(w) : w[i] = q
      BY <1>8, <2>5
    <3>2. i \in 1..Len(w) + 1 /\ t[i] = q
      BY <1>5, <2>2, <3>1
    <3> QED
      BY <1>6, <3>2
  <2> QED
    BY <2>1, <2>4, <2>5
<1>11. ASSUME Search!EachOnce(s) PROVE Search!EachOnce(t)
  <2>1. \A i, j \in 1..Len(w) : w[i] = w[j] => i = j
    BY <1>1, <1>4, <1>11 DEF SxPart, Search!EachOnce
  <2> SUFFICES ASSUME NEW i \in 1..Len(w) + 1, NEW j \in 1..Len(w) + 1, t[i] = t[j] PROVE i = j
    BY <1>5 DEF Search!EachOnce
  <2> QED
    BY <1>5, <1>7, <1>9, <2>1
<1>12. Len(t) <= Len(s) + 1 /\ (x \in Search!Elements(s) => Len(t) <= Len(s))
  <2>1. x \in Search!Elements(s) => Len(w) < Len(s)
    BY <1>1
  <2>2. Len(w) <= Len(s)
    BY <1>1 DEF SxPart
  <2> QED
    BY <1>3, <1>4, <1>5, <2>1, <2>2
<1>13. ASSUME NEW i \in 1..Len(t), NEW j \in 1..Len(t), i < j
       PROVE  /\ t[i] # x /\ t[i] \in Search!Elements(s)
              /\ \/ t[j] = x
                 \/ \E m, n \in 1..Len(s) : m < n /\ s[m] = t[i] /\ s[n] = t[j] /\ s[n] # x
  <2>1. i \in 1..Len(w)
    BY <1>4, <1>5, <1>13
  <2>2. t[i] # x /\ t[i] \in Search!Elements(s)
    BY <1>5, <1>7, <2>1
  <2>3. CASE j \in 1..Len(w)
    <3>1. PICK m \in 1..Len(s), n \in 1..Len(s) : m < n /\ s[m] = w[i] /\ s[n] = w[j]
      BY <1>1, <1>13, <2>1, <2>3 DEF SxPart
    <3> QED
      BY <1>5, <1>7, <2>1, <2>2, <2>3, <3>1
  <2> QED
    BY <1>5, <1>9, <2>2, <2>3
<1>14. ASSUME NEW m \in 1..Len(s), NEW n \in 1..Len(s), m < n, s[m] # x, s[n] # x
       PROVE  \E i, j \in 1..Len(t) : i < j /\ t[i] = s[m] /\ t[j] = s[n]
  <2>1. s[m] \in S /\ s[n] \in S
    BY <1>6, <1>14
  <2>2. PICK i \in 1..Len(w), j \in 1..Len(w) : i < j /\ w[i] = s[m] /\ w[j] = s[n]
    BY <1>1, <1>14, <2>1
  <2>3. i \in 1..Len(t) /\ j \in 1..Len(t)
    BY <1>4, <1>5
  <2> QED
    BY <1>5, <2>2, <2>3
<1>15. ASSUME NEW q \in Search!Elements(s), q # x
       PROVE  \E i, j \in 1..Len(t) : i < j /\ t[i] = q /\ t[j] = x
  <2>1. PICK i \in 1..Len(w) : w[i] = q
    BY <1>8, <1>15
  <2>2. i \in 1..Len(t) /\ Len(w) + 1 \in 1..Len(t) /\ i < Len(w) + 1
    BY <1>4, <1>5
  <2> QED
    BY <1>5, <2>1, <2>2
<1> QED
  BY <1>2, <1>5, <1>10, <1>11, <1>12, <1>13, <1>14, <1>15 DEF SxMoved

\* A sequence of different elements has as many as its length.
LEMMA SxCount ==
    ASSUME NEW s \in Seq(Queries), Search!EachOnce(s)
    PROVE  IsFiniteSet(Search!Elements(s)) /\ Cardinality(Search!Elements(s)) = Len(s)
<1> DEFINE l == Len(s)
           f == [i \in 1..l |-> s[i]]
           E == Search!Elements(s)
<1>1. l \in Nat /\ DOMAIN s = 1..l
  OBVIOUS
<1>2. E = {s[i] : i \in 1..l} /\ \A i, j \in 1..l : s[i] = s[j] => i = j
  BY <1>1 DEF Search!Elements, Search!EachOnce
<1> HIDE DEF l, E
<1>3. f \in Bijection(1..l, E)
  BY <1>2 DEF Bijection, Injection, Surjection, IsInjective
<1>4. IsFiniteSet(1..l) /\ Cardinality(1..l) = l
  BY <1>1, FS_Interval
<1> HIDE DEF f
<1>5. IsFiniteSet(E) /\ Cardinality(E) = Cardinality(1..l)
  <2>1. ExistsBijection(1..l, E)
    BY <1>3 DEF ExistsBijection
  <2> QED
    BY <1>4, <2>1, FS_Bijection
<1> QED
  BY <1>4, <1>5 DEF l, E

-----------------------------------------------------------------------------
\* What was stored was used; when it was stored stands in its entry.
SxStored ==
    /\ Search!EachOnce(uses)
    /\ DOMAIN entries \subseteq Search!Elements(uses)
    /\ \A q \in DOMAIN entries : storedAt[q] = entries[q].at

SxIInv == Search!TypeOK /\ SxStored /\ Search!SearchInv

LEMMA SxInitIInv ==
    ASSUME Search!ConstantsAssumption, Search!Init
    PROVE  SxIInv
<1> USE DEF Search!Init, Search!ConstantsAssumption
<1>1. DOMAIN entries = {} /\ entries = [q \in DOMAIN entries |-> entries[q]]
      /\ order = << >> /\ uses = << >>
  OBVIOUS
<1>2. Search!AnyQuery \in Queries
  BY DEF Search!AnyQuery
<1>3. Search!TypeOK
  BY <1>1, <1>2 DEF Search!TypeOK
<1>4. Search!Elements(order) = {} /\ Search!Elements(uses) = {}
      /\ Search!EachOnce(order) /\ Search!EachOnce(uses)
  BY DEF Search!Elements, Search!EachOnce
<1>5. SxStored
  BY <1>1, <1>4 DEF SxStored
<1>6. Search!SearchInv
  BY <1>1, <1>4
  DEF Search!SearchInv, Search!OrderIsEntries, Search!OrderedByUse, Search!RecentAreKept
<1> QED
  BY <1>3, <1>5, <1>6 DEF SxIInv

\* A use of x: the others keep their order, and come before it.
SxUsed(x) ==
    /\ Search!EachOnce(uses')
    /\ uses' \in Seq(Queries)
    /\ Search!Elements(uses)' = Search!Elements(uses) \cup {x}
    /\ \A a, b : a # x /\ b # x /\ Search!UsedBefore(a, b) => Search!UsedBefore(a, b)'
    /\ \A a \in Search!Elements(uses) : a # x => Search!UsedBefore(a, x)'

LEMMA SxUses ==
    ASSUME SxIInv, NEW x \in Queries, uses' = Append(Search!Without(uses, x), x)
    PROVE  SxUsed(x)
<1>1. uses \in Seq(Queries) /\ Search!EachOnce(uses)
  BY DEF SxIInv, SxStored, Search!TypeOK
<1>2. SxMoved(uses', uses, x)
  BY <1>1, SxMoving
<1>3. uses' \in Seq(Queries) /\ DOMAIN uses' = 1..Len(uses') /\ DOMAIN uses = 1..Len(uses)
  BY <1>1, <1>2 DEF SxMoved
<1>4. Search!Elements(uses)' = Search!Elements(uses')
  BY DEF Search!Elements
<1>5. ASSUME NEW a, NEW b, a # x, b # x, Search!UsedBefore(a, b) PROVE Search!UsedBefore(a, b)'
  <2>1. PICK m \in 1..Len(uses), n \in 1..Len(uses) : m < n /\ uses[m] = a /\ uses[n] = b
    BY <1>3, <1>5 DEF Search!UsedBefore
  <2>2. PICK i \in 1..Len(uses'), j \in 1..Len(uses') : i < j /\ uses'[i] = a /\ uses'[j] = b
    <3>1. \E i, j \in 1..Len(uses') : i < j /\ uses'[i] = uses[m] /\ uses'[j] = uses[n]
      BY <1>2, <1>5, <2>1, Zenon DEF SxMoved
    <3> QED
      BY <2>1, <3>1, Zenon
  <2> QED
    BY <1>3, <2>2 DEF Search!UsedBefore
<1>6. ASSUME NEW a \in Search!Elements(uses), a # x PROVE Search!UsedBefore(a, x)'
  <2>1. PICK i \in 1..Len(uses'), j \in 1..Len(uses') : i < j /\ uses'[i] = a /\ uses'[j] = x
    BY <1>2, <1>6 DEF SxMoved
  <2> QED
    BY <1>3, <2>1 DEF Search!UsedBefore
<1> QED
  BY <1>1, <1>2, <1>3, <1>4, <1>5, <1>6 DEF SxUsed, SxMoved

\* Who was used since q still was after a use of another query.
LEMMA SxUsedSince ==
    ASSUME SxIInv, NEW x \in Queries, SxUsed(x), NEW q \in Search!Elements(uses), q # x
    PROVE  /\ Search!UsedSince(q) \cup {x} \subseteq Search!UsedSince(q)'
           /\ IsFiniteSet(Search!UsedSince(q)')
           /\ Cardinality(Search!UsedSince(q)) \in Nat /\ Cardinality(Search!UsedSince(q)') \in Nat
           /\ Cardinality(Search!UsedSince(q)) <= Cardinality(Search!UsedSince(q)')
<1>1. Search!UsedSince(q) \subseteq Search!Elements(uses) /\ Search!UsedSince(q)' \subseteq Search!Elements(uses)'
  BY DEF Search!UsedSince
<1>2. Search!UsedBefore(q, x)'
  BY DEF SxUsed
<1>3. Search!UsedSince(q) \cup {x} \subseteq Search!UsedSince(q)'
  <2>1. x \in Search!UsedSince(q)'
    BY <1>2 DEF SxUsed, Search!UsedSince
  <2>2. ASSUME NEW a \in Search!UsedSince(q) PROVE a \in Search!UsedSince(q)'
    <3>1. a \in Search!Elements(uses) /\ Search!UsedBefore(q, a)
      BY DEF Search!UsedSince
    <3>2. Search!UsedBefore(q, a)'
      BY <1>2, <3>1 DEF SxUsed
    <3> QED
      BY <3>1, <3>2 DEF SxUsed, Search!UsedSince
  <2> QED
    BY <2>1, <2>2
<1>4. IsFiniteSet(Search!Elements(uses'))
  BY SxCount DEF SxUsed
<1>5. Search!Elements(uses)' = Search!Elements(uses')
  BY DEF Search!Elements
<1>6. IsFiniteSet(Search!UsedSince(q)')
  BY <1>1, <1>4, <1>5, FS_Subset
<1> HIDE DEF Search!UsedSince
<1>7. /\ IsFiniteSet(Search!UsedSince(q))
      /\ Cardinality(Search!UsedSince(q)) <= Cardinality(Search!UsedSince(q)')
  BY <1>3, <1>6, FS_Subset
<1> QED
  BY <1>3, <1>6, <1>7, FS_CardinalityType

\* The order after a use of q: what was kept of it, and q at the end.
LEMMA SxOrdered ==
    ASSUME SxIInv, NEW q \in Queries, SxUsed(q), NEW kept, SxPart(kept, order),
           order' = Append(Search!Without(kept, q), q)
    PROVE  Search!OrderedByUse'
<1>1. kept \in Seq(Queries)
  BY DEF SxPart
<1>2. SxMoved(order', kept, q)
  BY <1>1, SxMoving
<1>3. order \in Seq(Queries) /\ DOMAIN order = 1..Len(order)
      /\ order' \in Seq(Queries) /\ DOMAIN order' = 1..Len(order')
  BY <1>2 DEF SxMoved, SxIInv, Search!TypeOK
<1> SUFFICES ASSUME NEW i \in 1..Len(order'), NEW j \in 1..Len(order'), i < j,
                    NEW a, NEW b, a = order'[i], b = order'[j]
             PROVE  Search!UsedBefore(a, b)'
  BY <1>3 DEF Search!OrderedByUse, Search!UsedBefore
<1>4. /\ a # q /\ a \in Search!Elements(kept)
      /\ \/ b = q
         \/ \E m, n \in 1..Len(kept) : m < n /\ kept[m] = a /\ kept[n] = b /\ kept[n] # q
  <2>1. /\ order'[i] # q /\ order'[i] \in Search!Elements(kept)
        /\ \/ order'[j] = q
           \/ \E m, n \in 1..Len(kept) :
                 m < n /\ kept[m] = order'[i] /\ kept[n] = order'[j] /\ kept[n] # q
    BY <1>2, Zenon DEF SxMoved
  <2> QED
    BY <2>1, Zenon
<1>5. a \in Search!Elements(uses)
  <2>1. a \in Search!Elements(order)
    BY <1>4 DEF SxPart
  <2> QED
    BY <2>1 DEF SxIInv, SxStored, Search!SearchInv, Search!OrderIsEntries
<1>6. CASE b = q
  BY <1>4, <1>5, <1>6 DEF SxUsed
<1>7. ASSUME NEW m \in 1..Len(kept), NEW n \in 1..Len(kept), m < n, kept[m] = a, kept[n] = b, b # q
      PROVE  Search!UsedBefore(a, b)'
  <2>1. PICK k \in 1..Len(order), l \in 1..Len(order) : k < l /\ order[k] = a /\ order[l] = b
    <3>1. \E k, l \in 1..Len(order) : k < l /\ order[k] = kept[m] /\ order[l] = kept[n]
      BY <1>7, Zenon DEF SxPart
    <3> QED
      BY <1>7, <3>1, Zenon
  <2>2. Search!UsedBefore(order[k], order[l])
    BY <1>3, <2>1 DEF SxIInv, Search!SearchInv, Search!OrderedByUse
  <2>3. Search!UsedBefore(a, b)
    BY <2>1, <2>2
  <2> QED
    BY <1>4, <1>7, <2>3 DEF SxUsed
<1> QED
  BY <1>4, <1>6, <1>7

\* A query whose entry is gone, or goes because it expired, stays excused.
LEMMA SxExcused ==
    ASSUME Search!ConstantsAssumption, SxIInv, NEW x \in Queries, SxUsed(x), now' = now,
           NEW q \in Search!Elements(uses), q # x, storedAt'[q] = storedAt[q],
           q \notin DOMAIN entries \/ ~Search!Fresh(q)
    PROVE  now' >= storedAt'[q] + ttl \/ Cardinality(Search!UsedSince(q)') >= maxEntries
<1>1. \A S : Search!Cardinality(S) = Cardinality(S)
  BY Zenon DEF Search!Cardinality, Cardinality
<1>2. /\ Cardinality(Search!UsedSince(q)) \in Nat /\ Cardinality(Search!UsedSince(q)') \in Nat
      /\ Cardinality(Search!UsedSince(q)) <= Cardinality(Search!UsedSince(q)')
  BY SxUsedSince
<1>3. q \in Queries /\ maxEntries \in Nat /\ ttl \in Nat /\ now \in Nat /\ storedAt[q] \in Nat
  BY DEF SxIInv, Search!TypeOK, Search!Elements, Search!ConstantsAssumption
<1>4. CASE q \in DOMAIN entries
  <2>1. storedAt[q] = entries[q].at /\ ~(now < entries[q].at + ttl)
    BY <1>4 DEF SxIInv, SxStored, Search!Fresh
  <2>2. storedAt[q] + ttl \in Nat /\ ~(now < storedAt[q] + ttl)
    BY <1>3, <2>1
  <2> QED
    BY <1>3, <2>2
<1>5. CASE q \notin DOMAIN entries
  <2>1. now >= storedAt[q] + ttl \/ Search!Cardinality(Search!UsedSince(q)) >= maxEntries
    BY <1>5 DEF SxIInv, Search!SearchInv, Search!RecentAreKept
  <2>2. now >= storedAt[q] + ttl \/ Cardinality(Search!UsedSince(q)) >= maxEntries
    BY <1>1, <2>1
  <2> QED
    BY <1>2, <1>3, <2>2
<1> QED
  BY <1>4, <1>5

LEMMA SxRecent ==
    ASSUME Search!ConstantsAssumption, SxIInv, NEW x \in Queries, SxUsed(x), now' = now,
           storedAt' = storedAt, entries' = entries, x \in DOMAIN entries
    PROVE  Search!RecentAreKept'
<1>1. \A S : Search!Cardinality(S) = Cardinality(S)
  BY Zenon DEF Search!Cardinality, Cardinality
<1>2. ASSUME NEW q \in Search!Elements(uses)', q \notin DOMAIN entries
      PROVE  now' >= storedAt'[q] + ttl \/ Cardinality(Search!UsedSince(q)') >= maxEntries
  <2>1. q \in Search!Elements(uses) /\ q # x
    BY <1>2 DEF SxUsed
  <2> QED
    BY <1>2, <2>1, SxExcused
<1>3. \A q \in Search!Elements(uses)' \ DOMAIN entries' :
          now' >= storedAt'[q] + ttl \/ Search!Cardinality(Search!UsedSince(q)') >= maxEntries
  BY <1>1, <1>2
<1> QED
  BY <1>3 DEF Search!RecentAreKept

LEMMA SxPartSelf ==
    ASSUME NEW s \in Seq(Queries)
    PROVE  SxPart(s, s)
<1>1. Len(s) \in Nat
  OBVIOUS
<1> QED
  BY <1>1 DEF SxPart

LEMMA SxGetHits ==
    ASSUME Search!ConstantsAssumption, SxIInv, NEW c \in Callers, Search!GetHits(c)
    PROVE  SxIInv'
<1>1. PICK x \in Search!Hits(query[c]) :
         order' = Append(Search!Without(order, x), x) /\ uses' = Append(Search!Without(uses, x), x)
  BY DEF Search!GetHits, Search!moveToEndLocked
<1>2. x \in DOMAIN entries
  BY DEF Search!Hits, Search!Similars
<1>3. /\ x \in Queries /\ order \in Seq(Queries) /\ x \in Search!Elements(order)
      /\ Search!EachOnce(order) /\ Search!Elements(order) = DOMAIN entries
      /\ Len(order) <= maxEntries /\ Len(order) \in Nat /\ maxEntries \in Nat
  BY <1>2
  DEF SxIInv, Search!TypeOK, Search!SearchInv, Search!OrderIsEntries,
      Search!ConstantsAssumption
<1>4. SxUsed(x)
  BY <1>1, <1>3, SxUses
<1>5. SxMoved(order', order, x)
  BY <1>1, <1>3, SxMoving
<1>6. /\ entries' = entries /\ now' = now /\ searches' = searches /\ storedAt' = storedAt
      /\ searchPc' = [searchPc EXCEPT ![c] = "idle"]
      /\ query' = [query EXCEPT ![c] = Search!AnyQuery]
      /\ results' = [results EXCEPT ![c] = {}]
  BY DEF Search!GetHits, Search!Return
<1>7. Search!TypeOK'
  <2>1. Search!AnyQuery \in Queries
    BY DEF Search!AnyQuery, Search!ConstantsAssumption
  <2>2. order' \in Seq(Queries) /\ uses' \in Seq(Queries)
    BY <1>4, <1>5 DEF SxUsed, SxMoved
  <2> QED
    BY <1>6, <2>1, <2>2 DEF SxIInv, Search!TypeOK
<1>8. SxStored'
  <2>1. Search!EachOnce(uses)'
    BY <1>4 DEF SxUsed, Search!EachOnce
  <2> QED
    BY <1>4, <1>6, <2>1 DEF SxUsed, SxIInv, SxStored
<1>9. Search!OrderIsEntries'
  <2>1. Search!Elements(order)' = Search!Elements(order') /\ (Search!EachOnce(order')  => Search!EachOnce(order)')
    BY DEF Search!Elements, Search!EachOnce
  <2>2. Search!Elements(order') = DOMAIN entries' /\ Search!EachOnce(order') /\ Len(order') <= Len(order)
    BY <1>2, <1>3, <1>5, <1>6 DEF SxMoved
  <2>3. Len(order') \in Nat
    BY <1>5 DEF SxMoved
  <2>4. Len(order') <= maxEntries
    BY <1>3, <2>2, <2>3
  <2> QED
    BY <2>1, <2>2, <2>4 DEF Search!OrderIsEntries
<1>10. Search!OrderedByUse'
  BY <1>1, <1>3, <1>4, SxPartSelf, SxOrdered
<1>11. Search!RecentAreKept'
  BY <1>2, <1>3, <1>4, <1>6, SxRecent
<1> QED
  BY <1>7, <1>8, <1>9, <1>10, <1>11 DEF SxIInv, Search!SearchInv

LEMMA SxPartOfPart ==
    ASSUME NEW s, NEW t \in Seq(Queries), NEW u \in Seq(Queries), SxPart(s, t), SxPart(t, u)
    PROVE  SxPart(s, u)
<1>1. s \in Seq(Queries) /\ Len(s) \in Nat /\ Len(t) \in Nat /\ Len(u) \in Nat
  BY DEF SxPart
<1>2. Len(s) <= Len(u)
  BY <1>1 DEF SxPart
<1>3. ASSUME NEW i \in 1..Len(s), NEW j \in 1..Len(s), i < j
      PROVE  \E m, n \in 1..Len(u) : m < n /\ u[m] = s[i] /\ u[n] = s[j]
  <2>1. PICK k \in 1..Len(t), l \in 1..Len(t) : k < l /\ t[k] = s[i] /\ t[l] = s[j]
    BY <1>3, Zenon DEF SxPart
  <2>2. \E m, n \in 1..Len(u) : m < n /\ u[m] = t[k] /\ u[n] = t[l]
    BY <2>1, Zenon DEF SxPart
  <2> QED
    BY <2>1, <2>2
<1> QED
  BY <1>1, <1>2, <1>3 DEF SxPart

\* All but the first.
LEMMA SxRest ==
    ASSUME NEW s \in Seq(Queries), Len(s) > 0
    PROVE  /\ SxPart(SubSeq(s, 2, Len(s)), s)
           /\ Len(SubSeq(s, 2, Len(s))) = Len(s) - 1
           /\ \A x \in Search!Elements(s) : x \in Search!Elements(SubSeq(s, 2, Len(s))) \/ x = s[1]
<1> DEFINE t == SubSeq(s, 2, Len(s))
<1>1. Len(s) \in Nat /\ DOMAIN s = 1..Len(s)
  OBVIOUS
<1>2. t \in Seq(Queries) /\ Len(t) = Len(s) - 1 /\ DOMAIN t = 1..Len(s) - 1
      /\ \A i \in 1..Len(s) - 1 : t[i] = s[i + 1]
  BY <1>1
<1> HIDE DEF t
<1>3. \A i \in 1..Len(s) - 1 : i + 1 \in 1..Len(s)
  BY <1>1
<1>4. Search!Elements(t) = {t[i] : i \in 1..Len(s) - 1} /\ Search!Elements(s) = {s[i] : i \in 1..Len(s)}
  BY <1>1, <1>2 DEF Search!Elements
<1>5. Search!Elements(t) \subseteq Search!Elements(s)
  BY <1>2, <1>3, <1>4
<1>6. ASSUME Search!EachOnce(s) PROVE Search!EachOnce(t)
  <2> SUFFICES ASSUME NEW i \in 1..Len(s) - 1, NEW j \in 1..Len(s) - 1, t[i] = t[j] PROVE i = j
    BY <1>2 DEF Search!EachOnce
  <2>1. i + 1 = j + 1
    BY <1>1, <1>2, <1>3, <1>6 DEF Search!EachOnce
  <2> QED
    BY <1>1, <2>1
<1>7. ASSUME NEW i \in 1..Len(t), NEW j \in 1..Len(t), i < j
      PROVE  \E m, n \in 1..Len(s) : m < n /\ s[m] = t[i] /\ s[n] = t[j]
  <2>1. i + 1 \in 1..Len(s) /\ j + 1 \in 1..Len(s) /\ i + 1 < j + 1
    BY <1>1, <1>2, <1>7
  <2>2. t[i] = s[i + 1] /\ t[j] = s[j + 1]
    BY <1>2
  <2> QED
    BY <2>1, <2>2
<1>8. ASSUME NEW x \in Search!Elements(s) PROVE x \in Search!Elements(t) \/ x = s[1]
  <2>1. PICK k \in 1..Len(s) : s[k] = x
    BY <1>4
  <2>2. CASE k # 1
    <3>1. k - 1 \in 1..Len(s) - 1 /\ (k - 1) + 1 = k
      BY <1>1, <2>2
    <3>2. t[k - 1] = x
      BY <1>2, <2>1, <3>1
    <3> QED
      BY <1>4, <3>1, <3>2
  <2> QED
    BY <2>1, <2>2
<1>9. Len(t) <= Len(s)
  BY <1>1, <1>2
<1> QED
  BY <1>2, <1>5, <1>6, <1>7, <1>8, <1>9 DEF SxPart, t

\* What Put keeps of the order, before q comes to its end.
SxKept(q) == IF q \in Search!Elements(Search!freshOrder) THEN Search!freshOrder ELSE Search!Room(Search!freshOrder)

LEMMA SxFresh ==
    ASSUME SxIInv
    PROVE  /\ SxPart(Search!freshOrder, order)
           /\ Search!Elements(Search!freshOrder) = {q \in Search!Elements(order) : Search!Fresh(q)}
           /\ Search!EachOnce(Search!freshOrder)
           /\ Len(Search!freshOrder) \in Nat /\ Len(Search!freshOrder) <= Len(order)
<1>1. order \in Seq(Queries) /\ Search!EachOnce(order)
  BY DEF SxIInv, Search!TypeOK, Search!SearchInv, Search!OrderIsEntries
<1> DEFINE S == {q \in Search!Elements(order) : Search!Fresh(q)}
           t == Search!Keeping(order, S)
<1>2. SxPart(t, order) /\ Search!Elements(t) = Search!Elements(order) \cap S
  BY <1>1, SxKeeping
<1>3. t = Search!freshOrder
  BY DEF Search!freshOrder
<1> HIDE DEF t
<1>4. Search!EachOnce(t) /\ Len(t) \in Nat /\ Len(t) <= Len(order)
  BY <1>1, <1>2 DEF SxPart
<1> QED
  BY <1>2, <1>3, <1>4

LEMMA SxKeptOf ==
    ASSUME Search!ConstantsAssumption, SxIInv, NEW q \in Queries
    PROVE  /\ SxPart(SxKept(q), order)
           /\ Search!Elements(SxKept(q)) \subseteq Search!Elements(order)
           /\ IF q \in Search!Elements(SxKept(q)) THEN Len(SxKept(q)) <= maxEntries
              ELSE Len(SxKept(q)) + 1 <= maxEntries
           /\ \A x \in Search!Elements(order) : x \notin Search!Elements(SxKept(q)) /\ Search!Fresh(x) =>
                 /\ Len(Search!freshOrder) = maxEntries /\ x = Search!freshOrder[1]
                 /\ q \notin Search!Elements(Search!freshOrder)
<1> DEFINE f == Search!freshOrder
<1>1. /\ SxPart(f, order) /\ Search!Elements(f) = {x \in Search!Elements(order) : Search!Fresh(x)}
      /\ Len(f) \in Nat /\ Len(f) <= Len(order)
  BY SxFresh
<1>2. /\ order \in Seq(Queries) /\ Len(order) \in Nat /\ Len(order) <= maxEntries
      /\ maxEntries \in Nat /\ maxEntries > 0
  BY
  DEF SxIInv, Search!TypeOK, Search!SearchInv, Search!OrderIsEntries,
      Search!ConstantsAssumption
<1>3. f \in Seq(Queries)
  BY <1>1 DEF SxPart
<1> HIDE DEF f
<1>4. CASE q \in Search!Elements(f)
  <2>1. SxKept(q) = f
    BY <1>4 DEF SxKept, f
  <2> QED
    BY <1>1, <1>2, <1>4, <2>1 DEF SxPart
<1>5. CASE q \notin Search!Elements(f) /\ Len(f) < maxEntries
  <2>1. SxKept(q) = f
    BY <1>1, <1>2, <1>5 DEF SxKept, Search!Room, f
  <2>2. Len(f) + 1 <= maxEntries
    BY <1>1, <1>2, <1>5
  <2> QED
    BY <1>1, <1>5, <2>1, <2>2 DEF SxPart
<1>6. CASE q \notin Search!Elements(f) /\ ~(Len(f) < maxEntries)
  <2>1. Len(f) = maxEntries /\ Len(f) > 0 /\ Len(f) - maxEntries + 2 = 2
    BY <1>1, <1>2, <1>6
  <2> DEFINE k == SubSeq(f, 2, Len(f))
  <2>2. SxKept(q) = k
    BY <1>2, <1>6, <2>1 DEF SxKept, Search!Room, f
  <2>3. /\ SxPart(k, f) /\ Len(k) = Len(f) - 1
        /\ \A x \in Search!Elements(f) : x \in Search!Elements(k) \/ x = f[1]
    BY <1>3, <2>1, SxRest
  <2> HIDE DEF k
  <2>4. SxPart(k, order)
    BY <1>1, <1>2, <1>3, <2>3, SxPartOfPart
  <2>5. q \notin Search!Elements(k)
    BY <1>6, <2>3 DEF SxPart
  <2>6. Len(k) + 1 <= maxEntries
    BY <1>2, <2>1, <2>3
  <2>7. \A x \in Search!Elements(order) : x \notin Search!Elements(k) /\ Search!Fresh(x) => x = f[1]
    BY <1>1, <2>3
  <2>8. Search!Elements(k) \subseteq Search!Elements(order)
    BY <2>4 DEF SxPart
  <2> QED
    BY <1>6, <2>1, <2>2, <2>4, <2>5, <2>6, <2>7, <2>8 DEF f
<1> QED
  BY <1>4, <1>5, <1>6

\* The least recently used gives way to a query only when as many were used after it.
LEMMA SxGivesWay ==
    ASSUME Search!ConstantsAssumption, SxIInv, NEW q \in Queries, SxUsed(q),
           NEW x \in Search!Elements(order), x \notin Search!Elements(SxKept(q)), Search!Fresh(x), x # q
    PROVE  Cardinality(Search!UsedSince(x)') >= maxEntries
<1> DEFINE f == Search!freshOrder
           E == Search!Elements(f)
<1>1. /\ SxPart(f, order) /\ E = {y \in Search!Elements(order) : Search!Fresh(y)}
      /\ Search!EachOnce(f) /\ Len(f) \in Nat
  BY SxFresh
<1>2. Len(f) = maxEntries /\ x = f[1] /\ q \notin E
  BY SxKeptOf
<1>3. maxEntries \in Nat /\ maxEntries > 0
  BY DEF Search!ConstantsAssumption
<1>4. f \in Seq(Queries) /\ DOMAIN f = 1..Len(f)
  BY <1>1 DEF SxPart
<1> HIDE DEF f
<1>5. IsFiniteSet(E) /\ Cardinality(E) = maxEntries
  BY <1>1, <1>2, <1>4, SxCount
<1>6. x \in E
  BY <1>1
<1>7. x \in Search!Elements(uses) /\ E \subseteq Search!Elements(uses)
  BY <1>1 DEF SxIInv, SxStored, Search!SearchInv, Search!OrderIsEntries
<1>8. ASSUME NEW y \in E, y # x PROVE y \in Search!UsedSince(x)
  <2>1. PICK i \in 1..Len(f) : f[i] = y
    BY <1>4 DEF Search!Elements
  <2>2. 1 \in 1..Len(f) /\ 1 < i
    BY <1>1, <1>2, <1>3, <1>8, <2>1
  <2>3. PICK m \in 1..Len(order), n \in 1..Len(order) : m < n /\ order[m] = x /\ order[n] = y
    <3>1. \E m, n \in 1..Len(order) : m < n /\ order[m] = f[1] /\ order[n] = f[i]
      BY <1>1, <2>2, Zenon DEF SxPart
    <3> QED
      BY <1>2, <2>1, <3>1
  <2>4. Search!UsedBefore(order[m], order[n])
    BY <2>3 DEF SxIInv, Search!SearchInv, Search!OrderedByUse, Search!TypeOK
  <2> QED
    BY <1>7, <2>3, <2>4 DEF Search!UsedSince
<1>9. Search!UsedSince(x) \cup {q} \subseteq Search!UsedSince(x)' /\ IsFiniteSet(Search!UsedSince(x)')
  BY <1>7, SxUsedSince
<1> HIDE DEF E
<1> DEFINE D == (E \ {x}) \cup {q}
<1>10. IsFiniteSet(E \ {x}) /\ Cardinality(E \ {x}) = maxEntries - 1
  BY <1>5, <1>6, FS_RemoveElement
<1>11. IsFiniteSet(D) /\ Cardinality(D) = maxEntries
  <2>1. q \notin E \ {x}
    BY <1>2
  <2>2. Cardinality(D) = (maxEntries - 1) + 1
    BY <1>10, <2>1, FS_AddElement
  <2> QED
    BY <1>3, <1>10, <2>2, FS_AddElement
<1>12. D \subseteq Search!UsedSince(x)'
  BY <1>8, <1>9
<1>13. Cardinality(D) <= Cardinality(Search!UsedSince(x)')
  <2> HIDE DEF D
  <2> QED
    BY <1>9, <1>12, FS_Subset
<1>14. Cardinality(Search!UsedSince(x)') \in Nat
  BY <1>9, FS_CardinalityType
<1> QED
  BY <1>3, <1>11, <1>13, <1>14

LEMMA SxPutResults ==
    ASSUME Search!ConstantsAssumption, SxIInv, NEW c \in Callers, Search!PutResults(c)
    PROVE  SxIInv'
<1> DEFINE q == query[c]
           kept == SxKept(q)
<1>1. q \in Queries /\ results[c] \in SUBSET Registries /\ now \in 0..MaxTime
  BY DEF SxIInv, Search!TypeOK
<1>2. /\ order' = Append(Search!Without(kept, q), q)
      /\ entries' = [x \in Search!Elements(kept) \cup {q} |->
                        IF x = q THEN [at |-> now, results |-> results[c]] ELSE entries[x]]
      /\ uses' = Append(Search!Without(uses, q), q)
      /\ storedAt' = [storedAt EXCEPT ![q] = now]
  BY DEF Search!PutResults, Search!Put, SxKept
<1>3. /\ now' = now /\ searches' = searches
      /\ searchPc' = [searchPc EXCEPT ![c] = "idle"]
      /\ query' = [query EXCEPT ![c] = Search!AnyQuery]
      /\ results' = [results EXCEPT ![c] = {}]
  BY DEF Search!PutResults, Search!Return
<1>4. SxUsed(q)
  BY <1>1, <1>2, SxUses
<1>5. /\ SxPart(kept, order) /\ Search!Elements(kept) \subseteq Search!Elements(order)
      /\ IF q \in Search!Elements(kept) THEN Len(kept) <= maxEntries ELSE Len(kept) + 1 <= maxEntries
  BY <1>1, SxKeptOf
<1>6. /\ Search!Elements(order) = DOMAIN entries /\ Search!EachOnce(order) /\ DOMAIN entries \subseteq Queries
      /\ \A x \in DOMAIN entries : entries[x] \in [at : 0..MaxTime, results : SUBSET Registries]
      /\ storedAt \in [Queries -> 0..MaxTime]
      /\ \A x \in DOMAIN entries : storedAt[x] = entries[x].at
      /\ DOMAIN entries \subseteq Search!Elements(uses)
  BY DEF SxIInv, SxStored, Search!TypeOK, Search!SearchInv, Search!OrderIsEntries
<1> HIDE DEF kept, q
<1>7. kept \in Seq(Queries) /\ Len(kept) \in Nat /\ Search!EachOnce(kept)
  BY <1>5, <1>6 DEF SxPart
<1>8. SxMoved(order', kept, q)
  BY <1>1, <1>2, <1>7, SxMoving
<1>9. DOMAIN entries' = Search!Elements(kept) \cup {q}
  BY <1>2
<1>10. \A x \in DOMAIN entries' : entries'[x] \in [at : 0..MaxTime, results : SUBSET Registries]
  <2>1. \A x \in Search!Elements(kept) : x \in DOMAIN entries
    BY <1>5, <1>6
  <2>2. [at |-> now, results |-> results[c]] \in [at : 0..MaxTime, results : SUBSET Registries]
    BY <1>1
  <2> QED
    BY <1>2, <1>6, <1>9, <2>1, <2>2
<1>11. Search!TypeOK'
  <2>1. Search!AnyQuery \in Queries
    BY DEF Search!AnyQuery, Search!ConstantsAssumption
  <2>2. order' \in Seq(Queries) /\ uses' \in Seq(Queries)
    BY <1>4, <1>8 DEF SxUsed, SxMoved
  <2>3. entries' \in [DOMAIN entries' -> [at : 0..MaxTime, results : SUBSET Registries]]
    BY <1>2, <1>9, <1>10
  <2>4. DOMAIN entries' \subseteq Queries
    BY <1>1, <1>5, <1>6, <1>9
  <2>5. storedAt' \in [Queries -> 0..MaxTime]
    BY <1>1, <1>2, <1>6
  <2>6. query' \in [Callers -> Queries] /\ results' \in [Callers -> SUBSET Registries]
        /\ searchPc' \in [Callers -> {"idle", "get", "search", "put"}]
    BY <1>3, <2>1 DEF SxIInv, Search!TypeOK
  <2>7. now' \in 0..MaxTime /\ searches' \in 0..MaxSearches
    BY <1>3 DEF SxIInv, Search!TypeOK
  <2> QED
    BY <2>2, <2>3, <2>4, <2>5, <2>6, <2>7 DEF Search!TypeOK
<1>12. SxStored'
  <2>1. Search!EachOnce(uses)'
    BY <1>4 DEF SxUsed, Search!EachOnce
  <2>2. DOMAIN entries' \subseteq Search!Elements(uses)'
    BY <1>4, <1>5, <1>6, <1>9 DEF SxUsed
  <2>3. ASSUME NEW x \in DOMAIN entries' PROVE storedAt'[x] = entries'[x].at
    <3>1. x \in Queries /\ (x # q => x \in DOMAIN entries)
      BY <1>1, <1>5, <1>6, <1>9
    <3>2. CASE x = q
      BY <1>1, <1>2, <1>6, <1>9, <3>2
    <3>3. CASE x # q
      <4>1. storedAt'[x] = storedAt[x]
        BY <1>2, <1>6, <3>1, <3>3
      <4>2. entries'[x] = entries[x]
        BY <1>2, <1>9, <3>3
      <4> QED
        BY <1>6, <3>1, <3>3, <4>1, <4>2
    <3> QED
      BY <3>2, <3>3
  <2> QED
    BY <2>1, <2>2, <2>3 DEF SxStored
<1>13. Search!OrderIsEntries'
  <2>1. Search!Elements(order)' = Search!Elements(order') /\ (Search!EachOnce(order') => Search!EachOnce(order)')
    BY DEF Search!Elements, Search!EachOnce
  <2>2. Search!Elements(order') = DOMAIN entries' /\ Search!EachOnce(order')
    BY <1>7, <1>8, <1>9 DEF SxMoved
  <2>3. Len(order') \in Nat /\ maxEntries \in Nat
    BY <1>8 DEF SxMoved, Search!ConstantsAssumption
  <2>4. Len(order') <= Len(kept) + 1 /\ (q \in Search!Elements(kept) => Len(order') <= Len(kept))
    BY <1>8 DEF SxMoved
  <2>5. Len(order') <= maxEntries
    BY <1>5, <1>7, <2>3, <2>4
  <2> QED
    BY <2>1, <2>2, <2>5 DEF Search!OrderIsEntries
<1>14. Search!OrderedByUse'
  BY <1>1, <1>2, <1>4, <1>5, SxOrdered
<1>15. Search!RecentAreKept'
  <2>1. \A S : Search!Cardinality(S) = Cardinality(S)
    BY Zenon DEF Search!Cardinality, Cardinality
  <2>2. ASSUME NEW x \in Search!Elements(uses)', x \notin DOMAIN entries'
        PROVE  now' >= storedAt'[x] + ttl \/ Cardinality(Search!UsedSince(x)') >= maxEntries
    <3>1. x # q /\ x \in Search!Elements(uses) /\ x \notin Search!Elements(kept)
      BY <1>4, <1>9, <2>2 DEF SxUsed
    <3>2. x \in Queries
      BY <3>1 DEF SxIInv, Search!TypeOK, Search!Elements
    <3>3. storedAt'[x] = storedAt[x]
      BY <1>2, <1>6, <3>1, <3>2
    <3>4. CASE x \notin DOMAIN entries \/ ~Search!Fresh(x)
      BY <1>1, <1>3, <1>4, <3>1, <3>3, <3>4, SxExcused
    <3>5. CASE x \in DOMAIN entries /\ Search!Fresh(x)
      BY <1>1, <1>4, <1>6, <3>1, <3>5, SxGivesWay DEF kept
    <3> QED
      BY <3>4, <3>5
  <2>3. \A x \in Search!Elements(uses)' \ DOMAIN entries' :
            now' >= storedAt'[x] + ttl \/ Search!Cardinality(Search!UsedSince(x)') >= maxEntries
    BY <2>1, <2>2
  <2> QED
    BY <2>3 DEF Search!RecentAreKept
<1> QED
  BY <1>11, <1>12, <1>13, <1>14, <1>15 DEF SxIInv, Search!SearchInv

\* Steps that leave the cache alone, but for the clock.
LEMMA SxOthers ==
    ASSUME Search!ConstantsAssumption, SxIInv, Search!TypeOK',
           UNCHANGED <<entries, order, uses, storedAt>>, now' = now \/ now' = now + 1
    PROVE  SxIInv'
<1>1. SxStored'
  BY DEF SxIInv, SxStored, Search!EachOnce, Search!Elements
<1>2. Search!OrderIsEntries' /\ Search!OrderedByUse'
  BY DEF SxIInv, Search!SearchInv, Search!OrderIsEntries, Search!OrderedByUse, Search!EachOnce,
     Search!Elements, Search!UsedBefore
<1>3. \A q : Search!UsedSince(q)' = Search!UsedSince(q)
  BY DEF Search!UsedSince, Search!UsedBefore, Search!Elements
<1>4. Search!RecentAreKept'
  <2>1. ASSUME NEW q \in Search!Elements(uses) \ DOMAIN entries
        PROVE  now' >= storedAt[q] + ttl \/ Search!Cardinality(Search!UsedSince(q)) >= maxEntries
    <3>1. now >= storedAt[q] + ttl \/ Search!Cardinality(Search!UsedSince(q)) >= maxEntries
      BY DEF SxIInv, Search!SearchInv, Search!RecentAreKept
    <3>2. now \in Nat /\ ttl \in Nat /\ storedAt[q] \in Nat
      BY DEF SxIInv, Search!TypeOK, Search!ConstantsAssumption, Search!Elements
    <3> QED
      BY <3>1, <3>2
  <2>2. Search!Elements(uses)' = Search!Elements(uses)
    BY DEF Search!Elements
  <2> QED
    BY <1>3, <2>1, <2>2 DEF Search!RecentAreKept
<1> QED
  BY <1>1, <1>2, <1>4 DEF SxIInv, Search!SearchInv

LEMMA SxNextIInv ==
    ASSUME Search!ConstantsAssumption, SxIInv, [Search!Next]_(Search!vars)
    PROVE  SxIInv'
<1> USE DEF Search!ConstantsAssumption
<1>a. Search!AnyQuery \in Queries
  BY DEF Search!AnyQuery
<1>1. CASE UNCHANGED Search!vars
  <2>1. Search!TypeOK'
    BY <1>1 DEF SxIInv, Search!TypeOK, Search!vars
  <2> QED
    BY <1>1, <2>1, SxOthers DEF Search!vars
<1>2. CASE Search!Tick
  <2>1. Search!TypeOK'
    BY <1>2 DEF SxIInv, Search!TypeOK, Search!Tick
  <2> QED
    BY <1>2, <2>1, SxOthers DEF Search!Tick
<1>3. ASSUME NEW c \in Callers, Search!Call(c) PROVE SxIInv'
  <2>1. Search!TypeOK'
    BY <1>3 DEF SxIInv, Search!TypeOK, Search!Call
  <2> QED
    BY <1>3, <2>1, SxOthers DEF Search!Call
<1>4. ASSUME NEW c \in Callers, Search!GetMisses(c) PROVE SxIInv'
  <2>1. Search!TypeOK'
    BY <1>4 DEF SxIInv, Search!TypeOK, Search!GetMisses
  <2> QED
    BY <1>4, <2>1, SxOthers DEF Search!GetMisses
<1>5. ASSUME NEW c \in Callers, Search!SearchAll(c) PROVE SxIInv'
  <2>1. Search!TypeOK'
    <3>1. UNCHANGED <<entries, order, now, searches, uses, storedAt>>
      BY <1>5 DEF Search!SearchAll
    <3>2. query' \in [Callers -> Queries]
      BY <1>a, <1>5 DEF SxIInv, Search!TypeOK, Search!SearchAll, Search!Return
    <3>3. results' \in [Callers -> SUBSET Registries]
      BY <1>5 DEF SxIInv, Search!TypeOK, Search!SearchAll, Search!Return
    <3>4. searchPc' \in [Callers -> {"idle", "get", "search", "put"}]
      BY <1>5 DEF SxIInv, Search!TypeOK, Search!SearchAll, Search!Return
    <3> QED
      BY <3>1, <3>2, <3>3, <3>4 DEF SxIInv, Search!TypeOK
  <2> QED
    BY <1>5, <2>1, SxOthers DEF Search!SearchAll
<1> QED
  BY <1>1, <1>2, <1>3, <1>4, <1>5, SxGetHits, SxPutResults DEF Search!Next

\* For any queries however similar, any number of callers and any capacity: the
\* order of the cache is that of its entries by their last use, they are never too
\* many, and what is gone expired or had as many used after it as there is room for.
THEOREM SearchesRemembered ==
    ASSUME Search!ConstantsAssumption
    PROVE  Search!Spec => [](Search!TypeOK /\ Search!SearchInv)
<1>1. Search!Init => SxIInv
  BY SxInitIInv
<1>2. SxIInv /\ [Search!Next]_(Search!vars) => SxIInv'
  BY SxNextIInv
<1>3. SxIInv => Search!TypeOK /\ Search!SearchInv
  BY DEF SxIInv
<1> QED
  BY <1>1, <1>2, <1>3, PTL DEF Search!Spec

-----------------------------------------------------------------------------
(* The composition                                                         *)

\* Whichever component takes the steps, the others stand still: the composition
\* implements each of them.
LEMMA OAuthImplemented == MCSpec => Spec
<1>1. MCInit => Init
  BY DEF MCInit
<1>2. [MCNext]_allVars => [Next]_vars
  BY DEF MCNext, OauthRuns, ProcessRuns, LogRuns, TwoTabsRuns, OneTabRuns, InstallRuns, SearchRuns,
         allVars
<1> QED
  BY <1>1, <1>2, PTL DEF MCSpec, Spec

LEMMA ProcessImplemented == MCSpec => Process!Spec
<1>1. MCInit => Process!Init
  BY DEF MCInit
<1>2. [MCNext]_allVars => [Process!Next]_(Process!vars)
  BY DEF MCNext, OauthRuns, ProcessRuns, LogRuns, TwoTabsRuns, OneTabRuns, InstallRuns, SearchRuns,
         allVars, procVars, Process!vars, Process!procVars, Process!gatewayVars, Process!userVars
<1> QED
  BY <1>1, <1>2, PTL DEF MCSpec, Process!Spec

LEMMA LogImplemented == MCSpec => Log!Spec
<1>1. MCInit => Log!Init
  BY DEF MCInit
<1>2. [MCNext]_allVars => [Log!Next]_(Log!vars)
  BY DEF MCNext, OauthRuns, ProcessRuns, LogRuns, TwoTabsRuns, OneTabRuns, InstallRuns, SearchRuns,
         allVars, logVars, Log!vars, Log!bufVars
<1> QED
  BY <1>1, <1>2, PTL DEF MCSpec, Log!Spec

LEMMA InstallImplemented == MCSpec => Install!Spec
<1>1. MCInit => Install!Init
  BY DEF MCInit
<1>2. [MCNext]_allVars => [Install!Next]_(Install!vars)
  BY DEF MCNext, OauthRuns, ProcessRuns, LogRuns, TwoTabsRuns, OneTabRuns, InstallRuns, SearchRuns,
         allVars, skillVars, Install!vars
<1> QED
  BY <1>1, <1>2, PTL DEF MCSpec, Install!Spec

LEMMA SearchImplemented == MCSpec => Search!Spec
<1>1. MCInit => Search!Init
  BY DEF MCInit
<1>2. [MCNext]_allVars => [Search!Next]_(Search!vars)
  BY DEF MCNext, OauthRuns, ProcessRuns, LogRuns, TwoTabsRuns, OneTabRuns, InstallRuns, SearchRuns,
         allVars, searchVars, Search!vars
<1> QED
  BY <1>1, <1>2, PTL DEF MCSpec, Search!Spec

\* oauthState leads exactly to the browser flows that are pending.
THEOREM IndexAlwaysRight == MCSpec => []IndexIsPending
BY OAuthImplemented, IndexAlwaysPending, PTL

\* A flow that reports success has been saved, whatever fails or overlaps.
THEOREM OAuthAlways == MCSpec => []OAuthInv
<1>1. TypeOK /\ SuccessMeansSaved => OAuthInv
  BY DEF OAuthInv
<1> QED
  BY <1>1, OAuthImplemented, SuccessAlwaysSaved, PTL

\* The launcher never loses a gateway that runs; of that process's log LinesSince
\* returns what was asked for, and a browser shows the lines of a run in order
\* and once.
THEOREM ProcessAlways == MCSpec => []ProcessInv
<1>1. Process!TypeOK /\ Process!NoOrphan /\ Log!TypeOK /\ Log!LinesSinceRight /\ Log!ShownInOrder
        => ProcessInv
  BY DEF ProcessInv
<1>2. ProcessOneUser
  BY DEF ProcessOneUser
<1>3. Process!ConstantsAssumption /\ Log!ConstantsAssumption
  BY InstancesAssumption
<1>4. MCSpec => [](Process!TypeOK /\ Process!NoOrphan)
  BY <1>2, <1>3, ProcessImplemented, ProcessNeverOrphaned, PTL
<1>5. MCSpec => [](Log!TypeOK /\ Log!LinesSinceRight /\ Log!ShownInOrder)
  BY <1>3, LogImplemented, LogAlways, PTL
<1> QED
  BY <1>1, <1>4, <1>5, PTL

\* The two sets of tabs share their variables: which of them it is was decided at
\* the start.
ConfigIInv ==
    /\ part = "oneTab" => OneTab!Typed /\ OneTab!TabInv
    /\ part = "twoTabs" => TwoTabs!Typed /\ TwoTabs!SoundInv

\* One tab at a time keeps keys with their models and the default in the list;
\* tabs that undo each other's saves still leave pico and spawn usable.
THEOREM ConfigAlways == MCSpec => []ConfigInv
<1>0. OneTab!ConstantsAssumption /\ TwoTabs!ConstantsAssumption /\ OneTab!OneClient
  BY InstancesAssumption DEF OneTab!OneClient
<1>1. MCInit => ConfigIInv
  <2> SUFFICES ASSUME MCInit PROVE ConfigIInv
    OBVIOUS
  <2>1. CASE part = "oneTab"
    <3>1. OneTab!Init
      BY <2>1 DEF MCInit
    <3> QED
      BY <1>0, <2>1, <3>1, OneTab!InitHolds DEF ConfigIInv
  <2>2. CASE part = "twoTabs"
    <3>1. TwoTabs!Init
      BY <2>2 DEF MCInit
    <3> QED
      BY <1>0, <2>2, <3>1, TwoTabs!InitHolds DEF ConfigIInv
  <2> QED
    BY <2>1, <2>2 DEF ConfigIInv
<1>2. ConfigIInv /\ [MCNext]_allVars => ConfigIInv'
  <2> SUFFICES ASSUME ConfigIInv, [MCNext]_allVars PROVE ConfigIInv'
    OBVIOUS
  <2>1. part' = part
    BY DEF MCNext, OauthRuns, ProcessRuns, LogRuns, TwoTabsRuns, OneTabRuns, InstallRuns, SearchRuns,
           allVars
  <2>2. CASE part = "oneTab"
    <3>1. [OneTab!Next]_(OneTab!vars)
      BY <2>2 DEF MCNext, OauthRuns, ProcessRuns, LogRuns, TwoTabsRuns, OneTabRuns, InstallRuns,
         SearchRuns, allVars, confVars, OneTab!vars
    <3>2. (OneTab!Typed /\ OneTab!TabInv)'
      BY <1>0, <2>2, <3>1, OneTab!NextStep DEF ConfigIInv
    <3> QED
      BY <2>1, <2>2, <3>2 DEF ConfigIInv
  <2>3. CASE part = "twoTabs"
    <3>1. [TwoTabs!Next]_(TwoTabs!vars)
      BY <2>3 DEF MCNext, OauthRuns, ProcessRuns, LogRuns, TwoTabsRuns, OneTabRuns, InstallRuns,
         SearchRuns, allVars, confVars, TwoTabs!vars
    <3>2. (TwoTabs!Typed /\ TwoTabs!SoundInv)'
      BY <1>0, <2>3, <3>1, TwoTabs!NextStep DEF ConfigIInv
    <3> QED
      BY <2>1, <2>3, <3>2 DEF ConfigIInv
  <2> QED
    BY <2>1, <2>2, <2>3 DEF ConfigIInv
<1>3. ConfigIInv => ConfigInv
  <2>1. OneTab!Typed /\ OneTab!TabInv => OneTab!TypeOK /\ OneTab!KeyOfItsModel /\ OneTab!DefaultListed
    BY OneTab!TabMeans
  <2>2. TwoTabs!Typed /\ TwoTabs!SoundInv => TwoTabs!TypeOK /\ TwoTabs!PicoUsable /\ TwoTabs!SpawnNotBlocked
    BY TwoTabs!SoundMeans
  <2> QED
    BY <2>1, <2>2 DEF ConfigIInv, ConfigInv
<1> QED
  BY <1>1, <1>2, <1>3, PTL DEF MCSpec

\* Whatever installs, imports, removes and searches skills at once: an install
\* leaves all of a skill or nothing, and the cache of searches forgets no query
\* before its time.
THEOREM SkillsAlways == MCSpec => []SkillsInv
<1>1. Install!TypeOK /\ Install!SkillInv /\ Search!TypeOK /\ Search!SearchInv => SkillsInv
  BY DEF SkillsInv
<1>2. Install!ConstantsAssumption /\ Search!ConstantsAssumption
  BY InstancesAssumption
<1>3. MCSpec => [](Install!TypeOK /\ Install!SkillInv)
  BY <1>2, InstallImplemented, SkillsInstalledWhole, PTL
<1>4. MCSpec => [](Search!TypeOK /\ Search!SearchInv)
  BY <1>2, SearchImplemented, SearchesRemembered, PTL
<1> QED
  BY <1>1, <1>3, <1>4, PTL
=============================================================================
