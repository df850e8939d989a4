--------------------------- MODULE ServicesProofs ---------------------------
(***************************************************************************)
(* The services of the gateway process, for any values of their constants: *)
(* the media store, the heartbeat and the state file, cron, the cached     *)
(* system prompt and the reload of the configuration, and at the end what  *)
(* the run of MCServices checks.                                           *)
(***************************************************************************)
EXTENDS MCServices, Sequences, TLAPS, WellFoundedInduction

-----------------------------------------------------------------------------
(* FileMediaStore                                                          *)

\* A reference is registered only once: what resolves has been handed out.
Handed == \A r \in Refs : path[r] # None => r \in used

Inv == TypeOK /\ MapsAgree /\ Handed

\* Phase 1 keeps the types and the agreement, if the scopes lose the same
\* references.
LEMMA ForgetInv ==
    ASSUME Inv, NEW R \in SUBSET Refs, NEW w \in Removers, Forget(R, w),
           scopeToRefs' = [s \in Scopes |-> scopeToRefs[s] \ R]
    PROVE  Inv'
<1>1. TypeOK'
  <2>1. removing' \in [Removers -> SUBSET Paths]
    BY DEF Inv, TypeOK, Forget
  <2>2. path' \in [Refs -> Paths \cup {None}]
    BY DEF Inv, TypeOK, Forget
  <2>3. refToScope' \in [Refs -> Scopes \cup {None}]
    BY DEF Inv, TypeOK, Forget
  <2>4. scopeToRefs' \in [Scopes -> SUBSET Refs]
    BY DEF Inv, TypeOK
  <2> QED
    BY <2>1, <2>2, <2>3, <2>4 DEF Inv, TypeOK, Forget
<1>2. MapsAgree'
  <2>1. \A r \in Refs : path'[r] # None <=> refToScope'[r] # None
    BY DEF Inv, MapsAgree, Forget
  <2>2. ASSUME NEW s \in Scopes PROVE scopeToRefs'[s] = {r \in Refs : refToScope'[r] = s}
    <3>1. scopeToRefs'[s] = scopeToRefs[s] \ R
      BY DEF Inv, TypeOK
    <3>2. scopeToRefs[s] = {r \in Refs : refToScope[r] = s}
      BY DEF Inv, MapsAgree
    <3>3. \A r \in Refs : refToScope'[r] = IF r \in R THEN None ELSE refToScope[r]
      BY DEF Forget
    <3>4. s # None
      BY NoneAssumption
    <3> QED
      BY <3>1, <3>2, <3>3, <3>4
  <2> QED
    BY <2>1, <2>2 DEF MapsAgree
<1>3. Handed'
  BY DEF Inv, Handed, Forget
<1> QED
  BY <1>1, <1>2, <1>3 DEF Inv

LEMMA StoreInv ==
    ASSUME Inv, NEW t \in Storers, NEW r \in Refs, Store(t, r)
    PROVE  Inv'
<1> DEFINE p == storing[t].path
           s == storing[t].scope
<1>1. p \in Paths /\ s \in Scopes
  BY DEF Inv, TypeOK, Store
<1>2. p # None /\ s # None
  BY <1>1, NoneAssumption DEF Paths
<1>3. path[r] = None /\ refToScope[r] = None
  BY DEF Inv, Handed, MapsAgree, Store
<1>4. /\ path' = [path EXCEPT ![r] = p]
      /\ scopeToRefs' = [scopeToRefs EXCEPT ![s] = @ \cup {r}]
      /\ refToScope' = [refToScope EXCEPT ![r] = s]
      /\ used' = used \cup {r}
  BY DEF Store
<1>5. storing' \in [Storers -> [path : Paths, scope : Scopes] \cup {NotStoring}]
  BY DEF Inv, TypeOK, Store
<1>6. age' \in [Refs -> 0..MaxAge + 1]
  BY MaxAgeAssumption DEF Inv, TypeOK, Store
<1> HIDE DEF p, s
<1>7. TypeOK'
  <2>1. path' \in [Refs -> Paths \cup {None}] /\ refToScope' \in [Refs -> Scopes \cup {None}]
    BY <1>1, <1>4 DEF Inv, TypeOK
  <2>2. scopeToRefs' \in [Scopes -> SUBSET Refs]
    BY <1>1, <1>4 DEF Inv, TypeOK
  <2> QED
    BY <1>5, <1>6, <2>1, <2>2 DEF Inv, TypeOK, Store
<1>8. MapsAgree'
  <2>1. \A q \in Refs : path'[q] # None <=> refToScope'[q] # None
    BY <1>2, <1>4 DEF Inv, TypeOK, MapsAgree
  <2>2. ASSUME NEW u \in Scopes PROVE scopeToRefs'[u] = {q \in Refs : refToScope'[q] = u}
    <3>1. scopeToRefs'[u] = IF u = s THEN scopeToRefs[u] \cup {r} ELSE scopeToRefs[u]
      BY <1>1, <1>4 DEF Inv, TypeOK
    <3>2. scopeToRefs[u] = {q \in Refs : refToScope[q] = u}
      BY DEF Inv, MapsAgree
    <3>3. \A q \in Refs : refToScope'[q] = IF q = r THEN s ELSE refToScope[q]
      BY <1>4 DEF Inv, TypeOK
    <3>4. u # None
      BY NoneAssumption
    <3> QED
      BY <3>1, <3>2, <3>3, <3>4, <1>3
  <2> QED
    BY <2>1, <2>2 DEF MapsAgree
<1>9. Handed'
  BY <1>4 DEF Inv, TypeOK, Handed
<1> QED
  BY <1>7, <1>8, <1>9 DEF Inv

\* A step that leaves the maps alone.
LEMMA OtherInv ==
    ASSUME Inv, TypeOK', UNCHANGED <<path, refToScope, scopeToRefs, used>>
    PROVE  Inv'
BY DEF Inv, MapsAgree, Handed

LEMMA InitInv == Init => Inv
<1> SUFFICES ASSUME Init PROVE Inv
  OBVIOUS
<1>1. TypeOK
  <2>1. 0 \in 0..MaxAge + 1
    BY MaxAgeAssumption
  <2> QED
    BY <2>1 DEF Init, TypeOK, Paths
<1>2. MapsAgree
  <2>1. \A s \in Scopes : s # None
    BY NoneAssumption
  <2> QED
    BY <2>1 DEF Init, MapsAgree
<1>3. Handed
  BY DEF Init, Handed
<1> QED
  BY <1>1, <1>2, <1>3 DEF Inv

LEMMA NextInv == Inv /\ [Next]_vars => Inv'
<1> SUFFICES ASSUME Inv, [Next]_vars PROVE Inv'
  OBVIOUS
<1>1. ASSUME NEW t \in Storers, NEW p \in Downloads, NEW s \in Scopes, Download(t, p, s) PROVE Inv'
  <2>1. TypeOK'
    BY <1>1 DEF Inv, TypeOK, Download, Paths, storeVars
  <2> QED
    BY <1>1, <2>1, OtherInv DEF Download, storeVars
<1>2. ASSUME NEW t \in Storers, NEW p \in Files, NEW s \in Scopes, SendFile(t, p, s) PROVE Inv'
  <2>1. TypeOK'
    BY <1>2 DEF Inv, TypeOK, SendFile, Paths, storeVars
  <2> QED
    BY <1>2, <2>1, OtherInv DEF SendFile, storeVars
<1>3. ASSUME NEW t \in Storers, NEW r \in Refs, Store(t, r) PROVE Inv'
  BY <1>3, StoreInv
<1>4. ASSUME NEW s \in Released, ReleaseAll(s) PROVE Inv'
  <2>1. s \in Scopes /\ scopeToRefs[s] \in SUBSET Refs
    BY ReleasedAssumption DEF Inv, TypeOK
  <2>2. scopeToRefs' = [u \in Scopes |-> scopeToRefs[u] \ scopeToRefs[s]]
    <3>1. \A u \in Scopes : u # s => scopeToRefs[u] \ scopeToRefs[s] = scopeToRefs[u]
      BY <2>1 DEF Inv, MapsAgree
    <3>2. scopeToRefs[s] \ scopeToRefs[s] = {}
      OBVIOUS
    <3> QED
      BY <1>4, <2>1, <3>1, <3>2 DEF ReleaseAll, Inv, TypeOK
  <2>3. Forget(scopeToRefs[s], "release")
    BY <1>4 DEF ReleaseAll
  <2> QED
    BY <2>1, <2>2, <2>3, ForgetInv DEF Removers
<1>5. CASE CleanExpired
  <2>1. Expired \in SUBSET Refs
    BY DEF Expired
  <2> QED
    BY <1>5, <2>1, ForgetInv DEF CleanExpired, Removers
<1>6. ASSUME NEW w \in Removers, NEW p \in Paths, Remove(w, p) PROVE Inv'
  <2>1. TypeOK'
    BY <1>6 DEF Inv, TypeOK, Remove, storeVars
  <2> QED
    BY <1>6, <2>1, OtherInv DEF Remove, storeVars
<1>7. ASSUME NEW w \in Removers, NEW p \in Paths, RemoveFails(w, p) PROVE Inv'
  <2>1. TypeOK'
    BY <1>7 DEF Inv, TypeOK, RemoveFails, storeVars
  <2> QED
    BY <1>7, <2>1, OtherInv DEF RemoveFails, storeVars
<1>8. CASE Tick
  <2>1. age' \in [Refs -> 0..MaxAge + 1]
    BY <1>8, MaxAgeAssumption DEF Inv, TypeOK, Tick
  <2>2. TypeOK'
    BY <1>8, <2>1 DEF Inv, TypeOK, Tick
  <2> QED
    BY <1>8, <2>2, OtherInv DEF Tick
<1>9. CASE Reload
  <2>1. TypeOK'
    BY <1>9 DEF Inv, TypeOK, Reload
  <2>2. MapsAgree'
    <3>1. \A s \in Scopes : s # None
      BY NoneAssumption
    <3> QED
      BY <1>9, <3>1 DEF Reload, MapsAgree
  <2>3. Handed'
    BY <1>9 DEF Reload, Handed
  <2> QED
    BY <2>1, <2>2, <2>3 DEF Inv
<1>10. CASE UNCHANGED vars
  <2>1. TypeOK'
    BY <1>10 DEF Inv, TypeOK, vars, storeVars
  <2> QED
    BY <1>10, <2>1, OtherInv DEF vars, storeVars
<1> QED
  BY <1>1, <1>2, <1>3, <1>4, <1>5, <1>6, <1>7, <1>8, <1>9, <1>10 DEF Next

\* Whatever Store, ReleaseAll, CleanExpired and reloads do, a reference resolves
\* exactly when it is in the scope it was stored under.
THEOREM MapsAlwaysAgree == Spec => [](TypeOK /\ MapsAgree)
<1>1. Init => Inv
  BY InitInv
<1>2. Inv /\ [Next]_vars => Inv'
  BY NextInv
<1>3. Inv => TypeOK /\ MapsAgree
  BY DEF Inv
<1> QED
  BY <1>1, <1>2, <1>3, PTL DEF Spec

\* Who can reach a downloaded path: the thread that stores it, its reference, and
\* the removers, which have taken it from its reference.
PathsOwned ==
    /\ \A r \in Refs : path[r] \in Downloads =>
          /\ path[r] \in disk \cap fetched
          /\ \A w \in Removers : path[r] \notin removing[w]
          /\ \A q \in Refs : path[q] = path[r] => q = r
          /\ \A t \in Storers : storing[t].path # path[r]
    /\ \A t \in Storers : storing[t].path \in Downloads =>
          /\ storing[t].path \in disk \cap fetched
          /\ \A w \in Removers : storing[t].path \notin removing[w]
          /\ \A u \in Storers : storing[u].path = storing[t].path => u = t
    /\ \A w \in Removers : removing[w] \cap Downloads \subseteq fetched

\* Phase 1 hands the paths of the references it forgets to the remover.
LEMMA ForgetOwned ==
  ASSUME Inv, PathsOwned, NEW R \in SUBSET Refs, NEW w \in Removers, Forget(R, w)
  PROVE  PathsOwned'
<1>0. \A v \in Removers : removing'[v] = IF v = w THEN {path[r] : r \in R} \ {None} ELSE removing[v]
  BY DEF Forget, Inv, TypeOK
<1>1. /\ \A v \in Removers : \A p \in removing'[v] : p \in removing[v] \/ \E r \in R : p = path[r]
      /\ \A r \in Refs : path'[r] = IF r \in R THEN None ELSE path[r]
      /\ UNCHANGED <<disk, fetched, storing>>
  BY <1>0 DEF Forget
<1>2. None \notin Downloads
  BY NoneAssumption
<1>3. ASSUME NEW r \in Refs, path'[r] \in Downloads
      PROVE  /\ path'[r] \in (disk \cap fetched)'
             /\ \A v \in Removers : path'[r] \notin removing'[v]
             /\ \A q \in Refs : path'[q] = path'[r] => q = r
             /\ \A t \in Storers : storing'[t].path # path'[r]
  <2>1. r \notin R /\ path'[r] = path[r] /\ path[r] # None
    BY <1>1, <1>2, <1>3
  <2>2. /\ path[r] \in disk \cap fetched
        /\ \A v \in Removers : path[r] \notin removing[v]
        /\ \A q \in Refs : path[q] = path[r] => q = r
        /\ \A t \in Storers : storing[t].path # path[r]
    BY <1>3, <2>1 DEF PathsOwned
  <2>3. \A v \in Removers : path[r] \notin removing'[v]
    BY <1>1, <2>1, <2>2
  <2> QED
    BY <1>1, <2>1, <2>2, <2>3
<1>4. ASSUME NEW t \in Storers, storing'[t].path \in Downloads
      PROVE  /\ storing'[t].path \in (disk \cap fetched)'
             /\ \A v \in Removers : storing'[t].path \notin removing'[v]
             /\ \A u \in Storers : storing'[u].path = storing'[t].path => u = t
  <2>1. /\ storing'[t].path = storing[t].path /\ storing[t].path \in Downloads
        /\ \A r \in Refs : path[r] # storing[t].path
    BY <1>1, <1>4 DEF PathsOwned
  <2>2. \A v \in Removers : storing[t].path \notin removing'[v]
    BY <1>1, <2>1 DEF PathsOwned
  <2> QED
    BY <1>1, <2>1, <2>2 DEF PathsOwned
<1>5. \A v \in Removers : removing'[v] \cap Downloads \subseteq fetched'
  <2>1. \A r \in R : path[r] \in Downloads => path[r] \in fetched
    BY DEF PathsOwned
  <2> QED
    BY <1>1, <2>1 DEF PathsOwned
<1> QED
  BY <1>3, <1>4, <1>5 DEF PathsOwned

\* Every step keeps the owners of the downloaded paths.
LEMMA OwnedNext == ASSUME Inv, PathsOwned, [Next]_vars PROVE PathsOwned'
<1>n. None \notin Downloads /\ NotStoring.path = None
  BY NoneAssumption DEF NotStoring
<1>1. ASSUME NEW t \in Storers, NEW p \in Downloads, NEW s \in Scopes, Download(t, p, s)
      PROVE  PathsOwned'
  <2>1. /\ p \notin fetched /\ fetched' = fetched \cup {p} /\ disk' = disk \cup {p}
        /\ \A u \in Storers : storing'[u].path = IF u = t THEN p ELSE storing[u].path
        /\ UNCHANGED <<path, removing>>
    BY <1>1 DEF Download, storeVars, Inv, TypeOK
  <2> QED
    BY <1>1, <2>1 DEF PathsOwned
<1>2. ASSUME NEW t \in Storers, NEW p \in Files, NEW s \in Scopes, SendFile(t, p, s)
      PROVE  PathsOwned'
  <2>1. /\ p \notin Downloads
        /\ \A u \in Storers : storing'[u].path = IF u = t THEN p ELSE storing[u].path
        /\ UNCHANGED <<disk, fetched, path, removing>>
    BY <1>2, PathsAssumption DEF SendFile, storeVars, Inv, TypeOK
  <2> QED
    BY <1>2, <2>1 DEF PathsOwned
<1>3. ASSUME NEW t \in Storers, NEW r \in Refs, Store(t, r)
      PROVE  PathsOwned'
  <2>1. /\ \A q \in Refs : path'[q] = IF q = r THEN storing[t].path ELSE path[q]
        /\ \A u \in Storers : storing'[u].path = IF u = t THEN None ELSE storing[u].path
        /\ UNCHANGED <<disk, fetched, removing>>
    BY <1>3 DEF Store, NotStoring, Inv, TypeOK
  <2> QED
    BY <1>3, <1>n, <2>1 DEF PathsOwned
<1>4. ASSUME NEW s \in Released, ReleaseAll(s) PROVE PathsOwned'
  <2>1. scopeToRefs[s] \in SUBSET Refs
    BY ReleasedAssumption DEF Inv, TypeOK
  <2> QED
    BY <1>4, <2>1, ForgetOwned DEF ReleaseAll, Removers
<1>5. CASE CleanExpired
  <2>1. Expired \in SUBSET Refs
    BY DEF Expired
  <2> QED
    BY <1>5, <2>1, ForgetOwned DEF CleanExpired, Removers
<1>6. ASSUME NEW w \in Removers, NEW p \in Paths, Remove(w, p) \/ RemoveFails(w, p)
      PROVE  PathsOwned'
  <2>1. /\ p \in removing[w] /\ disk \ {p} \subseteq disk'
        /\ \A v \in Removers : removing'[v] \subseteq removing[v]
        /\ UNCHANGED <<fetched, path, storing>>
    BY <1>6 DEF Remove, RemoveFails, storeVars, Inv, TypeOK
  <2> QED
    BY <2>1 DEF PathsOwned
<1>7. CASE Tick
  BY <1>7 DEF Tick, PathsOwned
<1>8. CASE Reload
  BY <1>8, <1>n DEF Reload, PathsOwned
<1>9. CASE UNCHANGED vars
  BY <1>9 DEF vars, storeVars, PathsOwned
<1> QED
  BY <1>1, <1>2, <1>3, <1>4, <1>5, <1>6, <1>7, <1>8, <1>9 DEF Next

\* FileMediaStore: the file of a downloaded attachment exists while its reference
\* resolves, whatever is stored, released, expired and removed meanwhile.
THEOREM DownloadsResolve == Spec => []DownloadResolves
<1>1. Init => Inv /\ PathsOwned
  <2>1. Init => PathsOwned
    BY NoneAssumption DEF Init, PathsOwned, NotStoring
  <2> QED
    BY <2>1, InitInv
<1>2. Inv /\ PathsOwned /\ [Next]_vars => (Inv /\ PathsOwned)'
  BY NextInv, OwnedNext
<1>3. PathsOwned => DownloadResolves
  BY DEF PathsOwned, DownloadResolves
<1> QED
  BY <1>1, <1>2, <1>3, PTL DEF Spec

-----------------------------------------------------------------------------
(* HeartbeatService and the state file                                     *)

\* While a save runs the file is what was acknowledged before it or what it wrote.
HeartInv ==
    /\ Heart!TypeOK
    /\ saving # "no" => up
    /\ beatFile = IF saving = "return" THEN mem["agent"] ELSE acked

\* The process starts with no state file, or with a whole one.
LEMMA HeartInit == ASSUME Heart!ConstantsAssumption, Heart!Init PROVE HeartInv
<1>1. /\ 0 \in 0..HeartMaxRecords /\ 0 \in 0..HeartMaxServices /\ {} \subseteq 1..0
  BY DEF Heart!ConstantsAssumption
<1>2. beat \in [Heart!Beats -> {"none", "checked", "handler"}] /\ \A b \in Heart!Beats : beat[b] = "none"
  BY DEF Heart!Init
<1> QED
  BY <1>1, <1>2 DEF Heart!Init, HeartInv, Heart!TypeOK, Heart!Managers

\* Every step keeps the invariant, and a beat begins on the running service only.
LEMMA HeartStep ==
  ASSUME Heart!ConstantsAssumption, HeartInv, [Heart!Next]_(Heart!vars)
  PROVE  /\ HeartInv'
         /\ \A b \in Heart!Beats : beat[b] = "none" /\ beat'[b] # "none" => beatRunning /\ b[1] = service
<1> USE DEF Heart!ConstantsAssumption, HeartInv, Heart!TypeOK, Heart!Managers, Heart!Services, Heart!stateVars, Heart!beatVars
<1>l. Heart!Loaded \in HeartChannels \cup {None}
  BY DEF Heart!Loaded
<1>b. \A b \in Heart!Beats : b[1] \in Nat /\ (b[1] <= service => b[1] <= service + 1)
  BY DEF Heart!Beats
<1>1. CASE \E c \in HeartChannels : Heart!SetLastChannel(c)
  BY <1>1 DEF Heart!SetLastChannel
<1>2. CASE Heart!WriteFileAtomic
  BY <1>2 DEF Heart!WriteFileAtomic
<1>3. CASE Heart!WriteFails
  BY <1>3 DEF Heart!WriteFails
<1>4. CASE Heart!SetReturns
  BY <1>4 DEF Heart!SetReturns
<1>5. CASE Heart!StartProcess
  BY <1>5, <1>l DEF Heart!StartProcess
<1>6. CASE Heart!Stop
  BY <1>6 DEF Heart!Stop
<1>7. CASE Heart!StartNew
  <2>1. service' \in 0..HeartMaxServices /\ service' = service + 1 /\ timer' \subseteq 1..service'
    BY <1>7 DEF Heart!StartNew
  <2>2. mem' \in [Heart!Managers -> HeartChannels \cup {None}] /\ mem'["agent"] = mem["agent"]
    BY <1>7, <1>l DEF Heart!StartNew
  <2> QED
    BY <1>7, <1>b, <2>1, <2>2 DEF Heart!StartNew
<1>8. CASE Heart!Crash
  BY <1>8 DEF Heart!Crash
<1>9. CASE \E s \in Heart!Services : Heart!BeatFirst(s)
  <2> PICK s \in Heart!Services : Heart!BeatFirst(s)
    BY <1>9
  <2>1. up /\ s \in 1..service /\ timer' \subseteq 1..service
    BY DEF Heart!BeatFirst
  <2>2. CASE Heart!Alive(s)
    <3>1. beat' = [beat EXCEPT ![<<s, "first">>] = "checked"] /\ beatRunning /\ s = service
      BY <2>2 DEF Heart!BeatFirst, Heart!Alive
    <3>2. \A b \in Heart!Beats : beat'[b] = IF b = <<s, "first">> THEN "checked" ELSE beat[b]
      BY <3>1
    <3>3. <<s, "first">> \in Heart!Beats /\ <<s, "first">>[1] = s
      BY DEF Heart!Beats
    <3>4. beat' \in [Heart!Beats -> {"none", "checked", "handler"}]
      BY <3>1
    <3> QED
      BY <2>1, <3>1, <3>2, <3>3, <3>4 DEF Heart!BeatFirst
  <2>3. CASE ~Heart!Alive(s)
    BY <2>1, <2>3 DEF Heart!BeatFirst
  <2> QED
    BY <2>2, <2>3
<1>10. CASE \E s \in Heart!Services : Heart!BeatTick(s)
  BY <1>10 DEF Heart!BeatTick, Heart!Alive, Heart!Beats
<1>11. CASE \E b \in Heart!Beats : Heart!BeatWithoutPrompt(b)
  BY <1>11 DEF Heart!BeatWithoutPrompt
<1>12. CASE \E b \in Heart!Beats : Heart!BeatHandler(b)
  BY <1>12 DEF Heart!BeatHandler
<1>13. CASE \E b \in Heart!Beats : Heart!BeatEnds(b)
  BY <1>13 DEF Heart!BeatEnds
<1>14. CASE Heart!Notify
  BY <1>14 DEF Heart!Notify
<1>15. CASE UNCHANGED Heart!vars
  BY <1>15 DEF Heart!vars
<1> QED
  BY <1>1, <1>2, <1>3, <1>4, <1>5, <1>6, <1>7, <1>8, <1>9, <1>10, <1>11, <1>12, <1>13,
       <1>14, <1>15 DEF Heart!Next

\* atomicSave of pkg/state: whatever crashes, the file is whole and holds the last
\* state that a call returned from saving.
THEOREM HeartStateFileSafe ==
  ASSUME Heart!ConstantsAssumption
  PROVE  Heart!Spec => [](Heart!TypeOK /\ Heart!StateFileSurvives)
<1>1. Heart!Init => HeartInv
  BY HeartInit
<1>2. HeartInv /\ [Heart!Next]_(Heart!vars) => HeartInv'
  BY HeartStep
<1>3. HeartInv => Heart!TypeOK /\ Heart!StateFileSurvives
  BY DEF HeartInv, Heart!StateFileSurvives
<1> QED
  BY <1>1, <1>2, <1>3, PTL DEF Heart!Spec

\* HeartbeatService: after any number of starts and stops no beat begins on a
\* service that was stopped.
THEOREM HeartBeatsNewest ==
  ASSUME Heart!ConstantsAssumption
  PROVE  Heart!Spec => Heart!BeatsOfTheNewest
<1>1. Heart!Init => HeartInv
  BY HeartInit
<1>2. HeartInv /\ [Heart!Next]_(Heart!vars) =>
        /\ HeartInv'
        /\ [\A b \in Heart!Beats : beat[b] = "none" /\ beat'[b] # "none" => beatRunning /\ b[1] = service]_(Heart!vars)
  BY HeartStep
<1> QED
  BY <1>1, <1>2, PTL DEF Heart!Spec, Heart!BeatsOfTheNewest

-----------------------------------------------------------------------------
(* CronService                                                             *)

\* What jobs.json and the memory of a service can hold.
CronTables == UNION {[D -> Cron!Jobs] : D \in SUBSET Cron!IDs}

CronTypes ==
    /\ now \in 1..CronMaxTime
    /\ cronDisk \in CronTables /\ store \in [Cron!Gens -> CronTables]
    /\ gen \in 0..CronMaxGen /\ cronRunning \subseteq {gen} \ {0}
    /\ due \in [Cron!Gens -> SUBSET Cron!IDs]
    /\ exec \in [Cron!Gens -> Cron!IDs \cup {0}]
    /\ update = Cron!NoUpdate \/ update \in [gen : Cron!Gens, id : Cron!IDs, job : Cron!Jobs]
    /\ nextID \in 0..CronMaxJobs
    /\ cronKept \subseteq Cron!IDs
    /\ runs \in [Cron!IDs -> Nat]

\* c is a copy of job j, wherever it is kept: of the kind K[j] and the time A[j] the
\* job was added with; a one-shot job is scheduled for its own time or not at all.
CronCopyOK(j, c, K, A) ==
    /\ c.kind = K[j] /\ c.at = A[j]
    /\ c.kind = "at" => c.next \in {Cron!Nil, c.at} /\ (c.enabled \/ c.next = Cron!Nil)

CronTableOK(t, K, A) == \A j \in DOMAIN t : j <= nextID /\ CronCopyOK(j, t[j], K, A)

CronCopiesOK(K, A) ==
    /\ CronTableOK(cronDisk, K, A)
    /\ \A g \in Cron!Gens : CronTableOK(store[g], K, A)
    /\ update # Cron!NoUpdate => /\ update.gen <= gen /\ update.id <= nextID
                                 /\ CronCopyOK(update.id, update.job, K, A)
                                 /\ update.job.next # Cron!Nil

\* Generations to come have nothing to do; jobs to come are nowhere.
CronLoopsOK ==
    \A g \in Cron!Gens : /\ g > gen => due[g] = {} /\ exec[g] = 0
                         /\ \A j \in due[g] : j <= nextID

\* Generation g is about to start the one-shot job j.
CronTicket(g, j, K) == j \in due[g] /\ j \in DOMAIN store[g] /\ K[j] = "at"

CronSpent(j, K) == runs[j] # 0 \/ \E g \in Cron!Gens : CronTicket(g, j, K)

\* A one-shot job is started by one loop, when its time has come.
CronTicketsOK(K, A) ==
    /\ \A j \in Cron!IDs : /\ runs[j] <= 1
                           /\ j > nextID => runs[j] = 0
                           /\ CronSpent(j, K) => A[j] <= now
    /\ \A g \in Cron!Gens, j \in Cron!IDs : CronTicket(g, j, K) => runs[j] = 0
    /\ \A g, h \in Cron!Gens, j \in Cron!IDs : CronTicket(g, j, K) /\ CronTicket(h, j, K) => g = h

\* The newest generation does not collect a one-shot job again.
CronOnceOK(K) ==
    gen # 0 => \A j \in DOMAIN store[gen] :
        CronSpent(j, K) /\ K[j] = "at" =>
            \/ j \in due[gen] \/ exec[gen] = j
            \/ store[gen][j].next = Cron!Nil /\ ~(update.gen = gen /\ update.id = j)

\* It does not forget a recurring one.
CronEveryOK(K) ==
    gen # 0 => \A j \in DOMAIN store[gen] :
        K[j] = "every" /\ store[gen][j].enabled /\ store[gen][j].next = Cron!Nil =>
            j \in due[gen] \/ exec[gen] = j

CronParts(K, A) ==
    CronTypes /\ CronCopiesOK(K, A) /\ CronLoopsOK /\ CronTicketsOK(K, A) /\ CronOnceOK(K) /\ CronEveryOK(K)

CronIInv == \E K \in [Cron!IDs -> {"at", "every"}], A \in [Cron!IDs -> Nat] : CronParts(K, A)

-----------------------------------------------------------------------------
\* Tables are functions from IDs to jobs.
LEMMA CronTableDef ==
  /\ \A t \in CronTables : DOMAIN t \subseteq Cron!IDs /\ \A j \in DOMAIN t : t[j] \in Cron!Jobs
  /\ \A D \in SUBSET Cron!IDs : \A t \in [D -> Cron!Jobs] : t \in CronTables
<1>1. ASSUME NEW t \in CronTables PROVE DOMAIN t \subseteq Cron!IDs /\ \A j \in DOMAIN t : t[j] \in Cron!Jobs
  BY DEF CronTables
<1>2. ASSUME NEW D \in SUBSET Cron!IDs, NEW t \in [D -> Cron!Jobs] PROVE t \in CronTables
  BY DEF CronTables
<1> QED
  BY <1>1, <1>2

\* What With and Without make of a table.
LEMMA CronWithTable ==
  ASSUME NEW t \in CronTables, NEW j \in Cron!IDs, NEW job \in Cron!Jobs
  PROVE  /\ Cron!With(t, j, job) \in CronTables
         /\ DOMAIN Cron!With(t, j, job) = DOMAIN t \cup {j}
         /\ Cron!With(t, j, job)[j] = job
         /\ \A i \in DOMAIN t : i # j => Cron!With(t, j, job)[i] = t[i]
<1>1. DOMAIN t \subseteq Cron!IDs /\ \A i \in DOMAIN t : t[i] \in Cron!Jobs
  BY CronTableDef
<1>2. Cron!With(t, j, job) \in [DOMAIN t \cup {j} -> Cron!Jobs]
  BY <1>1 DEF Cron!With
<1> QED
  BY <1>1, <1>2, CronTableDef DEF Cron!With

\* The same of the removal of a job.
LEMMA CronWithoutTable ==
  ASSUME NEW t \in CronTables, NEW j
  PROVE  /\ Cron!Without(t, j) \in CronTables
         /\ DOMAIN Cron!Without(t, j) = DOMAIN t \ {j}
         /\ \A i \in DOMAIN t \ {j} : Cron!Without(t, j)[i] = t[i]
<1>1. DOMAIN t \subseteq Cron!IDs /\ \A i \in DOMAIN t : t[i] \in Cron!Jobs
  BY CronTableDef
<1>2. Cron!Without(t, j) \in [DOMAIN t \ {j} -> Cron!Jobs]
  BY <1>1 DEF Cron!Without
<1> QED
  BY <1>1, <1>2, CronTableDef DEF Cron!Without

\* computeNextRun schedules in the future, a one-shot job for its time only.
LEMMA CronNextRun ==
  ASSUME Cron!ConstantsAssumption, CronTypes, NEW kind \in {"at", "every"}, NEW t0 \in Nat
  PROVE  /\ Cron!computeNextRun(kind, t0) \in Nat
         /\ kind = "at" => Cron!computeNextRun(kind, t0) \in {Cron!Nil, t0}
         /\ kind = "at" /\ t0 <= now => Cron!computeNextRun(kind, t0) = Cron!Nil
         /\ kind = "at" /\ t0 > now => Cron!computeNextRun(kind, t0) = t0
         /\ kind = "every" => Cron!computeNextRun(kind, t0) # Cron!Nil
  BY DEF Cron!ConstantsAssumption, CronTypes, Cron!computeNextRun, Cron!Nil

\* A job with another time is the same job.
LEMMA CronSetNextJob ==
  ASSUME NEW job \in Cron!Jobs, NEW t \in Nat
  PROVE  /\ Cron!SetNext(job, t) \in Cron!Jobs /\ Cron!SetNext(job, t).next = t
         /\ Cron!SetNext(job, t).kind = job.kind /\ Cron!SetNext(job, t).at = job.at
         /\ Cron!SetNext(job, t).enabled = job.enabled
  BY DEF Cron!SetNext, Cron!Jobs

\* recomputeNextRuns changes times only, of jobs that are enabled.
LEMMA CronRecomputeTable ==
  ASSUME Cron!ConstantsAssumption, CronTypes, NEW t \in CronTables
  PROVE  /\ Cron!recomputeNextRuns(t) \in CronTables
         /\ DOMAIN Cron!recomputeNextRuns(t) = DOMAIN t
         /\ \A j \in DOMAIN t :
              LET c == Cron!recomputeNextRuns(t)[j]
              IN  /\ c.kind = t[j].kind /\ c.at = t[j].at /\ c.enabled = t[j].enabled
                  /\ ~c.enabled => c.next = t[j].next
                  /\ c.enabled => c.next = Cron!computeNextRun(c.kind, c.at)
<1>1. DOMAIN t \subseteq Cron!IDs /\ \A i \in DOMAIN t : t[i] \in Cron!Jobs
  BY CronTableDef
<1>2. ASSUME NEW j \in DOMAIN t
      PROVE  LET c == Cron!recomputeNextRuns(t)[j]
             IN  /\ c \in Cron!Jobs
                 /\ c.kind = t[j].kind /\ c.at = t[j].at /\ c.enabled = t[j].enabled
                 /\ ~c.enabled => c.next = t[j].next
                 /\ c.enabled => c.next = Cron!computeNextRun(c.kind, c.at)
  <2>1. t[j] \in Cron!Jobs /\ t[j].kind \in {"at", "every"} /\ t[j].at \in Nat
    BY <1>1 DEF Cron!Jobs
  <2>2. Cron!computeNextRun(t[j].kind, t[j].at) \in Nat
    BY <2>1, CronNextRun
  <2> QED
    BY <2>1, <2>2, CronSetNextJob DEF Cron!recomputeNextRuns
<1>3. Cron!recomputeNextRuns(t) \in [DOMAIN t -> Cron!Jobs]
  BY <1>2 DEF Cron!recomputeNextRuns
<1> QED
  BY <1>1, <1>2, <1>3, CronTableDef

\* What is saved is in memory and in the file; other generations keep what they have.
LEMMA CronSaved ==
  ASSUME CronTypes, NEW g \in Cron!Gens, NEW s \in CronTables, Cron!SaveStore(g, s)
  PROVE  /\ cronDisk' = s /\ cronDisk' \in CronTables /\ store' \in [Cron!Gens -> CronTables]
         /\ store'[g] = s
         /\ \A h \in Cron!Gens : h # g => store'[h] = store[h]
  BY DEF CronTypes, Cron!SaveStore

-----------------------------------------------------------------------------
\* No job exists; kinds and times are those of the jobs to come.
LEMMA CronInit == ASSUME Cron!ConstantsAssumption, Cron!Init PROVE CronIInv
<1> DEFINE K == [j \in Cron!IDs |-> "at"]
           A == [j \in Cron!IDs |-> 0]
<1> SUFFICES CronParts(K, A)
  BY DEF CronIInv
<1>1. Cron!NoJobs \in CronTables /\ DOMAIN Cron!NoJobs = {}
  <2>1. DOMAIN Cron!NoJobs = {} /\ Cron!NoJobs \in [{} -> Cron!Jobs]
    BY DEF Cron!NoJobs
  <2> QED
    BY <2>1, CronTableDef
<1>2. CronTypes
  BY <1>1 DEF Cron!Init, CronTypes, Cron!ConstantsAssumption
<1> QED
  BY <1>1, <1>2 DEF Cron!Init, CronParts, CronCopiesOK, CronTableOK, CronLoopsOK,
       CronTicket, CronSpent, CronTicketsOK, CronOnceOK, CronEveryOK

\* Steps that change neither jobs nor what is due.
LEMMA CronStopKeeps ==
  ASSUME Cron!ConstantsAssumption, NEW K, NEW A \in [Cron!IDs -> Nat], CronParts(K, A), Cron!Stop \/ Cron!Tick \/ UNCHANGED Cron!vars
  PROVE  CronParts(K, A)'
<1>1. CASE Cron!Stop
  BY <1>1 DEF Cron!Stop, CronParts, CronTypes, CronCopiesOK, CronTableOK, CronCopyOK,
       CronLoopsOK, CronTicket, CronSpent, CronTicketsOK, CronOnceOK, CronEveryOK
<1>2. CASE UNCHANGED Cron!vars
  BY <1>2 DEF Cron!vars, CronParts, CronTypes, CronCopiesOK, CronTableOK, CronCopyOK,
       CronLoopsOK, CronTicket, CronSpent, CronTicketsOK, CronOnceOK, CronEveryOK
<1>3. CASE Cron!Tick
  <2>1. now' = now + 1 /\ CronTypes' /\ UNCHANGED <<cronDisk, store, cronRunning, gen, due, exec, update, nextID, cronKept, runs>>
    BY <1>3 DEF Cron!Tick, CronParts, CronTypes, Cron!ConstantsAssumption
  <2>2. CronTicketsOK(K, A)'
    <3>1. \A j \in Cron!IDs : A[j] <= now => A[j] <= now + 1
      BY DEF CronParts, CronTypes
    <3> QED
      BY <2>1, <3>1 DEF CronParts, CronTicketsOK, CronTicket, CronSpent
  <2> QED
    BY <2>1, <2>2 DEF CronParts, CronCopiesOK, CronTableOK, CronCopyOK, CronLoopsOK,
         CronTicket, CronSpent, CronOnceOK, CronEveryOK
<1> QED
  BY <1>1, <1>2, <1>3
\* A crash leaves the file; nothing is due.
LEMMA CronCrashKeeps ==
  ASSUME Cron!ConstantsAssumption, NEW K, NEW A \in [Cron!IDs -> Nat], CronParts(K, A), Cron!Crash
  PROVE  CronParts(K, A)'
<1>1. Cron!NoJobs \in CronTables /\ DOMAIN Cron!NoJobs = {}
  <2>1. DOMAIN Cron!NoJobs = {} /\ Cron!NoJobs \in [{} -> Cron!Jobs]
    BY DEF Cron!NoJobs
  <2> QED
    BY <2>1, CronTableDef
<1>2. /\ UNCHANGED <<now, cronDisk, nextID, cronKept, runs>> /\ gen' = 0 /\ cronRunning' = {} /\ update' = Cron!NoUpdate
      /\ \A g \in Cron!Gens : store'[g] = Cron!NoJobs /\ due'[g] = {} /\ exec'[g] = 0
  BY DEF Cron!Crash
<1>3. CronTypes'
  <2>1. /\ store' = [g \in Cron!Gens |-> Cron!NoJobs] /\ due' = [g \in Cron!Gens |-> {}]
        /\ exec' = [g \in Cron!Gens |-> 0]
    BY DEF Cron!Crash
  <2>2. /\ store' \in [Cron!Gens -> CronTables] /\ due' \in [Cron!Gens -> SUBSET Cron!IDs]
        /\ exec' \in [Cron!Gens -> Cron!IDs \cup {0}]
    BY <1>1, <2>1
  <2>3. CronTypes /\ 0 \in 0..CronMaxGen
    BY DEF CronParts, Cron!ConstantsAssumption
  <2> QED
    BY <1>1, <1>2, <2>2, <2>3 DEF Cron!Crash, CronTypes
<1>4. CronCopiesOK(K, A)'
  BY <1>1, <1>2 DEF CronParts, CronCopiesOK, CronTableOK, CronCopyOK
<1>5. \A g \in Cron!Gens, j \in Cron!IDs : ~CronTicket(g, j, K)'
  BY <1>2 DEF CronTicket
<1>6. CronTicketsOK(K, A)'
  BY <1>2, <1>5 DEF CronParts, CronTicketsOK, CronSpent
<1> QED
  BY <1>2, <1>3, <1>4, <1>5, <1>6 DEF CronParts, CronLoopsOK, CronOnceOK, CronEveryOK

\* A new service schedules what it loads; a job that was started, or is about to
\* be, has had its time.
LEMMA CronStartKeeps ==
  ASSUME Cron!ConstantsAssumption, NEW K, NEW A \in [Cron!IDs -> Nat], CronParts(K, A), Cron!Start
  PROVE  CronParts(K, A)'
<1> DEFINE g == gen + 1
           t == Cron!recomputeNextRuns(cronDisk)
<1>1. /\ g \in Cron!Gens /\ gen' = g /\ cronRunning' = {g} /\ Cron!SaveStore(g, t)
      /\ UNCHANGED <<now, due, exec, update, nextID, cronKept, runs>>
  BY DEF Cron!Start, CronParts, CronTypes, Cron!Gens, Cron!ConstantsAssumption
<1>2. CronTypes /\ cronDisk \in CronTables
  BY DEF CronParts, CronTypes
<1>3. /\ t \in CronTables /\ DOMAIN t = DOMAIN cronDisk
      /\ \A j \in DOMAIN cronDisk :
            /\ t[j].kind = cronDisk[j].kind /\ t[j].at = cronDisk[j].at /\ t[j].enabled = cronDisk[j].enabled
            /\ ~t[j].enabled => t[j].next = cronDisk[j].next
            /\ t[j].enabled => t[j].next = Cron!computeNextRun(t[j].kind, t[j].at)
  BY <1>2, CronRecomputeTable
<1>4. cronDisk' = t /\ store' \in [Cron!Gens -> CronTables] /\ store'[g] = t
      /\ \A h \in Cron!Gens : h # g => store'[h] = store[h]
  BY <1>1, <1>2, <1>3, CronSaved
<1>5. \A j \in DOMAIN t : t[j] \in Cron!Jobs /\ j \in Cron!IDs /\ t[j].kind \in {"at", "every"} /\ t[j].at \in Nat
  BY <1>3, CronTableDef DEF Cron!Jobs
<1>6. CronTypes'
  <2>1. gen' \in 0..CronMaxGen /\ cronRunning' \subseteq {gen'} \ {0}
    BY <1>1, <1>2 DEF CronTypes, Cron!Gens
  <2> QED
    BY <1>1, <1>2, <1>3, <1>4, <2>1 DEF CronTypes
<1>7. ASSUME NEW j \in DOMAIN t PROVE j <= nextID /\ CronCopyOK(j, t[j], K, A)
  <2>1. j <= nextID /\ CronCopyOK(j, cronDisk[j], K, A)
    BY <1>3 DEF CronParts, CronCopiesOK, CronTableOK
  <2> QED
    BY <1>2, <1>3, <1>5, <2>1, CronNextRun DEF CronCopyOK
<1>8. CronCopiesOK(K, A)'
  <2>1. update # Cron!NoUpdate => update.gen \in Nat /\ update.gen <= g
    BY <1>2 DEF CronParts, CronCopiesOK, CronTypes, Cron!Gens
  <2> QED
    BY <1>1, <1>4, <1>7, <2>1 DEF CronParts, CronCopiesOK, CronTableOK, CronCopyOK
<1>9. due[g] = {} /\ exec[g] = 0 /\ CronLoopsOK'
  <2>1. g > gen /\ \A h \in Cron!Gens : h > g => h > gen
    BY <1>2 DEF CronTypes, Cron!Gens
  <2> QED
    BY <1>1, <2>1 DEF CronParts, CronLoopsOK
<1>10. \A h \in Cron!Gens, j \in Cron!IDs : CronTicket(h, j, K)' <=> CronTicket(h, j, K)
  BY <1>1, <1>4, <1>9 DEF CronTicket
<1>11. \A j \in Cron!IDs : CronSpent(j, K)' <=> CronSpent(j, K)
  BY <1>1, <1>10 DEF CronSpent
<1>12. CronTicketsOK(K, A)'
  BY <1>1, <1>10, <1>11 DEF CronParts, CronTicketsOK
<1>13. CronOnceOK(K)'
  <2> SUFFICES ASSUME NEW j \in DOMAIN t, CronSpent(j, K), K[j] = "at"
               PROVE  t[j].next = Cron!Nil /\ update.gen # g
    BY <1>1, <1>4, <1>5, <1>11 DEF CronOnceOK
  <2>1. A[j] <= now /\ t[j].kind = "at" /\ t[j].at = A[j] /\ (t[j].enabled \/ t[j].next = Cron!Nil)
    BY <1>5, <1>7 DEF CronParts, CronTicketsOK, CronCopyOK
  <2>2. t[j].next = Cron!Nil
    BY <1>2, <1>3, <1>5, <2>1, CronNextRun
  <2>3. update.gen # g
    BY <1>2 DEF CronParts, CronCopiesOK, CronTypes, Cron!Gens, Cron!NoUpdate
  <2> QED
    BY <2>2, <2>3
<1>14. CronEveryOK(K)'
  <2> SUFFICES ASSUME NEW j \in DOMAIN t, K[j] = "every", t[j].enabled
               PROVE  t[j].next # Cron!Nil
    BY <1>1, <1>4 DEF CronEveryOK
  <2>1. t[j].kind = "every"
    BY <1>7 DEF CronCopyOK
  <2> QED
    BY <1>2, <1>3, <1>5, <2>1, CronNextRun
<1> QED
  BY <1>6, <1>8, <1>9, <1>12, <1>13, <1>14 DEF CronParts
\* The tool puts a job of a new number into one service and the file.
LEMMA CronAddKeeps ==
  ASSUME Cron!ConstantsAssumption, NEW K \in [Cron!IDs -> {"at", "every"}], NEW A \in [Cron!IDs -> Nat],
         CronParts(K, A), NEW g \in Cron!Gens, NEW kind \in {"at", "every"}, NEW command \in BOOLEAN,
         Cron!addJob(g, kind, command)
  PROVE  CronIInv'
<1> DEFINE j == nextID + 1
           job == [kind |-> kind, at |-> now + 1, enabled |-> TRUE, next |-> Cron!computeNextRun(kind, now + 1)]
           t == Cron!With(store[g], j, job)
<1>1. /\ nextID' = j /\ j \in Cron!IDs /\ Cron!SaveStore(g, t) /\ cronKept' = cronKept \cup {j} /\ g <= gen /\ update = Cron!NoUpdate
      /\ update' = IF command THEN [gen |-> g, id |-> j, job |-> job] ELSE update
      /\ UNCHANGED <<now, cronRunning, gen, due, exec, runs>>
  BY DEF Cron!addJob, Cron!AddJob, Cron!Usable, CronParts, CronTypes, Cron!IDs,
       Cron!ConstantsAssumption
<1>2. CronTypes /\ nextID \in Nat /\ now \in Nat
  BY DEF CronParts, CronTypes, Cron!ConstantsAssumption
<1>3. PICK K2 \in [Cron!IDs -> {"at", "every"}], A2 \in [Cron!IDs -> Nat] :
         /\ K2[j] = kind /\ A2[j] = now + 1
         /\ \A i \in Cron!IDs : i # j => K2[i] = K[i] /\ A2[i] = A[i]
  <2>1. [K EXCEPT ![j] = kind] \in [Cron!IDs -> {"at", "every"}] /\ [A EXCEPT ![j] = now + 1] \in [Cron!IDs -> Nat]
    BY <1>1, <1>2
  <2> QED
    BY <1>1, <2>1
<1>4. /\ job \in Cron!Jobs /\ job.next # Cron!Nil /\ CronCopyOK(j, job, K2, A2)
      /\ job.next \in Nat
  <2>1. /\ Cron!computeNextRun(kind, now + 1) \in Nat /\ Cron!computeNextRun(kind, now + 1) # Cron!Nil
        /\ kind = "at" => Cron!computeNextRun(kind, now + 1) = now + 1
    BY <1>2, CronNextRun DEF Cron!Nil
  <2> QED
    BY <1>2, <1>3, <2>1 DEF Cron!Jobs, CronCopyOK
<1> HIDE DEF job
<1>5. store[g] \in CronTables /\ DOMAIN store[g] \subseteq Cron!IDs /\ j \notin DOMAIN store[g]
  <2>1. store[g] \in CronTables /\ DOMAIN store[g] \subseteq Cron!IDs
    BY <1>2, CronTableDef DEF CronTypes
  <2>2. \A i \in DOMAIN store[g] : i <= nextID
    BY DEF CronParts, CronCopiesOK, CronTableOK
  <2> QED
    BY <1>2, <2>1, <2>2
<1>6. t \in CronTables /\ DOMAIN t = DOMAIN store[g] \cup {j} /\ t[j] = job
      /\ \A i \in DOMAIN store[g] : i # j => t[i] = store[g][i]
  <2>1. ASSUME NEW i \in Cron!IDs
        PROVE  /\ Cron!With(store[g], i, job) \in CronTables
               /\ DOMAIN Cron!With(store[g], i, job) = DOMAIN store[g] \cup {i}
               /\ Cron!With(store[g], i, job)[i] = job
               /\ \A k \in DOMAIN store[g] : k # i => Cron!With(store[g], i, job)[k] = store[g][k]
    BY <1>4, <1>5, CronWithTable, ZenonT(60)
  <2> QED
    BY <1>1, <2>1
<1>7. cronDisk' = t /\ cronDisk' \in CronTables /\ store' \in [Cron!Gens -> CronTables] /\ store'[g] = t
      /\ \A h \in Cron!Gens : h # g => store'[h] = store[h]
  BY <1>1, <1>2, <1>6, CronSaved
<1>8. CronTypes'
  <2>1. update' = Cron!NoUpdate \/ update' \in [gen : Cron!Gens, id : Cron!IDs, job : Cron!Jobs]
    BY <1>1, <1>4
  <2>2. nextID' \in 0..CronMaxJobs /\ cronKept' \subseteq Cron!IDs
    BY <1>1, <1>2 DEF Cron!IDs, CronTypes
  <2> QED
    BY <1>1, <1>2, <1>7, <2>1, <2>2 DEF CronTypes
<1>9. ASSUME NEW s \in CronTables, CronTableOK(s, K, A)
      PROVE  \A i \in DOMAIN s : i \in Cron!IDs /\ i # j /\ i <= nextID' /\ CronCopyOK(i, s[i], K2, A2)
  <2>1. DOMAIN s \subseteq Cron!IDs /\ \A i \in DOMAIN s : i <= nextID
    BY <1>9, CronTableDef DEF CronTableOK
  <2>2. \A i \in Cron!IDs : i \in Nat
    BY DEF Cron!IDs
  <2> QED
    BY <1>1, <1>2, <1>3, <1>9, <2>1, <2>2 DEF CronTableOK, CronCopyOK
<1>10. CronCopiesOK(K2, A2)'
  <2>1. \A h \in Cron!Gens : store[h] \in CronTables /\ CronTableOK(store[h], K, A)
    BY <1>2 DEF CronParts, CronCopiesOK, CronTypes
  <2>2. \A i \in DOMAIN t : i <= nextID' /\ CronCopyOK(i, t[i], K2, A2)
    <3>1. \A i \in DOMAIN store[g] : i # j /\ i <= nextID' /\ CronCopyOK(i, store[g][i], K2, A2)
      BY <1>9, <2>1
    <3> QED
      BY <1>1, <1>2, <1>4, <1>6, <3>1 DEF CronCopyOK
  <2>3. \A h \in Cron!Gens : \A i \in DOMAIN store'[h] : i <= nextID' /\ CronCopyOK(i, store'[h][i], K2, A2)
    BY <1>7, <1>9, <2>1, <2>2
  <2>4. update' # Cron!NoUpdate => /\ update'.gen <= gen' /\ update'.id <= nextID'
                                   /\ CronCopyOK(update'.id, update'.job, K2, A2) /\ update'.job.next # Cron!Nil
    BY <1>1, <1>2, <1>4
  <2> QED
    BY <1>7, <2>2, <2>3, <2>4 DEF CronCopiesOK, CronTableOK, CronCopyOK
<1>11. CronLoopsOK' /\ \A h \in Cron!Gens : j \notin due[h]
  <2>1. \A h \in Cron!Gens : due[h] \subseteq Cron!IDs /\ \A i \in due[h] : i <= nextID
    BY <1>2 DEF CronParts, CronLoopsOK, CronTypes
  <2>2. \A i \in Cron!IDs : i \in Nat
    BY DEF Cron!IDs
  <2> QED
    BY <1>1, <1>2, <2>1, <2>2 DEF CronParts, CronLoopsOK
<1>12. \A h \in Cron!Gens, i \in Cron!IDs : CronTicket(h, i, K2)' <=> CronTicket(h, i, K)
  BY <1>1, <1>3, <1>6, <1>7, <1>11 DEF CronTicket
<1>13. \A i \in Cron!IDs : CronSpent(i, K2)' <=> CronSpent(i, K)
  BY <1>1, <1>12 DEF CronSpent
<1>14. runs[j] = 0 /\ ~CronSpent(j, K)
  BY <1>1, <1>2, <1>11 DEF CronParts, CronTicketsOK, CronSpent, CronTicket
<1>15. CronTicketsOK(K2, A2)'
  <2>1. \A i \in Cron!IDs : i \in Nat
    BY DEF Cron!IDs
  <2> QED
    BY <1>1, <1>2, <1>3, <1>12, <1>13, <1>14, <2>1 DEF CronParts, CronTicketsOK
<1>16. CronOnceOK(K2)'
  <2> SUFFICES ASSUME gen # 0, NEW i \in DOMAIN store'[gen], CronSpent(i, K), K2[i] = "at"
               PROVE  \/ i \in due[gen] \/ exec[gen] = i
                      \/ store'[gen][i].next = Cron!Nil /\ ~(update'.gen = gen /\ update'.id = i)
    <3>1. \A i \in DOMAIN store'[gen] : gen # 0 => i \in Cron!IDs
      BY <1>7, <1>2, CronTableDef DEF CronTypes, Cron!Gens
    <3> QED
      BY <1>1, <1>13, <3>1 DEF CronOnceOK
  <2>1. gen \in Cron!Gens /\ i # j
    BY <1>2, <1>14 DEF CronTypes, Cron!Gens
  <2>2. i \in DOMAIN store[gen] /\ store'[gen][i] = store[gen][i] /\ i \in Cron!IDs
    BY <1>2, <1>6, <1>7, <2>1, CronTableDef DEF CronTypes
  <2>3. K[i] = "at"
    BY <1>3, <2>1, <2>2
  <2>4. \/ i \in due[gen] \/ exec[gen] = i
        \/ store[gen][i].next = Cron!Nil /\ ~(update.gen = gen /\ update.id = i)
    BY <2>2, <2>3 DEF CronParts, CronOnceOK
  <2>5. ~(update'.gen = gen /\ update'.id = i)
    BY <1>1, <2>1 DEF Cron!NoUpdate
  <2> QED
    BY <2>2, <2>4, <2>5
<1>17. CronEveryOK(K2)'
  <2> SUFFICES ASSUME gen # 0, NEW i \in DOMAIN store'[gen], K2[i] = "every",
                      store'[gen][i].enabled, store'[gen][i].next = Cron!Nil
               PROVE  i \in due[gen] \/ exec[gen] = i
    BY <1>1 DEF CronEveryOK
  <2>1. gen \in Cron!Gens
    BY <1>2 DEF CronTypes, Cron!Gens
  <2>2. i # j
    <3>1. CASE gen = g
      BY <1>4, <1>6, <1>7, <3>1
    <3>2. CASE gen # g
      BY <1>2, <1>7, <1>9, <2>1, <3>2 DEF CronParts, CronCopiesOK, CronTypes
    <3> QED
      BY <3>1, <3>2
  <2>3. i \in DOMAIN store[gen] /\ store'[gen][i] = store[gen][i] /\ i \in Cron!IDs
    BY <1>2, <1>6, <1>7, <2>1, <2>2, CronTableDef DEF CronTypes
  <2> QED
    BY <1>3, <2>2, <2>3 DEF CronParts, CronEveryOK
<1> QED
  BY <1>3, <1>8, <1>10, <1>11, <1>15, <1>16, <1>17 DEF CronIInv, CronParts
\* A save of one generation's jobs that adds none and collects none keeps the
\* invariant when each saved job does.
LEMMA CronSaveKeeps ==
  ASSUME Cron!ConstantsAssumption, NEW K \in [Cron!IDs -> {"at", "every"}], NEW A \in [Cron!IDs -> Nat],
         CronParts(K, A), NEW g \in Cron!Gens, NEW t \in CronTables, Cron!SaveStore(g, t),
         DOMAIN t \subseteq DOMAIN store[g], \A i \in DOMAIN t : CronCopyOK(i, t[i], K, A),
         UNCHANGED <<now, cronRunning, gen, due, nextID, runs>>,
         update' \in {update, Cron!NoUpdate}, cronKept' \subseteq Cron!IDs,
         exec' \in [Cron!Gens -> Cron!IDs \cup {0}], exec'[g] \in {exec[g], 0},
         \A h \in Cron!Gens : h # g => exec'[h] = exec[h],
         gen = g => \A i \in DOMAIN t :
            /\ CronSpent(i, K) /\ K[i] = "at" =>
                  \/ i \in due[g] \/ exec'[g] = i
                  \/ t[i].next = Cron!Nil /\ ~(update'.gen = g /\ update'.id = i)
            /\ K[i] = "every" /\ t[i].enabled /\ t[i].next = Cron!Nil => i \in due[g] \/ exec'[g] = i
  PROVE  CronParts(K, A)'
<1>1. CronTypes /\ gen \in 0..CronMaxGen
  BY DEF CronParts, CronTypes
<1>2. cronDisk' = t /\ cronDisk' \in CronTables /\ store' \in [Cron!Gens -> CronTables] /\ store'[g] = t
      /\ \A h \in Cron!Gens : h # g => store'[h] = store[h]
  BY <1>1, CronSaved
<1>3. CronTypes'
  <2>1. update' = Cron!NoUpdate \/ update' \in [gen : Cron!Gens, id : Cron!IDs, job : Cron!Jobs]
    BY <1>1 DEF CronTypes
  <2> QED
    BY <1>1, <1>2, <2>1 DEF CronTypes
<1>4. \A i \in DOMAIN t : i <= nextID
  BY DEF CronParts, CronCopiesOK, CronTableOK
<1>5. CronCopiesOK(K, A)'
  <2>1. \A h \in Cron!Gens : CronTableOK(store[h], K, A)
    BY DEF CronParts, CronCopiesOK
  <2>2. \A h \in Cron!Gens : \A i \in DOMAIN store'[h] : i <= nextID /\ CronCopyOK(i, store'[h][i], K, A)
    BY <1>2, <1>4, <2>1 DEF CronTableOK
  <2>3. update' # Cron!NoUpdate => /\ update'.gen <= gen /\ update'.id <= nextID
                                   /\ CronCopyOK(update'.id, update'.job, K, A) /\ update'.job.next # Cron!Nil
    BY DEF CronParts, CronCopiesOK
  <2> QED
    BY <1>2, <1>4, <2>2, <2>3 DEF CronCopiesOK, CronTableOK, CronCopyOK
<1>6. CronLoopsOK'
  BY DEF CronParts, CronLoopsOK
<1>7. \A h \in Cron!Gens, i \in Cron!IDs : CronTicket(h, i, K)' => CronTicket(h, i, K)
  BY <1>2 DEF CronTicket
<1>8. \A i \in Cron!IDs : CronSpent(i, K)' => CronSpent(i, K)
  BY <1>7 DEF CronSpent
<1>9. CronTicketsOK(K, A)'
  BY <1>7, <1>8 DEF CronParts, CronTicketsOK
<1>10. ASSUME gen # 0 PROVE gen \in Cron!Gens /\ DOMAIN store'[gen] \subseteq Cron!IDs
  BY <1>1, <1>2, <1>10, CronTableDef DEF Cron!Gens
<1>11. CronOnceOK(K)'
  <2> SUFFICES ASSUME gen # 0, NEW i \in DOMAIN store'[gen], CronSpent(i, K), K[i] = "at"
               PROVE  \/ i \in due[gen] \/ exec'[gen] = i
                      \/ store'[gen][i].next = Cron!Nil /\ ~(update'.gen = gen /\ update'.id = i)
    BY <1>8, <1>10 DEF CronOnceOK
  <2>1. CASE gen = g
    BY <1>2, <2>1
  <2>2. CASE gen # g
    BY <1>2, <1>10, <2>2 DEF CronParts, CronOnceOK, Cron!NoUpdate
  <2> QED
    BY <2>1, <2>2
<1>12. CronEveryOK(K)'
  <2> SUFFICES ASSUME gen # 0, NEW i \in DOMAIN store'[gen], K[i] = "every",
                      store'[gen][i].enabled, store'[gen][i].next = Cron!Nil
               PROVE  i \in due[gen] \/ exec'[gen] = i
    BY <1>10 DEF CronEveryOK
  <2>1. CASE gen = g
    BY <1>2, <2>1
  <2>2. CASE gen # g
    BY <1>2, <1>10, <2>2 DEF CronParts, CronEveryOK
  <2> QED
    BY <2>1, <2>2
<1> QED
  BY <1>3, <1>5, <1>6, <1>9, <1>11, <1>12 DEF CronParts
\* What a service holds of a job.
LEMMA CronHeld ==
  ASSUME NEW K, NEW A, CronParts(K, A), NEW g \in Cron!Gens
  PROVE  /\ store[g] \in CronTables /\ DOMAIN store[g] \subseteq Cron!IDs
         /\ \A i \in DOMAIN store[g] : store[g][i] \in Cron!Jobs /\ CronCopyOK(i, store[g][i], K, A)
         /\ gen = g => gen # 0 /\ \A i \in DOMAIN store[g] :
              /\ CronSpent(i, K) /\ K[i] = "at" =>
                    \/ i \in due[g] \/ exec[g] = i
                    \/ store[g][i].next = Cron!Nil /\ ~(update.gen = g /\ update.id = i)
              /\ K[i] = "every" /\ store[g][i].enabled /\ store[g][i].next = Cron!Nil =>
                    i \in due[g] \/ exec[g] = i
  BY CronTableDef DEF CronParts, CronTypes, CronCopiesOK, CronTableOK, CronOnceOK,
       CronEveryOK, Cron!Gens

\* What a service holds after it replaced a job
LEMMA CronHeldWith ==
  ASSUME NEW K, NEW A, CronParts(K, A), NEW g \in Cron!Gens, NEW j \in Cron!IDs, NEW job \in Cron!Jobs
  PROVE  /\ Cron!With(store[g], j, job) \in CronTables
         /\ j \in DOMAIN store[g] => DOMAIN Cron!With(store[g], j, job) = DOMAIN store[g]
         /\ Cron!With(store[g], j, job)[j] = job
         /\ \A i \in DOMAIN store[g] : i # j => Cron!With(store[g], j, job)[i] = store[g][i]
<1>1. store[g] \in CronTables
  BY CronHeld
<1>2. DOMAIN Cron!With(store[g], j, job) = DOMAIN store[g] \cup {j}
  BY <1>1, CronWithTable
<1>3. j \in DOMAIN store[g] => DOMAIN store[g] \cup {j} = DOMAIN store[g]
  OBVIOUS
<1> QED
  BY <1>1, <1>2, <1>3, CronWithTable, ZenonT(60)

\* and after it removed one.
LEMMA CronHeldWithout ==
  ASSUME NEW K, NEW A, CronParts(K, A), NEW g \in Cron!Gens, NEW j
  PROVE  /\ Cron!Without(store[g], j) \in CronTables
         /\ DOMAIN Cron!Without(store[g], j) = DOMAIN store[g] \ {j}
         /\ \A i \in DOMAIN store[g] \ {j} : Cron!Without(store[g], j)[i] = store[g][i]
<1>1. store[g] \in CronTables
  BY CronHeld
<1> QED
  BY <1>1, CronWithoutTable

\* UpdateJob writes back a copy that may be stale.
LEMMA CronUpdateKeeps ==
  ASSUME Cron!ConstantsAssumption, NEW K \in [Cron!IDs -> {"at", "every"}], NEW A \in [Cron!IDs -> Nat],
         CronParts(K, A), Cron!UpdateJob
  PROVE  CronParts(K, A)'
<1> DEFINE g == update.gen
           j == update.id
           t == Cron!With(store[g], j, update.job)
<1>1. /\ update # Cron!NoUpdate /\ update' = Cron!NoUpdate
      /\ UNCHANGED <<now, cronRunning, gen, due, exec, nextID, cronKept, runs>>
  BY DEF Cron!UpdateJob
<1>2. /\ CronTypes /\ g \in Cron!Gens /\ j \in Cron!IDs /\ update.job \in Cron!Jobs
      /\ CronCopyOK(j, update.job, K, A) /\ update.job.next # Cron!Nil
  BY <1>1 DEF CronParts, CronTypes, CronCopiesOK
<1>3. CASE j \in DOMAIN store[g]
  <2>1. Cron!SaveStore(g, t)
    BY <1>3 DEF Cron!UpdateJob
  <2>2. t \in CronTables /\ DOMAIN t = DOMAIN store[g] /\ t[j] = update.job
        /\ \A i \in DOMAIN store[g] : i # j => t[i] = store[g][i]
    BY <1>2, <1>3, CronHeldWith
  <2>3. \A i \in DOMAIN t : CronCopyOK(i, t[i], K, A)
    BY <1>2, <2>2, CronHeld
  <2>4. gen = g => \A i \in DOMAIN t :
            /\ CronSpent(i, K) /\ K[i] = "at" =>
                  \/ i \in due[g] \/ exec'[g] = i
                  \/ t[i].next = Cron!Nil /\ ~(update'.gen = g /\ update'.id = i)
            /\ K[i] = "every" /\ t[i].enabled /\ t[i].next = Cron!Nil => i \in due[g] \/ exec'[g] = i
    <3>1. update'.gen # g
      BY <1>1, <1>2 DEF Cron!NoUpdate, Cron!Gens
    <3> QED
      BY <1>1, <1>2, <2>2, <3>1, CronHeld
  <2>5. /\ exec' \in [Cron!Gens -> Cron!IDs \cup {0}] /\ exec' = exec /\ cronKept' \subseteq Cron!IDs
        /\ DOMAIN t \subseteq DOMAIN store[g] /\ update' \in {update, Cron!NoUpdate}
    BY <1>1, <1>2, <2>2 DEF CronTypes
  <2> HIDE DEF t
  <2> QED
    BY <1>1, <1>2, <2>1, <2>2, <2>3, <2>4, <2>5, CronSaveKeeps
<1>4. CASE j \notin DOMAIN store[g]
  <2>1. UNCHANGED <<store, cronDisk>>
    BY <1>4 DEF Cron!UpdateJob
  <2> QED
    BY <1>1, <2>1 DEF CronParts, CronTypes, CronCopiesOK, CronTableOK, CronCopyOK,
         CronLoopsOK, CronTicket, CronSpent, CronTicketsOK, CronOnceOK, CronEveryOK,
         Cron!NoUpdate
<1> QED
  BY <1>3, <1>4

\* RemoveJob
LEMMA CronRemoveKeeps ==
  ASSUME Cron!ConstantsAssumption, NEW K \in [Cron!IDs -> {"at", "every"}], NEW A \in [Cron!IDs -> Nat],
         CronParts(K, A), NEW g \in Cron!Gens, NEW j \in Cron!IDs, Cron!RemoveJob(g, j)
  PROVE  CronParts(K, A)'
<1> DEFINE t == Cron!Without(store[g], j)
<1>1. /\ Cron!SaveStore(g, t) /\ cronKept' = cronKept \ {j}
      /\ UNCHANGED <<now, cronRunning, gen, due, exec, update, nextID, runs>>
  BY DEF Cron!RemoveJob
<1>2. /\ t \in CronTables /\ DOMAIN t = DOMAIN store[g] \ {j}
      /\ \A i \in DOMAIN t : t[i] = store[g][i]
  BY CronHeldWithout
<1>3. exec' \in [Cron!Gens -> Cron!IDs \cup {0}] /\ cronKept' \subseteq Cron!IDs
  BY <1>1 DEF CronParts, CronTypes
<1>4. \A i \in DOMAIN t : CronCopyOK(i, t[i], K, A)
  BY <1>2, CronHeld
<1>5. gen = g => \A i \in DOMAIN t :
            /\ CronSpent(i, K) /\ K[i] = "at" =>
                  \/ i \in due[g] \/ exec'[g] = i
                  \/ t[i].next = Cron!Nil /\ ~(update'.gen = g /\ update'.id = i)
            /\ K[i] = "every" /\ t[i].enabled /\ t[i].next = Cron!Nil => i \in due[g] \/ exec'[g] = i
  BY <1>1, <1>2, CronHeld
<1> HIDE DEF t
<1> QED
  BY <1>1, <1>2, <1>3, <1>4, <1>5, CronSaveKeeps

\* EnableJob schedules a job anew, which one that has run must survive.
LEMMA CronEnableKeeps ==
  ASSUME Cron!ConstantsAssumption, NEW K \in [Cron!IDs -> {"at", "every"}], NEW A \in [Cron!IDs -> Nat],
         CronParts(K, A), NEW g \in Cron!Gens, NEW j \in Cron!IDs, NEW enabled \in BOOLEAN,
         Cron!EnableJob(g, j, enabled)
  PROVE  CronParts(K, A)'
<1> DEFINE old == store[g][j]
           newNext == IF enabled THEN Cron!computeNextRun(old.kind, old.at) ELSE Cron!Nil
           job == [old EXCEPT !.enabled = enabled, !.next = newNext]
           t == Cron!With(store[g], j, job)
<1>1. /\ j \in DOMAIN store[g] /\ Cron!SaveStore(g, t)
      /\ UNCHANGED <<now, cronRunning, gen, due, exec, update, nextID, cronKept, runs>>
  BY DEF Cron!EnableJob
<1>2. old \in Cron!Jobs /\ CronCopyOK(j, old, K, A) /\ CronTypes
  BY <1>1, CronHeld DEF CronParts
<1>3. old.kind \in {"at", "every"} /\ old.at \in Nat
  BY <1>2 DEF Cron!Jobs
<1>4. /\ newNext \in Nat /\ (enabled /\ old.kind = "every" => newNext # Cron!Nil)
      /\ old.kind = "at" => newNext \in {Cron!Nil, old.at} /\ (enabled \/ newNext = Cron!Nil)
                            /\ (old.at <= now => newNext = Cron!Nil)
  BY <1>2, <1>3, CronNextRun DEF Cron!Nil
<1>5. /\ job \in Cron!Jobs /\ job.kind = old.kind /\ job.at = old.at /\ job.next = newNext
      /\ job.enabled = enabled
  <2> HIDE DEF newNext
  <2> QED
    BY <1>2, <1>4 DEF Cron!Jobs
<1>6. CronCopyOK(j, job, K, A)
  <2> HIDE DEF newNext, job
  <2> QED
    BY <1>2, <1>4, <1>5 DEF CronCopyOK
<1>7. t \in CronTables /\ DOMAIN t = DOMAIN store[g] /\ t[j] = job
        /\ \A i \in DOMAIN store[g] : i # j => t[i] = store[g][i]
  <2> HIDE DEF job
  <2> QED
    BY <1>1, <1>5, CronHeldWith
<1>8. exec' \in [Cron!Gens -> Cron!IDs \cup {0}] /\ cronKept' \subseteq Cron!IDs
  BY <1>1, <1>2 DEF CronTypes
<1>9. \A i \in DOMAIN t : CronCopyOK(i, t[i], K, A)
  <2> HIDE DEF job, t
  <2> QED
    BY <1>6, <1>7, CronHeld
<1>10. gen = g => \A i \in DOMAIN t :
            /\ CronSpent(i, K) /\ K[i] = "at" =>
                  \/ i \in due[g] \/ exec'[g] = i
                  \/ t[i].next = Cron!Nil /\ ~(update'.gen = g /\ update'.id = i)
            /\ K[i] = "every" /\ t[i].enabled /\ t[i].next = Cron!Nil => i \in due[g] \/ exec'[g] = i
  <2> HIDE DEF job, t, newNext
  <2> SUFFICES ASSUME gen = g
               PROVE  /\ CronSpent(j, K) /\ K[j] = "at" =>
                           \/ j \in due[g] \/ exec[g] = j
                           \/ job.next = Cron!Nil /\ ~(update.gen = g /\ update.id = j)
                      /\ K[j] = "every" /\ job.enabled /\ job.next = Cron!Nil => j \in due[g] \/ exec[g] = j
    BY <1>1, <1>7, CronHeld
  <2>1. CronSpent(j, K) => A[j] <= now
    BY DEF CronParts, CronTicketsOK
  <2>2. old.kind = K[j] /\ old.at = A[j]
    BY <1>2 DEF CronCopyOK
  <2> QED
    BY <1>1, <1>4, <1>5, <2>1, <2>2, CronHeld
<1> HIDE DEF t
<1> QED
  BY <1>1, <1>7, <1>8, <1>9, <1>10, CronSaveKeeps

\* When a one-shot job has run it is removed, and a recurring one is scheduled.
LEMMA CronDoneKeeps ==
  ASSUME Cron!ConstantsAssumption, NEW K \in [Cron!IDs -> {"at", "every"}], NEW A \in [Cron!IDs -> Nat],
         CronParts(K, A), NEW g \in Cron!Gens, Cron!jobDone(g)
  PROVE  CronParts(K, A)'
<1> DEFINE j == exec[g]
<1>1. /\ j # 0 /\ exec' = [exec EXCEPT ![g] = 0]
      /\ UNCHANGED <<now, cronRunning, gen, due, update, nextID, runs>>
  BY DEF Cron!jobDone
<1>2. CronTypes /\ j \in Cron!IDs /\ exec' \in [Cron!Gens -> Cron!IDs \cup {0}] /\ exec'[g] = 0
      /\ \A h \in Cron!Gens : h # g => exec'[h] = exec[h]
  BY <1>1 DEF CronParts, CronTypes
<1>3. CASE j \notin DOMAIN store[g]
  <2>1. UNCHANGED <<store, cronDisk, cronKept>>
    BY <1>3 DEF Cron!jobDone
  <2>2. CronTypes' /\ CronCopiesOK(K, A)'
    BY <1>1, <1>2, <2>1 DEF CronParts, CronTypes, CronCopiesOK, CronTableOK, CronCopyOK
  <2>3. CronLoopsOK'
    BY <1>1, <1>2, <2>1 DEF CronParts, CronLoopsOK
  <2>4. CronTicketsOK(K, A)'
    BY <1>1, <2>1 DEF CronParts, CronTicket, CronSpent, CronTicketsOK
  <2>5. CronOnceOK(K)' /\ CronEveryOK(K)'
    <3>1. gen # 0 => gen \in Cron!Gens
      BY <1>2 DEF CronTypes, Cron!Gens
    <3>2. \A h \in Cron!Gens : \A i \in DOMAIN store[h] : exec[h] = i => exec'[h] = i
      BY <1>2, <1>3
    <3> QED
      BY <1>1, <2>1, <3>1, <3>2 DEF CronParts, CronTicket, CronSpent, CronOnceOK,
           CronEveryOK
  <2> QED
    BY <2>2, <2>3, <2>4, <2>5 DEF CronParts
<1>4. CASE j \in DOMAIN store[g] /\ store[g][j].kind = "at"
  <2> DEFINE t == Cron!Without(store[g], j)
  <2>1. Cron!SaveStore(g, t) /\ cronKept' = cronKept \ {j}
    BY <1>4 DEF Cron!jobDone
  <2>2. /\ t \in CronTables /\ DOMAIN t = DOMAIN store[g] \ {j}
        /\ \A i \in DOMAIN t : t[i] = store[g][i]
    BY CronHeldWithout
  <2>3. cronKept' \subseteq Cron!IDs
    BY <1>2, <2>1 DEF CronTypes
  <2>4. \A i \in DOMAIN t : CronCopyOK(i, t[i], K, A)
    BY <2>2, CronHeld
  <2>5. gen = g => \A i \in DOMAIN t :
            /\ CronSpent(i, K) /\ K[i] = "at" =>
                  \/ i \in due[g] \/ exec'[g] = i
                  \/ t[i].next = Cron!Nil /\ ~(update'.gen = g /\ update'.id = i)
            /\ K[i] = "every" /\ t[i].enabled /\ t[i].next = Cron!Nil => i \in due[g] \/ exec'[g] = i
    BY <1>1, <1>2, <2>2, CronHeld
  <2> HIDE DEF t
  <2> QED
    BY <1>1, <1>2, <2>1, <2>2, <2>3, <2>4, <2>5, CronSaveKeeps
<1>5. CASE j \in DOMAIN store[g] /\ store[g][j].kind # "at"
  <2> DEFINE t0 == Cron!computeNextRun("every", 0)
             job == Cron!SetNext(store[g][j], t0)
             t == Cron!With(store[g], j, job)
  <2>1. Cron!SaveStore(g, t) /\ cronKept' = cronKept
    BY <1>5 DEF Cron!jobDone
  <2>2. t0 \in Nat /\ t0 # Cron!Nil
    BY <1>2, CronNextRun
  <2>3. /\ job \in Cron!Jobs /\ job.kind = store[g][j].kind /\ job.at = store[g][j].at /\ job.next # Cron!Nil
    <3> HIDE DEF t0
    <3> QED
      BY <1>5, <2>2, CronHeld, CronSetNextJob
  <2>4. CronCopyOK(j, job, K, A) /\ K[j] # "at"
    <3> HIDE DEF job
    <3> QED
      BY <1>5, <2>3, CronHeld DEF CronCopyOK
  <2>5. t \in CronTables /\ DOMAIN t = DOMAIN store[g] /\ t[j] = job
          /\ \A i \in DOMAIN store[g] : i # j => t[i] = store[g][i]
    <3> HIDE DEF job
    <3> QED
      BY <1>2, <1>5, <2>3, CronHeldWith
  <2>6. cronKept' \subseteq Cron!IDs
    BY <1>2, <2>1 DEF CronTypes
  <2>7. \A i \in DOMAIN t : CronCopyOK(i, t[i], K, A)
    <3> HIDE DEF job, t
    <3> QED
      BY <2>4, <2>5, CronHeld
  <2>8. gen = g => \A i \in DOMAIN t :
            /\ CronSpent(i, K) /\ K[i] = "at" =>
                  \/ i \in due[g] \/ exec'[g] = i
                  \/ t[i].next = Cron!Nil /\ ~(update'.gen = g /\ update'.id = i)
            /\ K[i] = "every" /\ t[i].enabled /\ t[i].next = Cron!Nil => i \in due[g] \/ exec'[g] = i
    <3> HIDE DEF job, t
    <3> QED
      BY <1>1, <1>2, <2>3, <2>4, <2>5, CronHeld
  <2> HIDE DEF t
  <2> QED
    BY <1>1, <1>2, <2>1, <2>5, <2>6, <2>7, <2>8, CronSaveKeeps
<1> QED
  BY <1>3, <1>4, <1>5
\* A tick collects no one-shot job that was started or collected before.
LEMMA CronCheckKeeps ==
  ASSUME Cron!ConstantsAssumption, NEW K \in [Cron!IDs -> {"at", "every"}], NEW A \in [Cron!IDs -> Nat],
         CronParts(K, A), NEW g \in Cron!Gens, Cron!checkJobs(g)
  PROVE  CronParts(K, A)'
<1> DEFINE D == {j \in DOMAIN store[g] : store[g][j].enabled /\ store[g][j].next # Cron!Nil /\ store[g][j].next <= now}
           t == [j \in DOMAIN store[g] |-> IF j \in D THEN Cron!SetNext(store[g][j], Cron!Nil) ELSE store[g][j]]
<1>1. /\ g \in cronRunning /\ due[g] = {} /\ exec[g] = 0 /\ due' = [due EXCEPT ![g] = D] /\ Cron!SaveStore(g, t)
      /\ UNCHANGED <<now, cronRunning, gen, exec, update, nextID, cronKept, runs>>
  BY DEF Cron!checkJobs, Cron!LoopIdle
<1>2. CronTypes /\ gen = g /\ D \subseteq Cron!IDs /\ D \subseteq DOMAIN store[g]
  <2>1. CronTypes
    BY DEF CronParts
  <2> QED
    BY <1>1, <2>1, CronHeld DEF CronTypes
<1>3. /\ DOMAIN t = DOMAIN store[g]
      /\ \A i \in DOMAIN store[g] : /\ t[i] \in Cron!Jobs /\ t[i].kind = store[g][i].kind /\ t[i].at = store[g][i].at
                                    /\ t[i].enabled = store[g][i].enabled
                                    /\ t[i].next = IF i \in D THEN Cron!Nil ELSE store[g][i].next
  <2>1. \A i \in DOMAIN store[g] : t[i] = IF i \in D THEN Cron!SetNext(store[g][i], Cron!Nil) ELSE store[g][i]
    OBVIOUS
  <2>2. Cron!Nil \in Nat /\ DOMAIN t = DOMAIN store[g]
    BY DEF Cron!Nil
  <2> HIDE DEF D, t
  <2> QED
    BY <2>1, <2>2, CronHeld, CronSetNextJob
<1>4. t \in CronTables
  <2>1. t \in [DOMAIN store[g] -> Cron!Jobs]
    <3>1. \A i \in DOMAIN store[g] : (IF i \in D THEN Cron!SetNext(store[g][i], Cron!Nil) ELSE store[g][i]) \in Cron!Jobs
      BY <1>3
    <3> HIDE DEF D
    <3> QED
      BY <3>1
  <2> HIDE DEF t
  <2> QED
    BY <2>1, CronHeld, CronTableDef
<1>5. \A i \in D : /\ i \in DOMAIN store[g] /\ store[g][i].next # Cron!Nil /\ store[g][i].next <= now
  OBVIOUS
<1> HIDE DEF D, t
<1>6. cronDisk' = t /\ cronDisk' \in CronTables /\ store' \in [Cron!Gens -> CronTables] /\ store'[g] = t
      /\ \A h \in Cron!Gens : h # g => store'[h] = store[h]
  BY <1>1, <1>2, <1>4, CronSaved
<1>7. due' \in [Cron!Gens -> SUBSET Cron!IDs] /\ due'[g] = D /\ \A h \in Cron!Gens : h # g => due'[h] = due[h]
  BY <1>1, <1>2 DEF CronTypes
<1>8. CronTypes'
  BY <1>1, <1>2, <1>6, <1>7 DEF CronTypes
<1>9. \A i \in DOMAIN t : i \in Cron!IDs /\ i <= nextID /\ CronCopyOK(i, t[i], K, A)
  BY <1>3, CronHeld DEF CronParts, CronCopiesOK, CronTableOK, CronCopyOK
<1>10. CronCopiesOK(K, A)'
  <2>1. \A h \in Cron!Gens : \A i \in DOMAIN store'[h] : i <= nextID /\ CronCopyOK(i, store'[h][i], K, A)
    BY <1>6, <1>9 DEF CronParts, CronCopiesOK, CronTableOK
  <2> QED
    BY <1>1, <1>6, <1>9, <2>1 DEF CronParts, CronCopiesOK, CronTableOK, CronCopyOK
<1>11. CronLoopsOK'
  BY <1>1, <1>2, <1>3, <1>7, <1>9 DEF CronParts, CronLoopsOK, CronTypes
<1>12. \A i \in D : K[i] = "at" => runs[i] = 0 /\ ~CronSpent(i, K) /\ A[i] <= now
  <2> SUFFICES ASSUME NEW i \in D, K[i] = "at"
               PROVE  runs[i] = 0 /\ ~CronSpent(i, K) /\ A[i] <= now
    OBVIOUS
  <2>0. i \in Cron!IDs /\ i \in DOMAIN store[g] /\ store[g][i].next # Cron!Nil /\ gen # 0 /\ i \notin due[g] /\ exec[g] # i
    BY <1>1, <1>2, <1>5 DEF CronTypes, Cron!IDs, Cron!Gens
  <2>1. ~CronSpent(i, K)
    BY <1>2, <2>0 DEF CronParts, CronOnceOK
  <2>2. store[g][i].next = A[i]
    BY <1>5, CronHeld DEF CronCopyOK
  <2> QED
    BY <1>5, <2>1, <2>2 DEF CronSpent
<1>13. \A h \in Cron!Gens, i \in Cron!IDs :
          /\ CronTicket(h, i, K)' <=> CronTicket(h, i, K) \/ (h = g /\ i \in D /\ K[i] = "at")
          /\ h = g => ~CronTicket(h, i, K)
  BY <1>1, <1>2, <1>3, <1>6, <1>7 DEF CronTicket
<1>14. \A i \in Cron!IDs : CronSpent(i, K)' <=> CronSpent(i, K) \/ (i \in D /\ K[i] = "at")
  BY <1>1, <1>13 DEF CronSpent
<1>15. CronTicketsOK(K, A)'
  <2>1. \A i \in D : K[i] = "at" => \A h \in Cron!Gens : ~CronTicket(h, i, K)
    BY <1>12 DEF CronSpent
  <2> QED
    BY <1>1, <1>12, <1>13, <1>14, <2>1 DEF CronParts, CronTicketsOK
<1>16. CronOnceOK(K)' /\ CronEveryOK(K)'
  BY <1>1, <1>2, <1>3, <1>6, <1>7, <1>9, <1>14, CronHeld DEF CronOnceOK, CronEveryOK
<1> QED
  BY <1>8, <1>10, <1>11, <1>15, <1>16 DEF CronParts

\* Starting a job spends its ticket.
LEMMA CronExecuteKeeps ==
  ASSUME Cron!ConstantsAssumption, NEW K \in [Cron!IDs -> {"at", "every"}], NEW A \in [Cron!IDs -> Nat],
         CronParts(K, A), NEW g \in Cron!Gens, NEW j \in Cron!IDs, Cron!executeJob(g, j)
  PROVE  CronParts(K, A)'
<1>1. /\ exec[g] = 0 /\ j \in due[g] /\ due' = [due EXCEPT ![g] = @ \ {j}]
      /\ UNCHANGED <<now, cronDisk, store, cronRunning, gen, update, nextID, cronKept>>
  BY DEF Cron!executeJob
<1>2. CronTypes
  BY DEF CronParts
<1>3. /\ due' \in [Cron!Gens -> SUBSET Cron!IDs] /\ due'[g] = due[g] \ {j}
      /\ \A h \in Cron!Gens : h # g => due'[h] = due[h]
  BY <1>1, <1>2 DEF CronTypes
<1>4. /\ exec' \in [Cron!Gens -> Cron!IDs \cup {0}] /\ \A h \in Cron!Gens : h # g => exec'[h] = exec[h]
      /\ j \in DOMAIN store[g] => exec'[g] = j
      /\ j \notin DOMAIN store[g] => exec'[g] = exec[g] /\ runs' = runs
      /\ runs' \in [Cron!IDs -> Nat] /\ \A i \in Cron!IDs : i # j => runs'[i] = runs[i]
      /\ j \in DOMAIN store[g] => runs'[j] = IF K[j] = "at" THEN runs[j] + 1 ELSE runs[j]
  <2>1. CASE j \in DOMAIN store[g]
    <3>1. store[g][j].kind = K[j]
      BY <2>1, CronHeld DEF CronCopyOK
    <3>2. exec' = [exec EXCEPT ![g] = j]
          /\ runs' = IF store[g][j].kind = "at" THEN [runs EXCEPT ![j] = @ + 1] ELSE runs
      BY <2>1 DEF Cron!executeJob
    <3> QED
      BY <1>2, <2>1, <3>1, <3>2 DEF CronTypes
  <2>2. CASE j \notin DOMAIN store[g]
    <3>1. exec' = exec /\ runs' = runs
      BY <2>2 DEF Cron!executeJob
    <3> QED
      BY <1>2, <2>2, <3>1 DEF CronTypes
  <2> QED
    BY <2>1, <2>2
<1>5. CronTypes'
  BY <1>1, <1>2, <1>3, <1>4 DEF CronTypes
<1>6. CronCopiesOK(K, A)'
  BY <1>1 DEF CronParts, CronCopiesOK, CronTableOK, CronCopyOK
<1>7. CronLoopsOK'
  <2>1. \A h \in Cron!Gens : h > gen => h # g
    BY <1>1 DEF CronParts, CronLoopsOK
  <2> QED
    BY <1>1, <1>3, <1>4, <2>1 DEF CronParts, CronLoopsOK
<1>8. \A h \in Cron!Gens, i \in Cron!IDs : CronTicket(h, i, K)' <=> CronTicket(h, i, K) /\ ~(h = g /\ i = j)
  BY <1>1, <1>3 DEF CronTicket
<1>9. j \in DOMAIN store[g] /\ K[j] = "at" => CronTicket(g, j, K) /\ runs[j] = 0 /\ runs'[j] = 1
  BY <1>1, <1>4 DEF CronParts, CronTicketsOK, CronTicket
<1>10. \A i \in Cron!IDs : CronSpent(i, K)' => CronSpent(i, K)
  <2> SUFFICES ASSUME NEW i \in Cron!IDs, CronSpent(i, K)' PROVE CronSpent(i, K)
    OBVIOUS
  <2>1. CASE runs'[i] # 0
    <3>1. i # j => runs'[i] = runs[i]
      BY <1>4
    <3>2. i = j /\ ~(j \in DOMAIN store[g] /\ K[j] = "at") => runs'[i] = runs[i]
      BY <1>4
    <3> QED
      BY <1>9, <2>1, <3>1, <3>2 DEF CronSpent
  <2>2. CASE \E h \in Cron!Gens : CronTicket(h, i, K)'
    BY <1>8, <2>2 DEF CronSpent
  <2> QED
    BY <2>1, <2>2 DEF CronSpent
<1>11. CronTicketsOK(K, A)'
  <2>1. \A i \in Cron!IDs : runs'[i] <= 1 /\ (i > nextID => runs'[i] = 0)
    <3>1. \A i \in due[g] : i <= nextID
      BY DEF CronParts, CronLoopsOK
    <3>2. j <= nextID /\ nextID \in Nat /\ j \in Nat
      BY <1>1, <1>2, <3>1 DEF CronTypes, Cron!IDs
    <3>3. \A i \in Cron!IDs : runs[i] <= 1 /\ (i > nextID => runs[i] = 0)
      BY DEF CronParts, CronTicketsOK
    <3>4. \A i \in Cron!IDs : runs'[i] = runs[i] \/ (i = j /\ runs'[i] = 1)
      BY <1>4, <1>9
    <3> QED
      BY <3>2, <3>3, <3>4
  <2>2. \A h \in Cron!Gens, i \in Cron!IDs : CronTicket(h, i, K)' => runs'[i] = 0
    <3> SUFFICES ASSUME NEW h \in Cron!Gens, NEW i \in Cron!IDs, CronTicket(h, i, K)' PROVE runs'[i] = 0
      OBVIOUS
    <3>1. CronTicket(h, i, K) /\ ~(h = g /\ i = j) /\ runs[i] = 0
      BY <1>8 DEF CronParts, CronTicketsOK
    <3>2. CASE i # j
      BY <1>4, <3>1, <3>2
    <3>3. CASE i = j
      <4>1. K[j] = "at" /\ ~CronTicket(g, j, K)
        BY <3>1, <3>3 DEF CronParts, CronTicketsOK, CronTicket
      <4> QED
        BY <1>4, <1>9, <3>1, <3>3, <4>1
    <3> QED
      BY <3>2, <3>3
  <2> QED
    BY <1>1, <1>8, <1>10, <2>1, <2>2 DEF CronParts, CronTicketsOK
<1>12. gen # 0 => gen \in Cron!Gens
  BY <1>2 DEF CronTypes, Cron!Gens
<1>13. ASSUME gen # 0, NEW i \in DOMAIN store[gen]
       PROVE  i \in due[gen] \/ exec[gen] = i => i \in due'[gen] \/ exec'[gen] = i
  <2>1. CASE gen = g
    <3>1. i \in Cron!IDs
      BY <1>12, <1>13, CronHeld
    <3> QED
      BY <1>1, <1>3, <1>4, <1>12, <1>13, <2>1, <3>1 DEF Cron!IDs
  <2>2. CASE gen # g
    BY <1>3, <1>4, <1>12, <1>13, <2>2
  <2> QED
    BY <2>1, <2>2
<1>14. CronOnceOK(K)'
  <2>1. \A i \in DOMAIN store[gen] : gen # 0 => i \in Cron!IDs
    BY <1>12, CronHeld
  <2> QED
    BY <1>1, <1>10, <1>13, <2>1 DEF CronParts, CronOnceOK
<1>15. CronEveryOK(K)'
  BY <1>1, <1>13 DEF CronParts, CronEveryOK
<1> QED
  BY <1>5, <1>6, <1>7, <1>11, <1>14, <1>15 DEF CronParts

-----------------------------------------------------------------------------
\* One step per action of the service.
LEMMA CronStep ==
  ASSUME Cron!ConstantsAssumption, CronIInv, [Cron!Next]_(Cron!vars)
  PROVE  CronIInv'
<1> PICK K \in [Cron!IDs -> {"at", "every"}], A \in [Cron!IDs -> Nat] : CronParts(K, A)
  BY DEF CronIInv
<1>1. CronParts(K, A)' => CronIInv'
  BY DEF CronIInv
<1>2. CASE Cron!Stop \/ Cron!Tick \/ UNCHANGED Cron!vars
  BY <1>1, <1>2, CronStopKeeps
<1>3. CASE Cron!Start
  BY <1>1, <1>3, CronStartKeeps
<1>4. CASE Cron!Crash
  BY <1>1, <1>4, CronCrashKeeps
<1>5. CASE Cron!UpdateJob
  BY <1>1, <1>5, CronUpdateKeeps
<1>6. ASSUME NEW g \in Cron!Gens, NEW kind \in {"at", "every"}, NEW command \in BOOLEAN,
             Cron!addJob(g, kind, command)
      PROVE  CronIInv'
  BY <1>6, CronAddKeeps
<1>7. ASSUME NEW g \in Cron!Gens, Cron!checkJobs(g) \/ Cron!jobDone(g)
      PROVE  CronIInv'
  BY <1>1, <1>7, CronCheckKeeps, CronDoneKeeps
<1>8. ASSUME NEW g \in Cron!Gens, NEW j \in Cron!IDs,
             Cron!RemoveJob(g, j) \/ Cron!executeJob(g, j) \/ \E enabled \in BOOLEAN : Cron!EnableJob(g, j, enabled)
      PROVE  CronIInv'
  BY <1>1, <1>8, CronRemoveKeeps, CronExecuteKeeps, CronEnableKeeps
<1> QED
  BY <1>2, <1>3, <1>4, <1>5, <1>6, <1>7, <1>8 DEF Cron!Next

\* Until a reload has started a second service, memory and file list the same jobs.
CronSame == /\ gen \in {0, 1}
            /\ cronKept \subseteq DOMAIN cronDisk
            /\ gen = 1 => DOMAIN store[1] = DOMAIN cronDisk

CronOneInv == /\ reloaded \in {TRUE, FALSE}
              /\ reloaded \/ CronSame

\* Without a reload no step takes a job that was kept from the file.
LEMMA CronOneStep ==
  ASSUME Cron!ConstantsAssumption, CronIInv, CronOneInv, [Cron!Next]_(Cron!vars)
  PROVE  CronOneInv'
<1> PICK K \in [Cron!IDs -> {"at", "every"}], A \in [Cron!IDs -> Nat] : CronParts(K, A)
  BY DEF CronIInv
<1>0. reloaded' \in {TRUE, FALSE} /\ (reloaded => reloaded')
  BY ZenonT(60) DEF CronOneInv, Cron!Next, Cron!Start, Cron!Stop, Cron!UpdateJob, Cron!Tick,
       Cron!Crash, Cron!addJob, Cron!checkJobs, Cron!jobDone, Cron!RemoveJob,
         Cron!executeJob, Cron!EnableJob, Cron!vars
<1> SUFFICES ASSUME ~reloaded' PROVE CronSame'
  BY <1>0 DEF CronOneInv
<1>a. ~reloaded /\ CronSame
  BY <1>0 DEF CronOneInv
<1>1. CronTypes /\ 1 \in Cron!Gens /\ gen \in {0, 1}
  BY <1>a DEF CronParts, CronTypes, Cron!Gens, CronSame, Cron!ConstantsAssumption
<1>2. /\ update # Cron!NoUpdate => update.gen = 1 /\ gen = 1
      /\ \A g \in Cron!Gens : due[g] # {} \/ exec[g] # 0 \/ Cron!Usable(g) => g = 1 /\ gen = 1
  BY <1>1 DEF CronParts, CronTypes, CronCopiesOK, CronLoopsOK, Cron!Gens, Cron!Usable
<1>3. \A t : Cron!SaveStore(1, t) => cronDisk' = t /\ store'[1] = t
  BY <1>1 DEF Cron!SaveStore, CronTypes
<1>4. CASE Cron!Stop \/ Cron!Tick \/ UNCHANGED Cron!vars
  BY <1>a, <1>4 DEF Cron!Stop, Cron!Tick, Cron!vars, CronSame
<1>5. CASE Cron!Start
  <2>0. gen = 0
    BY <1>5 DEF Cron!Start
  <2>1. gen' = 1 /\ Cron!SaveStore(1, Cron!recomputeNextRuns(cronDisk)) /\ cronKept' = cronKept
    BY <1>5, <2>0 DEF Cron!Start
  <2>2. DOMAIN Cron!recomputeNextRuns(cronDisk) = DOMAIN cronDisk
    BY DEF Cron!recomputeNextRuns
  <2> QED
    BY <1>a, <1>3, <2>1, <2>2 DEF CronSame
<1>6. CASE Cron!Crash
  BY <1>a, <1>6 DEF Cron!Crash, CronSame
<1>7. CASE Cron!UpdateJob
  <2>1. update.gen = 1 /\ gen = 1 /\ gen' = gen /\ cronKept' = cronKept
    BY <1>2, <1>7 DEF Cron!UpdateJob
  <2>2. CASE update.id \in DOMAIN store[1]
    <3>1. Cron!SaveStore(1, Cron!With(store[1], update.id, update.job))
      BY <1>7, <2>1, <2>2 DEF Cron!UpdateJob
    <3>2. DOMAIN Cron!With(store[1], update.id, update.job) = DOMAIN store[1]
      BY <2>2 DEF Cron!With
    <3> QED
      BY <1>a, <1>3, <2>1, <3>1, <3>2 DEF CronSame
  <2>3. CASE update.id \notin DOMAIN store[1]
    BY <1>a, <1>7, <2>1, <2>3 DEF Cron!UpdateJob, CronSame
  <2> QED
    BY <2>2, <2>3
<1>8. ASSUME NEW g \in Cron!Gens, NEW kind \in {"at", "every"}, NEW command \in BOOLEAN, Cron!addJob(g, kind, command)
      PROVE  CronSame'
  <2>1. g = 1 /\ gen = 1 /\ gen' = gen
    BY <1>2, <1>8 DEF Cron!addJob
  <2>2. PICK job : Cron!AddJob(1, job)
    BY <1>8, <2>1 DEF Cron!addJob
  <2>3. Cron!SaveStore(1, Cron!With(store[1], nextID', job)) /\ cronKept' = cronKept \cup {nextID'}
    BY <2>2 DEF Cron!AddJob
  <2>4. DOMAIN Cron!With(store[1], nextID', job) = DOMAIN store[1] \cup {nextID'}
    BY DEF Cron!With
  <2> QED
    BY <1>a, <1>3, <2>1, <2>3, <2>4 DEF CronSame
<1>9. ASSUME NEW g \in Cron!Gens, Cron!checkJobs(g) PROVE CronSame'
  <2>1. g = 1 /\ gen = 1 /\ gen' = gen /\ cronKept' = cronKept
    BY <1>1, <1>9 DEF Cron!checkJobs, CronTypes
  <2>2. PICK D : Cron!SaveStore(1, [j \in DOMAIN store[1] |->
                    IF j \in D THEN Cron!SetNext(store[1][j], Cron!Nil) ELSE store[1][j]])
    BY <1>9, <2>1 DEF Cron!checkJobs
  <2> QED
    BY <1>a, <1>3, <2>1, <2>2 DEF CronSame
<1>10. ASSUME NEW g \in Cron!Gens, Cron!jobDone(g) PROVE CronSame'
  <2> DEFINE j == exec[1]
             job == Cron!SetNext(store[1][j], Cron!computeNextRun("every", 0))
  <2>1. g = 1 /\ gen = 1 /\ gen' = gen
    BY <1>2, <1>10 DEF Cron!jobDone
  <2>2. CASE j \notin DOMAIN store[1]
    BY <1>a, <1>10, <2>1, <2>2 DEF Cron!jobDone, CronSame
  <2>3. CASE Cron!SaveStore(1, Cron!Without(store[1], j)) /\ cronKept' = cronKept \ {j}
    <3>1. DOMAIN Cron!Without(store[1], j) = DOMAIN store[1] \ {j}
      BY DEF Cron!Without
    <3> QED
      BY <1>a, <1>3, <2>1, <2>3, <3>1 DEF CronSame
  <2>4. CASE j \in DOMAIN store[1] /\ Cron!SaveStore(1, Cron!With(store[1], j, job)) /\ cronKept' = cronKept
    <3>1. DOMAIN Cron!With(store[1], j, job) = DOMAIN store[1]
      BY <2>4 DEF Cron!With
    <3> QED
      BY <1>a, <1>3, <2>1, <2>4, <3>1 DEF CronSame
  <2> QED
    BY <1>10, <2>1, <2>2, <2>3, <2>4 DEF Cron!jobDone
<1>11. ASSUME NEW g \in Cron!Gens, NEW j \in Cron!IDs, Cron!RemoveJob(g, j) PROVE CronSame'
  <2>1. Cron!SaveStore(1, Cron!Without(store[1], j)) /\ gen = 1 /\ gen' = gen /\ cronKept' = cronKept \ {j}
    BY <1>2, <1>11 DEF Cron!RemoveJob
  <2>2. DOMAIN Cron!Without(store[1], j) = DOMAIN store[1] \ {j}
    BY DEF Cron!Without
  <2> QED
    BY <1>a, <1>3, <2>1, <2>2 DEF CronSame
<1>12. ASSUME NEW g \in Cron!Gens, NEW j \in Cron!IDs, Cron!executeJob(g, j) PROVE CronSame'
  BY <1>a, <1>12 DEF Cron!executeJob, CronSame
<1>13. ASSUME NEW g \in Cron!Gens, NEW j \in Cron!IDs, NEW enabled \in BOOLEAN, Cron!EnableJob(g, j, enabled) PROVE CronSame'
  <2>1. g = 1 /\ gen = 1 /\ gen' = gen /\ cronKept' = cronKept /\ j \in DOMAIN store[1]
    BY <1>2, <1>13 DEF Cron!EnableJob
  <2>2. PICK job : Cron!SaveStore(1, Cron!With(store[1], j, job))
    BY <1>13, <2>1 DEF Cron!EnableJob
  <2>3. DOMAIN Cron!With(store[1], j, job) = DOMAIN store[1]
    BY <2>1 DEF Cron!With
  <2> QED
    BY <1>a, <1>3, <2>1, <2>2, <2>3 DEF CronSame
<1> QED
  BY <1>4, <1>5, <1>6, <1>7, <1>8, <1>9, <1>10, <1>11, <1>12, <1>13 DEF Cron!Next

\* What the invariant says of the properties.
LEMMA CronGood ==
  ASSUME Cron!ConstantsAssumption, CronIInv, CronOneInv
  PROVE  Cron!TypeOK /\ Cron!OneShotAtMostOnce /\ Cron!RecurringNotForgotten /\ Cron!JobsAreKept
<1> PICK K \in [Cron!IDs -> {"at", "every"}], A \in [Cron!IDs -> Nat] : CronParts(K, A)
  BY DEF CronIInv
<1>1. CronTypes
  BY DEF CronParts
<1>2. Cron!TypeOK
  <2>1. ASSUME NEW s \in {cronDisk} \cup {store[g] : g \in Cron!Gens}
        PROVE  DOMAIN s \subseteq Cron!IDs /\ \A j \in DOMAIN s : s[j] \in Cron!Jobs
    <3>1. s \in CronTables
      BY <1>1, <2>1 DEF CronTypes
    <3> QED
      BY <3>1, CronTableDef
  <2>2. cronRunning \subseteq 1..gen /\ update.gen \in 0..CronMaxGen
    BY <1>1 DEF CronTypes, Cron!NoUpdate, Cron!Gens, Cron!ConstantsAssumption
  <2> QED
    BY <1>1, <2>1, <2>2 DEF CronTypes, Cron!TypeOK, CronOneInv
<1>3. Cron!OneShotAtMostOnce
  BY DEF CronParts, CronTicketsOK, Cron!OneShotAtMostOnce
<1>4. Cron!RecurringNotForgotten
  <2> SUFFICES ASSUME NEW g \in cronRunning, NEW j \in DOMAIN store[g], store[g][j].enabled,
                      store[g][j].kind = "every", store[g][j].next = Cron!Nil
               PROVE  j \in due[g] \/ j = exec[g]
    BY DEF Cron!RecurringNotForgotten
  <2>1. g \in Cron!Gens /\ gen = g
    BY <1>1 DEF CronTypes, Cron!Gens
  <2>2. K[j] = "every"
    BY <2>1, CronHeld DEF CronCopyOK
  <2> QED
    BY <2>1, <2>2, CronHeld
<1>5. Cron!JobsAreKept
  BY DEF CronOneInv, CronSame, Cron!JobsAreKept
<1> QED
  BY <1>2, <1>3, <1>4, <1>5

\* CronService: whatever is added, removed, updated, enabled, reloaded and crashes, a
\* one-shot job starts at most once, a recurring one is not forgotten, and without a
\* reload every job that was kept is in jobs.json.
THEOREM CronJobsRunRight ==
  ASSUME Cron!ConstantsAssumption
  PROVE  Cron!Spec => [](Cron!TypeOK /\ Cron!OneShotAtMostOnce /\ Cron!RecurringNotForgotten /\ Cron!JobsAreKept)
<1>1. Cron!Init => CronIInv /\ CronOneInv
  <2>1. Cron!Init => reloaded = FALSE /\ CronSame
    BY DEF Cron!Init, CronSame
  <2>2. Cron!Init => CronOneInv
    BY <2>1 DEF CronOneInv
  <2> QED
    BY <2>2, CronInit
<1>2. CronIInv /\ CronOneInv /\ [Cron!Next]_(Cron!vars) => (CronIInv /\ CronOneInv)'
  BY CronStep, CronOneStep
<1>3. CronIInv /\ CronOneInv => Cron!TypeOK /\ Cron!OneShotAtMostOnce /\ Cron!RecurringNotForgotten /\ Cron!JobsAreKept
  BY CronGood
<1> QED
  BY <1>1, <1>2, <1>3, PTL DEF Cron!Spec

-----------------------------------------------------------------------------
(* BuildSystemPromptWithCache                                              *)

\* Nothing that is on disk is newer than the clock, and each edit but a copy left
\* the time of its number; a skill that went away has touched its root.
PromptFilesOK ==
    /\ clock = edits + 1
    /\ \A p \in Prompt!Paths : promptFile[p].edit <= edits /\ promptFile[p].mtime <= clock
    /\ \A p \in Prompt!Texts : promptFile[p].exists => promptFile[p].mtime = promptFile[p].edit + 1
    /\ \A p \in Prompt!Elems(PromptRoots) : promptFile[p].exists /\ promptFile[p].mtime = promptFile[p].edit + 1
    /\ \A f \in Prompt!SkillFiles :
          /\ promptFile[f].exists => promptFile[f].mtime \in {promptFile[f].edit + 1, 0 - promptFile[f].edit}
          /\ ~promptFile[f].exists => promptFile[Prompt!Root(f)].edit >= promptFile[f].edit

\* No time in a baseline is one that an edit after number n leaves.
PromptBaseOK(b, n) ==
    /\ b.maxMtime <= n + 1
    /\ \A f \in Prompt!SkillFiles : b.skillFiles[f] # None => b.skillFiles[f] \in (0 - n)..(n + 1)

\* The skills listed are those on disk as long as none was edited since.
PromptSkillsOK(prompt) ==
    (\A f \in Prompt!SkillFiles : promptFile[f].edit <= prompt.listed) => prompt.skills = Prompt!BuildSkillsSummary

\* A text edited since it was read is newer than the baseline.
PromptTextOK(text, base, p) == promptFile[p].edit > text[p].edit => promptFile[p].edit >= base.maxMtime

PromptEntryOK(e) ==
    /\ e.prompt \in Prompt!Prompt /\ e.base \in Prompt!Baseline /\ e.prompt.listed <= edits
    /\ PromptBaseOK(e.base, e.prompt.listed)
    /\ PromptSkillsOK(e.prompt)
    /\ \A p \in Prompt!Elems(Prompt!sourcePaths) : PromptTextOK(e.prompt.text, e.base, p)

\* What got[c] and the checks of caller c have established of an entry.
PromptFreshText(e, p, c) ==
    \/ Prompt!Current(e.prompt.text[p], p)
    \/ promptFile[p].edit > since[c]
    \/ Prompt!ComeAndGone(e, p)

PromptSkillEdited(c) == \E f \in Prompt!SkillFiles : promptFile[f].edit > since[c]

PromptFreshSkills(e, c) == e.prompt.skills = Prompt!BuildSkillsSummary \/ PromptSkillEdited(c)

PromptGotOK ==
    \A c \in PromptCallers : got[c] # None =>
        /\ \A p \in Prompt!Elems(Prompt!sourcePaths) : PromptFreshText(got[c], p, c)
        /\ PromptFreshSkills(got[c], c)

PromptCheckOK ==
    \A c \in PromptCallers : pc[c] \in {"check", "recheck"} =>
        /\ cached # None /\ at[c] <= Len(Prompt!Tracked) + 1
        /\ \A i \in 1..Len(Prompt!Tracked) : i < at[c] =>
              IF i <= Len(Prompt!sourcePaths) THEN PromptFreshText(cached, Prompt!Tracked[i], c)
              ELSE promptFile[Prompt!Tracked[i]].mtime <= cached.base.maxMtime \/ PromptSkillEdited(c)

\* The paths that a builder at place k has read.
PromptRead(k) ==
          {PromptBootstrap[i] : i \in {j \in 1..Len(PromptBootstrap) : j < k}}
              \cup IF k > Len(PromptBootstrap) + 2 THEN {PromptMemory} ELSE {}

PromptBuildOK ==
    /\ PromptBaseOK(baseline, edits)
    /\ \A c \in PromptCallers : pc[c] = "build" =>
          /\ at[c] <= Len(PromptBootstrap) + 3
          /\ \A p \in PromptRead(at[c]) : promptFile[p].edit > draft.text[p].edit =>
                promptFile[p].edit >= baseline.maxMtime /\ promptFile[p].edit > since[c]
          /\ at[c] > Len(PromptBootstrap) + 1 =>
                /\ draft.listed <= edits /\ draft.listed >= since[c]
                /\ PromptBaseOK(baseline, draft.listed) /\ PromptSkillsOK(draft)

PromptLockOK ==
    /\ \A c \in PromptCallers : pc[c] \in {"recheck", "baseline", "build"} <=> writer = c
    /\ writer # None => \A c \in PromptCallers : pc[c] # "check"

PromptCacheOK == cached # None => PromptEntryOK(cached)

PromptCallsOK ==
    /\ \A c \in PromptCallers : since[c] <= edits
    /\ got = [c \in PromptCallers |-> got[c]]

PromptIInv ==
    /\ Prompt!TypeOK /\ PromptFilesOK /\ PromptCacheOK /\ PromptGotOK /\ PromptCheckOK /\ PromptBuildOK /\ PromptLockOK /\ PromptCallsOK

-----------------------------------------------------------------------------
\* newest is one of the times it is asked of, and none of them is newer.
LEMMA PromptMaxExists ==
  ASSUME NEW a \in Int, NEW b \in Int, NEW S \in SUBSET (a..b), S # {}
  PROVE  Prompt!newest(S) \in S
<1> DEFINE D == {b - t : t \in S}
<1>1. D \subseteq Nat /\ D # {}
  OBVIOUS
<1>2. PICK d \in D : \A e \in D : ~(<<e, d>> \in OpToRel(<, Nat))
  BY <1>1, NatLessThanWellFounded, WFMin, Zenon
<1>3. \A e \in D : ~(e < d)
  BY <1>1, <1>2 DEF OpToRel
<1>4. PICK t \in S : d = b - t
  BY <1>2
<1>5. \A u \in S : b - u \in D
  OBVIOUS
<1>6. \E m \in S : \A u \in S : u <= m
  <2> HIDE DEF D
  <2> QED
    BY <1>3, <1>4, <1>5
<1> QED
  BY <1>6 DEF Prompt!newest

\* The paths, apart.
LEMMA PromptPathFacts ==
  ASSUME Prompt!ConstantsAssumption
  PROVE  /\ Prompt!Elems(Prompt!sourcePaths) \subseteq Prompt!Texts /\ PromptNotes \in Prompt!Texts
         /\ \A f \in Prompt!SkillFiles : f \in Prompt!Paths /\ f \notin Prompt!Texts /\ f \notin Prompt!Elems(PromptRoots) /\ Prompt!Root(f) \in Prompt!Elems(PromptRoots)
         /\ \A p \in Prompt!Elems(PromptRoots) : p \in Prompt!Paths /\ p \notin Prompt!Texts
         /\ \A p \in Prompt!Texts : p \in Prompt!Paths /\ p \notin Prompt!Elems(PromptRoots) /\ p \notin Prompt!SkillFiles
  BY DEF Prompt!ConstantsAssumption, Prompt!Texts, Prompt!Paths

\* The order of the checks: first the texts, then the roots.
LEMMA PromptTrackedFacts ==
  ASSUME Prompt!ConstantsAssumption
  PROVE  /\ Len(PromptBootstrap) \in Nat \ {0} /\ Len(Prompt!Tracked) \in Nat
         /\ Len(Prompt!sourcePaths) = Len(PromptBootstrap) + 1
         /\ Len(Prompt!Tracked) >= Len(Prompt!sourcePaths)
         /\ \A i \in 1..Len(PromptBootstrap) : PromptBootstrap[i] \in Prompt!Elems(Prompt!sourcePaths)
         /\ PromptMemory \in Prompt!Elems(Prompt!sourcePaths)
         /\ \A p \in Prompt!Elems(Prompt!sourcePaths) : p = PromptMemory \/ \E i \in 1..Len(PromptBootstrap) : p = PromptBootstrap[i]
         /\ \A i \in 1..Len(Prompt!Tracked) :
               /\ Prompt!Tracked[i] \in Prompt!Elems(Prompt!Tracked)
               /\ i <= Len(Prompt!sourcePaths) => Prompt!Tracked[i] \in Prompt!Elems(Prompt!sourcePaths)
               /\ i > Len(Prompt!sourcePaths) => Prompt!Tracked[i] \in Prompt!Elems(PromptRoots)
         /\ \A p \in Prompt!Elems(Prompt!sourcePaths) : \E i \in 1..Len(Prompt!sourcePaths) : p = Prompt!Tracked[i]
         /\ \A p \in Prompt!Elems(PromptRoots) : \E i \in 1..Len(Prompt!Tracked) : i > Len(Prompt!sourcePaths) /\ p = Prompt!Tracked[i]
<1>1. /\ PromptBootstrap \in Seq(Prompt!Elems(PromptBootstrap)) /\ PromptBootstrap # << >> /\ PromptRoots \in Seq(Prompt!Elems(PromptRoots))
      /\ Len(PromptBootstrap) \in Nat \ {0} /\ Len(PromptRoots) \in Nat
      /\ DOMAIN PromptBootstrap = 1..Len(PromptBootstrap) /\ DOMAIN PromptRoots = 1..Len(PromptRoots)
  BY DEF Prompt!ConstantsAssumption
<1> DEFINE S == Prompt!Elems(PromptBootstrap) \cup {PromptMemory} \cup Prompt!Elems(PromptRoots)
<1>2. /\ Prompt!sourcePaths \in Seq(S) /\ Len(Prompt!sourcePaths) = Len(PromptBootstrap) + 1
      /\ \A i \in 1..Len(PromptBootstrap) : Prompt!sourcePaths[i] = PromptBootstrap[i]
      /\ Prompt!sourcePaths[Len(PromptBootstrap) + 1] = PromptMemory
      /\ DOMAIN Prompt!sourcePaths = 1..(Len(PromptBootstrap) + 1)
  <2>1. PromptBootstrap \in Seq(S) /\ PromptMemory \in S
    BY <1>1
  <2> HIDE DEF S
  <2> QED
    BY <1>1, <2>1 DEF Prompt!sourcePaths
<1>3. /\ Len(Prompt!Tracked) = Len(Prompt!sourcePaths) + Len(PromptRoots) /\ DOMAIN Prompt!Tracked = 1..Len(Prompt!Tracked)
      /\ \A i \in 1..Len(Prompt!sourcePaths) : Prompt!Tracked[i] = Prompt!sourcePaths[i]
      /\ \A i \in 1..Len(Prompt!Tracked) : i > Len(Prompt!sourcePaths) => Prompt!Tracked[i] = PromptRoots[i - Len(Prompt!sourcePaths)]
  <2>1. PromptRoots \in Seq(S)
    BY <1>1
  <2> HIDE DEF S
  <2> QED
    BY <1>2, <2>1 DEF Prompt!Tracked
<1>4. \A i \in 1..Len(PromptRoots) : Len(Prompt!sourcePaths) + i \in 1..Len(Prompt!Tracked) /\ Prompt!Tracked[Len(Prompt!sourcePaths) + i] = PromptRoots[i]
  BY <1>1, <1>2, <1>3
<1> HIDE DEF S
<1>5. /\ \A p \in Prompt!Elems(Prompt!sourcePaths) : \E i \in 1..Len(Prompt!sourcePaths) : p = Prompt!sourcePaths[i]
      /\ \A i \in 1..Len(Prompt!sourcePaths) : Prompt!sourcePaths[i] \in Prompt!Elems(Prompt!sourcePaths)
      /\ \A p \in Prompt!Elems(PromptRoots) : \E i \in 1..Len(PromptRoots) : p = PromptRoots[i]
      /\ \A i \in 1..Len(PromptRoots) : PromptRoots[i] \in Prompt!Elems(PromptRoots)
  BY <1>1, <1>2 DEF Prompt!Elems
<1>6. ASSUME NEW i \in 1..Len(Prompt!Tracked), i > Len(Prompt!sourcePaths) PROVE Prompt!Tracked[i] \in Prompt!Elems(PromptRoots)
  <2>1. i - Len(Prompt!sourcePaths) \in 1..Len(PromptRoots)
    BY <1>1, <1>2, <1>3, <1>6
  <2> QED
    BY <1>3, <1>5, <1>6, <2>1
<1>7. ASSUME NEW p \in Prompt!Elems(PromptRoots) PROVE \E i \in 1..Len(Prompt!Tracked) : i > Len(Prompt!sourcePaths) /\ p = Prompt!Tracked[i]
  <2>1. PICK i \in 1..Len(PromptRoots) : p = PromptRoots[i]
    BY <1>5
  <2>2. Len(Prompt!sourcePaths) + i > Len(Prompt!sourcePaths)
    BY <1>1, <1>2
  <2> QED
    BY <1>4, <2>1, <2>2
<1>8. ASSUME NEW p \in Prompt!Elems(Prompt!sourcePaths) PROVE p = PromptMemory \/ \E i \in 1..Len(PromptBootstrap) : p = PromptBootstrap[i]
  <2>1. PICK i \in 1..Len(Prompt!sourcePaths) : p = Prompt!sourcePaths[i]
    BY <1>5
  <2>2. i = Len(PromptBootstrap) + 1 \/ i \in 1..Len(PromptBootstrap)
    BY <1>1, <1>2
  <2> QED
    BY <1>2, <2>1, <2>2
<1>9. /\ Len(Prompt!Tracked) \in Nat /\ Len(Prompt!Tracked) >= Len(Prompt!sourcePaths)
      /\ \A i \in 1..Len(PromptBootstrap) : i \in 1..Len(Prompt!sourcePaths)
      /\ Len(PromptBootstrap) + 1 \in 1..Len(Prompt!sourcePaths)
  BY <1>1, <1>2, <1>3
<1>10. PromptMemory \in Prompt!Elems(Prompt!sourcePaths) /\ \A i \in 1..Len(PromptBootstrap) : PromptBootstrap[i] \in Prompt!Elems(Prompt!sourcePaths)
  BY <1>2, <1>5, <1>9
<1>11. \A i \in 1..Len(Prompt!Tracked) : i <= Len(Prompt!sourcePaths) => Prompt!Tracked[i] \in Prompt!Elems(Prompt!sourcePaths)
  <2>1. \A i \in 1..Len(Prompt!Tracked) : i <= Len(Prompt!sourcePaths) => i \in 1..Len(Prompt!sourcePaths)
    BY <1>9
  <2> QED
    BY <1>3, <1>5, <2>1
<1>12. \A p \in Prompt!Elems(Prompt!sourcePaths) : \E i \in 1..Len(Prompt!sourcePaths) : p = Prompt!Tracked[i]
  BY <1>3, <1>5
<1>13. \A i \in 1..Len(Prompt!Tracked) : Prompt!Tracked[i] \in Prompt!Elems(Prompt!Tracked)
  BY <1>3 DEF Prompt!Elems
<1> QED
  BY <1>1, <1>2, <1>6, <1>7, <1>8, <1>9, <1>10, <1>11, <1>12, <1>13
-----------------------------------------------------------------------------
\* The skills listed depend on the skill files only.
LEMMA PromptSameSkills ==
  ASSUME Prompt!ConstantsAssumption, \A f \in Prompt!SkillFiles : promptFile'[f] = promptFile[f]
  PROVE  Prompt!BuildSkillsSummary' = Prompt!BuildSkillsSummary
<1>1. \A f \in Prompt!SkillFiles, i \in DOMAIN PromptRoots : promptFile'[Prompt!Below(i, f)] = promptFile[Prompt!Below(i, f)]
  BY DEF Prompt!ConstantsAssumption
<1>2. Prompt!ListSkills' = Prompt!ListSkills
  BY <1>1 DEF Prompt!ListSkills
<1>3. Prompt!ListSkills \subseteq Prompt!SkillFiles
  BY DEF Prompt!ListSkills
<1> QED
  BY <1>2, <1>3 DEF Prompt!BuildSkillsSummary

\* What every edit does.
PromptEdited ==
    /\ edits < PromptMaxEdits /\ edits' = edits + 1 /\ PromptFilesOK' /\ clock' = clock + 1 /\ promptFile' \in [Prompt!Paths -> Prompt!State]
    /\ \A p \in Prompt!Paths : promptFile'[p] = promptFile[p] \/ promptFile'[p].edit = edits + 1
    /\ \A p \in Prompt!Elems(PromptRoots) : promptFile'[p] = promptFile[p] \/ \E f \in Prompt!SkillFiles : promptFile'[f].edit = edits + 1
    /\ UNCHANGED <<cached, writer, baseline, draft, pc, at, since, got>>

\* An edit of any kind leaves files in order.
LEMMA PromptFilesAfter ==
  ASSUME Prompt!ConstantsAssumption, Prompt!TypeOK, PromptFilesOK, edits' = edits + 1, clock' = clock + 1,
         promptFile' \in [Prompt!Paths -> Prompt!State],
         \A q \in Prompt!Texts : \/ promptFile'[q] = promptFile[q]
                                 \/ /\ promptFile'[q].edit = edits' /\ promptFile'[q].mtime <= clock'
                                    /\ promptFile'[q].exists => promptFile'[q].mtime = clock',
         \A q \in Prompt!Elems(PromptRoots) : \/ promptFile'[q] = promptFile[q]
                                              \/ promptFile'[q].edit = edits' /\ promptFile'[q].exists /\ promptFile'[q].mtime = clock',
         \A q \in Prompt!SkillFiles : \/ promptFile'[q] = promptFile[q]
                                      \/ /\ promptFile'[q].edit = edits' /\ promptFile'[q].mtime <= clock'
                                         /\ promptFile'[q].exists => promptFile'[q].mtime \in {clock', 0 - edits'}
                                         /\ ~promptFile'[q].exists => promptFile'[Prompt!Root(q)].edit = edits'
  PROVE  PromptFilesOK' /\ \A q \in Prompt!Paths : promptFile'[q] = promptFile[q] \/ promptFile'[q].edit = edits + 1
<1>1. \A q \in Prompt!Paths : q \in Prompt!Texts \/ q \in Prompt!Elems(PromptRoots) \/ q \in Prompt!SkillFiles
  BY DEF Prompt!Paths
<1>2. edits \in Nat /\ clock = edits + 1 /\ \A q \in Prompt!Paths : promptFile[q] \in Prompt!State /\ promptFile[q].edit \in Nat /\ promptFile[q].edit <= edits
  BY DEF Prompt!TypeOK, PromptFilesOK, Prompt!State, Prompt!ConstantsAssumption
<1>3. \A q \in Prompt!Paths : promptFile'[q] = promptFile[q] \/ promptFile'[q].edit = edits + 1
  BY <1>1
<1>4. \A p \in Prompt!Texts : promptFile'[p].exists => promptFile'[p].mtime = promptFile'[p].edit + 1
  BY <1>2 DEF PromptFilesOK
<1>5. \A p \in Prompt!Elems(PromptRoots) : promptFile'[p].exists /\ promptFile'[p].mtime = promptFile'[p].edit + 1
  BY <1>2 DEF PromptFilesOK
<1>6. ASSUME NEW f \in Prompt!SkillFiles
      PROVE  /\ promptFile'[f].exists => promptFile'[f].mtime \in {promptFile'[f].edit + 1, 0 - promptFile'[f].edit}
             /\ ~promptFile'[f].exists => promptFile'[Prompt!Root(f)].edit >= promptFile'[f].edit
  <2>1. promptFile[f].mtime \in Int /\ f \in Prompt!Paths /\ Prompt!Root(f) \in Prompt!Paths
    BY PromptPathFacts DEF Prompt!TypeOK, Prompt!State, Prompt!Times
  <2>2. CASE promptFile'[f] = promptFile[f]
    BY <1>2, <1>3, <2>1, <2>2 DEF PromptFilesOK
  <2>3. CASE promptFile'[f] # promptFile[f]
    BY <1>2, <1>3, <2>1, <2>3
  <2> QED
    BY <2>2, <2>3
<1>7. ASSUME NEW p \in Prompt!Paths PROVE promptFile'[p].edit <= edits' /\ promptFile'[p].mtime <= clock'
  <2>1. promptFile[p].mtime \in Int /\ promptFile[p].mtime <= clock
    BY DEF Prompt!TypeOK, Prompt!State, Prompt!Times, PromptFilesOK,
         Prompt!ConstantsAssumption
  <2>2. CASE promptFile'[p] = promptFile[p]
    BY <1>2, <2>1, <2>2
  <2>3. CASE promptFile'[p] # promptFile[p]
    BY <1>1, <1>2, <1>3, <2>3
  <2> QED
    BY <2>2, <2>3
<1> QED
  BY <1>2, <1>3, <1>4, <1>5, <1>6, <1>7 DEF PromptFilesOK

\* The kinds of an edit: of a text, of a skill where it is, of a directory.
LEMMA PromptWriteEdits ==
  ASSUME Prompt!ConstantsAssumption, Prompt!TypeOK, PromptFilesOK, NEW p \in Prompt!Texts, Prompt!Write(p) \/ Prompt!Delete(p)
  PROVE  PromptEdited
<1>1. PICK new \in Prompt!State :
        /\ edits < PromptMaxEdits /\ edits' = edits + 1 /\ clock' = clock + 1
        /\ promptFile' = [q \in Prompt!Paths |-> IF q \in {p} THEN new ELSE promptFile[q]]
        /\ new.edit = edits' /\ (new.exists => new.mtime = clock') /\ new.mtime <= clock'
        /\ UNCHANGED <<cached, writer, baseline, draft, pc, at, since, got>>
  <2>1. CASE Prompt!Write(p)
    <3> DEFINE new == [exists |-> TRUE, mtime |-> clock', edit |-> edits', valid |-> FALSE]
    <3>1. new \in Prompt!State /\ clock' <= clock'
      BY <2>1 DEF Prompt!Write, Prompt!Edit, Prompt!State, Prompt!Times, Prompt!TypeOK,
           Prompt!ConstantsAssumption, PromptFilesOK
    <3>2. /\ edits < PromptMaxEdits /\ edits' = edits + 1 /\ clock' = clock + 1
          /\ promptFile' = [q \in Prompt!Paths |-> IF q \in {p} THEN new ELSE promptFile[q]]
          /\ UNCHANGED <<cached, writer, baseline, draft, pc, at, since, got>>
      BY <2>1 DEF Prompt!Write, Prompt!Edit
    <3> QED
      BY <3>1, <3>2
  <2>2. CASE Prompt!Delete(p)
    <3> DEFINE new == Prompt!Gone(edits')
    <3>1. new \in Prompt!State /\ new.exists = FALSE /\ new.edit = edits' /\ new.mtime <= clock'
      BY <2>2 DEF Prompt!Delete, Prompt!Edit, Prompt!Gone, Prompt!State, Prompt!Times,
           Prompt!TypeOK, PromptFilesOK, Prompt!ConstantsAssumption
    <3>2. /\ edits < PromptMaxEdits /\ edits' = edits + 1 /\ clock' = clock + 1
          /\ promptFile' = [q \in Prompt!Paths |-> IF q \in {p} THEN new ELSE promptFile[q]]
          /\ UNCHANGED <<cached, writer, baseline, draft, pc, at, since, got>>
      BY <2>2 DEF Prompt!Delete, Prompt!Edit
    <3> HIDE DEF new
    <3> QED
      BY <3>1, <3>2
  <2> QED
    BY <2>1, <2>2
<1>2. promptFile' \in [Prompt!Paths -> Prompt!State] /\ \A q \in Prompt!Paths : promptFile'[q] = IF q = p THEN new ELSE promptFile[q]
  BY <1>1 DEF Prompt!TypeOK
<1>3. PromptFilesOK'
  BY <1>1, <1>2, PromptPathFacts, PromptFilesAfter DEF PromptFilesOK
<1> QED
  BY <1>1, <1>2, <1>3, PromptPathFacts DEF PromptEdited

\* The same of SKILL.md where it is
LEMMA PromptSkillEdits ==
  ASSUME Prompt!ConstantsAssumption, Prompt!TypeOK, PromptFilesOK, NEW f \in Prompt!SkillFiles,
         Prompt!CopySkill(f) \/ \E v \in BOOLEAN : Prompt!WriteSkill(f, v)
  PROVE  PromptEdited
<1>1. PICK new \in Prompt!State :
        /\ edits < PromptMaxEdits /\ edits' = edits + 1 /\ clock' = clock + 1
        /\ promptFile' = [q \in Prompt!Paths |-> IF q \in {f} THEN new ELSE promptFile[q]]
        /\ new.edit = edits' /\ new.exists /\ new.mtime \in {clock', 0 - edits'}
        /\ UNCHANGED <<cached, writer, baseline, draft, pc, at, since, got>>
  <2>1. CASE Prompt!CopySkill(f)
    <3> DEFINE new == [exists |-> TRUE, mtime |-> 0 - edits', edit |-> edits', valid |-> TRUE]
    <3>1. new \in Prompt!State
      BY <2>1 DEF Prompt!CopySkill, Prompt!Edit, Prompt!State, Prompt!Times,
           Prompt!TypeOK, Prompt!ConstantsAssumption, PromptFilesOK
    <3>2. /\ edits < PromptMaxEdits /\ edits' = edits + 1 /\ clock' = clock + 1
          /\ promptFile' = [q \in Prompt!Paths |-> IF q \in {f} THEN new ELSE promptFile[q]]
          /\ UNCHANGED <<cached, writer, baseline, draft, pc, at, since, got>>
      BY <2>1 DEF Prompt!CopySkill, Prompt!Edit
    <3> QED
      BY <3>1, <3>2
  <2>2. ASSUME NEW v \in BOOLEAN, Prompt!WriteSkill(f, v)
        PROVE  \E new \in Prompt!State :
                 /\ edits < PromptMaxEdits /\ edits' = edits + 1 /\ clock' = clock + 1
                 /\ promptFile' = [q \in Prompt!Paths |-> IF q \in {f} THEN new ELSE promptFile[q]]
                 /\ new.edit = edits' /\ new.exists /\ new.mtime \in {clock', 0 - edits'}
                 /\ UNCHANGED <<cached, writer, baseline, draft, pc, at, since, got>>
    <3> DEFINE new == [exists |-> TRUE, mtime |-> clock', edit |-> edits', valid |-> v]
    <3>1. new \in Prompt!State
      BY <2>2 DEF Prompt!WriteSkill, Prompt!Edit, Prompt!State, Prompt!Times,
           Prompt!TypeOK, Prompt!ConstantsAssumption, PromptFilesOK
    <3>2. /\ edits < PromptMaxEdits /\ edits' = edits + 1 /\ clock' = clock + 1
          /\ promptFile' = [q \in Prompt!Paths |-> IF q \in {f} THEN new ELSE promptFile[q]]
          /\ UNCHANGED <<cached, writer, baseline, draft, pc, at, since, got>>
      BY <2>2 DEF Prompt!WriteSkill, Prompt!Edit
    <3> QED
      BY <3>1, <3>2
  <2> QED
    BY <2>1, <2>2
<1>2. promptFile' \in [Prompt!Paths -> Prompt!State] /\ \A q \in Prompt!Paths : promptFile'[q] = IF q = f THEN new ELSE promptFile[q]
  BY <1>1 DEF Prompt!TypeOK
<1>3. new.mtime <= clock'
  BY <1>1 DEF PromptFilesOK, Prompt!TypeOK, Prompt!ConstantsAssumption
<1>4. PromptFilesOK'
  BY <1>1, <1>2, <1>3, PromptPathFacts, PromptFilesAfter
<1> QED
  BY <1>1, <1>2, <1>4, PromptPathFacts DEF PromptEdited

\* and of a directory that comes or goes.
LEMMA PromptTouchEdits ==
  ASSUME Prompt!ConstantsAssumption, Prompt!TypeOK, PromptFilesOK, NEW f \in Prompt!SkillFiles, Prompt!TouchSkill(f)
  PROVE  PromptEdited
<1> DEFINE r == [exists |-> TRUE, mtime |-> clock', edit |-> edits', valid |-> FALSE]
           new == IF promptFile[f].exists THEN Prompt!Gone(edits')
                  ELSE [exists |-> TRUE, mtime |-> clock', edit |-> edits', valid |-> TRUE]
<1>1. /\ edits < PromptMaxEdits /\ edits' = edits + 1 /\ clock' = clock + 1
      /\ promptFile' = [q \in Prompt!Paths |-> IF q \in {f, Prompt!Root(f)} THEN IF q = Prompt!Root(f) THEN r ELSE new ELSE promptFile[q]]
      /\ UNCHANGED <<cached, writer, baseline, draft, pc, at, since, got>>
  BY DEF Prompt!TouchSkill, Prompt!Edit
<1>2. /\ r \in Prompt!State /\ r.exists /\ r.mtime = clock' /\ r.edit = edits'
      /\ new \in Prompt!State /\ new.edit = edits' /\ new.mtime <= clock'
      /\ new.exists => new.mtime = clock'
  <2>1. edits' \in 0..PromptMaxEdits /\ clock' \in Prompt!Times /\ 0 \in Prompt!Times /\ 0 <= clock' /\ clock' \in Int
    BY <1>1 DEF Prompt!Times, Prompt!TypeOK, Prompt!ConstantsAssumption, PromptFilesOK
  <2> QED
    BY <2>1 DEF Prompt!State, Prompt!Gone
<1> HIDE DEF r, new
<1>3. promptFile' \in [Prompt!Paths -> Prompt!State]
      /\ \A q \in Prompt!Paths : promptFile'[q] = IF q = Prompt!Root(f) THEN r ELSE IF q = f THEN new ELSE promptFile[q]
  BY <1>1, <1>2, PromptPathFacts DEF Prompt!TypeOK
<1>4. PromptFilesOK'
  BY <1>1, <1>2, <1>3, PromptPathFacts, PromptFilesAfter
<1> QED
  BY <1>1, <1>2, <1>3, <1>4, PromptPathFacts DEF PromptEdited
-----------------------------------------------------------------------------
\* What one edit can do to a reader: a path that changed is newer than any call.
LEMMA PromptEditedFacts ==
  ASSUME Prompt!ConstantsAssumption, Prompt!TypeOK, PromptFilesOK, PromptCallsOK, PromptEdited
  PROVE  /\ edits \in Nat /\ edits' = edits + 1 /\ since' = since
         /\ \A p \in Prompt!Paths : /\ promptFile[p].edit \in Nat /\ promptFile[p].edit <= edits
                                    /\ promptFile'[p] = promptFile[p] \/ promptFile'[p].edit = edits + 1
         /\ \A c \in PromptCallers : since[c] \in Nat /\ since[c] <= edits
         /\ \A c \in PromptCallers : PromptSkillEdited(c) => PromptSkillEdited(c)'
         /\ \/ Prompt!BuildSkillsSummary' = Prompt!BuildSkillsSummary /\ \A f \in Prompt!SkillFiles : promptFile'[f] = promptFile[f]
            \/ \E f \in Prompt!SkillFiles : promptFile'[f].edit = edits + 1
<1>1. /\ edits \in Nat /\ edits' = edits + 1 /\ since' = since
      /\ \A p \in Prompt!Paths : /\ promptFile[p].edit \in Nat /\ promptFile[p].edit <= edits
                                 /\ promptFile'[p] = promptFile[p] \/ promptFile'[p].edit = edits + 1
      /\ \A c \in PromptCallers : since[c] \in Nat /\ since[c] <= edits
  BY DEF PromptEdited, Prompt!TypeOK, PromptFilesOK, PromptCallsOK, Prompt!State,
       Prompt!ConstantsAssumption
<1>2. ASSUME NEW c \in PromptCallers, NEW f \in Prompt!SkillFiles, promptFile[f].edit > since[c] PROVE promptFile'[f].edit > since'[c]
  BY <1>1, <1>2, PromptPathFacts
<1>3. \A c \in PromptCallers : PromptSkillEdited(c) => PromptSkillEdited(c)'
  BY <1>2 DEF PromptSkillEdited
<1>4. CASE \A f \in Prompt!SkillFiles : promptFile'[f] = promptFile[f]
  BY <1>1, <1>3, <1>4, PromptSameSkills
<1>5. CASE \E f \in Prompt!SkillFiles : promptFile'[f] # promptFile[f]
  BY <1>1, <1>3, <1>5, PromptPathFacts
<1> QED
  BY <1>4, <1>5

\* An entry survives an edit: its times are older.
LEMMA PromptEntryAfterEdit ==
  ASSUME Prompt!ConstantsAssumption, Prompt!TypeOK, PromptFilesOK, PromptCallsOK, PromptEdited, NEW e, PromptEntryOK(e)
  PROVE  PromptEntryOK(e)'
<1>1. /\ e.prompt.listed \in Nat /\ e.prompt.listed <= edits /\ e.base.maxMtime <= e.prompt.listed + 1
      /\ e.base.maxMtime \in Int /\ \A p \in Prompt!Texts : e.prompt.text[p].edit \in Nat
  BY DEF PromptEntryOK, PromptBaseOK, Prompt!Prompt, Prompt!Baseline, Prompt!Times,
       Prompt!State, Prompt!ConstantsAssumption
<1>2. PromptSkillsOK(e.prompt)'
  BY <1>1, PromptEditedFacts, PromptPathFacts DEF PromptSkillsOK, PromptEntryOK
<1>3. ASSUME NEW p \in Prompt!Elems(Prompt!sourcePaths) PROVE PromptTextOK(e.prompt.text, e.base, p)'
  <2>1. PromptTextOK(e.prompt.text, e.base, p) /\ p \in Prompt!Paths
    BY PromptPathFacts DEF PromptEntryOK
  <2> QED
    BY <1>1, <2>1, PromptEditedFacts DEF PromptTextOK
<1> QED
  BY <1>1, <1>2, <1>3, PromptEditedFacts DEF PromptEntryOK

\* What was fresh for a call stays so.
LEMMA PromptFreshAfterEdit ==
  ASSUME Prompt!ConstantsAssumption, Prompt!TypeOK, PromptFilesOK, PromptCallsOK, PromptEdited, NEW e, NEW c \in PromptCallers
  PROVE  /\ \A p \in Prompt!Elems(Prompt!sourcePaths) : PromptFreshText(e, p, c) => PromptFreshText(e, p, c)'
         /\ PromptFreshSkills(e, c) => PromptFreshSkills(e, c)'
<1>1. ASSUME NEW p \in Prompt!Elems(Prompt!sourcePaths), PromptFreshText(e, p, c) PROVE PromptFreshText(e, p, c)'
  <2>1. p \in Prompt!Paths
    BY PromptPathFacts
  <2>2. CASE promptFile'[p] = promptFile[p]
    BY <1>1, <2>2, PromptEditedFacts DEF PromptFreshText, Prompt!Current, Prompt!ComeAndGone
  <2>3. CASE promptFile'[p].edit = edits + 1
    BY <2>3, PromptEditedFacts DEF PromptFreshText
  <2> QED
    BY <2>1, <2>2, <2>3, PromptEditedFacts
<1>2. ASSUME PromptFreshSkills(e, c) PROVE PromptFreshSkills(e, c)'
  <2>1. CASE \E f \in Prompt!SkillFiles : promptFile'[f].edit = edits + 1
    BY <2>1, PromptEditedFacts DEF PromptFreshSkills, PromptSkillEdited
  <2> QED
    BY <1>2, <2>1, PromptEditedFacts DEF PromptFreshSkills
<1> QED
  BY <1>1, <1>2

\* Edits keep all of it.
LEMMA PromptEditKeeps ==
  ASSUME Prompt!ConstantsAssumption, PromptIInv, PromptEdited
  PROVE  PromptIInv'
<1>1. Prompt!TypeOK /\ PromptFilesOK /\ PromptCallsOK /\ UNCHANGED <<cached, writer, baseline, draft, pc, at, since, got>>
  BY DEF PromptIInv, PromptEdited
<1>2. Prompt!TypeOK'
  <2>1. edits' \in 0..PromptMaxEdits /\ clock' \in Prompt!Times /\ promptFile' \in [Prompt!Paths -> Prompt!State]
    BY <1>1 DEF PromptEdited, Prompt!TypeOK, Prompt!ConstantsAssumption, Prompt!Times,
         PromptFilesOK
  <2> QED
    BY <1>1, <2>1 DEF Prompt!TypeOK
<1>3. PromptFilesOK' /\ PromptCallsOK'
  BY <1>1, PromptEditedFacts DEF PromptEdited, PromptCallsOK
<1>4. PromptCacheOK'
  BY <1>1, PromptEntryAfterEdit DEF PromptIInv, PromptCacheOK
<1>5. PromptGotOK'
  BY <1>1, PromptFreshAfterEdit DEF PromptIInv, PromptGotOK
<1>6. PromptCheckOK'
  <2> SUFFICES ASSUME NEW c \in PromptCallers, pc[c] \in {"check", "recheck"}
               PROVE  /\ cached # None /\ at[c] <= Len(Prompt!Tracked) + 1
                      /\ \A i \in 1..Len(Prompt!Tracked) : i < at[c] =>
                           IF i <= Len(Prompt!sourcePaths) THEN PromptFreshText(cached, Prompt!Tracked[i], c)'
                           ELSE (promptFile[Prompt!Tracked[i]].mtime <= cached.base.maxMtime)' \/ PromptSkillEdited(c)'
    BY <1>1 DEF PromptCheckOK
  <2>1. cached # None /\ at[c] <= Len(Prompt!Tracked) + 1
    BY DEF PromptIInv, PromptCheckOK
  <2>2. ASSUME NEW i \in 1..Len(Prompt!Tracked), i < at[c], i <= Len(Prompt!sourcePaths) PROVE PromptFreshText(cached, Prompt!Tracked[i], c)'
    <3>1. PromptFreshText(cached, Prompt!Tracked[i], c) /\ Prompt!Tracked[i] \in Prompt!Elems(Prompt!sourcePaths)
      BY <2>2, PromptTrackedFacts DEF PromptIInv, PromptCheckOK
    <3>2. PICK e : e = cached
      OBVIOUS
    <3>3. PromptFreshText(e, Prompt!Tracked[i], c)'
      BY <1>1, <3>1, <3>2, PromptFreshAfterEdit
    <3> QED
      BY <1>1, <3>2, <3>3
  <2>3. ASSUME NEW i \in 1..Len(Prompt!Tracked), i < at[c], ~(i <= Len(Prompt!sourcePaths))
        PROVE  (promptFile[Prompt!Tracked[i]].mtime <= cached.base.maxMtime)' \/ PromptSkillEdited(c)'
    <3>1. /\ promptFile[Prompt!Tracked[i]].mtime <= cached.base.maxMtime \/ PromptSkillEdited(c)
          /\ Prompt!Tracked[i] \in Prompt!Elems(PromptRoots)
      BY <2>3, PromptTrackedFacts DEF PromptIInv, PromptCheckOK
    <3>2. CASE \E f \in Prompt!SkillFiles : promptFile'[f].edit = edits + 1
      BY <3>2, <1>1, PromptEditedFacts DEF PromptSkillEdited
    <3>3. CASE promptFile'[Prompt!Tracked[i]] = promptFile[Prompt!Tracked[i]]
      BY <1>1, <3>1, <3>3, PromptEditedFacts
    <3> QED
      BY <3>1, <3>2, <3>3 DEF PromptEdited
  <2> QED
    BY <2>1, <2>2, <2>3
<1>8. PromptBuildOK'
  <2>1. PromptBaseOK(baseline, edits)'
    BY <1>1, PromptEditedFacts, SMTT(60) DEF PromptIInv, PromptBuildOK, PromptBaseOK, Prompt!TypeOK,
         Prompt!Baseline, Prompt!Times, Prompt!ConstantsAssumption
  <2> SUFFICES ASSUME NEW c \in PromptCallers, pc[c] = "build"
               PROVE  /\ at[c] <= Len(PromptBootstrap) + 3
                      /\ \A p \in PromptRead(at[c]) : promptFile'[p].edit > draft.text[p].edit =>
                            promptFile'[p].edit >= baseline.maxMtime /\ promptFile'[p].edit > since[c]
                      /\ at[c] > Len(PromptBootstrap) + 1 =>
                            /\ draft.listed <= edits' /\ draft.listed >= since[c]
                            /\ PromptBaseOK(baseline, draft.listed) /\ PromptSkillsOK(draft)'
    BY <1>1, <2>1 DEF PromptBuildOK, PromptBaseOK
  <2>2. /\ at[c] <= Len(PromptBootstrap) + 3
        /\ \A p \in PromptRead(at[c]) : promptFile[p].edit > draft.text[p].edit =>
                                  promptFile[p].edit >= baseline.maxMtime /\ promptFile[p].edit > since[c]
        /\ at[c] > Len(PromptBootstrap) + 1 =>
              /\ draft.listed <= edits /\ draft.listed >= since[c]
              /\ PromptBaseOK(baseline, draft.listed) /\ PromptSkillsOK(draft)
    BY DEF PromptIInv, PromptBuildOK
  <2>3. ASSUME NEW p \in PromptRead(at[c]), promptFile'[p].edit > draft.text[p].edit
        PROVE  promptFile'[p].edit >= baseline.maxMtime /\ promptFile'[p].edit > since[c]
    <3>1. p \in Prompt!Paths
      BY PromptTrackedFacts, PromptPathFacts DEF PromptRead
    <3>2. baseline.maxMtime \in Int /\ baseline.maxMtime <= edits + 1
      BY <1>1 DEF PromptIInv, PromptBuildOK, PromptBaseOK, Prompt!TypeOK, Prompt!Baseline,
           Prompt!Times, Prompt!ConstantsAssumption
    <3> QED
      BY <1>1, <2>2, <2>3, <3>1, <3>2, PromptEditedFacts
  <2>4. draft.listed \in Nat
    BY <1>1 DEF Prompt!TypeOK, Prompt!Prompt, Prompt!ConstantsAssumption
  <2>5. PromptSkillsOK(draft) /\ draft.listed <= edits => PromptSkillsOK(draft)'
    BY <1>1, <2>4, PromptEditedFacts, PromptPathFacts DEF PromptSkillsOK
  <2> QED
    BY <1>1, <2>2, <2>3, <2>4, <2>5, PromptEditedFacts
<1>9. PromptLockOK'
  BY <1>1 DEF PromptIInv, PromptLockOK
<1> QED
  BY <1>2, <1>3, <1>4, <1>5, <1>6, <1>8, <1>9 DEF PromptIInv
-----------------------------------------------------------------------------
PromptStates == {"idle", "check", "want", "recheck", "baseline", "build", "done"}

\* A caller goes on; the others stay where they are.
LEMMA PromptMoved ==
  ASSUME Prompt!TypeOK, NEW c \in PromptCallers, NEW l \in PromptStates, NEW i \in 1..Len(Prompt!Tracked) + 2, Prompt!Goto(c, l, i)
  PROVE  /\ pc' \in [PromptCallers -> PromptStates] /\ at' \in [PromptCallers -> 1..Len(Prompt!Tracked) + 2]
         /\ pc'[c] = l /\ at'[c] = i
         /\ \A d \in PromptCallers : d # c => pc'[d] = pc[d] /\ at'[d] = at[d]
  BY DEF Prompt!TypeOK, PromptStates, Prompt!Goto

\* A text whose check sees no change is what the entry has, or was never there.
LEMMA PromptUnchangedText ==
  ASSUME Prompt!ConstantsAssumption, Prompt!TypeOK, PromptFilesOK, NEW e, PromptEntryOK(e), NEW p \in Prompt!Elems(Prompt!sourcePaths), NEW c,
         e.base.existed[p] = promptFile[p].exists, ~(promptFile[p].exists /\ promptFile[p].mtime > e.base.maxMtime)
  PROVE  PromptFreshText(e, p, c)
<1>1. /\ p \in Prompt!Texts
      /\ promptFile[p].exists => promptFile[p].mtime = promptFile[p].edit + 1
      /\ promptFile[p].edit \in Nat /\ e.prompt.text[p].edit \in Nat /\ e.base.maxMtime \in Int
      /\ promptFile[p].exists \in BOOLEAN /\ e.prompt.text[p].exists \in BOOLEAN
  <2>1. p \in Prompt!Texts /\ p \in Prompt!Paths
    BY PromptPathFacts
  <2>2. promptFile[p] \in Prompt!State /\ e.prompt.text[p] \in Prompt!State /\ e.base.maxMtime \in Prompt!Times
    BY <2>1 DEF Prompt!TypeOK, PromptEntryOK, Prompt!Prompt, Prompt!Baseline
  <2>3. promptFile[p].exists => promptFile[p].mtime = promptFile[p].edit + 1
    BY <2>1 DEF PromptFilesOK
  <2> QED
    BY <2>1, <2>2, <2>3 DEF Prompt!State, Prompt!Times, Prompt!ConstantsAssumption
<1>2. CASE promptFile[p].exists
  <2>1. promptFile[p].edit + 1 <= e.base.maxMtime
    BY <1>1, <1>2
  <2>2. ~(promptFile[p].edit > e.prompt.text[p].edit)
    BY <1>1, <2>1 DEF PromptEntryOK, PromptTextOK
  <2> QED
    BY <1>1, <2>2 DEF PromptFreshText, Prompt!Current
<1>3. CASE ~promptFile[p].exists
  <2>1. CASE e.prompt.text[p].exists
    BY <1>3, <2>1 DEF PromptFreshText, Prompt!ComeAndGone
  <2>2. CASE ~e.prompt.text[p].exists
    BY <1>3, <2>2 DEF PromptFreshText, Prompt!Current
  <2> QED
    BY <2>1, <2>2
<1> QED
  BY <1>2, <1>3

\* With the roots and the times of all skills as they were, the skills are.
LEMMA PromptUnchangedSkills ==
  ASSUME Prompt!ConstantsAssumption, Prompt!TypeOK, PromptFilesOK, NEW e, PromptEntryOK(e),
         \A p \in Prompt!Elems(PromptRoots) : promptFile[p].mtime <= e.base.maxMtime, Prompt!SnapshotSkills = e.base.skillFiles
  PROVE  e.prompt.skills = Prompt!BuildSkillsSummary
<1>1. /\ e.prompt.listed \in Nat /\ e.base.maxMtime \in Int /\ e.base.maxMtime <= e.prompt.listed + 1
      /\ \A p \in Prompt!Paths : promptFile[p].edit \in Nat /\ promptFile[p].mtime \in Int
  BY SMTT(60) DEF Prompt!TypeOK, PromptEntryOK, PromptBaseOK, Prompt!Prompt, Prompt!Baseline,
       Prompt!State, Prompt!Times, Prompt!ConstantsAssumption
<1>2. ASSUME NEW f \in Prompt!SkillFiles, promptFile[f].edit > e.prompt.listed PROVE FALSE
  <2>1. f \in Prompt!Paths /\ Prompt!Root(f) \in Prompt!Elems(PromptRoots) /\ Prompt!Root(f) \in Prompt!Paths
    BY PromptPathFacts
  <2>2. Prompt!SnapshotSkills[f] = IF promptFile[f].exists THEN promptFile[f].mtime ELSE None
    BY DEF Prompt!SnapshotSkills
  <2>3. CASE promptFile[f].exists
    <3>1. e.base.skillFiles[f] = promptFile[f].mtime /\ promptFile[f].mtime \in {promptFile[f].edit + 1, 0 - promptFile[f].edit}
      BY <2>2, <2>3 DEF PromptFilesOK
    <3>2. promptFile[f].mtime # None
      BY <2>1 DEF Prompt!TypeOK, Prompt!State, Prompt!Times, Prompt!ConstantsAssumption
    <3>3. e.base.skillFiles[f] \in (0 - e.prompt.listed)..(e.prompt.listed + 1)
      BY <3>1, <3>2 DEF PromptEntryOK, PromptBaseOK
    <3> QED
      BY <1>1, <1>2, <2>1, <3>1, <3>3
  <2>4. CASE ~promptFile[f].exists
    <3>1. promptFile[Prompt!Root(f)].edit >= promptFile[f].edit /\ promptFile[Prompt!Root(f)].mtime = promptFile[Prompt!Root(f)].edit + 1
      BY <2>1, <2>4 DEF PromptFilesOK
    <3>2. promptFile[Prompt!Root(f)].mtime <= e.base.maxMtime
      BY <2>1
    <3> QED
      BY <1>1, <1>2, <2>1, <3>1, <3>2
  <2> QED
    BY <2>3, <2>4
<1>3. \A f \in Prompt!SkillFiles : promptFile[f].edit <= e.prompt.listed
  BY <1>1, <1>2, PromptPathFacts
<1> QED
  BY <1>3 DEF PromptEntryOK, PromptSkillsOK

\* A step that touches no file.
LEMMA PromptQuiet ==
  ASSUME PromptFilesOK, UNCHANGED Prompt!disk
  PROVE  /\ PromptFilesOK' /\ Prompt!BuildSkillsSummary' = Prompt!BuildSkillsSummary
         /\ \A e : PromptEntryOK(e)' <=> PromptEntryOK(e)
         /\ \A prompt : PromptSkillsOK(prompt)' <=> PromptSkillsOK(prompt)
  BY DEF Prompt!disk, PromptFilesOK, Prompt!BuildSkillsSummary, Prompt!ListSkills,
       PromptEntryOK, PromptSkillsOK, PromptTextOK

\* A call returns; the others keep what they have.
LEMMA PromptReturned ==
  ASSUME PromptCallsOK, NEW c \in PromptCallers, NEW e, got' = [got EXCEPT ![c] = e]
  PROVE  /\ got'[c] = e /\ got' = [d \in PromptCallers |-> got'[d]]
         /\ \A d \in PromptCallers : d # c => got'[d] = got[d]
  BY DEF PromptCallsOK

\* A call begins: all that changes later is newer than it.
LEMMA PromptBeginKeeps ==
  ASSUME Prompt!ConstantsAssumption, PromptIInv, NEW c \in PromptCallers, Prompt!Begin(c)
  PROVE  PromptIInv'
<1> DEFINE l == IF cached = None THEN "want" ELSE "check"
<1>1. /\ Prompt!TypeOK /\ PromptFilesOK /\ UNCHANGED <<Prompt!disk, cached, writer, baseline, draft>> /\ writer = None /\ pc[c] = "idle"
      /\ since' = [since EXCEPT ![c] = edits] /\ got' = [got EXCEPT ![c] = None] /\ Prompt!Goto(c, l, 1)
  BY DEF Prompt!Begin, PromptIInv
<1>2. /\ pc' \in [PromptCallers -> PromptStates] /\ at' \in [PromptCallers -> 1..Len(Prompt!Tracked) + 2]
      /\ pc'[c] = l /\ at'[c] = 1
      /\ \A d \in PromptCallers : d # c => pc'[d] = pc[d] /\ at'[d] = at[d]
  <2>1. l \in PromptStates /\ 1 \in 1..Len(Prompt!Tracked) + 2
    BY PromptTrackedFacts DEF PromptStates
  <2> QED
    BY <1>1, <2>1, PromptMoved
<1>3. /\ since' \in [PromptCallers -> 0..PromptMaxEdits] /\ since'[c] = edits /\ got'[c] = None
      /\ \A d \in PromptCallers : d # c => since'[d] = since[d] /\ got'[d] = got[d]
      /\ got' = [d \in PromptCallers |-> got'[d]]
  BY <1>1, PromptReturned DEF Prompt!TypeOK, PromptIInv, Prompt!ConstantsAssumption
<1>4. Prompt!TypeOK'
  BY <1>1, <1>2, <1>3 DEF Prompt!TypeOK, Prompt!disk, PromptStates
<1>5. PromptFilesOK' /\ PromptCacheOK' /\ PromptCallsOK'
  BY <1>1, <1>3, PromptQuiet DEF PromptIInv, PromptCacheOK, PromptCallsOK, Prompt!disk,
       Prompt!TypeOK, Prompt!ConstantsAssumption
<1>6. PromptGotOK'
  BY <1>1, <1>3, PromptQuiet DEF PromptIInv, PromptGotOK, PromptFreshText,
       PromptFreshSkills, PromptSkillEdited, Prompt!Current, Prompt!ComeAndGone, Prompt!disk
<1>7. PromptCheckOK'
  <2> SUFFICES ASSUME NEW d \in PromptCallers, pc'[d] \in {"check", "recheck"}
               PROVE  /\ cached # None /\ at'[d] <= Len(Prompt!Tracked) + 1
                      /\ \A i \in 1..Len(Prompt!Tracked) : i < at'[d] =>
                           IF i <= Len(Prompt!sourcePaths) THEN PromptFreshText(cached, Prompt!Tracked[i], d)'
                           ELSE (promptFile[Prompt!Tracked[i]].mtime <= cached.base.maxMtime)' \/ PromptSkillEdited(d)'
    BY <1>1 DEF PromptCheckOK
  <2>1. CASE d = c
    BY <1>2, <2>1, PromptTrackedFacts
  <2>2. CASE d # c
    BY <1>1, <1>2, <1>3, <2>2 DEF PromptIInv, PromptCheckOK, PromptFreshText,
         PromptSkillEdited, Prompt!Current, Prompt!ComeAndGone, Prompt!disk
  <2> QED
    BY <2>1, <2>2
<1>8. PromptBuildOK'
  BY <1>1, <1>2, <1>3, PromptQuiet DEF PromptIInv, PromptBuildOK, PromptBaseOK, Prompt!disk
<1>9. PromptLockOK'
  BY <1>1, <1>2 DEF PromptIInv, PromptLockOK, Prompt!ConstantsAssumption
<1> QED
  BY <1>4, <1>5, <1>6, <1>7, <1>8, <1>9 DEF PromptIInv

\* What the steps under a lock leave alone.
LEMMA PromptLockKeeps ==
  ASSUME Prompt!ConstantsAssumption, PromptIInv, NEW c \in PromptCallers, Prompt!Lock(c)
  PROVE  PromptIInv'
<1> DEFINE l == IF cached = None THEN "baseline" ELSE "recheck"
<1>1. /\ Prompt!TypeOK /\ PromptFilesOK /\ UNCHANGED <<Prompt!disk, cached, baseline, draft, since, got>>
      /\ pc[c] = "want" /\ writer = None /\ Prompt!Reading = {} /\ writer' = c /\ Prompt!Goto(c, l, 1)
  BY DEF Prompt!Lock, PromptIInv
<1>2. /\ pc' \in [PromptCallers -> PromptStates] /\ at' \in [PromptCallers -> 1..Len(Prompt!Tracked) + 2]
      /\ pc'[c] = l /\ at'[c] = 1
      /\ \A d \in PromptCallers : d # c => pc'[d] = pc[d] /\ at'[d] = at[d]
  <2>1. l \in PromptStates /\ 1 \in 1..Len(Prompt!Tracked) + 2
    BY PromptTrackedFacts DEF PromptStates
  <2> QED
    BY <1>1, <2>1, PromptMoved
<1>3. Prompt!TypeOK'
  BY <1>1, <1>2 DEF Prompt!TypeOK, Prompt!disk, PromptStates
<1>4. PromptFilesOK' /\ PromptCacheOK' /\ PromptCallsOK'
  BY <1>1, PromptQuiet DEF PromptIInv, PromptCacheOK, PromptCallsOK, Prompt!disk
<1>5. PromptGotOK'
  BY <1>1, PromptQuiet DEF PromptIInv, PromptGotOK, PromptFreshText, PromptFreshSkills,
       PromptSkillEdited, Prompt!Current, Prompt!ComeAndGone, Prompt!disk
<1>6. \A d \in PromptCallers : pc[d] # "check" /\ pc[d] \notin {"recheck", "baseline", "build"}
  BY <1>1 DEF Prompt!Reading, PromptIInv, PromptLockOK, Prompt!ConstantsAssumption
<1>7. PromptCheckOK'
  BY <1>1, <1>2, <1>6, PromptTrackedFacts, SMTT(30) DEF PromptCheckOK
<1>8. PromptBuildOK'
  BY <1>1, <1>2, <1>6, PromptQuiet DEF PromptIInv, PromptBuildOK, PromptBaseOK, Prompt!disk
<1>9. PromptLockOK'
  BY <1>1, <1>2, <1>6 DEF PromptLockOK
<1> QED
  BY <1>3, <1>4, <1>5, <1>7, <1>8, <1>9 DEF PromptIInv

\* A path that was looked at and not changed is fresh in the cached entry.
LEMMA PromptCheckKeeps ==
  ASSUME Prompt!ConstantsAssumption, PromptIInv, NEW c \in PromptCallers, Prompt!Check(c)
  PROVE  PromptIInv'
<1> DEFINE l == IF pc[c] = "check" THEN "want" ELSE "baseline"
<1>1. /\ Prompt!TypeOK /\ PromptFilesOK /\ UNCHANGED <<Prompt!disk, cached, writer, baseline, draft, since, got>>
      /\ pc[c] \in {"check", "recheck"} /\ cached # None /\ PromptEntryOK(cached)
      /\ at[c] \in Nat /\ at[c] >= 1 /\ at[c] <= Len(Prompt!Tracked) + 1
  BY DEF Prompt!Check, PromptIInv, PromptCheckOK, PromptCacheOK, Prompt!TypeOK
<1>2. \/ Prompt!Goto(c, l, 1)
      \/ at[c] <= Len(Prompt!Tracked) /\ ~Prompt!fileChangedSince(Prompt!Tracked[at[c]]) /\ Prompt!Goto(c, pc[c], at[c] + 1)
  BY DEF Prompt!Check
<1>3. PromptFilesOK' /\ PromptCacheOK' /\ PromptCallsOK'
  BY <1>1, PromptQuiet DEF PromptIInv, PromptCacheOK, PromptCallsOK, Prompt!disk
<1>4. PromptGotOK'
  BY <1>1, PromptQuiet DEF PromptIInv, PromptGotOK, PromptFreshText, PromptFreshSkills,
       PromptSkillEdited, Prompt!Current, Prompt!ComeAndGone, Prompt!disk
<1>5. ASSUME NEW d \in PromptCallers, pc[d] \in {"check", "recheck"}, NEW i \in 1..Len(Prompt!Tracked), i < at[d]
      PROVE  IF i <= Len(Prompt!sourcePaths) THEN PromptFreshText(cached, Prompt!Tracked[i], d)'
             ELSE (promptFile[Prompt!Tracked[i]].mtime <= cached.base.maxMtime)' \/ PromptSkillEdited(d)'
  BY <1>1, <1>5 DEF PromptIInv, PromptCheckOK, PromptFreshText, PromptSkillEdited,
       Prompt!Current, Prompt!ComeAndGone, Prompt!disk
<1>6. CASE Prompt!Goto(c, l, 1)
  <2>1. /\ pc' \in [PromptCallers -> PromptStates] /\ at' \in [PromptCallers -> 1..Len(Prompt!Tracked) + 2]
        /\ pc'[c] = l /\ at'[c] = 1 /\ \A d \in PromptCallers : d # c => pc'[d] = pc[d] /\ at'[d] = at[d]
    <3>1. l \in PromptStates /\ 1 \in 1..Len(Prompt!Tracked) + 2
      BY PromptTrackedFacts DEF PromptStates
    <3> QED
      BY <1>1, <1>6, <3>1, PromptMoved
  <2>2. Prompt!TypeOK'
    BY <1>1, <2>1 DEF Prompt!TypeOK, Prompt!disk, PromptStates
  <2>3. PromptCheckOK'
    BY <1>1, <1>5, <2>1 DEF PromptIInv, PromptCheckOK
  <2>4. PromptBuildOK'
    BY <1>1, <2>1, PromptQuiet DEF PromptIInv, PromptBuildOK, PromptBaseOK, Prompt!disk
  <2>5. PromptLockOK'
    BY <1>1, <2>1 DEF PromptIInv, PromptLockOK
  <2> QED
    BY <1>3, <1>4, <2>2, <2>3, <2>4, <2>5 DEF PromptIInv
<1>7. CASE at[c] <= Len(Prompt!Tracked) /\ ~Prompt!fileChangedSince(Prompt!Tracked[at[c]]) /\ Prompt!Goto(c, pc[c], at[c] + 1)
  <2>1. /\ pc' = pc /\ at' \in [PromptCallers -> 1..Len(Prompt!Tracked) + 2]
        /\ at'[c] = at[c] + 1 /\ \A d \in PromptCallers : d # c => at'[d] = at[d]
    <3>1. pc[c] \in PromptStates /\ at[c] + 1 \in 1..Len(Prompt!Tracked) + 2
      BY <1>1, <1>7, PromptTrackedFacts DEF PromptStates
    <3>2. /\ pc' \in [PromptCallers -> PromptStates] /\ at' \in [PromptCallers -> 1..Len(Prompt!Tracked) + 2]
          /\ pc'[c] = pc[c] /\ at'[c] = at[c] + 1
          /\ \A d \in PromptCallers : d # c => pc'[d] = pc[d] /\ at'[d] = at[d]
      BY <1>1, <1>7, <3>1, PromptMoved
    <3>3. pc' = pc
      BY <1>1, <1>7 DEF Prompt!Goto, Prompt!TypeOK
    <3> QED
      BY <3>2, <3>3
  <2>2. Prompt!TypeOK'
    BY <1>1, <2>1 DEF Prompt!TypeOK, Prompt!disk
  <2>a. PICK k \in 1..Len(Prompt!Tracked) : k = at[c]
    BY <1>1, <1>7, PromptTrackedFacts
  <2>3. IF k <= Len(Prompt!sourcePaths) THEN PromptFreshText(cached, Prompt!Tracked[k], c)'
        ELSE (promptFile[Prompt!Tracked[k]].mtime <= cached.base.maxMtime)' \/ PromptSkillEdited(c)'
    <3>1. /\ cached.base.existed[Prompt!Tracked[k]] = promptFile[Prompt!Tracked[k]].exists
          /\ ~(promptFile[Prompt!Tracked[k]].exists /\ promptFile[Prompt!Tracked[k]].mtime > cached.base.maxMtime)
      BY <1>7, <2>a DEF Prompt!fileChangedSince
    <3>2. CASE k <= Len(Prompt!sourcePaths)
      <4>1. Prompt!Tracked[k] \in Prompt!Elems(Prompt!sourcePaths)
        BY <3>2, PromptTrackedFacts
      <4>2. PromptFreshText(cached, Prompt!Tracked[k], c)
        BY <1>1, <3>1, <4>1, PromptUnchangedText
      <4> QED
        BY <1>1, <3>2, <4>2 DEF PromptFreshText, Prompt!Current, Prompt!ComeAndGone,
             Prompt!disk
    <3>3. CASE ~(k <= Len(Prompt!sourcePaths))
      <4>1. Prompt!Tracked[k] \in Prompt!Elems(PromptRoots) /\ Prompt!Tracked[k] \in Prompt!Paths
        BY <3>3, PromptTrackedFacts, PromptPathFacts
      <4>2. promptFile[Prompt!Tracked[k]].exists /\ promptFile[Prompt!Tracked[k]].mtime \in Int /\ cached.base.maxMtime \in Int
        BY SMTT(60), <1>1, <4>1 DEF PromptFilesOK, Prompt!TypeOK, Prompt!State, Prompt!Times,
             PromptEntryOK, Prompt!Baseline, Prompt!ConstantsAssumption
      <4> QED
        BY <1>1, <3>1, <3>3, <4>2 DEF Prompt!disk
    <3> QED
      BY <3>2, <3>3
  <2>4. PromptCheckOK'
    <3> SUFFICES ASSUME NEW d \in PromptCallers, pc[d] \in {"check", "recheck"}
                 PROVE  /\ cached # None /\ at'[d] <= Len(Prompt!Tracked) + 1
                        /\ \A i \in 1..Len(Prompt!Tracked) : i < at'[d] =>
                             IF i <= Len(Prompt!sourcePaths) THEN PromptFreshText(cached, Prompt!Tracked[i], d)'
                             ELSE (promptFile[Prompt!Tracked[i]].mtime <= cached.base.maxMtime)' \/ PromptSkillEdited(d)'
      BY <1>1, <2>1 DEF PromptCheckOK
    <3>1. CASE d = c
      <4>1. \A i \in 1..Len(Prompt!Tracked) : i < at'[d] => i < at[d] \/ i = k
        BY <1>1, <2>1, <2>a, <3>1
      <4>2. at'[d] <= Len(Prompt!Tracked) + 1
        BY <1>1, <1>7, <2>1, <3>1, PromptTrackedFacts
      <4> QED
        BY <1>1, <1>5, <2>3, <3>1, <4>1, <4>2
    <3>2. CASE d # c
      BY <1>1, <1>5, <2>1, <3>2 DEF PromptIInv, PromptCheckOK
    <3> QED
      BY <3>1, <3>2
  <2>5. PromptBuildOK'
    BY <1>1, <2>1, PromptQuiet DEF PromptIInv, PromptBuildOK, PromptBaseOK, Prompt!disk
  <2>6. PromptLockOK'
    BY <1>1, <2>1 DEF PromptIInv, PromptLockOK
  <2> QED
    BY <1>3, <1>4, <2>2, <2>4, <2>5, <2>6 DEF PromptIInv
<1> QED
  BY <1>2, <1>6, <1>7

\* All were looked at, hence the entry that is returned is fresh.
LEMMA PromptHitKeeps ==
  ASSUME Prompt!ConstantsAssumption, PromptIInv, NEW c \in PromptCallers, Prompt!Hit(c)
  PROVE  PromptIInv'
<1>1. /\ Prompt!TypeOK /\ PromptFilesOK /\ UNCHANGED <<Prompt!disk, cached, baseline, draft, since>>
      /\ pc[c] \in {"check", "recheck"} /\ cached # None /\ PromptEntryOK(cached)
      /\ at[c] = Len(Prompt!Tracked) + 1 /\ Prompt!SnapshotSkills = cached.base.skillFiles
      /\ got' = [got EXCEPT ![c] = cached] /\ Prompt!Goto(c, "done", 1)
      /\ writer' = IF writer = c THEN None ELSE writer
  BY DEF Prompt!Hit, Prompt!skillFilesChangedSince, PromptIInv, PromptCheckOK, PromptCacheOK
<1>2. /\ pc' \in [PromptCallers -> PromptStates] /\ at' \in [PromptCallers -> 1..Len(Prompt!Tracked) + 2]
      /\ pc'[c] = "done" /\ at'[c] = 1
      /\ \A d \in PromptCallers : d # c => pc'[d] = pc[d] /\ at'[d] = at[d]
  <2>1. "done" \in PromptStates /\ 1 \in 1..Len(Prompt!Tracked) + 2
    BY PromptTrackedFacts DEF PromptStates
  <2> QED
    BY <1>1, <2>1, PromptMoved
<1>3. /\ got'[c] = cached /\ got' = [d \in PromptCallers |-> got'[d]]
      /\ \A d \in PromptCallers : d # c => got'[d] = got[d]
  BY <1>1, PromptReturned DEF PromptIInv
<1>4. Prompt!TypeOK'
  BY <1>1, <1>2, <1>3 DEF Prompt!TypeOK, Prompt!disk, PromptStates
<1>5. PromptFilesOK' /\ PromptCacheOK' /\ PromptCallsOK'
  BY <1>1, <1>3, PromptQuiet DEF PromptIInv, PromptCacheOK, PromptCallsOK, Prompt!disk
<1>6. \A i \in 1..Len(Prompt!Tracked) : i < at[c]
  BY <1>1, PromptTrackedFacts
<1>7. \A p \in Prompt!Elems(Prompt!sourcePaths) : PromptFreshText(cached, p, c)
  <2> SUFFICES ASSUME NEW p \in Prompt!Elems(Prompt!sourcePaths) PROVE PromptFreshText(cached, p, c)
    OBVIOUS
  <2>1. PICK i \in 1..Len(Prompt!sourcePaths) : p = Prompt!Tracked[i]
    BY PromptTrackedFacts
  <2>2. i \in 1..Len(Prompt!Tracked) /\ i <= Len(Prompt!sourcePaths)
    BY PromptTrackedFacts
  <2> QED
    BY <1>1, <1>6, <2>1, <2>2 DEF PromptIInv, PromptCheckOK
<1>8. PromptFreshSkills(cached, c)
  <2> SUFFICES ASSUME ~PromptSkillEdited(c) PROVE cached.prompt.skills = Prompt!BuildSkillsSummary
    BY DEF PromptFreshSkills
  <2>1. ASSUME NEW p \in Prompt!Elems(PromptRoots) PROVE promptFile[p].mtime <= cached.base.maxMtime
    <3>1. PICK i \in 1..Len(Prompt!Tracked) : i > Len(Prompt!sourcePaths) /\ p = Prompt!Tracked[i]
      BY PromptTrackedFacts
    <3>2. ~(i <= Len(Prompt!sourcePaths))
      BY <3>1, PromptTrackedFacts
    <3> QED
      BY <1>1, <1>6, <3>1, <3>2 DEF PromptIInv, PromptCheckOK
  <2> QED
    BY <1>1, <2>1, PromptUnchangedSkills
<1>9. PromptGotOK'
  <2>1. ASSUME NEW d \in PromptCallers, d # c, got[d] # None
        PROVE  /\ \A p \in Prompt!Elems(Prompt!sourcePaths) : PromptFreshText(got[d], p, d)
               /\ PromptFreshSkills(got[d], d)
    BY <2>1 DEF PromptIInv, PromptGotOK
  <2>2. ASSUME NEW d \in PromptCallers, d # c, got'[d] # None
        PROVE  /\ \A p \in Prompt!Elems(Prompt!sourcePaths) : PromptFreshText(got[d], p, d)'
               /\ PromptFreshSkills(got[d], d)'
    BY <1>1, <1>3, <2>1, <2>2, PromptQuiet DEF PromptFreshText, PromptFreshSkills,
         PromptSkillEdited, Prompt!Current, Prompt!ComeAndGone, Prompt!disk
  <2>3. /\ \A p \in Prompt!Elems(Prompt!sourcePaths) : PromptFreshText(got[c], p, c)'
        /\ PromptFreshSkills(got[c], c)'
    BY <1>1, <1>3, <1>7, <1>8, PromptQuiet DEF PromptFreshText, PromptFreshSkills,
         PromptSkillEdited, Prompt!Current, Prompt!ComeAndGone, Prompt!disk
  <2> QED
    BY <2>2, <2>3 DEF PromptGotOK
<1>10. PromptCheckOK'
  BY <1>1, <1>2 DEF PromptIInv, PromptCheckOK, PromptFreshText, PromptSkillEdited,
       Prompt!Current, Prompt!ComeAndGone, Prompt!disk
<1>11. PromptBuildOK'
  BY <1>1, <1>2, PromptQuiet DEF PromptIInv, PromptBuildOK, PromptBaseOK, Prompt!disk
<1>12. PromptLockOK'
  BY <1>1, <1>2 DEF PromptIInv, PromptLockOK, Prompt!ConstantsAssumption
<1> QED
  BY <1>4, <1>5, <1>9, <1>10, <1>11, <1>12 DEF PromptIInv

\* The builder holds the lock: nobody reads, nobody else writes.
LEMMA PromptAlone ==
  ASSUME Prompt!ConstantsAssumption, PromptLockOK, NEW c \in PromptCallers, pc[c] \in {"baseline", "build"}
  PROVE  /\ writer = c
         /\ \A d \in PromptCallers : d # c => pc[d] \notin {"check", "recheck", "baseline", "build"}
  BY DEF PromptLockOK, Prompt!ConstantsAssumption

\* The caller goes on without its prompt.
LEMMA PromptReturnKeeps ==
  ASSUME Prompt!ConstantsAssumption, PromptIInv, NEW c \in PromptCallers, Prompt!Return(c)
  PROVE  PromptIInv'
<1>1. /\ Prompt!TypeOK /\ PromptFilesOK /\ UNCHANGED <<Prompt!disk, cached, writer, baseline, draft, since>>
      /\ pc[c] = "done" /\ got' = [got EXCEPT ![c] = None] /\ Prompt!Goto(c, "idle", 1)
  BY DEF Prompt!Return, PromptIInv
<1>2. /\ pc' \in [PromptCallers -> PromptStates] /\ at' \in [PromptCallers -> 1..Len(Prompt!Tracked) + 2]
      /\ pc'[c] = "idle" /\ at'[c] = 1
      /\ \A d \in PromptCallers : d # c => pc'[d] = pc[d] /\ at'[d] = at[d]
  <2>1. "idle" \in PromptStates /\ 1 \in 1..Len(Prompt!Tracked) + 2
    BY PromptTrackedFacts DEF PromptStates
  <2> QED
    BY <1>1, <2>1, PromptMoved
<1>3. /\ got'[c] = None /\ got' = [d \in PromptCallers |-> got'[d]]
      /\ \A d \in PromptCallers : d # c => got'[d] = got[d]
  BY <1>1, PromptReturned DEF PromptIInv
<1>4. Prompt!TypeOK'
  BY <1>1, <1>2, <1>3 DEF Prompt!TypeOK, Prompt!disk, PromptStates
<1>5. PromptFilesOK' /\ PromptCacheOK' /\ PromptCallsOK'
  BY <1>1, <1>3, PromptQuiet DEF PromptIInv, PromptCacheOK, PromptCallsOK, Prompt!disk
<1>6. PromptGotOK'
  BY <1>1, <1>3, PromptQuiet DEF PromptIInv, PromptGotOK, PromptFreshText,
       PromptFreshSkills, PromptSkillEdited, Prompt!Current, Prompt!ComeAndGone, Prompt!disk
<1>7. PromptCheckOK'
  BY <1>1, <1>2 DEF PromptIInv, PromptCheckOK, PromptFreshText, PromptSkillEdited,
       Prompt!Current, Prompt!ComeAndGone, Prompt!disk
<1>8. PromptBuildOK'
  BY <1>1, <1>2, PromptQuiet DEF PromptIInv, PromptBuildOK, PromptBaseOK, Prompt!disk
<1>9. PromptLockOK'
  BY <1>1, <1>2 DEF PromptIInv, PromptLockOK
<1> QED
  BY <1>4, <1>5, <1>6, <1>7, <1>8, <1>9 DEF PromptIInv

\* Nobody looks at the entry that is dropped.
LEMMA PromptInvalidateKeeps ==
  ASSUME Prompt!ConstantsAssumption, PromptIInv, Prompt!InvalidateCache
  PROVE  PromptIInv'
<1>1. /\ Prompt!TypeOK /\ PromptFilesOK /\ UNCHANGED <<Prompt!disk, writer, baseline, draft, pc, at, since, got>>
      /\ writer = None /\ Prompt!Reading = {} /\ cached' = None
  BY DEF Prompt!InvalidateCache, PromptIInv
<1>2. \A d \in PromptCallers : pc[d] \notin {"check", "recheck"}
  BY <1>1 DEF Prompt!Reading, PromptIInv, PromptLockOK, Prompt!ConstantsAssumption
<1>3. Prompt!TypeOK'
  BY <1>1 DEF Prompt!TypeOK, Prompt!disk
<1>4. PromptFilesOK' /\ PromptCacheOK' /\ PromptCallsOK'
  BY <1>1, PromptQuiet DEF PromptIInv, PromptCacheOK, PromptCallsOK, Prompt!disk
<1>5. PromptGotOK'
  BY <1>1, PromptQuiet DEF PromptIInv, PromptGotOK, PromptFreshText, PromptFreshSkills,
       PromptSkillEdited, Prompt!Current, Prompt!ComeAndGone, Prompt!disk
<1>6. PromptCheckOK'
  BY <1>1, <1>2 DEF PromptCheckOK
<1>7. PromptBuildOK'
  BY <1>1, PromptQuiet DEF PromptIInv, PromptBuildOK, PromptBaseOK, Prompt!disk
<1>8. PromptLockOK'
  BY <1>1 DEF PromptIInv, PromptLockOK
<1> QED
  BY <1>3, <1>4, <1>5, <1>6, <1>7, <1>8 DEF PromptIInv

\* A time recorded for the baseline is one of the files looked at.
LEMMA PromptBaselineStep ==
  ASSUME Prompt!ConstantsAssumption, Prompt!TypeOK, PromptFilesOK, PromptBaseOK(baseline, edits), NEW old \in {Prompt!NoBaseline, baseline}
  PROVE  /\ old \in Prompt!Baseline /\ PromptBaseOK(old, edits)
         /\ \A p \in Prompt!Elems(Prompt!Tracked) : p \in Prompt!Paths =>
              LET b == [existed |-> [old.existed EXCEPT ![p] = promptFile[p].exists], skillFiles |-> old.skillFiles,
                        maxMtime |-> Prompt!newest({old.maxMtime, promptFile[p].mtime})]
              IN  b \in Prompt!Baseline /\ PromptBaseOK(b, edits)
         /\ LET b == [existed |-> old.existed, skillFiles |-> Prompt!SnapshotSkills,
                      maxMtime |-> Prompt!newest({old.maxMtime} \cup {promptFile[f].mtime : f \in Prompt!SkillFiles})]
            IN  b \in Prompt!Baseline /\ PromptBaseOK(b, edits)
<1>1. /\ edits \in Nat /\ edits <= PromptMaxEdits /\ clock = edits + 1 /\ PromptMaxEdits \in Nat
      /\ \A p \in Prompt!Paths : promptFile[p].mtime \in Prompt!Times /\ promptFile[p].mtime <= edits + 1 /\ promptFile[p].exists \in BOOLEAN
      /\ \A f \in Prompt!SkillFiles : f \in Prompt!Paths
      /\ 0 - PromptMaxEdits \in Int /\ PromptMaxEdits + 1 \in Int /\ Prompt!Times = (0 - PromptMaxEdits)..(PromptMaxEdits + 1)
  BY PromptPathFacts DEF Prompt!TypeOK, PromptFilesOK, Prompt!State, Prompt!Times,
       Prompt!ConstantsAssumption
<1>2. old \in Prompt!Baseline /\ PromptBaseOK(old, edits)
  <2>1. Prompt!NoBaseline \in Prompt!Baseline
    BY <1>1 DEF Prompt!NoBaseline, Prompt!Baseline, Prompt!Times
  <2>2. PromptBaseOK(Prompt!NoBaseline, edits)
    BY <1>1 DEF Prompt!NoBaseline, PromptBaseOK
  <2> QED
    BY <2>1, <2>2 DEF Prompt!TypeOK
<1>3. /\ old.existed \in [Prompt!Elems(Prompt!Tracked) -> BOOLEAN] /\ old.maxMtime \in Prompt!Times /\ old.maxMtime <= edits + 1
      /\ old.skillFiles \in [Prompt!SkillFiles -> Prompt!Times \cup {None}]
      /\ old = [existed |-> old.existed, skillFiles |-> old.skillFiles, maxMtime |-> old.maxMtime]
  BY <1>2 DEF Prompt!Baseline, PromptBaseOK
<1>4. ASSUME NEW S \in SUBSET Prompt!Times, S # {}, \A t \in S : t <= edits + 1
      PROVE  Prompt!newest(S) \in Prompt!Times /\ Prompt!newest(S) <= edits + 1
  BY <1>1, <1>4, PromptMaxExists
<1>5. ASSUME NEW p \in Prompt!Elems(Prompt!Tracked), p \in Prompt!Paths
      PROVE  LET b == [existed |-> [old.existed EXCEPT ![p] = promptFile[p].exists], skillFiles |-> old.skillFiles,
                        maxMtime |-> Prompt!newest({old.maxMtime, promptFile[p].mtime})]
             IN  b \in Prompt!Baseline /\ PromptBaseOK(b, edits)
  <2> DEFINE t == Prompt!newest({old.maxMtime, promptFile[p].mtime})
             x == [old.existed EXCEPT ![p] = promptFile[p].exists]
  <2>1. t \in Prompt!Times /\ t <= edits + 1
    BY <1>1, <1>3, <1>4, <1>5
  <2>2. x \in [Prompt!Elems(Prompt!Tracked) -> BOOLEAN]
    BY <1>1, <1>3, <1>5
  <2> HIDE DEF t, x
  <2>4. [existed |-> x, skillFiles |-> old.skillFiles, maxMtime |-> t] \in Prompt!Baseline
    BY <1>3, <2>1, <2>2 DEF Prompt!Baseline
  <2>5. PromptBaseOK([existed |-> x, skillFiles |-> old.skillFiles, maxMtime |-> t], edits)
    BY <1>2, <2>1 DEF PromptBaseOK
  <2> QED
    BY <2>4, <2>5 DEF t, x
<1>6. LET b == [existed |-> old.existed, skillFiles |-> Prompt!SnapshotSkills,
                maxMtime |-> Prompt!newest({old.maxMtime} \cup {promptFile[f].mtime : f \in Prompt!SkillFiles})]
      IN  b \in Prompt!Baseline /\ PromptBaseOK(b, edits)
  <2> DEFINE t == Prompt!newest({old.maxMtime} \cup {promptFile[f].mtime : f \in Prompt!SkillFiles})
  <2>1. t \in Prompt!Times /\ t <= edits + 1
    BY <1>1, <1>3, <1>4
  <2>2. Prompt!SnapshotSkills \in [Prompt!SkillFiles -> Prompt!Times \cup {None}]
    BY <1>1 DEF Prompt!SnapshotSkills
  <2> HIDE DEF t
  <2>4. [existed |-> old.existed, skillFiles |-> Prompt!SnapshotSkills, maxMtime |-> t] \in Prompt!Baseline
    BY <1>3, <2>1, <2>2 DEF Prompt!Baseline
  <2>5. \A f \in Prompt!SkillFiles : Prompt!SnapshotSkills[f] # None => Prompt!SnapshotSkills[f] \in (0 - edits)..(edits + 1)
    <3> SUFFICES ASSUME NEW f \in Prompt!SkillFiles, Prompt!SnapshotSkills[f] # None
                 PROVE  Prompt!SnapshotSkills[f] \in (0 - edits)..(edits + 1)
      OBVIOUS
    <3>1. promptFile[f].exists /\ Prompt!SnapshotSkills[f] = promptFile[f].mtime
      BY DEF Prompt!SnapshotSkills
    <3>2. promptFile[f].edit \in Nat /\ promptFile[f].edit <= edits
      BY <1>1 DEF Prompt!TypeOK, Prompt!State, PromptFilesOK
    <3> QED
      BY <1>1, <3>1, <3>2 DEF PromptFilesOK
  <2>6. PromptBaseOK([existed |-> old.existed, skillFiles |-> Prompt!SnapshotSkills, maxMtime |-> t], edits)
    BY <2>1, <2>5 DEF PromptBaseOK
  <2> QED
    BY <2>4, <2>6 DEF t
<1> QED
  BY <1>2, <1>5, <1>6

\* buildCacheBaseline records times that are not newer than the clock.
LEMMA PromptBaselineKeeps ==
  ASSUME Prompt!ConstantsAssumption, PromptIInv, NEW c \in PromptCallers, Prompt!BuildCacheBaseline(c)
  PROVE  PromptIInv'
<1>1. /\ Prompt!TypeOK /\ PromptFilesOK /\ UNCHANGED <<Prompt!disk, cached, writer, draft, since, got>>
      /\ pc[c] = "baseline" /\ at[c] \in Nat /\ at[c] >= 1 /\ PromptBaseOK(baseline, edits)
  BY DEF Prompt!BuildCacheBaseline, PromptIInv, Prompt!TypeOK, PromptBuildOK
<1>2. \/ at[c] <= Len(Prompt!Tracked) /\ Prompt!Goto(c, "baseline", at[c] + 1)
      \/ Prompt!Goto(c, "build", 1)
  BY DEF Prompt!BuildCacheBaseline
<1>3. baseline' \in Prompt!Baseline /\ PromptBaseOK(baseline', edits)
  <2> DEFINE old == IF at[c] = 1 THEN Prompt!NoBaseline ELSE baseline
  <2>1. old \in {Prompt!NoBaseline, baseline}
    OBVIOUS
  <2>2. CASE at[c] <= Len(Prompt!Tracked)
    <3>1. Prompt!Tracked[at[c]] \in Prompt!Elems(Prompt!Tracked) /\ Prompt!Tracked[at[c]] \in Prompt!Paths
      <4>1. at[c] \in 1..Len(Prompt!Tracked)
        BY <1>1, <2>2, PromptTrackedFacts
      <4> QED
        BY <4>1, PromptTrackedFacts, PromptPathFacts
    <3>2. baseline' = [existed |-> [old.existed EXCEPT ![Prompt!Tracked[at[c]]] = promptFile[Prompt!Tracked[at[c]]].exists],
                       skillFiles |-> old.skillFiles,
                       maxMtime |-> Prompt!newest({old.maxMtime, promptFile[Prompt!Tracked[at[c]]].mtime})]
      BY <2>2 DEF Prompt!BuildCacheBaseline
    <3> HIDE DEF old
    <3> QED
      BY <1>1, <2>1, <3>1, <3>2, PromptBaselineStep
  <2>3. CASE ~(at[c] <= Len(Prompt!Tracked))
    <3>1. baseline' = [existed |-> old.existed, skillFiles |-> Prompt!SnapshotSkills,
                       maxMtime |-> Prompt!newest({old.maxMtime} \cup {promptFile[f].mtime : f \in Prompt!SkillFiles})]
      BY <2>3 DEF Prompt!BuildCacheBaseline
    <3> HIDE DEF old
    <3> QED
      BY <1>1, <2>1, <3>1, PromptBaselineStep
  <2> QED
    BY <2>2, <2>3
<1>4. PICK l \in {"baseline", "build"} :
        /\ pc' \in [PromptCallers -> PromptStates] /\ at' \in [PromptCallers -> 1..Len(Prompt!Tracked) + 2]
        /\ pc'[c] = l /\ (l = "build" => at'[c] = 1)
        /\ \A d \in PromptCallers : d # c => pc'[d] = pc[d] /\ at'[d] = at[d]
  <2>1. CASE at[c] <= Len(Prompt!Tracked) /\ Prompt!Goto(c, "baseline", at[c] + 1)
    <3>1. "baseline" \in PromptStates /\ at[c] + 1 \in 1..Len(Prompt!Tracked) + 2
      BY <1>1, <2>1, PromptTrackedFacts DEF PromptStates
    <3> QED
      BY <1>1, <2>1, <3>1, PromptMoved
  <2>2. CASE Prompt!Goto(c, "build", 1)
    <3>1. "build" \in PromptStates /\ 1 \in 1..Len(Prompt!Tracked) + 2
      BY PromptTrackedFacts DEF PromptStates
    <3> QED
      BY <1>1, <2>2, <3>1, PromptMoved
  <2> QED
    BY <1>2, <2>1, <2>2
<1>5. \A d \in PromptCallers : d # c => pc[d] \notin {"check", "recheck", "baseline", "build"}
  BY <1>1, PromptAlone DEF PromptIInv
<1>6. Prompt!TypeOK'
  BY <1>1, <1>3, <1>4 DEF Prompt!TypeOK, Prompt!disk, PromptStates
<1>7. PromptFilesOK' /\ PromptCacheOK' /\ PromptCallsOK'
  BY <1>1, PromptQuiet DEF PromptIInv, PromptCacheOK, PromptCallsOK, Prompt!disk
<1>8. PromptGotOK'
  BY <1>1, PromptQuiet DEF PromptIInv, PromptGotOK, PromptFreshText, PromptFreshSkills,
       PromptSkillEdited, Prompt!Current, Prompt!ComeAndGone, Prompt!disk
<1>9. PromptCheckOK'
  BY <1>4, <1>5 DEF PromptCheckOK
<1>10. PromptBuildOK'
  <2>1. PromptBaseOK(baseline, edits)'
    BY <1>1, <1>3 DEF PromptBaseOK, Prompt!disk
  <2>2. PromptRead(1) = {}
    BY PromptTrackedFacts DEF PromptRead
  <2> SUFFICES ASSUME pc'[c] = "build"
               PROVE  at'[c] = 1 /\ 1 <= Len(PromptBootstrap) + 3 /\ ~(1 > Len(PromptBootstrap) + 1)
    BY <1>4, <1>5, <2>1, <2>2 DEF PromptBuildOK
  <2> QED
    BY <1>4, PromptTrackedFacts
<1>11. PromptLockOK'
  BY <1>1, <1>4, <1>5 DEF PromptIInv, PromptLockOK
<1> QED
  BY <1>6, <1>7, <1>8, <1>9, <1>10, <1>11 DEF PromptIInv

\* The draft with text p as it is now
PromptDraft(p) == [draft EXCEPT !.text[p] = promptFile[p]]

LEMMA PromptReadText ==
  ASSUME Prompt!ConstantsAssumption, Prompt!TypeOK, NEW p \in Prompt!Texts
  PROVE  /\ PromptDraft(p) \in Prompt!Prompt
         /\ PromptDraft(p).skills = draft.skills /\ PromptDraft(p).listed = draft.listed
         /\ PromptDraft(p).text[p] = promptFile[p]
         /\ \A q \in Prompt!Texts : q # p => PromptDraft(p).text[q] = draft.text[q]
<1>1. /\ draft.text \in [Prompt!Texts -> Prompt!State] /\ draft.skills \in SUBSET (Prompt!SkillFiles \X (0..PromptMaxEdits))
      /\ draft.listed \in 0..PromptMaxEdits
      /\ draft = [text |-> draft.text, skills |-> draft.skills, listed |-> draft.listed]
  BY DEF Prompt!TypeOK, Prompt!Prompt
<1>2. PromptDraft(p) = [text |-> [draft.text EXCEPT ![p] = promptFile[p]], skills |-> draft.skills, listed |-> draft.listed]
  BY <1>1 DEF PromptDraft
<1>3. promptFile[p] \in Prompt!State
  BY PromptPathFacts DEF Prompt!TypeOK
<1> DEFINE t == [draft.text EXCEPT ![p] = promptFile[p]]
<1>4. t \in [Prompt!Texts -> Prompt!State] /\ t[p] = promptFile[p] /\ \A q \in Prompt!Texts : q # p => t[q] = draft.text[q]
  BY <1>1, <1>3
<1> HIDE DEF t
<1>5. PromptDraft(p) = [text |-> t, skills |-> draft.skills, listed |-> draft.listed]
  BY <1>2 DEF t
<1> QED
  BY <1>1, <1>4, <1>5 DEF Prompt!Prompt

\* A path that is read is as it is now; what is edited later is newer than the
\* baseline.
LEMMA PromptBuildKeeps ==
  ASSUME Prompt!ConstantsAssumption, PromptIInv, NEW c \in PromptCallers, Prompt!Build(c)
  PROVE  PromptIInv'
<1>1. /\ Prompt!TypeOK /\ PromptFilesOK /\ UNCHANGED <<Prompt!disk, cached, writer, baseline, since, got>>
      /\ pc[c] = "build" /\ at[c] \in Nat /\ at[c] >= 1 /\ at[c] <= Len(PromptBootstrap) + 2
      /\ Prompt!Goto(c, "build", at[c] + 1) /\ PromptBaseOK(baseline, edits)
  BY DEF Prompt!Build, PromptIInv, Prompt!TypeOK, PromptBuildOK
<1>2. PICK k \in Nat \ {0} : k = at[c]
  BY <1>1
<1>3. /\ pc' \in [PromptCallers -> PromptStates] /\ at' \in [PromptCallers -> 1..Len(Prompt!Tracked) + 2]
      /\ pc'[c] = "build" /\ at'[c] = k + 1
      /\ \A d \in PromptCallers : d # c => pc'[d] = pc[d] /\ at'[d] = at[d]
  <2>1. "build" \in PromptStates /\ at[c] + 1 \in 1..Len(Prompt!Tracked) + 2
    BY <1>1, PromptTrackedFacts DEF PromptStates
  <2> QED
    BY <1>1, <1>2, <2>1, PromptMoved
<1>4. \A d \in PromptCallers : d # c => pc[d] \notin {"check", "recheck", "baseline", "build"}
  BY <1>1, PromptAlone DEF PromptIInv
<1>5. /\ \A p \in PromptRead(k) : promptFile[p].edit > draft.text[p].edit =>
            promptFile[p].edit >= baseline.maxMtime /\ promptFile[p].edit > since[c]
      /\ k > Len(PromptBootstrap) + 1 =>
            /\ draft.listed <= edits /\ draft.listed >= since[c]
            /\ PromptBaseOK(baseline, draft.listed) /\ PromptSkillsOK(draft)
  BY <1>1, <1>2 DEF PromptIInv, PromptBuildOK
<1>6. PromptRead(k) \subseteq Prompt!Texts
  BY PromptTrackedFacts, PromptPathFacts DEF PromptRead
\* What one step of the build does to the draft
<1>7. /\ draft' \in Prompt!Prompt
      /\ \A p \in PromptRead(k + 1) : draft'.text[p] = promptFile[p] \/ (p \in PromptRead(k) /\ draft'.text[p] = draft.text[p])
      /\ \/ k # Len(PromptBootstrap) + 1 /\ draft'.skills = draft.skills /\ draft'.listed = draft.listed
         \/ k = Len(PromptBootstrap) + 1 /\ draft'.skills = Prompt!BuildSkillsSummary /\ draft'.listed = edits
  <2>1. ASSUME NEW p \in Prompt!Texts, draft' = [draft EXCEPT !.text[p] = promptFile[p]], k # Len(PromptBootstrap) + 1,
               PromptRead(k + 1) \subseteq PromptRead(k) \cup {p}
        PROVE  /\ draft' \in Prompt!Prompt
               /\ \A q \in PromptRead(k + 1) : draft'.text[q] = promptFile[q] \/ (q \in PromptRead(k) /\ draft'.text[q] = draft.text[q])
               /\ draft'.skills = draft.skills /\ draft'.listed = draft.listed
    <3>1. draft' = PromptDraft(p) /\ PromptRead(k + 1) \subseteq PromptRead(k) \cup {p}
      BY <2>1 DEF PromptDraft
    <3>2. /\ draft' \in Prompt!Prompt /\ draft'.skills = draft.skills /\ draft'.listed = draft.listed
          /\ draft'.text[p] = promptFile[p]
          /\ \A q \in Prompt!Texts : q # p => draft'.text[q] = draft.text[q]
      BY <1>1, <3>1, PromptReadText
    <3> QED
      BY <1>6, <3>1, <3>2
  <2>2. CASE k <= Len(PromptBootstrap)
    <3>1. PromptBootstrap[k] \in Prompt!Texts
      BY <2>2, PromptTrackedFacts, PromptPathFacts
    <3>2. draft' = [draft EXCEPT !.text[PromptBootstrap[k]] = promptFile[PromptBootstrap[k]]]
      BY <1>2, <2>2, PromptTrackedFacts DEF Prompt!Build
    <3>3. PromptRead(k + 1) \subseteq PromptRead(k) \cup {PromptBootstrap[k]}
      BY <2>2, PromptTrackedFacts DEF PromptRead
    <3>4. k # Len(PromptBootstrap) + 1
      BY <2>2, PromptTrackedFacts
    <3>5. /\ draft' \in Prompt!Prompt
          /\ \A x \in PromptRead(k + 1) : draft'.text[x] = promptFile[x] \/ (x \in PromptRead(k) /\ draft'.text[x] = draft.text[x])
          /\ draft'.skills = draft.skills /\ draft'.listed = draft.listed
      BY <2>1, <3>1, <3>2, <3>3, <3>4
    <3> QED
      BY <3>4, <3>5
  <2>3. CASE k = Len(PromptBootstrap) + 1
    <3>1. draft' = [draft EXCEPT !.skills = Prompt!BuildSkillsSummary, !.listed = edits]
      BY <1>2, <2>3, PromptTrackedFacts DEF Prompt!Build
    <3>2. draft = [text |-> draft.text, skills |-> draft.skills, listed |-> draft.listed] /\ draft.text \in [Prompt!Texts -> Prompt!State]
      BY <1>1 DEF Prompt!TypeOK, Prompt!Prompt
    <3>3. draft' = [text |-> draft.text, skills |-> Prompt!BuildSkillsSummary, listed |-> edits]
      BY <3>1, <3>2
    <3>4. Prompt!BuildSkillsSummary \subseteq Prompt!SkillFiles \X (0..PromptMaxEdits)
      <4>1. \A f \in Prompt!SkillFiles : promptFile[f].edit \in 0..PromptMaxEdits
        BY <1>1, PromptPathFacts DEF Prompt!TypeOK, Prompt!State
      <4> QED
        BY <4>1 DEF Prompt!BuildSkillsSummary, Prompt!ListSkills
    <3>5. edits \in 0..PromptMaxEdits
      BY <1>1 DEF Prompt!TypeOK
    <3>6. draft' \in Prompt!Prompt
      BY <3>2, <3>3, <3>4, <3>5 DEF Prompt!Prompt
    <3>7. PromptRead(k + 1) \subseteq PromptRead(k)
      BY <2>3, PromptTrackedFacts DEF PromptRead
    <3> QED
      BY <2>3, <3>3, <3>6, <3>7
  <2>4. CASE k = Len(PromptBootstrap) + 2
    <3>1. PromptMemory \in Prompt!Texts
      BY PromptTrackedFacts, PromptPathFacts
    <3>2. draft' = [draft EXCEPT !.text[PromptMemory] = promptFile[PromptMemory]]
      BY <1>2, <2>4, PromptTrackedFacts DEF Prompt!Build
    <3>3. PromptRead(k + 1) \subseteq PromptRead(k) \cup {PromptMemory}
      BY <2>4, PromptTrackedFacts DEF PromptRead
    <3>4. k # Len(PromptBootstrap) + 1
      BY <2>4, PromptTrackedFacts
    <3>5. /\ draft' \in Prompt!Prompt
          /\ \A x \in PromptRead(k + 1) : draft'.text[x] = promptFile[x] \/ (x \in PromptRead(k) /\ draft'.text[x] = draft.text[x])
          /\ draft'.skills = draft.skills /\ draft'.listed = draft.listed
      BY <2>1, <3>1, <3>2, <3>3, <3>4
    <3> QED
      BY <3>4, <3>5
  <2> QED
    BY <1>1, <1>2, <2>2, <2>3, <2>4, PromptTrackedFacts
<1>8. Prompt!TypeOK'
  BY <1>1, <1>3, <1>7 DEF Prompt!TypeOK, Prompt!disk, PromptStates
<1>9. PromptFilesOK' /\ PromptCacheOK' /\ PromptCallsOK'
  BY <1>1, PromptQuiet DEF PromptIInv, PromptCacheOK, PromptCallsOK, Prompt!disk
<1>10. PromptGotOK'
  BY <1>1, PromptQuiet DEF PromptIInv, PromptGotOK, PromptFreshText, PromptFreshSkills,
       PromptSkillEdited, Prompt!Current, Prompt!ComeAndGone, Prompt!disk
<1>11. PromptCheckOK'
  BY <1>3, <1>4 DEF PromptCheckOK
<1>12. PromptBuildOK'
  <2>1. PromptBaseOK(baseline, edits)'
    BY <1>1 DEF PromptBaseOK, Prompt!disk
  <2>2. \A p \in PromptRead(k + 1) : promptFile[p].edit > draft'.text[p].edit =>
            promptFile[p].edit >= baseline.maxMtime /\ promptFile[p].edit > since[c]
    <3>1. \A p \in PromptRead(k + 1) : p \in Prompt!Texts
      <4>1. k + 1 \in Nat
        OBVIOUS
      <4> QED
        BY PromptTrackedFacts, PromptPathFacts DEF PromptRead
    <3>2. \A p \in PromptRead(k + 1) : promptFile[p].edit \in Nat
      BY <1>1, <3>1, PromptPathFacts DEF Prompt!TypeOK, Prompt!State
    <3> QED
      BY <1>5, <1>7, <3>2
  <2>3. k + 1 > Len(PromptBootstrap) + 1 =>
            /\ draft'.listed <= edits /\ draft'.listed >= since[c]
            /\ PromptBaseOK(baseline, draft'.listed) /\ PromptSkillsOK(draft)'
    <3>1. CASE k = Len(PromptBootstrap) + 1
      <4>1. edits \in Nat /\ since[c] <= edits
        BY <1>1 DEF PromptIInv, PromptCallsOK, Prompt!TypeOK
      <4>2. PromptSkillsOK(draft)'
        BY <1>1, <1>7, <3>1, PromptQuiet DEF PromptSkillsOK
      <4> QED
        BY <1>1, <1>7, <3>1, <4>1, <4>2
    <3>2. CASE k # Len(PromptBootstrap) + 1
      <4>1. k + 1 > Len(PromptBootstrap) + 1 => k > Len(PromptBootstrap) + 1
        BY <3>2, PromptTrackedFacts
      <4>2. PromptSkillsOK(draft) => PromptSkillsOK(draft)'
        BY <1>1, <1>7, <3>2, PromptQuiet DEF PromptSkillsOK, Prompt!disk
      <4> QED
        BY <1>5, <1>7, <3>2, <4>1, <4>2
    <3> QED
      BY <3>1, <3>2
  <2>4. k + 1 <= Len(PromptBootstrap) + 3
    BY <1>1, <1>2, PromptTrackedFacts
  <2> QED
    BY <1>1, <1>3, <1>4, <2>1, <2>2, <2>3, <2>4 DEF PromptBuildOK, PromptBaseOK, Prompt!disk
<1>13. PromptLockOK'
  BY <1>1, <1>3 DEF PromptIInv, PromptLockOK
<1> QED
  BY <1>8, <1>9, <1>10, <1>11, <1>12, <1>13 DEF PromptIInv

\* The empty draft
LEMMA PromptStartPrompt ==
  ASSUME Prompt!ConstantsAssumption
  PROVE  Prompt!NoPrompt \in Prompt!Prompt
<1>1. 0 \in 0..PromptMaxEdits /\ Prompt!Absent \in Prompt!State
  BY DEF Prompt!ConstantsAssumption, Prompt!Absent, Prompt!Gone, Prompt!State, Prompt!Times
<1> QED
  BY <1>1 DEF Prompt!NoPrompt, Prompt!Prompt

\* The entry that is stored is fresh for its builder and good for those who check it.
LEMMA PromptStoreKeeps ==
  ASSUME Prompt!ConstantsAssumption, PromptIInv, NEW c \in PromptCallers, Prompt!Store(c)
  PROVE  PromptIInv'
<1> DEFINE d == [draft EXCEPT !.text[PromptNotes] = promptFile[PromptNotes]]
<1>1. /\ Prompt!TypeOK /\ PromptFilesOK /\ UNCHANGED <<Prompt!disk, since>>
      /\ pc[c] = "build" /\ at[c] = Len(PromptBootstrap) + 3
      /\ cached' = [prompt |-> d, base |-> baseline] /\ got' = [got EXCEPT ![c] = cached']
      /\ baseline' = Prompt!NoBaseline /\ draft' = Prompt!NoPrompt /\ writer' = None
      /\ Prompt!Goto(c, "done", 1)
  BY DEF Prompt!Store, PromptIInv
<1>2. /\ pc' \in [PromptCallers -> PromptStates] /\ at' \in [PromptCallers -> 1..Len(Prompt!Tracked) + 2]
      /\ pc'[c] = "done" /\ at'[c] = 1
      /\ \A x \in PromptCallers : x # c => pc'[x] = pc[x] /\ at'[x] = at[x]
  <2>1. "done" \in PromptStates /\ 1 \in 1..Len(Prompt!Tracked) + 2
    BY PromptTrackedFacts DEF PromptStates
  <2> QED
    BY <1>1, <2>1, PromptMoved
<1>3. \A x \in PromptCallers : x # c => pc[x] \notin {"check", "recheck", "baseline", "build"}
  BY <1>1, PromptAlone DEF PromptIInv
<1>4. /\ got'[c] = cached' /\ got' = [x \in PromptCallers |-> got'[x]]
      /\ \A x \in PromptCallers : x # c => got'[x] = got[x]
  BY <1>1, PromptReturned DEF PromptIInv
<1>5. \A p \in Prompt!Elems(Prompt!sourcePaths) : p \in PromptRead(Len(PromptBootstrap) + 3)
  BY PromptTrackedFacts DEF PromptRead
<1>6. /\ \A p \in Prompt!Elems(Prompt!sourcePaths) : promptFile[p].edit > draft.text[p].edit =>
            promptFile[p].edit >= baseline.maxMtime /\ promptFile[p].edit > since[c]
      /\ draft.listed <= edits /\ draft.listed >= since[c]
      /\ PromptBaseOK(baseline, draft.listed) /\ PromptSkillsOK(draft)
  <2>1. Len(PromptBootstrap) + 3 > Len(PromptBootstrap) + 1
    BY PromptTrackedFacts
  <2> QED
    BY <1>1, <1>5, <2>1 DEF PromptIInv, PromptBuildOK
<1>7. /\ d \in Prompt!Prompt /\ d.skills = draft.skills /\ d.listed = draft.listed
      /\ d.text[PromptNotes] = promptFile[PromptNotes]
      /\ \A q \in Prompt!Texts : q # PromptNotes => d.text[q] = draft.text[q]
  <2>1. d = PromptDraft(PromptNotes) /\ PromptNotes \in Prompt!Texts
    BY PromptPathFacts DEF PromptDraft
  <2> HIDE DEF d
  <2> QED
    BY <1>1, <2>1, PromptReadText
<1>8. \A p \in Prompt!Elems(Prompt!sourcePaths) : d.text[p] = promptFile[p] \/ d.text[p] = draft.text[p]
  BY <1>7, PromptPathFacts
<1>9. \A p \in Prompt!Elems(Prompt!sourcePaths) : promptFile[p].edit \in Nat
  BY <1>1, PromptPathFacts DEF Prompt!TypeOK, Prompt!State
<1> HIDE DEF d
<1>10. cached'.prompt = d /\ cached'.base = baseline /\ baseline \in Prompt!Baseline
  BY <1>1 DEF Prompt!TypeOK
<1>11. Prompt!NoBaseline \in Prompt!Baseline /\ Prompt!NoPrompt \in Prompt!Prompt /\ PromptBaseOK(Prompt!NoBaseline, edits)
  <2>1. Prompt!NoBaseline \in Prompt!Baseline /\ PromptBaseOK(Prompt!NoBaseline, edits)
    BY <1>1, PromptBaselineStep DEF PromptIInv, PromptBuildOK
  <2>2. Prompt!NoPrompt \in Prompt!Prompt
    BY PromptStartPrompt
  <2> QED
    BY <2>1, <2>2
<1>12. Prompt!TypeOK'
  <2>1. cached' \in [prompt : {cached'.prompt}, base : {cached'.base}]
    BY <1>1, <1>10
  <2>2. cached'.prompt \in Prompt!Prompt /\ cached'.base \in Prompt!Baseline
    BY <1>7, <1>10
  <2>3. \A x \in PromptCallers : got'[x] = None \/ got'[x].prompt \in Prompt!Prompt
    BY <1>1, <1>4, <2>2 DEF Prompt!TypeOK
  <2> QED
    BY <1>1, <1>2, <1>11, <2>1, <2>2, <2>3 DEF Prompt!TypeOK, Prompt!disk, PromptStates
<1>13. PromptFilesOK' /\ PromptCallsOK'
  BY <1>1, <1>4, PromptQuiet DEF PromptIInv, PromptCallsOK, Prompt!disk
<1>14. PromptEntryOK(cached')
  <2>1. PromptSkillsOK(d)
    BY <1>6, <1>7 DEF PromptSkillsOK
  <2>2. \A p \in Prompt!Elems(Prompt!sourcePaths) : PromptTextOK(d.text, baseline, p)
    BY <1>6, <1>8, <1>9 DEF PromptTextOK
  <2>3. /\ cached'.prompt \in Prompt!Prompt /\ cached'.base \in Prompt!Baseline /\ cached'.prompt.listed <= edits
        /\ PromptBaseOK(cached'.base, cached'.prompt.listed)
    BY <1>6, <1>7, <1>10
  <2>4. PromptSkillsOK(cached'.prompt) /\ \A p \in Prompt!Elems(Prompt!sourcePaths) : PromptTextOK(cached'.prompt.text, cached'.base, p)
    BY <1>10, <2>1, <2>2
  <2> QED
    BY <2>3, <2>4 DEF PromptEntryOK
<1>15. PromptCacheOK'
  BY <1>1, <1>14, PromptQuiet DEF PromptCacheOK, PromptEntryOK, PromptSkillsOK,
       PromptTextOK, Prompt!disk
<1>16. PromptGotOK'
  <2>1. ASSUME NEW x \in PromptCallers, x # c, got[x] # None
        PROVE  /\ \A p \in Prompt!Elems(Prompt!sourcePaths) : PromptFreshText(got[x], p, x)
               /\ PromptFreshSkills(got[x], x)
    BY <2>1 DEF PromptIInv, PromptGotOK
  <2>2. ASSUME NEW x \in PromptCallers, x # c, got'[x] # None
        PROVE  /\ \A p \in Prompt!Elems(Prompt!sourcePaths) : PromptFreshText(got[x], p, x)'
               /\ PromptFreshSkills(got[x], x)'
    BY <1>1, <1>4, <2>1, <2>2, PromptQuiet DEF PromptFreshText, PromptFreshSkills,
         PromptSkillEdited, Prompt!Current, Prompt!ComeAndGone, Prompt!disk
  <2>3. \A p \in Prompt!Elems(Prompt!sourcePaths) : Prompt!Current(d.text[p], p) \/ promptFile[p].edit > since[c]
    <3>1. \A p \in Prompt!Elems(Prompt!sourcePaths) : draft.text[p].edit \in Nat
      BY <1>1, PromptPathFacts DEF Prompt!TypeOK, Prompt!Prompt, Prompt!State
    <3> QED
      BY <1>6, <1>8, <1>9, <3>1 DEF Prompt!Current
  <2>4. d.skills = Prompt!BuildSkillsSummary \/ PromptSkillEdited(c)
    <3>1. \A f \in Prompt!SkillFiles : promptFile[f].edit \in Nat
      BY <1>1, PromptPathFacts DEF Prompt!TypeOK, Prompt!State
    <3>2. draft.listed \in Nat /\ since[c] \in Nat
      BY <1>1 DEF Prompt!TypeOK, Prompt!Prompt
    <3> QED
      BY <1>6, <1>7, <3>1, <3>2 DEF PromptSkillsOK, PromptSkillEdited
  <2>5. /\ \A p \in Prompt!Elems(Prompt!sourcePaths) : PromptFreshText(got[c], p, c)'
        /\ PromptFreshSkills(got[c], c)'
    BY <1>1, <1>4, <1>10, <2>3, <2>4, PromptQuiet DEF PromptFreshText, PromptFreshSkills,
         PromptSkillEdited, Prompt!Current, Prompt!disk
  <2> QED
    BY <2>2, <2>5 DEF PromptGotOK
<1>17. PromptCheckOK'
  BY <1>2, <1>3 DEF PromptCheckOK
<1>18. PromptBuildOK'
  <2>1. PromptBaseOK(baseline, edits)'
    BY <1>1, <1>11 DEF PromptBaseOK, Prompt!disk
  <2> QED
    BY <1>2, <1>3, <2>1 DEF PromptBuildOK
<1>19. PromptLockOK'
  BY <1>1, <1>2, <1>3 DEF PromptIInv, PromptLockOK, Prompt!ConstantsAssumption
<1> QED
  BY <1>12, <1>13, <1>15, <1>16, <1>17, <1>18, <1>19 DEF PromptIInv

\* The first state.
LEMMA PromptInit == ASSUME Prompt!ConstantsAssumption, Prompt!Init PROVE PromptIInv
<1>1. /\ PromptMaxEdits \in Nat /\ 0 \in Prompt!Times /\ 1 \in Prompt!Times /\ 0 \in 0..PromptMaxEdits
      /\ 1 \in 1..Len(Prompt!Tracked) + 2 /\ PromptBootstrap[1] \in Prompt!Texts
  <2>1. 1 \in 1..Len(PromptBootstrap)
    BY PromptTrackedFacts
  <2> QED
    BY <2>1, PromptTrackedFacts, PromptPathFacts DEF Prompt!ConstantsAssumption,
         Prompt!Times
<1>2. \A p \in Prompt!Paths : /\ promptFile[p] \in Prompt!State /\ promptFile[p].edit = 0 /\ promptFile[p].mtime \in {0, 1}
                              /\ promptFile[p].exists => promptFile[p].mtime = 1
  BY <1>1 DEF Prompt!Init, Prompt!State, Prompt!Absent, Prompt!Gone
<1>3. \A p \in Prompt!Elems(PromptRoots) \cup Prompt!SkillFiles : p \in Prompt!Paths /\ promptFile[p].exists /\ promptFile[p].mtime = 1
  BY PromptPathFacts DEF Prompt!Init
<1>4. Prompt!NoBaseline \in Prompt!Baseline /\ PromptBaseOK(Prompt!NoBaseline, 0)
  <2>1. Prompt!NoBaseline \in Prompt!Baseline
    BY <1>1 DEF Prompt!NoBaseline, Prompt!Baseline
  <2>2. PromptBaseOK(Prompt!NoBaseline, 0)
    BY DEF Prompt!NoBaseline, PromptBaseOK
  <2> QED
    BY <2>1, <2>2
<1>5. /\ clock = 1 /\ edits = 0 /\ cached = None /\ writer = None /\ baseline = Prompt!NoBaseline /\ draft = Prompt!NoPrompt
      /\ promptFile \in [Prompt!Paths -> Prompt!State]
      /\ pc \in [PromptCallers -> PromptStates] /\ \A c \in PromptCallers : pc[c] = "idle"
      /\ at \in [PromptCallers -> 1..Len(Prompt!Tracked) + 2]
      /\ since \in [PromptCallers -> 0..PromptMaxEdits] /\ \A c \in PromptCallers : since[c] = 0
      /\ got = [c \in PromptCallers |-> got[c]] /\ \A c \in PromptCallers : got[c] = None
  <2>1. promptFile = [p \in Prompt!Paths |-> promptFile[p]]
    BY DEF Prompt!Init
  <2> QED
    BY <1>1, <1>2, <2>1 DEF Prompt!Init, PromptStates
<1>6. Prompt!TypeOK
  BY <1>1, <1>4, <1>5, PromptStartPrompt DEF Prompt!TypeOK, PromptStates
<1>7. PromptFilesOK
  <2>1. \A p \in Prompt!Paths : promptFile[p].edit <= edits /\ promptFile[p].mtime <= clock
    BY <1>2, <1>5
  <2>2. \A p \in Prompt!Texts : promptFile[p].exists => promptFile[p].mtime = promptFile[p].edit + 1
    BY <1>2, PromptPathFacts
  <2>3. \A p \in Prompt!Elems(PromptRoots) : promptFile[p].exists /\ promptFile[p].mtime = promptFile[p].edit + 1
    BY <1>2, <1>3
  <2>4. \A f \in Prompt!SkillFiles :
          /\ promptFile[f].exists => promptFile[f].mtime \in {promptFile[f].edit + 1, 0 - promptFile[f].edit}
          /\ ~promptFile[f].exists => promptFile[Prompt!Root(f)].edit >= promptFile[f].edit
    BY <1>2, <1>3
  <2> QED
    BY <1>5, <2>1, <2>2, <2>3, <2>4 DEF PromptFilesOK
<1>8. PromptCacheOK /\ PromptGotOK /\ PromptCheckOK /\ PromptLockOK /\ PromptCallsOK
  BY <1>5 DEF PromptCacheOK, PromptGotOK, PromptCheckOK, PromptLockOK, PromptCallsOK,
       Prompt!ConstantsAssumption
<1>9. PromptBuildOK
  BY <1>4, <1>5 DEF PromptBuildOK
<1> QED
  BY <1>6, <1>7, <1>8, <1>9 DEF PromptIInv

\* Every step keeps the invariant.
LEMMA PromptStep ==
  ASSUME Prompt!ConstantsAssumption, PromptIInv, [Prompt!Next]_(Prompt!vars)
  PROVE  PromptIInv'
<1>1. ASSUME NEW p \in Prompt!Texts, Prompt!Write(p) \/ Prompt!Delete(p) PROVE PromptIInv'
  BY <1>1, PromptWriteEdits, PromptEditKeeps DEF PromptIInv
<1>2. ASSUME NEW f \in Prompt!SkillFiles, Prompt!CopySkill(f) \/ Prompt!TouchSkill(f) \/ \E v \in BOOLEAN : Prompt!WriteSkill(f, v)
      PROVE  PromptIInv'
  BY <1>2, PromptSkillEdits, PromptTouchEdits, PromptEditKeeps DEF PromptIInv
<1>3. ASSUME NEW c \in PromptCallers, Prompt!Step(c) PROVE PromptIInv'
  BY <1>3, PromptBeginKeeps, PromptLockKeeps, PromptCheckKeeps, PromptHitKeeps,
       PromptBaselineKeeps, PromptBuildKeeps, PromptStoreKeeps, PromptReturnKeeps
       DEF Prompt!Step
<1>4. CASE UNCHANGED Prompt!vars
  <2>1. UNCHANGED <<Prompt!disk, cached, writer, baseline, draft, pc, at, since, got>> /\ PromptFilesOK
    BY <1>4 DEF Prompt!vars, PromptIInv
  <2>2. Prompt!TypeOK' /\ PromptFilesOK' /\ PromptCacheOK' /\ PromptCallsOK' /\ PromptLockOK'
    BY <2>1, PromptQuiet DEF PromptIInv, Prompt!TypeOK, PromptCacheOK, PromptCallsOK,
         PromptLockOK, Prompt!disk
  <2>3. PromptGotOK'
    BY <2>1, PromptQuiet DEF PromptIInv, PromptGotOK, PromptFreshText, PromptFreshSkills,
         PromptSkillEdited, Prompt!Current, Prompt!ComeAndGone, Prompt!disk
  <2>4. PromptCheckOK'
    BY <2>1, PromptQuiet DEF PromptIInv, PromptCheckOK, PromptFreshText,
         PromptSkillEdited, Prompt!Current, Prompt!ComeAndGone, Prompt!disk
  <2>5. PromptBuildOK'
    BY <2>1, PromptQuiet DEF PromptIInv, PromptBuildOK, PromptBaseOK, Prompt!disk
  <2> QED
    BY <2>2, <2>3, <2>4, <2>5 DEF PromptIInv
<1> QED
  BY <1>1, <1>2, <1>3, <1>4, PromptInvalidateKeeps DEF Prompt!Next

\* BuildSystemPromptWithCache: whatever is edited meanwhile and by whatever way,
\* every call returns texts and skills as they were when it began or later, and
\* one caller at a time builds.  Two edits must not share a tick of the clock.
THEOREM PromptFresh ==
  ASSUME Prompt!ConstantsAssumption PROVE Prompt!Spec => [](Prompt!TypeOK /\ Prompt!PromptInv)
<1>1. Prompt!Init => PromptIInv
  BY PromptInit
<1>2. PromptIInv /\ [Prompt!Next]_(Prompt!vars) => PromptIInv'
  BY PromptStep
<1>3. PromptIInv => Prompt!TypeOK /\ Prompt!PromptInv
  <2> SUFFICES ASSUME PromptIInv PROVE Prompt!TypeOK /\ Prompt!PromptInv
    OBVIOUS
  <2>1. Prompt!TextsAreFresh /\ Prompt!SkillsAreFresh
    BY DEF PromptIInv, PromptGotOK, PromptFreshText, PromptFreshSkills, PromptSkillEdited,
         Prompt!TextsAreFresh, Prompt!SkillsAreFresh
  <2>2. Prompt!OneBuilder
    BY DEF PromptIInv, PromptLockOK, Prompt!OneBuilder, Prompt!Reading,
         Prompt!ConstantsAssumption
  <2> QED
    BY <2>1, <2>2 DEF PromptIInv, Prompt!PromptInv
<1> QED
  BY <1>1, <1>2, <1>3, PTL DEF Prompt!Spec

-----------------------------------------------------------------------------
(* Gateway                                                                 *)

\* What the main loop holds and what waits for it has been read before and was
\* valid then; versions stay what they are; what waits is the newest of them.
ProcessIInv ==
    /\ Process!TypeOK
    /\ cfg <= newCfg
    /\ configChan # 0 => newCfg <= configChan /\ content[configChan] # "invalid"
    /\ content[newCfg] # "invalid" /\ content[cfg] = "ok"
    /\ main = "swap" => content[newCfg] = "ok"

\* The process starts with a good first version.
LEMMA ProcessInit ==
  ASSUME Process!ConstantsAssumption, Process!Init
  PROVE  ProcessIInv
<1>1. content \in [Process!Versions -> {"ok", "invalid", "refused"}] /\ 1 \in Process!Versions /\ content[1] = "ok"
  BY DEF Process!ConstantsAssumption, Process!Init, Process!Versions
<1>2. Process!TypeOK
  <2>1. gwFile = 1 /\ 1 \in 1..1 /\ 0 \in 0..1 /\ 1 \in 1..6
    BY DEF Process!Init
  <2> QED
    BY <1>1, <2>1 DEF Process!Init, Process!TypeOK
<1> QED
  BY <1>1, <1>2 DEF Process!Init, ProcessIInv

\* ProcessIInv is inductive, and no step goes back to an older version.
LEMMA ProcessStep ==
  ASSUME Process!ConstantsAssumption, ProcessIInv, [Process!Next]_(Process!vars)
  PROVE  ProcessIInv' /\ cfg' >= cfg
<1> USE DEF Process!ConstantsAssumption, ProcessIInv, Process!TypeOK, Process!Versions,
        Process!vars, Process!watchVars, Process!mainVars
<1>1. CASE \E c \in {"ok", "invalid", "refused"} : Process!Edit(c)
  <2> PICK c \in {"ok", "invalid", "refused"} : Process!Edit(c)
    BY <1>1
  <2>1. gwFile' \in Process!Versions /\ \A v \in 1..gwFile : content'[v] = content[v]
    BY DEF Process!Edit
  <2>2. content' \in [Process!Versions -> {"ok", "invalid", "refused"}]
    BY <2>1 DEF Process!Edit
  <2> QED
    BY <2>1, <2>2 DEF Process!Edit
<1>2. CASE Process!Interrupt
  BY <1>2 DEF Process!Interrupt
<1>3. CASE Process!Tick
  BY <1>3 DEF Process!Tick
<1>4. CASE Process!LoadInvalid
  BY <1>4 DEF Process!LoadInvalid
<1>5. CASE Process!LoadValid
  BY <1>5 DEF Process!LoadValid
<1>6. CASE Process!TakeConfig
  BY <1>6 DEF Process!TakeConfig
<1>7. CASE Process!Reload
  <2>1. CASE Process!stopAndCleanupServices
    BY <2>1 DEF Process!stopAndCleanupServices
  <2>2. CASE Process!CreateProvider
    <3>1. UNCHANGED <<gwFile, content, Process!watchVars, newCfg, cfg, started, dead, signal>>
      BY <2>2 DEF Process!CreateProvider
    <3>2. rejected' \subseteq Process!Versions /\ next' = 1 /\ main' \in {"restart", "swap"}
      <4>1. newCfg \in Process!Versions
        OBVIOUS
      <4>2. \/ main' = "restart" /\ rejected' = rejected \cup {newCfg}
            \/ main' = "swap" /\ rejected' = rejected
        BY <2>2 DEF Process!CreateProvider
      <4>3. rejected' \subseteq Process!Versions
        BY <4>1, <4>2
      <4> QED
        BY <2>2, <4>2, <4>3 DEF Process!CreateProvider
    <3>3. main' = "swap" => content[newCfg] = "ok"
      BY <2>2 DEF Process!CreateProvider
    <3>4. Process!TypeOK'
      BY <3>1, <3>2
    <3> QED
      BY <3>1, <3>3, <3>4
  <2>3. CASE \E ok \in BOOLEAN : Process!Swap(ok)
    BY <2>3 DEF Process!Swap
  <2>4. CASE \E ok \in BOOLEAN : Process!StartService(ok)
    BY <2>4 DEF Process!StartService, Process!Services, Process!AllServices,
         Process!Essential
  <2>5. CASE Process!RestartReturns
    BY <2>5 DEF Process!RestartReturns
  <2> QED BY <1>7, <2>1, <2>2, <2>3, <2>4, <2>5 DEF Process!Reload
<1>8. CASE Process!shutdownGateway
  BY <1>8 DEF Process!shutdownGateway
<1>9. CASE UNCHANGED Process!vars
  BY <1>9
<1> QED
  BY <1>1, <1>2, <1>3, <1>4, <1>5, <1>6, <1>7, <1>8, <1>9 DEF Process!Next

\* The configuration in force is good, whatever is written and whatever fails.
THEOREM ProcessGoodInForce ==
  ASSUME Process!ConstantsAssumption
  PROVE  Process!Spec => [](Process!TypeOK /\ Process!ConfigInForceIsGood)
<1>1. Process!Init => ProcessIInv
  BY ProcessInit
<1>2. ProcessIInv /\ [Process!Next]_(Process!vars) => ProcessIInv'
  BY ProcessStep
<1>3. ProcessIInv => Process!TypeOK /\ Process!ConfigInForceIsGood
  BY DEF ProcessIInv, Process!ConfigInForceIsGood
<1> QED
  BY <1>1, <1>2, <1>3, PTL DEF Process!Spec

\* No reload goes back to an older version.
THEOREM ProcessInOrderInForce ==
  ASSUME Process!ConstantsAssumption
  PROVE  Process!Spec => Process!NeverOlder
<1>1. Process!Init => ProcessIInv
  BY ProcessInit
<1>2. ProcessIInv /\ [Process!Next]_(Process!vars) => ProcessIInv' /\ [cfg' >= cfg]_(Process!vars)
  BY ProcessStep
<1> QED
  BY <1>1, <1>2, PTL DEF Process!Spec, Process!NeverOlder

-----------------------------------------------------------------------------
(* The composition                                                         *)

\* Whichever component takes the steps, the others stand still: the composition
\* implements each of them.
LEMMA MediaImplemented == MCSpec => Spec
<1>1. MCInit => Init
  BY DEF MCInit
<1>2. [MCNext]_allVars => [Next]_vars
  BY DEF MCNext, MediaRuns, CronRuns, HeartbeatRuns, GatewayRuns, PromptRuns, allVars
<1> QED
  BY <1>1, <1>2, PTL DEF MCSpec, Spec

LEMMA CronImplemented == MCSpec => Cron!Spec
<1>1. MCInit => Cron!Init
  BY DEF MCInit
<1>2. [MCNext]_allVars => [Cron!Next]_(Cron!vars)
  BY DEF MCNext, MediaRuns, CronRuns, HeartbeatRuns, GatewayRuns, PromptRuns, allVars, cronVars, Cron!vars
<1> QED
  BY <1>1, <1>2, PTL DEF MCSpec, Cron!Spec

LEMMA HeartImplemented == MCSpec => Heart!Spec
<1>1. MCInit => Heart!Init
  BY DEF MCInit
<1>2. [MCNext]_allVars => [Heart!Next]_(Heart!vars)
  BY DEF MCNext, MediaRuns, CronRuns, HeartbeatRuns, GatewayRuns, PromptRuns, allVars, beatVars,
         Heart!vars, Heart!stateVars, Heart!beatVars
<1> QED
  BY <1>1, <1>2, PTL DEF MCSpec, Heart!Spec

LEMMA ProcessImplemented == MCSpec => Process!Spec
<1>1. MCInit => Process!Init
  BY DEF MCInit
<1>2. [MCNext]_allVars => [Process!Next]_(Process!vars)
  BY DEF MCNext, MediaRuns, CronRuns, HeartbeatRuns, GatewayRuns, PromptRuns, allVars, gwVars,
         Process!vars, Process!watchVars, Process!mainVars
<1> QED
  BY <1>1, <1>2, PTL DEF MCSpec, Process!Spec

LEMMA PromptImplemented == MCSpec => Prompt!Spec
<1>1. MCInit => Prompt!Init
  BY DEF MCInit
<1>2. [MCNext]_allVars => [Prompt!Next]_(Prompt!vars)
  BY DEF MCNext, MediaRuns, CronRuns, HeartbeatRuns, GatewayRuns, PromptRuns, allVars, promptVars,
         Prompt!vars, Prompt!disk
<1> QED
  BY <1>1, <1>2, PTL DEF MCSpec, Prompt!Spec

\* While a reference to a downloaded attachment resolves, its file exists:
\* FileMediaStore's Store, Resolve, ReleaseAll and CleanExpired in any order.
THEOREM MediaAlways == MCSpec => []MediaInv
<1>1. TypeOK /\ DownloadResolves => MediaInv
  BY DEF MediaInv
<1> QED
  BY <1>1, MediaImplemented, MapsAlwaysAgree, DownloadsResolve, PTL

\* CronService: no one-shot job runs twice, no recurring one is forgotten, and no
\* job that was added is lost, for any number of jobs, ticks and crashes.
THEOREM CronAlways == MCSpec => []CronInv
<1>1. Cron!TypeOK /\ Cron!OneShotAtMostOnce /\ Cron!RecurringNotForgotten /\ Cron!JobsAreKept => CronInv
  BY DEF CronInv
<1> QED
  BY <1>1, CronImplemented, CronJobsRunRight, InstancesAssumption, PTL

\* The state file after a crash, the configuration in force after any reload and
\* the system prompt that a call returns are good, for any channels, versions,
\* callers and files.
THEOREM FilesAlways == MCSpec => []FilesInv
<1>1. /\ Heart!TypeOK /\ Heart!StateFileSurvives
      /\ Process!TypeOK /\ Process!ConfigInForceIsGood
      /\ Prompt!TypeOK /\ Prompt!PromptInv
      => FilesInv
  BY DEF FilesInv
<1> QED
  BY <1>1, HeartImplemented, HeartStateFileSafe, ProcessImplemented, ProcessGoodInForce,
     PromptImplemented, PromptFresh, InstancesAssumption, PTL

\* No beat begins on a heartbeat service that a reload stopped, and no reload puts
\* an older version of the configuration in force.
THEOREM NewestAlways == MCSpec => OnlyTheNewest
  BY HeartImplemented, HeartBeatsNewest, ProcessImplemented, ProcessInOrderInForce,
     InstancesAssumption, PTL DEF OnlyTheNewest
=============================================================================
