----------------------------- MODULE MediaStore -----------------------------
(***************************************************************************)
(* FileMediaStore (pkg/media/store.go): references to files on disk, the   *)
(* two-phase release and cleanup, and who stores files: channels download  *)
(* each to a path of its own, the send_file tool registers a file of the   *)
(* workspace where it is, as often as the model asks it to.                *)
(***************************************************************************)
EXTENDS Naturals, FiniteSets

CONSTANTS
    Downloads,  \* paths channels download to
    Files,      \* paths in the workspace
    Refs,       \* media:// references, each used once
    Scopes,
    Released,   \* scopes released by ReleaseAll (no caller does at present)
    Storers,    \* threads that store: channels and the tool
    MaxAge,
    Reloads,    \* may the store be replaced by a reload?
    None

ASSUME MaxAgeAssumption == MaxAge \in Nat /\ Reloads \in BOOLEAN
ASSUME NoneAssumption == None \notin Downloads \cup Files \cup Scopes
ASSUME ReleasedAssumption == Released \subseteq Scopes
ASSUME PathsAssumption == Downloads \cap Files = {}

Paths == Downloads \cup Files
Removers == {"release", "clean"}

VARIABLES
    disk,           \* files that exist
    fetched,        \* paths downloaded to so far
    path,           \* refs: the path of each reference, or None
    age,            \* time since storedAt
    refToScope,
    scopeToRefs,
    used,           \* references handed out
    storing,        \* [Storers -> [path, scope] of a Store that has seen its file]
    removing,       \* [Removers -> paths left for phase 2]
    kept            \* paths whose removal failed

storeVars == <<path, age, refToScope, scopeToRefs>>
vars == <<disk, fetched, storeVars, used, storing, removing, kept>>

NotStoring == [path |-> None, scope |-> None]

TypeOK ==
    /\ disk \subseteq Paths
    /\ fetched \subseteq Downloads
    /\ path \in [Refs -> Paths \cup {None}]
    /\ age \in [Refs -> 0..MaxAge + 1]
    /\ refToScope \in [Refs -> Scopes \cup {None}]
    /\ scopeToRefs \in [Scopes -> SUBSET Refs]
    /\ used \subseteq Refs
    /\ storing \in [Storers -> [path : Paths, scope : Scopes] \cup {NotStoring}]
    /\ removing \in [Removers -> SUBSET Paths]
    /\ kept \subseteq Paths

Init ==
    /\ disk = Files
    /\ fetched = {}
    /\ path = [r \in Refs |-> None]
    /\ age = [r \in Refs |-> 0]
    /\ refToScope = [r \in Refs |-> None]
    /\ scopeToRefs = [s \in Scopes |-> {}]
    /\ used = {}
    /\ storing = [t \in Storers |-> NotStoring]
    /\ removing = [w \in Removers |-> {}]
    /\ kept = {}

-----------------------------------------------------------------------------

\* A channel downloads an attachment and calls Store, which finds the file.
Download(t, p, s) ==
    /\ storing[t] = NotStoring
    /\ p \notin fetched
    /\ fetched' = fetched \cup {p}
    /\ disk' = disk \cup {p}
    /\ storing' = [storing EXCEPT ![t] = [path |-> p, scope |-> s]]
    /\ UNCHANGED <<storeVars, used, removing, kept>>

\* The send_file tool calls Store: os.Stat, before the lock is taken.
SendFile(t, p, s) ==
    /\ storing[t] = NotStoring
    /\ p \in disk
    /\ storing' = [storing EXCEPT ![t] = [path |-> p, scope |-> s]]
    /\ UNCHANGED <<disk, fetched, storeVars, used, removing, kept>>

\* Store, under the lock.
Store(t, r) ==
    /\ storing[t] # NotStoring
    /\ r \notin used
    /\ used' = used \cup {r}
    /\ path' = [path EXCEPT ![r] = storing[t].path]
    /\ age' = [age EXCEPT ![r] = 0]
    /\ scopeToRefs' = [scopeToRefs EXCEPT ![storing[t].scope] = @ \cup {r}]
    /\ refToScope' = [refToScope EXCEPT ![r] = storing[t].scope]
    /\ storing' = [storing EXCEPT ![t] = NotStoring]
    /\ UNCHANGED <<disk, fetched, removing, kept>>

\* Mutant: the paths of all references are collected
ForgetTooMany(R, w) ==
    /\ removing' = [removing EXCEPT ![w] = {path[r] : r \in Refs} \ {None}]
    /\ path' = [r \in Refs |-> IF r \in R THEN None ELSE path[r]]
    /\ refToScope' = [r \in Refs |-> IF r \in R THEN None ELSE refToScope[r]]
    /\ UNCHANGED <<disk, fetched, age, used, storing, kept>>

\* Phase 1 of both: the references in R are forgotten, their paths collected.
Forget(R, w) ==
    /\ removing' = [removing EXCEPT ![w] = {path[r] : r \in R} \ {None}]
    /\ path' = [r \in Refs |-> IF r \in R THEN None ELSE path[r]]
    /\ refToScope' = [r \in Refs |-> IF r \in R THEN None ELSE refToScope[r]]
    /\ UNCHANGED <<disk, fetched, age, used, storing, kept>>

ReleaseAll(s) ==
    /\ removing["release"] = {}
    /\ scopeToRefs[s] # {}
    /\ Forget(scopeToRefs[s], "release")
    /\ scopeToRefs' = [scopeToRefs EXCEPT ![s] = {}]

Expired == {r \in Refs : path[r] # None /\ age[r] > MaxAge}

\* Mutant: the scopes keep the expired references
CleanExpiredPartly ==
    /\ removing["clean"] = {}
    /\ Expired # {}
    /\ Forget(Expired, "clean")
    /\ UNCHANGED scopeToRefs

\* The cleaner's tick, when there is something to clean.
CleanExpired ==
    /\ removing["clean"] = {}
    /\ Expired # {}
    /\ Forget(Expired, "clean")
    /\ scopeToRefs' = [s \in Scopes |-> scopeToRefs[s] \ Expired]

\* Phase 2, file by file; a file that is gone already is no error.
Remove(w, p) ==
    /\ p \in removing[w]
    /\ removing' = [removing EXCEPT ![w] = @ \ {p}]
    /\ disk' = disk \ {p}
    /\ UNCHANGED <<fetched, storeVars, used, storing, kept>>

\* Any other error is logged.
RemoveFails(w, p) ==
    /\ p \in removing[w] \cap disk
    /\ removing' = [removing EXCEPT ![w] = @ \ {p}]
    /\ kept' = kept \cup {p}
    /\ UNCHANGED <<disk, fetched, storeVars, used, storing>>

\* Time passes.
Tick ==
    /\ \E r \in Refs : path[r] # None /\ age[r] <= MaxAge
    /\ age' = [r \in Refs |-> IF path[r] # None /\ age[r] <= MaxAge THEN age[r] + 1 ELSE age[r]]
    /\ UNCHANGED <<disk, fetched, path, refToScope, scopeToRefs, used, storing, removing, kept>>

\* A reload stops the cleaner and makes a new, empty store.
Reload ==
    /\ Reloads
    /\ \E r \in Refs : path[r] # None
    /\ path' = [r \in Refs |-> None]
    /\ refToScope' = [r \in Refs |-> None]
    /\ scopeToRefs' = [s \in Scopes |-> {}]
    /\ UNCHANGED <<disk, fetched, age, used, storing, removing, kept>>

Next ==
    \/ \E t \in Storers, p \in Downloads, s \in Scopes : Download(t, p, s)
    \/ \E t \in Storers, p \in Files, s \in Scopes : SendFile(t, p, s)
    \/ \E t \in Storers, r \in Refs : Store(t, r)
    \/ \E s \in Released : ReleaseAll(s)
    \/ CleanExpired
    \/ \E w \in Removers, p \in Paths : Remove(w, p)
    \/ \E w \in Removers, p \in Paths : RemoveFails(w, p)
    \/ Tick
    \/ Reload

Spec == Init /\ [][Next]_vars

\* Time passes, the cleaner's ticker fires and its loops run to their end.
FairSpec ==
    /\ Spec
    /\ WF_vars(Tick)
    /\ WF_vars(CleanExpired)
    /\ \A w \in Removers, p \in Paths : WF_vars(Remove(w, p))

-----------------------------------------------------------------------------
(* Properties                                                              *)

\* The three maps agree: a reference that resolves is in the one scope it was
\* stored under, and nothing else is in a scope.
MapsAgree ==
    /\ \A r \in Refs : path[r] # None <=> refToScope[r] # None
    /\ \A s \in Scopes : scopeToRefs[s] = {r \in Refs : refToScope[r] = s}

\* The file of a downloaded attachment exists as long as its reference resolves.
DownloadResolves == \A r \in Refs : path[r] \in Downloads => path[r] \in disk

\* The cleaner removes the file of every reference in the end, unless the file
\* system refuses.
FilesGoAway ==
    \A p \in Downloads : p \in {path[r] : r \in Refs} ~> (p \notin disk \/ p \in kept)

\* TestCleanExpiredKeepsNonExpired: "fresh file should still exist".
NonExpiredFileExists ==
    \A r \in Refs : path[r] # None /\ age[r] <= MaxAge => path[r] \in disk

=============================================================================
