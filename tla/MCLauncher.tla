----------------------------- MODULE MCLauncher -----------------------------
(***************************************************************************)
(* The web launcher: the gateway process it starts and stops, that         *)
(* process's log, OAuth logins with the credential file, and the           *)
(* configuration file; the skills it shares with the command line and the  *)
(* agent, how they are found and installed.                                *)
(*                                                                         *)
(* The components share no variable (what one takes from another is said   *)
(* in the head of its module), so the steps of one of them, chosen at the  *)
(* start, tell all there is: `part` names it, the others stay where they   *)
(* began.                                                                  *)
(***************************************************************************)
EXTENDS OAuthFlows, TLC

CONSTANTS
    User, Polls, MaxProcs, MaxRestarts, cap, MaxLines, MaxRuns, Tabs,
    SharedNames, SharedVendors, MaxShared, Tab, Names, Vendors, MaxModels,
    SkillCalls, Tools, SkillKinds,
    Queries, Unlike, maxEntries, ttl, Registries, Callers, MaxSearches, MaxTime

\* Queries are alike, but one that is like no other.
Alike == [p \in Queries \X Queries |->
             IF p[1] = p[2] THEN 10 ELSE IF Unlike \in {p[1], p[2]} THEN 2 ELSE 8]

VARIABLES
    part,    \* the component whose steps are taken, chosen at the start
    \* LauncherGateway
    proc, signaled, killed, cmd, runtimeStatus, expired, waiter, prober, user,
    previousCmd, restarts, poll, lastEvent,
    \* LogBuffer
    lines, total, runID, log, written, offset, clientRun, logPc, from, seen,
    \* LauncherConfig
    confFile, view, job, confCopy,
    \* SkillInstall
    kind, tool, blocked, dir, flag, skillPc, result, found, touched,
    \* SkillSearch
    entries, order, now, searchPc, query, results, searches, uses, storedAt

\* One user, who waits for each answer, beside status requests.
Process == INSTANCE LauncherGateway WITH
    Users <- {User}, Polls <- Polls, MaxProcs <- MaxProcs,
    MaxRestarts <- MaxRestarts

\* A ring that wraps, runs that follow one another.
Log == INSTANCE LogBuffer WITH
    cap <- cap, MaxLines <- MaxLines, MaxRuns <- MaxRuns, pc <- logPc

\* Tabs whose saves overlap.
TwoTabs == INSTANCE LauncherConfig WITH
    Clients <- Tabs, Names <- SharedNames, Vendors <- SharedVendors,
    MaxModels <- MaxShared, file <- confFile, copy <- confCopy

\* One tab, more models.
OneTab == INSTANCE LauncherConfig WITH
    Clients <- {Tab}, Names <- Names, Vendors <- Vendors,
    MaxModels <- MaxModels, file <- confFile, copy <- confCopy

\* Any calls, on tools of one generation or of two.
Install == INSTANCE SkillInstall WITH
    Calls <- SkillCalls, Tools <- Tools, Kinds <- SkillKinds, pc <- skillPc

\* Searches for queries, two of them alike.
Search == INSTANCE SkillSearch WITH Similarity <- Alike, pc <- searchPc

ASSUME InstancesAssumption ==
    /\ Process!ConstantsAssumption
    /\ Log!ConstantsAssumption
    /\ TwoTabs!ConstantsAssumption
    /\ OneTab!ConstantsAssumption
    /\ Install!ConstantsAssumption
    /\ Search!ConstantsAssumption

procVars ==
    <<proc, signaled, killed, cmd, runtimeStatus, expired, waiter, prober,
      user, previousCmd, restarts, poll, lastEvent>>

logVars ==
    <<lines, total, runID, log, written, offset, clientRun, logPc, from, seen>>

confVars ==
    <<confFile, view, job, confCopy>>

skillVars ==
    <<kind, tool, blocked, dir, flag, skillPc, result, found, touched>>

searchVars ==
    <<entries, order, now, searchPc, query, results, searches, uses, storedAt>>

Parts == {"oauth", "process", "log", "twoTabs", "oneTab", "install", "search"}

allVars == <<part, vars, procVars, logVars, confVars, skillVars, searchVars>>

MCInit ==
    /\ part \in Parts
    /\ Init
    /\ Process!Init
    /\ Log!Init
    /\ IF part = "oneTab" THEN OneTab!Init ELSE TwoTabs!Init
    /\ Install!Init
    /\ Search!Init
    /\ part # "oauth" => \A f \in Flows : method[f] = "browser"   \* the others start in one state
    /\ part # "install" =>
          /\ kind = [c \in SkillCalls |-> CHOOSE k \in SkillKinds : TRUE]
          /\ tool = [c \in SkillCalls |-> CHOOSE t \in Tools : TRUE]
          /\ blocked = [c \in SkillCalls |-> FALSE] /\ dir = Install!Absent

OauthRuns ==
    part = "oauth" /\ Next /\ UNCHANGED <<part, procVars, logVars, confVars, skillVars, searchVars>>

ProcessRuns ==
    part = "process" /\ Process!Next /\ UNCHANGED <<part, vars, logVars, confVars, skillVars, searchVars>>

LogRuns ==
    part = "log" /\ Log!Next /\ UNCHANGED <<part, vars, procVars, confVars, skillVars, searchVars>>

TwoTabsRuns ==
    part = "twoTabs" /\ TwoTabs!Next /\ UNCHANGED <<part, vars, procVars, logVars, skillVars, searchVars>>

OneTabRuns ==
    part = "oneTab" /\ OneTab!Next /\ UNCHANGED <<part, vars, procVars, logVars, skillVars, searchVars>>

InstallRuns ==
    part = "install" /\ Install!Next /\ UNCHANGED <<part, vars, procVars, logVars, confVars, searchVars>>

SearchRuns ==
    part = "search" /\ Search!Next /\ UNCHANGED <<part, vars, procVars, logVars, confVars, skillVars>>

MCNext == OauthRuns \/ ProcessRuns \/ LogRuns \/ TwoTabsRuns \/ OneTabRuns \/ InstallRuns \/ SearchRuns

MCSpec == MCInit /\ [][MCNext]_allVars

\* Members of these sets differ in nothing but their names.
MCSymmetry == Permutations(Requests)

-----------------------------------------------------------------------------
\* A flow that reports success has been saved, whatever fails or overlaps.
OAuthInv == part = "oauth" => TypeOK /\ SuccessMeansSaved

\* The launcher never loses a gateway that runs, and a status request never
\* calls a running one anything else.  LinesSince returns what was asked for of
\* that process's log, wrapped or not, and a browser shows the lines of a run in
\* order and once.
ProcessInv ==
    /\ part = "process" => Process!TypeOK /\ Process!NoOrphan
    /\ part = "log" => Log!TypeOK /\ Log!LinesSinceRight /\ Log!ShownInOrder

\* One tab at a time keeps keys with their models and the default in the list;
\* two tabs that undo each other's saves still leave pico and spawn usable.
ConfigInv ==
    /\ part = "oneTab" => OneTab!TypeOK /\ OneTab!KeyOfItsModel /\ OneTab!DefaultListed
    /\ part = "twoTabs" => TwoTabs!TypeOK /\ TwoTabs!PicoUsable /\ TwoTabs!SpawnNotBlocked

\* An install, an import or a removal that has a skill's directory to itself does
\* all of its work or none, whatever fails, calls of one tool take turns, and a
\* blocked skill does not stay.  The cache of searches keeps what was used last
\* and is fresh.
SkillsInv ==
    /\ part = "install" => Install!TypeOK /\ Install!SkillInv
    /\ part = "search" => Search!TypeOK /\ Search!SearchInv

=============================================================================
