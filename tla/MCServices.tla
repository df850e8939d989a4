----------------------------- MODULE MCServices -----------------------------
(***************************************************************************)
(* The services of the gateway process and what a reload does to them:     *)
(* cron, heartbeat and state file, the media store, the cached system      *)
(* prompt, and the reload itself.                                          *)
(*                                                                         *)
(* The components share no variable (what one takes from another is said   *)
(* in the head of its module), so the steps of one of them, chosen at the  *)
(* start, tell all there is: `part` names it, the others stay where they   *)
(* began.                                                                  *)
(***************************************************************************)
EXTENDS MediaStore

CONSTANTS
    CronMaxJobs, CronMaxTime, CronMaxGen, HeartChannels, HeartMaxRecords,
    HeartMaxServices, MaxVersions, MayFail, PromptCallers, PromptBootstrap,
    PromptMemory, PromptNotes, PromptRoots, PromptSkills, PromptMaxEdits

\* The paths of the system prompt
MCBootstrap == << <<"SOUL.md">> >>
MCMemory == <<"memory">>
MCNotes == <<"notes">>
MCRoots == << <<"skills">>, <<"builtin">> >>

VARIABLES
    part,    \* the component whose steps are taken, chosen at the start
    \* CronService
    now, cronDisk, store, cronRunning, gen, due, exec, update, nextID,
    cronKept, runs, reloaded,
    \* Heartbeat
    beatFile, mem, saving, acked, latest, records, up, service, beatRunning,
    timer, beat, prompted, target,
    \* Gateway
    gwFile, content, lastModTime, seen, watch, configChan, main, newCfg, cfg,
    started, dead, next, signal, skipped, rejected,
    \* SystemPrompt
    promptFile, clock, edits, cached, writer, baseline, draft, pc, at, since,
    got

\* Two jobs, due at the tick or after it; one reload, crashes.
Cron == INSTANCE CronService WITH
    MaxJobs <- CronMaxJobs, MaxTime <- CronMaxTime, MaxGen <- CronMaxGen,
    disk <- cronDisk, running <- cronRunning, kept <- cronKept

\* Two channels, a process that crashes and reloads.
Heart == INSTANCE Heartbeat WITH
    Channels <- HeartChannels, None <- None, MaxRecords <- HeartMaxRecords,
    MaxServices <- HeartMaxServices, file <- beatFile, running <- beatRunning

\* Four versions of the file, reloads and services that fail.
Process == INSTANCE Gateway WITH
    MaxVersions <- MaxVersions, MayFail <- MayFail, file <- gwFile

\* One bootstrap file, the memory, a skill in two roots; two edits.
Prompt == INSTANCE SystemPrompt WITH
    Callers <- PromptCallers, Bootstrap <- PromptBootstrap,
    Memory <- PromptMemory, Notes <- PromptNotes, Roots <- PromptRoots,
    Skills <- PromptSkills, MaxEdits <- PromptMaxEdits, Coarse <- FALSE,
    None <- None, file <- promptFile

ASSUME InstancesAssumption ==
    /\ Cron!ConstantsAssumption
    /\ Heart!ConstantsAssumption
    /\ Process!ConstantsAssumption
    /\ Prompt!ConstantsAssumption

cronVars ==
    <<now, cronDisk, store, cronRunning, gen, due, exec, update, nextID,
      cronKept, runs, reloaded>>

beatVars ==
    <<beatFile, mem, saving, acked, latest, records, up, service, beatRunning,
      timer, beat, prompted, target>>

gwVars ==
    <<gwFile, content, lastModTime, seen, watch, configChan, main, newCfg,
      cfg, started, dead, next, signal, skipped, rejected>>

promptVars ==
    <<promptFile, clock, edits, cached, writer, baseline, draft, pc, at,
      since, got>>

Parts == {"media", "cron", "heartbeat", "gateway", "prompt"}

allVars == <<part, vars, cronVars, beatVars, gwVars, promptVars>>

MCInit ==
    /\ part \in Parts
    /\ Init
    /\ Cron!Init
    /\ Heart!Init
    /\ Process!Init
    /\ Prompt!Init

MediaRuns ==
    part = "media" /\ Next /\ UNCHANGED <<part, cronVars, beatVars, gwVars, promptVars>>

CronRuns ==
    part = "cron" /\ Cron!Next /\ UNCHANGED <<part, vars, beatVars, gwVars, promptVars>>

HeartbeatRuns ==
    part = "heartbeat" /\ Heart!Next /\ UNCHANGED <<part, vars, cronVars, gwVars, promptVars>>

GatewayRuns ==
    part = "gateway" /\ Process!Next /\ UNCHANGED <<part, vars, cronVars, beatVars, promptVars>>

PromptRuns ==
    part = "prompt" /\ Prompt!Next /\ UNCHANGED <<part, vars, cronVars, beatVars, gwVars>>

MCNext == MediaRuns \/ CronRuns \/ HeartbeatRuns \/ GatewayRuns \/ PromptRuns

MCSpec == MCInit /\ [][MCNext]_allVars

-----------------------------------------------------------------------------
\* Downloads, shared files, release and expiry interleaved: the file of a
\* downloaded attachment exists while its reference resolves.
MediaInv == part = "media" => TypeOK /\ DownloadResolves

\* A one-shot job runs at most once and a recurring one is never forgotten,
\* through crashes, stale updates and two generations of the service.  Without a
\* reload a job that was added stays in jobs.json until it is removed or has run,
\* whatever crashes.
CronInv ==
    part = "cron" => /\ Cron!TypeOK
                     /\ Cron!OneShotAtMostOnce
                     /\ Cron!RecurringNotForgotten
                     /\ Cron!JobsAreKept

\* After a reload no beat begins on a service that was stopped, and no reload
\* replaces the configuration in force by an older one.
OnlyTheNewest == Heart!BeatsOfTheNewest /\ Process!NeverOlder

\* What is read from files is good: the state file is whole after a crash, only a
\* configuration that loads, validates and has a provider is in force, and what a
\* call returns as the system prompt is not older than the call, whoever built
\* it, while files and skills come, change and go.
FilesInv ==
    /\ part = "heartbeat" => Heart!TypeOK /\ Heart!StateFileSurvives
    /\ part = "gateway" => Process!TypeOK /\ Process!ConfigInForceIsGood
    /\ part = "prompt" => Prompt!TypeOK /\ Prompt!PromptInv

=============================================================================
