---------------------------- MODULE CronService -----------------------------
(***************************************************************************)
(* pkg/cron/service.go with the cron tool that drives it                   *)
(* (pkg/tools/cron.go) and the gateway that replaces the service when the  *)
(* configuration is reloaded.  Every operation changes the jobs of one     *)
(* service under its lock and saves them to jobs.json; a due job runs      *)
(* outside the lock.                                                       *)
(*                                                                         *)
(* A reload stops the service and starts a new one on the same file.  A    *)
(* job that is running and an agent turn that is under way keep the old    *)
(* one: services are numbered by generation since the process started.     *)
(***************************************************************************)
EXTENDS Naturals

CONSTANTS
    MaxJobs,    \* bound on AddJob calls; job IDs are 1..MaxJobs
    MaxTime,    \* bound on the clock
    MaxGen      \* bound on services in one life of the process

ConstantsAssumption ==
    MaxJobs \in Nat /\ {MaxTime, MaxGen} \subseteq Nat \ {0}

VARIABLES
    now,        \* the clock
    disk,       \* jobs.json
    store,      \* CronService.store.Jobs of each generation
    running,    \* generations that have been started and not stopped
    gen,        \* the newest generation, 0 when the process is down
    due,        \* dueJobIDs still to execute, per generation
    exec,       \* the job that each generation's loop is executing, or 0
    update,     \* the job copy that addJob hands to UpdateJob, or NoUpdate
    nextID,     \* IDs handed out
    kept,       \* history: jobs added, and neither removed nor run to the end
    runs,       \* history: how often each one-shot job was started
    reloaded    \* history: a service was started while another one was there

vars == <<now, disk, store, running, gen, due, exec, update, nextID, kept, runs, reloaded>>

IDs == 1..MaxJobs
Gens == 1..MaxGen
Nil == 0        \* NextRunAtMS = nil
NoUpdate == [gen |-> 0, id |-> 0]

Jobs == [kind : {"at", "every"}, at : Nat, enabled : BOOLEAN, next : Nat]
NoJobs == [j \in {} |-> 0]

TypeOK ==
    /\ now \in 1..MaxTime
    /\ \A s \in {disk} \cup {store[g] : g \in Gens} :
        DOMAIN s \subseteq IDs /\ \A j \in DOMAIN s : s[j] \in Jobs
    /\ running \subseteq 1..gen /\ gen \in 0..MaxGen
    /\ due \in [Gens -> SUBSET IDs]
    /\ exec \in [Gens -> IDs \cup {0}]
    /\ update.gen \in 0..MaxGen
    /\ nextID \in 0..MaxJobs
    /\ kept \subseteq IDs
    /\ runs \in [IDs -> Nat]
    /\ reloaded \in BOOLEAN

Init ==
    /\ now = 1
    /\ disk = NoJobs
    /\ store = [g \in Gens |-> NoJobs]
    /\ running = {}
    /\ gen = 0
    /\ due = [g \in Gens |-> {}]
    /\ exec = [g \in Gens |-> 0]
    /\ update = NoUpdate
    /\ nextID = 0
    /\ kept = {}
    /\ runs = [j \in IDs |-> 0]
    /\ reloaded = FALSE

-----------------------------------------------------------------------------

\* Mutant: a one-shot job that is due now is scheduled again
computeNextRunNow(kind, at) ==
    IF kind = "at" THEN IF at >= now THEN at ELSE Nil ELSE now + 1

\* computeNextRun; an interval is one tick long
computeNextRun(kind, at) ==
    IF kind = "at" THEN IF at > now THEN at ELSE Nil ELSE now + 1

\* Generation g's jobs become s and are saved.
SaveStore(g, s) ==
    /\ store' = [store EXCEPT ![g] = s]
    /\ disk' = s

Without(s, j) == [i \in DOMAIN s \ {j} |-> s[i]]
With(s, j, job) == [i \in DOMAIN s \cup {j} |-> IF i = j THEN job ELSE s[i]]
SetNext(job, t) == [job EXCEPT !.next = t]

\* recomputeNextRuns: the enabled jobs only
recomputeNextRuns(s) ==
    [j \in DOMAIN s |->
        IF s[j].enabled THEN SetNext(s[j], computeNextRun(s[j].kind, s[j].at)) ELSE s[j]]

\* NewCronService and Start: load, recompute, save, run the loop
Start ==
    /\ gen < MaxGen /\ running = {}
    /\ gen' = gen + 1
    /\ running' = {gen'}
    /\ SaveStore(gen', recomputeNextRuns(disk))
    /\ reloaded' = (reloaded \/ gen # 0)
    /\ UNCHANGED <<now, due, exec, update, nextID, kept, runs>>

\* The gateway stops the service for a reload that starts the next one.
Stop ==
    /\ gen < MaxGen
    /\ running # {}
    /\ running' = {}
    /\ UNCHANGED <<now, disk, store, gen, due, exec, update, nextID, kept, runs, reloaded>>

\* A turn of the agent uses the tool of the service it began with.
Usable(g) == g <= gen

AddJob(g, job) ==
    /\ nextID < MaxJobs
    /\ nextID' = nextID + 1
    /\ SaveStore(g, With(store[g], nextID', job))
    /\ kept' = kept \cup {nextID'}

\* CronTool.addJob: AddJob and, for a command, UpdateJob with the copy of the
\* job it got back.  A one-shot job is due at the next tick.
addJob(g, kind, command) ==
    /\ Usable(g) /\ update = NoUpdate
    /\ LET job == [kind |-> kind, at |-> now + 1, enabled |-> TRUE,
                   next |-> computeNextRun(kind, now + 1)]
       IN  /\ AddJob(g, job)
           /\ update' = IF command THEN [gen |-> g, id |-> nextID', job |-> job] ELSE update
    /\ UNCHANGED <<now, running, gen, due, exec, runs, reloaded>>

UpdateJob ==
    /\ update # NoUpdate
    /\ update' = NoUpdate
    /\ LET g == update.gen
       IN  IF update.id \in DOMAIN store[g]
           THEN SaveStore(g, With(store[g], update.id, update.job))
           ELSE UNCHANGED <<store, disk>>
    /\ UNCHANGED <<now, running, gen, due, exec, nextID, kept, runs, reloaded>>

RemoveJob(g, j) ==
    /\ Usable(g)
    /\ j \in DOMAIN store[g]
    /\ SaveStore(g, Without(store[g], j))
    /\ kept' = kept \ {j}
    /\ UNCHANGED <<now, running, gen, due, exec, update, nextID, runs, reloaded>>

EnableJob(g, j, enabled) ==
    /\ Usable(g)
    /\ j \in DOMAIN store[g]
    /\ LET job == store[g][j]
           next == IF enabled THEN computeNextRun(job.kind, job.at) ELSE Nil
       IN  SaveStore(g, With(store[g], j, [job EXCEPT !.enabled = enabled, !.next = next]))
    /\ UNCHANGED <<now, running, gen, due, exec, update, nextID, kept, runs, reloaded>>

\* The loop of a service handles one tick at a time.
LoopIdle(g) == due[g] = {} /\ exec[g] = 0

\* A tick: collect the jobs that are due, clear their next run, save.
checkJobs(g) ==
    /\ g \in running /\ LoopIdle(g)
    /\ LET D == {j \in DOMAIN store[g] :
                    LET job == store[g][j]
                    IN  job.enabled /\ job.next # Nil /\ job.next <= now}
       IN  /\ due' = [due EXCEPT ![g] = D]
           /\ SaveStore(g, [j \in DOMAIN store[g] |->
                    IF j \in D THEN SetNext(store[g][j], Nil) ELSE store[g][j]])
    /\ UNCHANGED <<now, running, gen, exec, update, nextID, kept, runs, reloaded>>

\* executeJobByID, first part: copy the job and call the handler; a job that
\* was removed meanwhile is skipped
executeJob(g, j) ==
    /\ exec[g] = 0
    /\ j \in due[g]
    /\ due' = [due EXCEPT ![g] = @ \ {j}]
    /\ IF j \in DOMAIN store[g]
       THEN /\ exec' = [exec EXCEPT ![g] = j]
            /\ runs' = IF store[g][j].kind = "at" THEN [runs EXCEPT ![j] = @ + 1] ELSE runs
       ELSE UNCHANGED <<exec, runs>>
    /\ UNCHANGED <<now, disk, store, running, gen, update, nextID, kept, reloaded>>

\* executeJobByID, second part: the handler has returned.  Jobs of the tool are
\* deleted after a one-shot run; the others are scheduled again.
jobDone(g) ==
    /\ exec[g] # 0
    /\ exec' = [exec EXCEPT ![g] = 0]
    /\ LET j == exec[g]
           s == store[g]
       IN  IF j \notin DOMAIN s
           THEN UNCHANGED <<store, disk, kept>>
           ELSE IF s[j].kind = "at"
           THEN SaveStore(g, Without(s, j)) /\ kept' = kept \ {j}
           ELSE SaveStore(g, With(s, j, SetNext(s[j], computeNextRun("every", 0)))) /\ UNCHANGED kept
    /\ UNCHANGED <<now, running, gen, due, update, nextID, runs, reloaded>>

Tick ==
    /\ now < MaxTime
    /\ now' = now + 1
    /\ UNCHANGED <<disk, store, running, gen, due, exec, update, nextID, kept, runs, reloaded>>

\* The process dies: everything but the file is gone.
Crash ==
    /\ gen > 0
    /\ store' = [g \in Gens |-> NoJobs]
    /\ running' = {}
    /\ gen' = 0
    /\ due' = [g \in Gens |-> {}]
    /\ exec' = [g \in Gens |-> 0]
    /\ update' = NoUpdate
    /\ UNCHANGED <<now, disk, nextID, kept, runs, reloaded>>

Next ==
    \/ Start \/ Stop \/ UpdateJob \/ Tick \/ Crash
    \/ \E g \in Gens :
        \/ \E kind \in {"at", "every"}, command \in BOOLEAN : addJob(g, kind, command)
        \/ checkJobs(g) \/ jobDone(g)
        \/ \E j \in IDs :
            \/ RemoveJob(g, j) \/ executeJob(g, j)
            \/ \E enabled \in BOOLEAN : EnableJob(g, j, enabled)

Spec == Init /\ [][Next]_vars

-----------------------------------------------------------------------------
(* Properties                                                              *)

\* A one-shot job is started at most once, whatever crashes, reloads, stale
\* updates and enablings surround its run (checkJobs: "Reset next run for due
\* jobs before unlocking to avoid duplicate execution").
OneShotAtMostOnce == \A j \in IDs : runs[j] <= 1

\* An enabled recurring job of a running service is never forgotten: it has a
\* next run, or its loop is about to run it or running it.
RecurringNotForgotten ==
    \A g \in running : \A j \in DOMAIN store[g] :
        LET job == store[g][j]
        IN  job.enabled /\ job.kind = "every" /\ job.next = Nil
                => j \in due[g] \/ j = exec[g]

\* As long as no reload has started a second service, a job that was added stays
\* in jobs.json until it is removed or has run, whatever crashes.
JobsAreKept == ~reloaded => kept \subseteq DOMAIN disk

=============================================================================
