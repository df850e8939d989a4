---------------------------- MODULE SystemPrompt ----------------------------
(***************************************************************************)
(* The cached system prompt of an agent: BuildSystemPromptWithCache of     *)
(* pkg/agent/context.go, on the bootstrap files, pkg/agent/memory.go and   *)
(* the skills of pkg/skills/loader.go, all of which the model, the user    *)
(* and installers edit while rounds, cron jobs and heartbeats of the same  *)
(* agent build their messages.                                             *)
(*                                                                         *)
(* Files are looked at one at a time, and anything may be edited between   *)
(* two looks; the walk through the skill roots is one step.  A content is  *)
(* the number of the edit that made it.                                    *)
(***************************************************************************)
EXTENDS Integers, Sequences

CONSTANTS
    Callers,
    Bootstrap,  \* AGENTS.md, SOUL.md, ..., in their order
    Memory,     \* memory/MEMORY.md
    Notes,      \* today's daily note
    Roots,      \* skill roots in the order of their priority
    Skills,     \* names of skill directories
    MaxEdits,   \* bound on edits
    Coarse,     \* may two edits fall into one tick of the file system's clock?
    None

\* A path is the sequence of its names, a root one name: <<"skills", "s">>.
SkillFiles == {Append(Roots[i], s) : i \in DOMAIN Roots, s \in Skills}
Root(f) == SubSeq(f, 1, 1)
Below(i, f) == <<Roots[i][1], f[2]>>

\* sourcePaths, and those skillRoots adds
sourcePaths == Append(Bootstrap, Memory)
Tracked == sourcePaths \o Roots

Elems(q) == {q[i] : i \in DOMAIN q}
Texts == Elems(sourcePaths) \cup {Notes}
Paths == Texts \cup Elems(Roots) \cup SkillFiles

ConstantsAssumption ==
    /\ MaxEdits \in Nat /\ Coarse \in BOOLEAN
    /\ Bootstrap \in Seq(Elems(Bootstrap)) \ {<< >>} /\ Roots \in Seq(Elems(Roots))
    /\ \A f \in SkillFiles : Root(f) \in Elems(Roots) /\ \A i \in DOMAIN Roots : Below(i, f) \in SkillFiles
    /\ Texts \cap (Elems(Roots) \cup SkillFiles) = {} /\ Elems(Roots) \cap SkillFiles = {}
    /\ None \notin Callers \cup ((0 - MaxEdits)..MaxEdits + 1)

VARIABLES
    file,           \* [Paths -> what a stat and a read of the path say]
    clock,          \* the file system's clock
    edits,          \* number of edits
    cached,         \* cachedSystemPrompt, cachedAt, existedAtCache, skillFilesAtCache
    writer,         \* holder of systemPromptMutex
    baseline,       \* the writer's baseline and the prompt it builds
    draft,
    pc, at,         \* [Callers -> state and place in the paths]
    since,          \* [Callers -> edits when the call began]
    got             \* [Callers -> what the call returned]

disk == <<file, clock, edits>>
vars == <<disk, cached, writer, baseline, draft, pc, at, since, got>>

Times == (0 - MaxEdits)..MaxEdits + 1
Gone(n) == [exists |-> FALSE, mtime |-> 0, edit |-> n, valid |-> FALSE]
Absent == Gone(0)
State == [exists : BOOLEAN, mtime : Times, edit : 0..MaxEdits, valid : BOOLEAN]

\* A prompt: what was read of each text, the skills listed, and when.
Prompt == [text : [Texts -> State], skills : SUBSET (SkillFiles \X (0..MaxEdits)), listed : 0..MaxEdits]
Baseline == [existed : [Elems(Tracked) -> BOOLEAN], skillFiles : [SkillFiles -> Times \cup {None}], maxMtime : Times]

NoPrompt == [text |-> [p \in Texts |-> Absent], skills |-> {}, listed |-> 0]
NoBaseline ==
    [existed |-> [p \in Elems(Tracked) |-> FALSE], skillFiles |-> [p \in SkillFiles |-> None], maxMtime |-> 0]

TypeOK ==
    /\ file \in [Paths -> State] /\ clock \in Times /\ edits \in 0..MaxEdits
    /\ cached = None \/ cached \in [prompt : {cached.prompt}, base : {cached.base}]
    /\ cached # None => cached.prompt \in Prompt /\ cached.base \in Baseline
    /\ writer \in Callers \cup {None}
    /\ baseline \in Baseline /\ draft \in Prompt
    /\ pc \in [Callers -> {"idle", "check", "want", "recheck", "baseline", "build", "done"}]
    /\ at \in [Callers -> 1..Len(Tracked) + 2]
    /\ since \in [Callers -> 0..MaxEdits]
    /\ \A c \in Callers : got[c] = None \/ got[c].prompt \in Prompt

\* One text and one skill of each root exist; the clock starts after all of it.
Init ==
    /\ file = [p \in Paths |->
                 IF p = Bootstrap[1] \/ p \in Elems(Roots) \cup SkillFiles
                 THEN [exists |-> TRUE, mtime |-> 1, edit |-> 0, valid |-> p \in SkillFiles]
                 ELSE Absent]
    /\ clock = 1 /\ edits = 0
    /\ cached = None /\ writer = None
    /\ baseline = NoBaseline /\ draft = NoPrompt
    /\ pc = [c \in Callers |-> "idle"]
    /\ at = [c \in Callers |-> 1]
    /\ since = [c \in Callers |-> 0]
    /\ got = [c \in Callers |-> None]

-----------------------------------------------------------------------------
\* Who edits: WriteLongTerm and AppendToday, the file tools, installers, users.

\* An edit that leaves each path p of P as new[p].
Edit(P, new(_)) ==
    /\ edits < MaxEdits
    /\ edits' = edits + 1
    /\ clock' \in (IF Coarse THEN {clock, clock + 1} ELSE {clock + 1})
    /\ file' = [p \in Paths |-> IF p \in P THEN new(p) ELSE file[p]]
    /\ UNCHANGED <<cached, writer, baseline, draft, pc, at, since, got>>

Write(p) ==
    LET new(q) == [exists |-> TRUE, mtime |-> clock', edit |-> edits', valid |-> FALSE]
    IN  p \in Texts /\ Edit({p}, new)

Delete(p) ==
    LET new(q) == Gone(edits')
    IN  p \in Texts /\ file[p].exists /\ Edit({p}, new)

\* SKILL.md is written in place, with or without a description, or copied with
\* the time it had elsewhere: one before all edits here, and no other copy's.
WriteSkill(f, valid) ==
    LET new(q) == [exists |-> TRUE, mtime |-> clock', edit |-> edits', valid |-> valid]
    IN  file[f].exists /\ Edit({f}, new)

CopySkill(f) ==
    LET new(q) == [exists |-> TRUE, mtime |-> 0 - edits', edit |-> edits', valid |-> TRUE]
    IN  file[f].exists /\ Edit({f}, new)

\* A directory with its SKILL.md comes or goes, which touches the root.
TouchSkill(f) ==
    LET new(q) ==
            IF q = Root(f) THEN [exists |-> TRUE, mtime |-> clock', edit |-> edits', valid |-> FALSE]
            ELSE IF file[f].exists THEN Gone(edits')
            ELSE [exists |-> TRUE, mtime |-> clock', edit |-> edits', valid |-> TRUE]
    IN  Edit({f, Root(f)}, new)

-----------------------------------------------------------------------------
\* What the code reads.

\* Mutant: a skill is shadowed by one that is not valid
ListSkillsUnchecked ==
    {f \in SkillFiles :
        /\ file[f].exists /\ file[f].valid
        /\ ~\E i, j \in DOMAIN Roots :
                i < j /\ Roots[j] = Root(f) /\ file[Below(i, f)].exists}

\* ListSkills: of the skills of one name that validate, that of the first root
ListSkills ==
    {f \in SkillFiles :
        /\ file[f].exists /\ file[f].valid
        /\ ~\E i, j \in DOMAIN Roots :
                /\ i < j /\ Roots[j] = Root(f)
                /\ file[Below(i, f)].exists /\ file[Below(i, f)].valid}

\* BuildSkillsSummary
BuildSkillsSummary == {<<f, file[f].edit>> : f \in ListSkills}

\* Mutant: a path that came or went is not a change
fileChangedSinceByTime(p) ==
    file[p].exists /\ file[p].mtime > cached.base.maxMtime

fileChangedSince(p) ==
    \/ cached.base.existed[p] # file[p].exists
    \/ file[p].exists /\ file[p].mtime > cached.base.maxMtime

SnapshotSkills == [f \in SkillFiles |-> IF file[f].exists THEN file[f].mtime ELSE None]

\* Mutant: the skills are compared with the newest time, as the texts are
skillFilesChangedSinceByTime ==
    \E f \in SkillFiles : file[f].exists /\ file[f].mtime > cached.base.maxMtime

\* skillFilesChangedSince: a file that came, went, or has another time
skillFilesChangedSince == SnapshotSkills # cached.base.skillFiles

-----------------------------------------------------------------------------
\* BuildSystemPromptWithCache.  Checks only read, so any number may run while
\* nobody writes; a writer that waits keeps new ones out.

Waiting == {c \in Callers : pc[c] = "want"}
Reading == {c \in Callers : pc[c] = "check"}

Goto(c, l, i) == pc' = [pc EXCEPT ![c] = l] /\ at' = [at EXCEPT ![c] = i]

\* RLock; without a cached prompt there is nothing to check.
Begin(c) ==
    /\ pc[c] = "idle"
    /\ writer = None /\ Waiting = {}
    /\ since' = [since EXCEPT ![c] = edits]
    /\ got' = [got EXCEPT ![c] = None]
    /\ Goto(c, IF cached = None THEN "want" ELSE "check", 1)
    /\ UNCHANGED <<disk, cached, writer, baseline, draft>>

\* Lock, and the double check
Lock(c) ==
    /\ pc[c] = "want" /\ writer = None /\ Reading = {}
    /\ writer' = c
    /\ Goto(c, IF cached = None THEN "baseline" ELSE "recheck", 1)
    /\ UNCHANGED <<disk, cached, baseline, draft, since, got>>

\* sourceFilesChangedLocked, one path or the skills, under either lock
Check(c) ==
    /\ pc[c] \in {"check", "recheck"}
    /\ IF at[c] <= Len(Tracked)
       THEN IF fileChangedSince(Tracked[at[c]])
            THEN Goto(c, IF pc[c] = "check" THEN "want" ELSE "baseline", 1)
            ELSE Goto(c, pc[c], at[c] + 1)
       ELSE /\ skillFilesChangedSince
            /\ Goto(c, IF pc[c] = "check" THEN "want" ELSE "baseline", 1)
    /\ UNCHANGED <<disk, cached, writer, baseline, draft, since, got>>

\* Nothing has changed: the cached prompt is returned.
Hit(c) ==
    /\ pc[c] \in {"check", "recheck"}
    /\ at[c] = Len(Tracked) + 1 /\ ~skillFilesChangedSince
    /\ got' = [got EXCEPT ![c] = cached]
    /\ writer' = IF writer = c THEN None ELSE writer
    /\ Goto(c, "done", 1)
    /\ UNCHANGED <<disk, cached, baseline, draft, since>>

newest(S) == CHOOSE t \in S : \A u \in S : u <= t

\* buildCacheBaseline: the paths one by one, then the skills
BuildCacheBaseline(c) ==
    /\ pc[c] = "baseline"
    /\ LET i == at[c]
           p == Tracked[i]
           old == IF i = 1 THEN NoBaseline ELSE baseline
       IN  IF i <= Len(Tracked)
           THEN /\ baseline' = [existed |-> [old.existed EXCEPT ![p] = file[p].exists],
                                skillFiles |-> old.skillFiles,
                                maxMtime |-> newest({old.maxMtime, file[p].mtime})]
                /\ Goto(c, "baseline", i + 1)
           ELSE /\ baseline' = [existed |-> old.existed,
                                skillFiles |-> SnapshotSkills,
                                maxMtime |-> newest({old.maxMtime} \cup {file[f].mtime : f \in SkillFiles})]
                /\ Goto(c, "build", 1)
    /\ UNCHANGED <<disk, cached, writer, draft, since, got>>

\* BuildSystemPrompt: LoadBootstrapFiles, the skills, ReadLongTerm
Build(c) ==
    /\ pc[c] = "build" /\ at[c] <= Len(Bootstrap) + 2
    /\ LET i == at[c] - Len(Bootstrap)
           read(p) == [draft EXCEPT !.text[p] = file[p]]
       IN  draft' = IF i <= 0 THEN read(Bootstrap[at[c]])
                    ELSE IF i = 1 THEN [draft EXCEPT !.skills = BuildSkillsSummary, !.listed = edits]
                    ELSE read(Memory)
    /\ Goto(c, "build", at[c] + 1)
    /\ UNCHANGED <<disk, cached, writer, baseline, since, got>>

\* Mutant: the baseline is what a stat says when the prompt is ready
StoreNewBaseline(c) ==
    /\ pc[c] = "build" /\ at[c] = Len(Bootstrap) + 3
    /\ cached' = [prompt |-> [draft EXCEPT !.text[Notes] = file[Notes]],
                  base |-> [existed |-> [p \in Elems(Tracked) |-> file[p].exists],
                            skillFiles |-> SnapshotSkills, maxMtime |-> clock]]
    /\ got' = [got EXCEPT ![c] = cached']
    /\ baseline' = NoBaseline /\ draft' = NoPrompt
    /\ writer' = None
    /\ Goto(c, "done", 1)
    /\ UNCHANGED <<disk, since>>

\* GetRecentDailyNotes; the prompt is cached with the baseline taken before it.
Store(c) ==
    /\ pc[c] = "build" /\ at[c] = Len(Bootstrap) + 3
    /\ cached' = [prompt |-> [draft EXCEPT !.text[Notes] = file[Notes]], base |-> baseline]
    /\ got' = [got EXCEPT ![c] = cached']
    /\ baseline' = NoBaseline /\ draft' = NoPrompt
    /\ writer' = None
    /\ Goto(c, "done", 1)
    /\ UNCHANGED <<disk, since>>

\* BuildMessages goes on with the prompt.
Return(c) ==
    /\ pc[c] = "done"
    /\ got' = [got EXCEPT ![c] = None]
    /\ Goto(c, "idle", 1)
    /\ UNCHANGED <<disk, cached, writer, baseline, draft, since>>

InvalidateCache ==
    /\ writer = None /\ Reading = {} /\ cached # None
    /\ cached' = None
    /\ UNCHANGED <<disk, writer, baseline, draft, pc, at, since, got>>

Step(c) ==
    \/ Begin(c) \/ Lock(c) \/ Check(c) \/ Hit(c)
    \/ BuildCacheBaseline(c) \/ Build(c) \/ Store(c) \/ Return(c)

Next ==
    \/ \E p \in Texts : Write(p) \/ Delete(p)
    \/ \E f \in SkillFiles : CopySkill(f) \/ TouchSkill(f) \/ \E v \in BOOLEAN : WriteSkill(f, v)
    \/ \E c \in Callers : Step(c)
    \/ InvalidateCache

Spec == Init /\ [][Next]_vars

-----------------------------------------------------------------------------

Current(text, p) == text.edit >= file[p].edit \/ ~(text.exists \/ file[p].exists)

\* A text that was not there for the baseline, was read, and went again: to
\* the checks it was never there.
ComeAndGone(g, p) == ~g.base.existed[p] /\ g.prompt.text[p].exists

\* "Source file changes are detected via mtime checks": a call returns every
\* text as it was when the call began or later, whoever built the prompt and
\* whatever was edited meanwhile, except one that came and went unseen.
TextsAreFresh ==
    \A c \in Callers : got[c] # None =>
        \A p \in Elems(sourcePaths) :
            \/ Current(got[c].prompt.text[p], p)
            \/ file[p].edit > since[c]
            \/ ComeAndGone(got[c], p)

\* The same of the skills, of which files, times and names may change: when no
\* skill was edited during the call, the prompt lists what the roots hold.
SkillsAreFresh ==
    \A c \in Callers : got[c] # None =>
        \/ got[c].prompt.skills = BuildSkillsSummary
        \/ \E f \in SkillFiles : file[f].edit > since[c]

\* What is cached was built from one baseline by one writer: nobody reads or
\* writes the cache while another builds.
OneBuilder ==
    \A c \in Callers : pc[c] \in {"recheck", "baseline", "build"} =>
        writer = c /\ Reading = {}

PromptInv == TextsAreFresh /\ SkillsAreFresh /\ OneBuilder

\* The same of the daily notes, which BuildSystemPrompt reads and sourcePaths
\* does not name: it does not hold.
NotesAreFresh ==
    \A c \in Callers : got[c] # None =>
        \/ Current(got[c].prompt.text[Notes], Notes)
        \/ file[Notes].edit > since[c]
=============================================================================
