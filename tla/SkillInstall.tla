---------------------------- MODULE SkillInstall ----------------------------
(***************************************************************************)
(* One directory of workspace/skills and the calls that install and remove *)
(* it: the agent's install_skill (pkg/tools/skills_install.go), which      *)
(* fetches from a registry (pkg/skills/clawhub_registry.go) and extracts a *)
(* ZIP; the commands of the CLI that do the same, install from GitHub      *)
(* (pkg/skills/installer.go) or remove; the launcher's import and delete   *)
(* (web/backend/api/skills.go).  They run in three processes and share no  *)
(* lock: only calls of one InstallSkillTool exclude each other.  A reload  *)
(* makes new tools, and the old ones finish their calls.                   *)
(*                                                                         *)
(* The directory is the set of its files with the call that wrote each.    *)
(* A removal is one step and succeeds, names and slugs are valid, and the  *)
(* registry is configured.                                                 *)
(***************************************************************************)
EXTENDS Naturals, FiniteSets

CONSTANTS
    Calls,
    Tools,      \* instances of InstallSkillTool
    Kinds       \* what the calls are, see AllKinds

AllKinds == {"tool", "force", "registry", "github", "import", "delete", "uninstall"}

VARIABLES
    kind,       \* what each call is
    tool,       \* the instance a call of the agent's tool is made on
    blocked,    \* whether the registry blocks the skill a call installs
    dir,        \* file -> the call that wrote it, or Absent
    flag,       \* result.IsMalwareBlocked
    pc,
    result,     \* "none", "ok" or "error"
    found,      \* what the directory was when the call found it, or made room
    touched     \* whether another call changed the directory since it began

vars == <<kind, tool, blocked, dir, flag, pc, result, found, touched>>

Absent == [f \in {"absent"} |-> 0]
Before == 0     \* wrote what is there at the beginning
ConstantsAssumption ==
    /\ IsFiniteSet(Calls) /\ Before \notin Calls
    /\ Tools # {} /\ Kinds \subseteq AllKinds

Whole(c) == [f \in {"SKILL.md", "scripts"} |-> c]
FileNames == {"SKILL.md", "scripts", "origin"}
Files == IF dir = Absent THEN {} ELSE DOMAIN dir
Writers == {dir[f] : f \in Files}

TypeOK ==
    /\ kind \in [Calls -> Kinds] /\ tool \in [Calls -> Tools]
    /\ blocked \in [Calls -> BOOLEAN] /\ flag \in [Calls -> BOOLEAN]
    /\ Files \subseteq FileNames /\ Writers \subseteq Calls \cup {Before}
    /\ result \in [Calls -> {"none", "ok", "error"}]
    /\ touched \in [Calls -> BOOLEAN]

Init ==
    /\ kind \in [Calls -> Kinds] /\ tool \in [Calls -> Tools]
    /\ blocked \in [Calls -> BOOLEAN]
    /\ dir \in {Absent, Whole(Before)}
    /\ flag = [c \in Calls |-> FALSE]
    /\ pc = [c \in Calls |-> "start"]
    /\ result = [c \in Calls |-> "none"]
    /\ found = [c \in Calls |-> Absent]
    /\ touched = [c \in Calls |-> FALSE]

-----------------------------------------------------------------------------
Active(c) == pc[c] \notin {"start", "returned"}
Goto(c, l) == pc' = [pc EXCEPT ![c] = l] /\ UNCHANGED result
Returns(c, r) == pc' = [pc EXCEPT ![c] = "returned"] /\ result' = [result EXCEPT ![c] = r]

\* Call c makes the directory d.
Becomes(c, d) ==
    /\ dir' = d
    /\ touched' = [x \in Calls |-> touched[x] \/ (d # dir /\ x # c /\ pc[x] # "start")]
Keeps == UNCHANGED <<dir, touched>>
Same == UNCHANGED <<kind, tool, blocked, flag, found>>

MkdirAll(c) == Becomes(c, [f \in Files |-> dir[f]])
Write(c, f) == Becomes(c, [x \in Files \cup {f} |-> IF x = f THEN c ELSE dir[x]])

\* t.mu of the instance, held from the beginning of Execute to its end.
FromAgent(c) == kind[c] \in {"tool", "force"}
Unlocked(c) == \A x \in Calls : FromAgent(x) /\ tool[x] = tool[c] => ~Active(x)
Installs(c) == kind[c] \in {"tool", "force", "registry"}

\* Execute and skillsInstallFromRegistry: what is there is an error, or goes.
\* Mutant: no lock.
LocksNever(c) == TRUE
Locks(c) == FromAgent(c) => Unlocked(c)

Begin(c) ==
    /\ pc[c] = "start" /\ Locks(c)
    /\ found' = [found EXCEPT ![c] = dir]
    /\ UNCHANGED <<kind, tool, blocked, flag>>

AlreadyThere(c) ==
    /\ Begin(c)
    /\ kind[c] \notin {"force", "delete", "uninstall"} /\ dir # Absent
    /\ Returns(c, "error") /\ Keeps

RemoveFirst(c) ==
    /\ Begin(c) /\ kind[c] = "force"
    /\ Becomes(c, Absent) /\ Goto(c, "meta")

NotThere(c) ==
    /\ Begin(c) /\ dir = Absent /\ kind[c] \in AllKinds \ {"force"}
    /\ IF kind[c] \in {"delete", "uninstall"} THEN Returns(c, "error")
       ELSE Goto(c, CASE Installs(c) -> "meta"
                      [] kind[c] = "github" -> "list"
                      [] kind[c] = "import" -> "mkdir")
    /\ Keeps

-----------------------------------------------------------------------------
(* DownloadAndInstall *)

\* Without metadata the skill is installed all the same.
GetSkillMeta(c) ==
    /\ pc[c] = "meta"
    /\ \E fetched \in BOOLEAN : flag' = [flag EXCEPT ![c] = fetched /\ blocked[c]]
    /\ Goto(c, "download") /\ Keeps
    /\ UNCHANGED <<kind, tool, blocked, found>>

Download(c) ==
    /\ pc[c] = "download"
    /\ \E next \in {"extract", "cleanup"} : Goto(c, next)
    /\ Keeps /\ Same

\* ExtractZipFile: the directory, then file after file.
Extract(c) ==
    /\ \/ pc[c] = "extract" /\ MkdirAll(c) /\ Goto(c, "first")
       \/ pc[c] = "first" /\ Write(c, "SKILL.md") /\ Goto(c, "second")
       \/ pc[c] = "second" /\ Write(c, "scripts") /\ Goto(c, "moderation")
    /\ Same

ExtractFails(c) ==
    /\ pc[c] \in {"extract", "first", "second"}
    /\ Goto(c, "cleanup") /\ Keeps /\ Same

\* os.RemoveAll(targetDir) of a partial or a blocked install.
\* Mutant: what was extracted stays.
CleanupForgets(c) ==
    /\ pc[c] = "cleanup"
    /\ Keeps /\ Returns(c, "error") /\ Same

Cleanup(c) ==
    /\ pc[c] = "cleanup"
    /\ Becomes(c, Absent) /\ Returns(c, "error") /\ Same

Moderation(c) ==
    /\ pc[c] = "moderation"
    /\ CASE flag[c] -> Goto(c, "cleanup")
         [] ~flag[c] /\ FromAgent(c) -> Goto(c, "origin")
         [] ~flag[c] /\ ~FromAgent(c) -> Returns(c, "ok")
    /\ Keeps /\ Same

\* An error of writeOriginMeta is logged only.
WriteOriginMeta(c) ==
    /\ pc[c] = "origin"
    /\ Write(c, "origin") \/ Keeps
    /\ Returns(c, "ok") /\ Same

-----------------------------------------------------------------------------
(* InstallFromGitHub *)

\* Any request may fail, and then SKILL.md alone is fetched; a repository may
\* have no SKILL.md and no other files.  A file is moved from the temporary
\* directory, which fails between file systems and leaves the directory made.
ListFiles(c) ==
    /\ pc[c] = "list"
    /\ \E next \in {"root", "raw"} : Goto(c, next)
    /\ Keeps /\ Same

DownloadFiles(c) ==
    /\ \/ /\ pc[c] = "root"
          /\ \/ Write(c, "SKILL.md") /\ Goto(c, "subdirs")
             \/ Keeps /\ \E next \in {"subdirs", "raw"} : Goto(c, next)
             \/ MkdirAll(c) /\ Goto(c, "raw")
       \/ /\ pc[c] = "subdirs"
          /\ \/ Write(c, "scripts") /\ Goto(c, "stat")
             \/ Keeps /\ \E next \in {"stat", "raw"} : Goto(c, next)
             \/ MkdirAll(c) /\ Goto(c, "raw")
    /\ Same

StatSkill(c) ==
    /\ pc[c] = "stat"
    /\ Returns(c, IF "SKILL.md" \in Files THEN "ok" ELSE "error")
    /\ Keeps /\ Same

DownloadRaw(c) ==
    /\ pc[c] = "raw"
    /\ \/ Write(c, "SKILL.md") /\ Returns(c, "ok")
       \/ (MkdirAll(c) \/ Keeps) /\ Returns(c, "error")
    /\ Same

-----------------------------------------------------------------------------
(* The launcher's handlers and Uninstall *)

ImportMkdir(c) ==
    /\ pc[c] = "mkdir"
    /\ \/ MkdirAll(c) /\ Goto(c, "write")
       \/ Keeps /\ Returns(c, "error")
    /\ Same

ImportWrite(c) ==
    /\ pc[c] = "write"
    /\ \/ dir # Absent /\ Write(c, "SKILL.md") /\ Returns(c, "ok")
       \/ Keeps /\ Returns(c, "error")
    /\ Same

\* The loader lists directories that have a SKILL.md; Uninstall takes any.
FindsIt(c) ==
    /\ Begin(c) /\ kind[c] \in {"delete", "uninstall"} /\ dir # Absent
    /\ IF kind[c] = "delete" /\ "SKILL.md" \notin Files THEN Returns(c, "error")
       ELSE Goto(c, "remove")
    /\ Keeps

RemoveIt(c) ==
    /\ pc[c] = "remove"
    /\ Becomes(c, Absent) /\ Returns(c, "ok") /\ Same

Next ==
    \E c \in Calls :
        \/ AlreadyThere(c) \/ RemoveFirst(c) \/ NotThere(c) \/ GetSkillMeta(c)
        \/ Download(c) \/ Extract(c) \/ ExtractFails(c) \/ Cleanup(c)
        \/ Moderation(c) \/ WriteOriginMeta(c) \/ ListFiles(c) \/ DownloadFiles(c)
        \/ StatSkill(c) \/ DownloadRaw(c) \/ ImportMkdir(c) \/ ImportWrite(c)
        \/ FindsIt(c) \/ RemoveIt(c)

Spec == Init /\ [][Next]_vars

-----------------------------------------------------------------------------
(* Properties                                                              *)

Quiet == \A c \in Calls : ~Active(c)

\* Calls of one tool take turns: between them the directory is absent or all of
\* one install that succeeded, of a skill the registry did not say it blocks.
OfOneTool == \A c, x \in Calls : FromAgent(c) /\ tool[c] = tool[x]
OneInstall(d) ==
    \/ d \in {Absent, Whole(Before)}
    \/ \E c \in Calls :
          /\ result[c] = "ok" /\ ~flag[c]
          /\ {"SKILL.md", "scripts"} \subseteq DOMAIN d /\ \A f \in DOMAIN d : d[f] = c
TakeTurns == OfOneTool /\ Quiet => OneInstall(dir)

\* Whatever runs beside it, a call that refuses a blocked skill, and one that
\* fails after its download, leave none of their files.
FailuresLeaveNothing ==
    \A c \in Calls : Installs(c) /\ result[c] = "error" => c \notin Writers

\* A call that had the directory to itself did all of its work or none: the
\* skill is there, and can be listed; it is gone; or things are as they were.
AllOrNothing ==
    \A c \in Calls : pc[c] = "returned" /\ ~touched[c] =>
        CASE result[c] = "ok" /\ kind[c] \in {"delete", "uninstall"} -> dir = Absent
          [] result[c] = "ok" /\ Installs(c) -> Whole(c) = [f \in Files \ {"origin"} |-> dir[f]]
          [] result[c] = "ok" /\ kind[c] \in {"github", "import"} ->
                 "SKILL.md" \in Files /\ Writers = {c}
          [] result[c] = "error" /\ kind[c] = "force" -> dir = Absent
          [] result[c] = "error" /\ kind[c] \notin {"force", "github", "import"} -> dir = found[c]
          [] OTHER -> TRUE

SkillInv == TakeTurns /\ FailuresLeaveNothing /\ AllOrNothing

\* Does not hold: only the agent's tool and the registry command clean up.  An
\* install from GitHub or an import that fails leaves the directory behind, and
\* the next one is told that the skill already exists.
FailureCanBeRepeated ==
    \A c \in Calls : result[c] = "error" /\ found[c] = Absent /\ ~touched[c] => dir = Absent

\* Does not hold: an install that fails removes what another process put there
\* while it ran, and a forced one has removed the old skill before the download.
OthersSurvive ==
    [][\A c \in Calls : pc[c] = "cleanup" /\ pc'[c] = "returned" => Writers \subseteq {c}]_vars
=============================================================================
