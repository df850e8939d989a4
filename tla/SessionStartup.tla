--------------------------- MODULE SessionStartup ---------------------------
(***************************************************************************)
(* How an agent opens its sessions: initSessionStore (pkg/agent), the      *)
(* migration of legacy {key}.json files into the JSONL store               *)
(* (pkg/memory/migration.go) and the SessionManager it falls back to       *)
(* (pkg/session/manager.go), on one directory, over crashes and restarts.  *)
(*                                                                         *)
(* The JSONL store is one history per key here; JSONLStore models it.      *)
(***************************************************************************)
EXTENDS Naturals, Sequences

CONSTANTS
    Keys,           \* session keys, numbered in the order of their file names
    MaxMsgs,        \* bound on messages; a message is a number
    WritesFail,     \* whether writes into the JSONL store may fail
    RenamesFail     \* whether renaming a migrated file may fail

ConstantsAssumption ==
    /\ Keys \subseteq Nat /\ MaxMsgs \in Nat
    /\ WritesFail \in BOOLEAN /\ RenamesFail \in BOOLEAN

VARIABLES
    legacy,     \* {key}.json: a history, or NoFile
    jsonl,      \* {key}.jsonl
    meta,       \* keys that have a {key}.meta.json
    mem,        \* SessionManager.sessions, while it is the backend
    backend,    \* "down", "migrating", "jsonl" or "json"
    todo,       \* keys whose {key}.json the migration has still to handle
    step,       \* what the migration does next with the first of them
    msgs,       \* number of messages so far
    acked,      \* history: what each session should hold
    migrated,   \* history: keys that a migration has handled to the end
    damaged     \* history: keys whose rename failed, or which a fallback found
                \* with a JSONL metadata file

files == <<legacy, jsonl, meta>>
ghosts == <<acked, migrated, damaged>>
vars == <<files, mem, backend, todo, step, msgs, ghosts>>

NoFile == << >>     \* a saved history is never empty here
Messages == 0..MaxMsgs     \* 0: what the earlier version stored
Has == {k \in Keys : legacy[k] # NoFile}

TypeOK ==
    /\ legacy \in [Keys -> Seq(Messages)]
    /\ jsonl \in [Keys -> Seq(Messages)]
    /\ mem \in [Keys -> Seq(Messages)]
    /\ meta \subseteq Keys
    /\ backend \in {"down", "migrating", "jsonl", "json"}
    /\ todo \subseteq Has
    /\ step \in {"meta", "rewrite", "summary", "rename"}
    /\ msgs \in 0..MaxMsgs
    /\ acked \in [Keys -> Seq(Messages)]
    /\ migrated \subseteq Keys
    /\ damaged \subseteq Keys

\* An installation of an earlier version: some keys have a legacy session.
Init ==
    /\ \E K \in SUBSET Keys :
        /\ legacy = [k \in Keys |-> IF k \in K THEN <<0>> ELSE NoFile]
    /\ acked = legacy
    /\ jsonl = [k \in Keys |-> NoFile]
    /\ meta = {}
    /\ mem = [k \in Keys |-> << >>]
    /\ backend = "down"
    /\ todo = {}
    /\ step = "meta"
    /\ msgs = 0
    /\ migrated = {}
    /\ damaged = {}

-----------------------------------------------------------------------------

\* loadSessions reads every *.json in name order: after {key}.json comes
\* {key}.meta.json, which decodes as a session of the same key without messages.
loadSessions ==
    [k \in Keys |-> IF k \in meta THEN << >> ELSE legacy[k]]

\* NewSessionManager
FallBack ==
    /\ backend' = "json"
    /\ mem' = loadSessions
    /\ todo' = {}
    /\ step' = "meta"
    /\ damaged' = damaged \cup meta
    /\ UNCHANGED <<files, msgs, acked, migrated>>

\* initSessionStore: NewJSONLStore, then MigrateFromJSON lists the directory
Start ==
    /\ backend = "down"
    /\ backend' = "migrating"
    /\ todo' = Has
    /\ step' = "meta"
    /\ UNCHANGED <<files, mem, msgs, ghosts>>

\* initSessionStore, when NewJSONLStore or a write of the migration fails
StartFails ==
    /\ WritesFail
    /\ \/ backend = "down"
       \/ backend = "migrating" /\ todo # {} /\ step # "rename"
    /\ FallBack

\* The migration has come to stage s of file k.
At(k, s) ==
    /\ backend = "migrating"
    /\ k \in todo /\ \A j \in todo : k <= j
    /\ step = s

\* store.SetHistory writes the metadata, with skip 0, ...
MigrateMeta(k) ==
    /\ At(k, "meta")
    /\ meta' = meta \cup {k}
    /\ step' = "rewrite"
    /\ UNCHANGED <<legacy, jsonl, mem, backend, todo, msgs, ghosts>>

\* Mutant: AddFullMessage for each message instead of SetHistory
MigrateRewriteAppends(k) ==
    /\ At(k, "rewrite")
    /\ jsonl' = [jsonl EXCEPT ![k] = @ \o legacy[k]]
    /\ step' = "summary"
    /\ UNCHANGED <<legacy, meta, mem, backend, todo, msgs, ghosts>>

\* ... then replaces the file.
MigrateRewrite(k) ==
    /\ At(k, "rewrite")
    /\ jsonl' = [jsonl EXCEPT ![k] = legacy[k]]
    /\ step' = "summary"
    /\ UNCHANGED <<legacy, meta, mem, backend, todo, msgs, ghosts>>

\* store.SetSummary, when the session has a summary
MigrateSummary(k) ==
    /\ At(k, "summary")
    /\ step' = "rename"
    /\ UNCHANGED <<files, mem, backend, todo, msgs, ghosts>>

\* os.Rename to .migrated; its failure is only logged
MigrateRename(k) ==
    /\ At(k, "rename")
    /\ \/ /\ legacy' = [legacy EXCEPT ![k] = NoFile]
          /\ UNCHANGED damaged
       \/ /\ RenamesFail
          /\ damaged' = damaged \cup {k}
          /\ UNCHANGED legacy
    /\ migrated' = migrated \cup {k}
    /\ todo' = todo \ {k}
    /\ step' = "meta"
    /\ UNCHANGED <<jsonl, meta, mem, backend, msgs, acked>>

\* MigrateFromJSON returns: the sessions are served by the JSONL store.
Migrated ==
    /\ backend = "migrating"
    /\ todo = {}
    /\ backend' = "jsonl"
    /\ UNCHANGED <<files, mem, todo, step, msgs, ghosts>>

\* A turn of the agent stores a message: JSONLBackend appends it to the file, ...
TurnJSONL(k) ==
    /\ backend = "jsonl"
    /\ msgs < MaxMsgs
    /\ msgs' = msgs + 1
    /\ jsonl' = [jsonl EXCEPT ![k] = Append(@, msgs')]
    /\ meta' = meta \cup {k}
    /\ acked' = [acked EXCEPT ![k] = Append(@, msgs')]
    /\ UNCHANGED <<legacy, mem, backend, todo, step, migrated, damaged>>

\* ... SessionManager adds it in memory and Save writes the whole session.
TurnJSON(k) ==
    /\ backend = "json"
    /\ msgs < MaxMsgs
    /\ msgs' = msgs + 1
    /\ mem' = [mem EXCEPT ![k] = Append(@, msgs')]
    /\ legacy' = [legacy EXCEPT ![k] = mem'[k]]
    /\ acked' = [acked EXCEPT ![k] = Append(@, msgs')]
    /\ UNCHANGED <<jsonl, meta, backend, todo, step, migrated, damaged>>

\* The process exits or crashes.
Crash ==
    /\ backend # "down"
    /\ backend' = "down"
    /\ mem' = [k \in Keys |-> << >>]
    /\ todo' = {}
    /\ step' = "meta"
    /\ UNCHANGED <<files, msgs, ghosts>>

Next ==
    \/ Start \/ StartFails \/ Migrated \/ Crash
    \/ \E k \in Keys :
        \/ MigrateMeta(k) \/ MigrateRewrite(k) \/ MigrateSummary(k)
        \/ MigrateRename(k) \/ TurnJSONL(k) \/ TurnJSON(k)

Spec == Init /\ [][Next]_vars

-----------------------------------------------------------------------------
(* Properties                                                              *)

\* What GetHistory of the running agent's store returns.
Visible(k) == IF backend = "jsonl" THEN jsonl[k] ELSE mem[k]
Serving == backend \in {"jsonl", "json"}

\* Through crashes, interrupted migrations and restarts a running agent sees
\* each session exactly as it was stored, nothing lost and nothing twice,
\* unless a rename failed or a fallback met a session that has been migrated.
HistoryKept ==
    Serving => \A k \in Keys \ damaged : Visible(k) = acked[k]

\* The comment on MigrateFromJSON, "Already-migrated files (.json.migrated) are
\* ignored, making the function idempotent": migrating a session a second time
\* does not change what the store holds.
MigrationIdempotent ==
    [][ \A k \in migrated : backend = "migrating" => jsonl'[k] = jsonl[k] ]_vars

\* The comment in initSessionStore, "Fall back to SessionManager to avoid a
\* split state where some sessions are in JSONL and others remain in JSON":
\* after a fallback, every session is served with its history.
FallbackIsWhole ==
    backend = "json" => \A k \in Keys : Visible(k) = acked[k]

=============================================================================
