----------------------------- MODULE JSONLStore -----------------------------
(***************************************************************************)
(* pkg/memory/jsonl.go: one session as an append-only file of JSON lines   *)
(* plus a metadata file {skip, count, summary}.  The session lock makes    *)
(* the operations take turns; each operation is one step per durable       *)
(* write, and the process may crash, or a write may fail, between any two. *)
(*                                                                         *)
(* A line is a message or Bad (no JSON document).  An append can be cut    *)
(* short by a crash or a full disk: the last line then has no newline, and *)
(* the next append continues it.  TornWrites = FALSE assumes the file      *)
(* system never leaves a partial append behind.                            *)
(***************************************************************************)
EXTENDS Naturals, Sequences, FiniteSets

CONSTANTS
    MaxMsgs,        \* bound on AddMessage calls; messages are 1..MaxMsgs
    Summaries,      \* possible summaries
    NoSummary,      \* the summary of a new session
    TornWrites      \* whether appends may be cut short

ConstantsAssumption == MaxMsgs \in Nat /\ NoSummary \in Summaries /\ TornWrites \in BOOLEAN

VARIABLES
    lines,      \* non-empty lines of {key}.jsonl
    torn,       \* the last line has no newline
    skip, count, summary,   \* {key}.meta.json
    pc,         \* what the operation that holds the lock does next
    arg,        \* its message or history
    before,     \* history: what GetHistory would have returned when it began
    added,      \* number of messages handed to AddMessage
    acked,      \* history: messages whose AddMessage returned nil
    revived     \* history: truncated messages an interrupted Compact brought back

fileVars == <<lines, torn>>
metaVars == <<skip, count, summary>>
opVars == <<pc, arg, before>>
vars == <<fileVars, metaVars, opVars, added, acked, revived>>

Msgs == 1..MaxMsgs
Bad == 0

\* What a reader gets of some lines: the messages, without the corrupt lines
Readable[ls \in Seq(Msgs \cup {Bad})] ==
    IF ls = << >> THEN << >>
    ELSE (IF Head(ls) = Bad THEN << >> ELSE <<Head(ls)>>) \o Readable[Tail(ls)]

\* readMessages: of the lines after the first n
readMessages(n) == Readable[SubSeq(lines, n + 1, Len(lines))]

GetHistory == readMessages(skip)

Elems(s) == {s[i] : i \in DOMAIN s}

TypeOK ==
    /\ lines \in Seq(Msgs \cup {Bad})
    /\ torn \in BOOLEAN
    /\ skip \in Nat
    /\ count \in Nat
    /\ summary \in Summaries
    /\ pc \in {"idle", "addMeta", "setRewrite", "compactRewrite"}
    /\ arg \in Seq(Msgs)
    /\ before \in Seq(Msgs)
    /\ added \in 0..MaxMsgs
    /\ acked \subseteq Msgs
    /\ revived \subseteq Msgs

Init ==
    /\ lines = << >>
    /\ torn = FALSE
    /\ skip = 0
    /\ count = 0
    /\ summary = NoSummary
    /\ pc = "idle"
    /\ arg = << >>
    /\ before = << >>
    /\ added = 0
    /\ acked = {}
    /\ revived = {}

-----------------------------------------------------------------------------

\* The line that an append of l produces: after a torn line it becomes part
\* of that line, and two documents on one line are no document.
AppendLine(l) ==
    IF torn THEN [lines EXCEPT ![Len(lines)] = Bad] ELSE Append(lines, l)

OpBegins(next, a) ==
    /\ pc = "idle"
    /\ pc' = next
    /\ arg' = a
    /\ before' = GetHistory

OpEnds ==
    /\ pc' = "idle"
    /\ arg' = << >>
    /\ before' = << >>

\* addMsg, first half: open, write, sync, close
AddMessage ==
    /\ added < MaxMsgs
    /\ added' = added + 1
    /\ OpBegins("addMeta", <<added + 1>>)
    /\ lines' = AppendLine(added + 1)
    /\ torn' = FALSE
    /\ UNCHANGED <<metaVars, acked, revived>>

\* addMsg, first half, cut short: nothing, part of the line, or all of it but
\* its newline reaches the file, and the call does not return nil.
AddMessageCutShort ==
    /\ pc = "idle"
    /\ added < MaxMsgs
    /\ added' = added + 1
    /\ \/ UNCHANGED fileVars
       \/ /\ TornWrites
          /\ torn' = TRUE
          /\ lines' \in {AppendLine(Bad), AppendLine(added + 1)}
    /\ UNCHANGED <<metaVars, opVars, acked, revived>>

\* addMsg, second half: readMeta, Count++, writeMeta
AddMessageMeta ==
    /\ pc = "addMeta"
    /\ count' = count + 1
    /\ acked' = acked \cup {arg[1]}
    /\ OpEnds
    /\ UNCHANGED <<fileVars, skip, summary, added, revived>>

\* Mutant: keepLast is compared with the lines of the file, skipped ones too
TruncateHistoryRegrows(keepLast) ==
    /\ pc = "idle"
    /\ count' = Len(lines)
    /\ skip' = IF keepLast < Len(lines) THEN Len(lines) - keepLast ELSE skip
    /\ revived' = {}
    /\ UNCHANGED <<fileVars, summary, opVars, added, acked>>

\* TruncateHistory: recount the lines, move skip; one write of the metadata
TruncateHistory(keepLast) ==
    /\ pc = "idle"
    /\ count' = Len(lines)
    /\ skip' = IF keepLast = 0 THEN Len(lines)
               ELSE IF keepLast + skip < Len(lines) THEN Len(lines) - keepLast
               ELSE skip
    /\ revived' = {}
    /\ UNCHANGED <<fileVars, summary, opVars, added, acked>>

SetSummary(x) ==
    /\ pc = "idle"
    /\ summary' = x
    /\ UNCHANGED <<fileVars, skip, count, opVars, added, acked, revived>>

\* Mutant: the file is rewritten first, the metadata after it
RewriteBeginsWithFile(next, h) ==
    /\ OpBegins(next, h)
    /\ lines' = h
    /\ torn' = FALSE
    /\ UNCHANGED <<metaVars, added, acked, revived>>

\* The metadata is written first, with skip 0 ...
RewriteBegins(next, h) ==
    /\ OpBegins(next, h)
    /\ skip' = 0
    /\ count' = Len(h)
    /\ UNCHANGED <<fileVars, summary, added, acked, revived>>

SetHistory(h) == RewriteBegins("setRewrite", h)

Compact == skip # 0 /\ RewriteBegins("compactRewrite", GetHistory)

\* ... and the file is replaced after it (rewriteJSONL).
Rewrite ==
    /\ pc \in {"setRewrite", "compactRewrite"}
    /\ lines' = arg
    /\ torn' = FALSE
    /\ revived' = {}
    /\ OpEnds
    /\ UNCHANGED <<metaVars, added, acked>>

\* The process crashes, or a write fails and the operation returns an error.
Interrupt ==
    /\ pc # "idle"
    /\ revived' = IF pc = "compactRewrite"
                  THEN Elems(GetHistory) \ Elems(arg) ELSE revived
    /\ OpEnds
    /\ UNCHANGED <<fileVars, metaVars, added, acked>>

\* SetHistory is called with what is left of the history: nothing (/clear),
\* or a part of it (compression of the context).
Next ==
    \/ AddMessage \/ AddMessageCutShort \/ AddMessageMeta
    \/ \E keepLast \in 0..MaxMsgs : TruncateHistory(keepLast)
    \/ \E x \in Summaries : SetSummary(x)
    \/ \E i \in 1..Len(GetHistory) + 1 : SetHistory(SubSeq(GetHistory, i, Len(GetHistory)))
    \/ Compact
    \/ Rewrite
    \/ Interrupt

Spec == Init /\ [][Next]_vars

-----------------------------------------------------------------------------
(* Properties                                                              *)

Rewriting == pc \in {"setRewrite", "compactRewrite"}

\* While a rewrite is under way nobody can read: the session lock is held.
Hist == IF Rewriting THEN before ELSE GetHistory

\* The offset never points past the end of the file, whatever crashed when:
\* a message appended later is never hidden by an old offset.  This is what
\* writing the metadata before the file is for.
SkipWithinFile == skip <= Len(lines)

\* Only TruncateHistory and the completed rewrite of SetHistory take an
\* acknowledged message out of the history a reader can get.
OnlyRemovalRemoves ==
    [][ \/ skip' > skip
        \/ pc = "setRewrite" /\ lines' = arg
        \/ (Elems(Hist) \cap acked) \subseteq Elems(Hist') ]_vars

\* An acknowledged message survives every crash until it is removed: the
\* comment on JSONLStore, "This keeps all writes append-only, which is both
\* fast and crash-safe".
AckedIsStored ==
    [][ \A m \in acked' \ acked : m \in Elems(GetHistory') ]_vars

\* The comment in Compact, "The next Compact or TruncateHistory corrects this":
\* while messages that an interrupted Compact brought back are visible, Compact
\* has something to do (it returns at once when skip is 0).
NextCompactCorrects ==
    (pc = "idle" /\ Elems(GetHistory) \cap revived # {}) => skip # 0

-----------------------------------------------------------------------------
(* The promise of the Store interface                                      *)

Dropped == IF Rewriting
           THEN SubSeq(GetHistory, 1, Len(GetHistory) - Len(before))
           ELSE Readable[SubSeq(lines, 1, skip)]

Promise == INSTANCE SessionStore WITH hist <- Hist, dropped <- Dropped

\* With appends that are never torn, the file and its metadata implement the
\* promise of the Store interface, whatever is interrupted where.
ImplementsStore == Promise!Spec

=============================================================================
