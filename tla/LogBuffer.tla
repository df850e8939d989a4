----------------------------- MODULE LogBuffer -----------------------------
(***************************************************************************)
(* The launcher's log of the gateway process (web/backend/api/log.go) and  *)
(* a browser that reads it in pieces (gatewayLogsData of gateway.go).  The *)
(* buffer is a ring of the last cap lines; it is reset when a process      *)
(* starts and when the user clears it, and each reset begins a new run.    *)
(* A request reads the run first and the lines after it, under two locks.  *)
(*                                                                         *)
(* A line is the number of its writing; log is history: what was written   *)
(* in the current run.                                                     *)
(***************************************************************************)
EXTENDS Naturals, Sequences

CONSTANTS
    cap,
    MaxLines,       \* bound on lines written
    MaxRuns         \* bound on resets

ConstantsAssumption == cap \in Nat \ {0} /\ MaxLines \in Nat /\ MaxRuns \in Nat

VARIABLES
    lines, total, runID,        \* the buffer; lines is a slice, from 1 here
    log, written,
    offset, clientRun,          \* what the browser sends with its next request
    pc, from,                   \* the request: its offset, once the run was compared
    seen                        \* what the browser shows

bufVars == <<lines, total, runID, log, written>>
vars == <<bufVars, offset, clientRun, pc, from, seen>>

TypeOK ==
    /\ lines \in Seq(1..written) /\ Len(lines) <= cap
    /\ total \in 0..MaxLines /\ runID \in 0..MaxRuns
    /\ log \in Seq(1..written) /\ written \in 0..MaxLines
    /\ offset \in Nat /\ clientRun \in 0..MaxRuns
    /\ pc \in {"idle", "read"} /\ from \in Nat
    /\ seen \in Seq(1..written)

Init ==
    /\ lines = <<>> /\ total = 0 /\ runID = 0
    /\ log = <<>> /\ written = 0
    /\ offset = 0 /\ clientRun = 0
    /\ pc = "idle" /\ from = 0
    /\ seen = <<>>

-----------------------------------------------------------------------------

\* Mutant: the slot of the oldest line is one off
PutNext(q, n, line) ==
    IF Len(q) < cap THEN Append(q, line) ELSE [q EXCEPT ![((n + 1) % cap) + 1] = line]

\* Append: a full buffer overwrites its oldest line.
Put(q, n, line) ==
    IF Len(q) < cap THEN Append(q, line) ELSE [q EXCEPT ![(n % cap) + 1] = line]

AppendLine ==
    /\ written < MaxLines /\ runID > 0
    /\ written' = written + 1
    /\ lines' = Put(lines, total, written')
    /\ total' = total + 1
    /\ log' = Append(log, written')
    /\ UNCHANGED <<runID, offset, clientRun, pc, from, seen>>

\* Reset, and Clear
Reset ==
    /\ runID < MaxRuns
    /\ lines' = <<>> /\ total' = 0
    /\ runID' = runID + 1
    /\ log' = <<>>
    /\ UNCHANGED <<written, offset, clientRun, pc, from, seen>>

\* LinesSince: the last lines, at most as many as there are
LinesSince(k) ==
    LET buffered == Len(lines)
        newCount == IF total - k > buffered THEN buffered ELSE total - k
        start == (total - newCount) % cap
    IN  IF k >= total THEN <<>>
        ELSE IF total <= cap THEN SubSeq(lines, buffered - newCount + 1, buffered)
        ELSE [i \in 1..newCount |-> lines[((start + i - 1) % cap) + 1]]

\* gatewayLogsData: RunID, and the offset to read from
RequestRun ==
    /\ pc = "idle" /\ runID > 0
    /\ from' = IF clientRun # runID THEN 0 ELSE offset
    /\ pc' = "read"
    /\ UNCHANGED <<bufVars, offset, clientRun, seen>>

\* LinesSince; the browser starts over when the run has changed, and sends
\* the total and the run back with its next request.
RequestLines ==
    /\ pc = "read"
    /\ seen' = IF clientRun = runID THEN seen \o LinesSince(from) ELSE LinesSince(from)
    /\ offset' = total /\ clientRun' = runID
    /\ pc' = "idle"
    /\ UNCHANGED <<bufVars, from>>

Next ==
    \/ AppendLine
    \/ Reset
    \/ RequestRun
    \/ RequestLines

Spec == Init /\ [][Next]_vars

-----------------------------------------------------------------------------

Last(q, n) == SubSeq(q, IF n >= Len(q) THEN 1 ELSE Len(q) - n + 1, Len(q))

\* "LinesSince returns lines appended after the given offset ... If offset is
\* too old (evicted), all buffered lines are returned": for every offset, in
\* the order they were written, whether or not the ring has wrapped.
LinesSinceRight ==
    \A k \in 0..total + 1 :
        LinesSince(k) = Last(Last(log, cap), IF k >= total THEN 0 ELSE total - k)

\* The browser shows lines of one run, in order and none twice: a line shown
\* later was written later.
ShownInOrder == \A i, j \in DOMAIN seen : i < j => seen[i] < seen[j]

\* "If runID changed, reset offset to get all logs from new run": a browser
\* that is up to date shows everything the buffer holds of this run.
NothingSkipped ==
    pc = "idle" /\ clientRun = runID /\ offset = total =>
        \A i \in DOMAIN lines : \E j \in DOMAIN seen : seen[j] = lines[i]
=============================================================================
