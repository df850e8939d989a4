---------------------------- MODULE SessionStore ----------------------------
(***************************************************************************)
(* What pkg/memory/store.go promises about one session: a history that     *)
(* operations change atomically, and a summary.  `dropped` is what was     *)
(* truncated and not yet physically removed: an interrupted SetHistory or  *)
(* Compact may bring it back ("too many messages rather than losing        *)
(* data"), and nothing else may.                                           *)
(***************************************************************************)
EXTENDS Naturals, Sequences

CONSTANTS Msgs, Summaries

VARIABLES hist, dropped, summary

vars == <<hist, dropped, summary>>

LastN(s, n) == SubSeq(s, Len(s) - n + 1, Len(s))

Init ==
    /\ hist = << >>
    /\ dropped = << >>
    /\ summary \in Summaries

AddMessage(m) ==
    /\ hist' = Append(hist, m)
    /\ UNCHANGED <<dropped, summary>>

\* Keep the last n messages, or everything when there are no more than n.
TruncateHistory(n) ==
    /\ n < Len(hist)
    /\ hist' = LastN(hist, n)
    /\ dropped' = dropped \o SubSeq(hist, 1, Len(hist) - n)
    /\ UNCHANGED summary

SetHistory(h) ==
    /\ hist' = h
    /\ dropped' = << >>
    /\ UNCHANGED summary

Compact ==
    /\ dropped' = << >>
    /\ UNCHANGED <<hist, summary>>

SetSummary(x) ==
    /\ summary' = x
    /\ UNCHANGED <<hist, dropped>>

\* A crash or a write error in the middle of SetHistory or Compact.
Interrupted ==
    /\ hist' = dropped \o hist
    /\ dropped' = << >>
    /\ UNCHANGED summary

Next ==
    \/ \E m \in Msgs : AddMessage(m)
    \/ \E n \in 0..Len(hist) : TruncateHistory(n)
    \/ \E i \in 1..Len(hist) + 1 : SetHistory(SubSeq(hist, i, Len(hist)))
    \/ Compact
    \/ \E x \in Summaries : SetSummary(x)
    \/ Interrupted

Spec == Init /\ [][Next]_vars

=============================================================================
