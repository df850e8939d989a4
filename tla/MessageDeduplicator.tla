------------------------ MODULE MessageDeduplicator ------------------------
(***************************************************************************)
(* Webhook channels and redelivered messages (pkg/channels/wecom/dedupe.go *)
(* with the callbacks of app.go and bot.go; isDuplicate of OneBot keeps    *)
(* the same ring).  The platform delivers a message again when it saw no   *)
(* answer; each callback is answered at once and handled by a goroutine of *)
(* its own, so copies of one message are handled side by side.  A map and  *)
(* a ring of the last max identifiers tell copies apart.                   *)
(*                                                                         *)
(* when and count are history: the number of each message's acceptance.    *)
(***************************************************************************)
EXTENDS Naturals

CONSTANTS
    IDs,            \* message identifiers
    NoID,           \* the empty string of an unused place in the ring
    max,            \* wecomMaxProcessedMessages, or dedupSize
    MaxCount,       \* bound on accepted messages
    MaxCopies       \* bound on goroutines that handle one message at a time

ASSUME IDAssumption == NoID \notin IDs
ASSUME maxAssumption == max \in Nat \ {0}

Places == 0..max - 1

VARIABLES
    msgs, ring, idx,
    callbacks,      \* [IDs -> goroutines about to process a copy]
    when, count

dedupVars == <<msgs, ring, idx, when, count>>
vars == <<dedupVars, callbacks>>

TypeOK ==
    /\ msgs \subseteq IDs /\ ring \in [Places -> IDs \cup {NoID}] /\ idx \in Places
    /\ callbacks \in [IDs -> Nat]
    /\ count \in Nat /\ when \in [IDs -> Nat]

\* NewMessageDeduplicator
Init ==
    /\ msgs = {} /\ ring = [i \in Places |-> NoID] /\ idx = 0
    /\ callbacks = [id \in IDs |-> 0]
    /\ when = [id \in IDs |-> 0] /\ count = 0

-----------------------------------------------------------------------------

\* handleMessageCallback: answered, and left to a goroutine
handleMessageCallback(id) ==
    /\ callbacks[id] < MaxCopies
    /\ callbacks' = [callbacks EXCEPT ![id] = @ + 1]
    /\ UNCHANGED dedupVars

\* Mutant: the ring is not cleared of what it forgets
StoreWithoutEvict(id) ==
    /\ msgs' = msgs \cup {id}
    /\ ring' = [ring EXCEPT ![idx] = id]
    /\ idx' = (idx + 1) % max
    /\ count' = count + 1
    /\ when' = [when EXCEPT ![id] = count']

\* Mutant: everything is forgotten when the ring is full
StoreWithCliff(id) ==
    /\ msgs' = IF idx = max - 1 THEN {id} ELSE msgs \cup {id}
    /\ ring' = IF idx = max - 1 THEN [i \in Places |-> IF i = 0 THEN id ELSE NoID]
                                ELSE [ring EXCEPT ![idx] = id]
    /\ idx' = IF idx = max - 1 THEN 1 % max ELSE idx + 1
    /\ count' = count + 1
    /\ when' = [when EXCEPT ![id] = count']

\* Steps 2 to 4 of MarkMessageProcessed: evict, store, advance
Store(id) ==
    /\ msgs' = (msgs \ {ring[idx]}) \cup {id}
    /\ ring' = [ring EXCEPT ![idx] = id]
    /\ idx' = (idx + 1) % max
    /\ count' = count + 1
    /\ when' = [when EXCEPT ![id] = count']

\* processMessage of a new message, which it passes on
processMessage(id) ==
    /\ callbacks[id] > 0 /\ count < MaxCount
    /\ callbacks' = [callbacks EXCEPT ![id] = @ - 1]
    /\ id \notin msgs
    /\ Store(id)

\* processMessage of a copy
SkipDuplicate(id) ==
    /\ callbacks[id] > 0
    /\ callbacks' = [callbacks EXCEPT ![id] = @ - 1]
    /\ id \in msgs
    /\ UNCHANGED dedupVars

Next ==
    \/ \E id \in IDs : handleMessageCallback(id)
    \/ \E id \in IDs : processMessage(id)
    \/ \E id \in IDs : SkipDuplicate(id)

Spec == Init /\ [][Next]_vars

-----------------------------------------------------------------------------

\* The map holds exactly the identifiers of the ring, each in one place: it is
\* bounded, and nothing in it is ever beyond eviction.
MapIsRing ==
    /\ msgs = {ring[i] : i \in Places} \ {NoID}
    /\ \A i, j \in Places : ring[i] = ring[j] /\ ring[i] # NoID => i = j

\* A message is not accepted again while fewer than max others were accepted
\* after it: "naturally evicting the oldest messages without causing 'amnesia
\* cliffs' when the limit is reached" (dedupe.go:9).
NoCliff ==
    [][\A id \in IDs : when'[id] # when[id] /\ when[id] # 0 => when[id] + max <= count]_vars
=============================================================================
