----------------------------- MODULE MCLiveness -----------------------------
(***************************************************************************)
(* What must happen at last: calls on the bus return, a configuration      *)
(* comes into force, a broken connection is replaced.                      *)
(*                                                                         *)
(* The components share no variable (what one takes from another is said   *)
(* in the head of its module), so the steps of one of them, chosen at the  *)
(* start, tell all there is: `part` names it, the others stay where they   *)
(* began.                                                                  *)
(***************************************************************************)
EXTENDS MessageBus

VARIABLES
    part,    \* the component whose steps are taken, chosen at the start
    \* Gateway
    file, content, lastModTime, seen, watch, configChan, main, newCfg, cfg,
    started, dead, next, signal, skipped, rejected,
    \* OneBot
    link, conn, loop, listener, canceled, stop, call, sock, echo, pending, ch,
    echoCounter, wire

\* Four versions of the file; services start.
Process == INSTANCE Gateway WITH
    MaxVersions <- 4, MayFail <- FALSE

\* Two connections, a reaction beside fetchSelfID.
Bot == INSTANCE OneBot WITH
    Reactions <- {"r1"}, Loop <- "loop", MaxConns <- 2, MaxEcho <- 3

ASSUME InstancesAssumption ==
    /\ Process!ConstantsAssumption
    /\ Bot!ConstantsAssumption

gwVars ==
    <<file, content, lastModTime, seen, watch, configChan, main, newCfg, cfg,
      started, dead, next, signal, skipped, rejected>>

obVars ==
    <<link, conn, loop, listener, canceled, stop, call, sock, echo, pending,
      ch, echoCounter, wire>>

Parts == {"bus", "gateway", "onebot"}

allVars == <<part, vars, gwVars, obVars>>

MCInit ==
    /\ part \in Parts
    /\ Init
    /\ Process!Init
    /\ Bot!Init

BusRuns ==
    part = "bus" /\ Next /\ UNCHANGED <<part, gwVars, obVars>>

GatewayRuns ==
    part = "gateway" /\ Process!Next /\ UNCHANGED <<part, vars, obVars>>

OnebotRuns ==
    part = "onebot" /\ Bot!Next /\ UNCHANGED <<part, vars, gwVars>>

MCNext == BusRuns \/ GatewayRuns \/ OnebotRuns

MCSpec == MCInit /\ [][MCNext]_allVars

-----------------------------------------------------------------------------
\* Each component has the fairness its module states.
LiveSpec ==
    /\ MCSpec
    /\ \/ part = "bus" /\ Fairness
       \/ part = "gateway" /\ Process!Fairness
       \/ part = "onebot" /\ Bot!Fairness

\* A good edit of the configuration file comes into force when nobody edits it
\* again, and an interrupt ends the process in the middle of a reload too.
GatewayLives == Process!ComesIntoForce /\ Process!InterruptEnds

\* A broken connection of OneBot is replaced.
Reconnects == Bot!Reconnects

=============================================================================
