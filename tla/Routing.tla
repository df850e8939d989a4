------------------------------ MODULE Routing ------------------------------
(***************************************************************************)
(* Which agent answers a message and in which session (pkg/routing:        *)
(* route.go, session_key.go, agent_id.go), the registry of agents          *)
(* (pkg/agent/registry.go) and what the loop makes of them: messages of    *)
(* channels, and the results of subagents, which come back as messages of  *)
(* channel "system".                                                       *)
(*                                                                         *)
(* A text made of parts joined by ":" is the sequence of its parts, so     *)
(* that two different lists of parts that give one text are one value.     *)
(* Names are normalised by a table.                                        *)
(***************************************************************************)
EXTENDS Naturals, Sequences

CONSTANTS
    Configs,        \* [agents, bindings, dmScope, links]
    Inputs,         \* [channel, account, peer, parent, guild, team]
    Names,          \* all names in use, and the words of the code itself
    Lower,          \* the names whose normal form is another, with that
    MaxMessages     \* bound on messages

VARIABLES
    cfg,            \* the configuration
    routed,         \* the messages so far with route, serving agent and session
    task,           \* the session whose turn spawned a subagent
    reported        \* agent and session of the turn that gets its result

vars == <<cfg, routed, task, reported>>

None == <<>>        \* no peer, no text

Ids == Seq(Names) \ {None}
Peers == [kind : Names, id : Ids]

-----------------------------------------------------------------------------
\* Names.

ToLower(s) == IF s \in DOMAIN Lower THEN Lower[s] ELSE s

LowerAll(parts) == [i \in DOMAIN parts |-> ToLower(parts[i])]

NormalizeAgentID(id) == IF id = "" THEN "main" ELSE ToLower(id)

NormalizeAccountID(id) == IF id = "" THEN "default" ELSE ToLower(id)

-----------------------------------------------------------------------------
\* RouteResolver.

matchesAccountID(match, actual) ==
    \/ match = "" /\ actual = "default"
    \/ match = "*"
    \/ match \notin {"", "*"} /\ ToLower(match) = actual

\* filterBindings: the positions of the bindings that apply
filterBindings(in) ==
    {i \in DOMAIN cfg.bindings :
        /\ cfg.bindings[i].channel = in.channel
        /\ matchesAccountID(cfg.bindings[i].account, NormalizeAccountID(in.account))}

First(S) == CHOOSE i \in S : \A j \in S : i <= j

Unconditional(b) == b.peer = None /\ b.guild = "" /\ b.team = ""

\* The levels of the cascade in order: what matched and the bindings it is true of.
levels(in) ==
    LET B == filterBindings(in)
        b(i) == cfg.bindings[i]
    IN  << <<"binding.peer", {i \in B : in.peer # None /\ b(i).peer = in.peer}>>,
           <<"binding.peer.parent", {i \in B : in.parent # None /\ b(i).peer = in.parent}>>,
           <<"binding.guild", {i \in B : in.guild # "" /\ b(i).guild = in.guild}>>,
           <<"binding.team", {i \in B : in.team # "" /\ b(i).team = in.team}>>,
           <<"binding.account", {i \in B : b(i).account # "*" /\ Unconditional(b(i))}>>,
           <<"binding.channel", {i \in B : b(i).account = "*" /\ Unconditional(b(i))}>> >>

resolveDefaultAgentID ==
    LET marked == {i \in DOMAIN cfg.agents : cfg.agents[i].default /\ cfg.agents[i].id # ""}
    IN  IF cfg.agents = <<>> THEN "main"
        ELSE NormalizeAgentID(cfg.agents[IF marked = {} THEN 1 ELSE First(marked)].id)

\* agents of AgentRegistry
registered ==
    IF cfg.agents = <<>> THEN {"main"}
    ELSE {NormalizeAgentID(cfg.agents[i].id) : i \in DOMAIN cfg.agents}

pickAgentID(id) ==
    IF id # "" /\ (cfg.agents = <<>> \/ NormalizeAgentID(id) \in registered) THEN NormalizeAgentID(id)
    ELSE resolveDefaultAgentID

\* GetDefaultAgent: main, or the first that the map yields
defaultAgents == IF "main" \in registered THEN {"main"} ELSE registered

-----------------------------------------------------------------------------
\* Session keys.

MainSessionKey(agent) == <<"agent", agent, "main">>

\* resolveLinkedPeerID: the names that links list the peer under, as it is, with
\* the channel before it, and without the platform
linked(links, channel, id) ==
    LET candidates == {LowerAll(id), <<channel>> \o LowerAll(id)}
                        \cup (IF Len(id) > 1 THEN {Tail(LowerAll(id))} ELSE {})
    IN  {ToLower(name) : name \in {n \in DOMAIN links : \E l \in links[n] : LowerAll(l) \in candidates}}

\* The peer's identity: any of its links, or itself
identities(channel, id) ==
    LET names == linked(cfg.links, channel, id)
    IN  IF cfg.dmScope # "main" /\ names # {} THEN {<<name>> : name \in names} ELSE {LowerAll(id)}

directKey(agent, channel, account, id) ==
    CASE cfg.dmScope = "per-account-channel-peer" -> <<"agent", agent, channel, account, "direct">> \o id
      [] cfg.dmScope = "per-channel-peer" -> <<"agent", agent, channel, "direct">> \o id
      [] cfg.dmScope = "per-peer" -> <<"agent", agent, "direct">> \o id
      [] OTHER -> MainSessionKey(agent)

\* Mutant: the kind of a group is left out of its key
groupKeyWithoutKind(agent, channel, peer) == <<"agent", agent, channel>> \o LowerAll(peer.id)

groupKey(agent, channel, peer) == <<"agent", agent, channel, peer.kind>> \o LowerAll(peer.id)

\* BuildAgentPeerSessionKey
sessionKeys(agent, in) ==
    IF in.peer = None THEN {MainSessionKey(agent)}
    ELSE IF in.peer.kind = "direct" THEN
        {directKey(agent, in.channel, NormalizeAccountID(in.account), id) :
            id \in identities(in.channel, in.peer.id)}
    ELSE {groupKey(agent, in.channel, in.peer)}

-----------------------------------------------------------------------------
(* What the constants are                                                  *)

NormalForms ==
    /\ {"", "agent", "main", "default", "direct"} \subseteq Names
    /\ DOMAIN Lower \subseteq Names \ {"", "main"}
    /\ \A s \in DOMAIN Lower : Lower[s] \in Names \ ({""} \cup DOMAIN Lower)

IsConfig(c) ==
    /\ c.agents \in Seq([id : Names, default : BOOLEAN])
    /\ c.bindings \in Seq([channel : Names, account : Names, peer : {None} \cup Peers,
                           guild : Names, team : Names, agent : Names])
    /\ DOMAIN c.links \subseteq Names
    /\ \A name \in DOMAIN c.links : c.links[name] \subseteq Seq(Names)

IsInput(in) ==
    in \in [channel : Names, account : Names, peer : {None} \cup Peers, parent : {None} \cup Peers,
           guild : Names, team : Names]

ConstantsAssumption ==
    /\ NormalForms
    /\ \A c \in Configs : IsConfig(c)
    /\ \A in \in Inputs : IsInput(in)
    /\ MaxMessages \in Nat

Direct(in) == in.peer # None /\ in.peer.kind = "direct"
Grouped(in) == in.peer # None /\ in.peer.kind # "direct"

\* What the sessions need besides: nobody is listed under two names, no channel
\* is called "direct" and no account like a kind of peers, the ids of groups
\* differ by more than capitals, and only configured agents are bound.
NamesAssumption ==
    /\ \A c \in Configs :
          /\ c.dmScope \in {"main", "per-peer", "per-channel-peer", "per-account-channel-peer"}
          /\ \A in \in Inputs :
                Direct(in) => \A m, n \in linked(c.links, in.channel, in.peer.id) : m = n
          /\ c.agents = <<>> => \A i \in DOMAIN c.bindings : NormalizeAgentID(c.bindings[i].agent) = "main"
    /\ \A in \in Inputs : in.channel # "direct"
    /\ \A in, other \in Inputs :
          /\ Grouped(in) => in.peer.kind # NormalizeAccountID(other.account)
          /\ Grouped(in) /\ Grouped(other) /\ LowerAll(in.peer.id) = LowerAll(other.peer.id)
                => in.peer.id = other.peer.id

Reasons ==
    {"binding.peer", "binding.peer.parent", "binding.guild", "binding.team", "binding.account",
     "binding.channel", "default"}

TypeOK ==
    /\ cfg \in Configs
    /\ routed \in Seq([in : Inputs, agent : Names, by : Reasons, serves : Names, key : Ids])
    /\ task \in {None} \cup Ids
    /\ reported = None \/ reported \in [agent : Names, key : Ids]

-----------------------------------------------------------------------------

Init ==
    /\ cfg \in Configs
    /\ routed = <<>>
    /\ task = None /\ reported = None

\* ResolveRoute: the agent asked for and by what it was matched
ResolveRoute(in) ==
    LET hits == {n \in 1..6 : levels(in)[n][2] # {}}
        level == levels(in)[First(hits)]
    IN  IF hits = {} THEN <<resolveDefaultAgentID, "default">>
        ELSE <<cfg.bindings[First(level[2])].agent, level[1]>>

\* resolveMessageRoute and resolveScopeKey, for a message without a key of its own
processMessage(in) ==
    LET r == ResolveRoute(in)
        agent == pickAgentID(r[1])
        serving == IF agent \in registered THEN {agent} ELSE defaultAgents
    IN  /\ Len(routed) < MaxMessages
        /\ \E a \in serving, key \in sessionKeys(agent, in) :
               routed' = Append(routed, [in |-> in, agent |-> agent, by |-> r[2],
                                         serves |-> a, key |-> key])
        /\ UNCHANGED <<cfg, task, reported>>

\* A turn of the last message starts a subagent in the background.
Spawn ==
    /\ task = None /\ routed # <<>>
    /\ task' = routed[Len(routed)].key
    /\ UNCHANGED <<cfg, routed, reported>>

\* processSystemMessage with the result of the subagent
processSystemMessage ==
    /\ task # None /\ reported = None
    /\ \E a \in defaultAgents : reported' = [agent |-> a, key |-> MainSessionKey(a)]
    /\ UNCHANGED <<cfg, routed, task>>

Next ==
    \/ \E in \in Inputs : processMessage(in)
    \/ Spawn
    \/ processSystemMessage

Spec == Init /\ [][Next]_vars

-----------------------------------------------------------------------------

\* What the conditions of a binding are worth to a message: the order of
\* "peer > parent_peer > guild > team > account > channel_wildcard > default".
Rank(b, in) ==
    CASE b.peer # None /\ b.peer = in.peer -> 1
      [] b.peer # None /\ b.peer # in.peer /\ b.peer = in.parent -> 2
      [] b.guild # "" /\ b.guild = in.guild /\ (b.peer = None \/ b.peer \notin {in.peer, in.parent}) -> 3
      [] b.team # "" /\ b.team = in.team /\ b.guild \notin {in.guild} \ {""}
            /\ (b.peer = None \/ b.peer \notin {in.peer, in.parent}) -> 4
      [] Unconditional(b) /\ b.account # "*" -> 5
      [] Unconditional(b) /\ b.account = "*" -> 6
      [] OTHER -> 7

Applies(b, in) ==
    /\ b.channel = in.channel
    /\ b.account = "*" \/ NormalizeAccountID(b.account) = NormalizeAccountID(in.account)

\* The agent of a message is that of the binding worth most to it, the first
\* in the file of those; without one it is the default agent.
CascadeFollowed ==
    \A n \in DOMAIN routed :
        LET in == routed[n].in
            rank(i) == IF Applies(cfg.bindings[i], in) THEN Rank(cfg.bindings[i], in) ELSE 7
            best == {i \in DOMAIN cfg.bindings : /\ rank(i) < 7
                                                 /\ \A j \in DOMAIN cfg.bindings :
                                                        rank(i) < rank(j) \/ (rank(i) = rank(j) /\ i <= j)}
        IN  IF best = {} THEN routed[n].agent = resolveDefaultAgentID
            ELSE \E i \in best : routed[n].agent = pickAgentID(cfg.bindings[i].agent)

\* The agent a session is named for is the one that serves it, whatever the
\* bindings name (pickAgentID).
ServedByItsAgent == \A n \in DOMAIN routed : routed[n].serves = routed[n].key[2]

\* What dm_scope keeps apart: the conversation a message belongs to.
Conversation(in) ==
    IF in.peer = None THEN <<"main">>
    ELSE IF in.peer.kind # "direct" THEN <<"group", in.channel, in.peer.kind, in.peer.id>>
    ELSE CASE cfg.dmScope = "main" -> <<"main">>
           [] cfg.dmScope = "per-peer" -> <<"direct", identities(in.channel, in.peer.id)>>
           [] cfg.dmScope = "per-channel-peer" -> <<"direct", in.channel, identities(in.channel, in.peer.id)>>
           [] OTHER -> <<"direct", in.channel, NormalizeAccountID(in.account), identities(in.channel, in.peer.id)>>

\* Two messages share a session exactly when they belong to one conversation of
\* one agent: nobody sees another's history, and nobody loses his own.
SessionsApart ==
    \A m, n \in DOMAIN routed :
        routed[m].key = routed[n].key <=>
            /\ routed[m].agent = routed[n].agent
            /\ Conversation(routed[m].in) = Conversation(routed[n].in)

\* "GetDefaultAgent returns the default agent instance" (registry.go): the agent
\* that TestResolveRoute_DefaultAgentSelection expects, the one marked default.
DefaultIsDefault == reported # None => reported.agent = resolveDefaultAgentID

\* "Use the origin session for context" (processSystemMessage, loop.go:858).
ReportsToOrigin == reported # None => reported.key = task
=============================================================================
