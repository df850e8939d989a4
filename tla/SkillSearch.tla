---------------------------- MODULE SkillSearch -----------------------------
(***************************************************************************)
(* find_skills (pkg/tools/skills_search.go): calls of an agent's turns and *)
(* jobs that look into one SearchCache (pkg/skills/search_cache.go), ask   *)
(* all registries (SearchAll, pkg/skills/registry.go) and cache what they  *)
(* got.  What goes on inside SearchAll touches nothing that is shared: it  *)
(* returns when every registry has answered or failed.                     *)
(*                                                                         *)
(* A query is a name, trimmed and in lower case; Similarity is the Jaccard *)
(* similarity of the trigrams of two queries, in tenths.  The results of a *)
(* search are the registries that had some.  The times are ticks; those of *)
(* an entry and of its use lie within one step under the cache's lock.     *)
(***************************************************************************)
EXTENDS Naturals, FiniteSets, Sequences

CONSTANTS
    Queries,
    Similarity,     \* [Queries \X Queries -> 0..10]
    maxEntries, ttl,
    Registries,
    Callers,
    MaxSearches,    \* bound on the calls
    MaxTime         \* bound on the clock

ConstantsAssumption ==
    /\ Queries # {}
    /\ Similarity \in [Queries \X Queries -> 0..10]
    /\ {maxEntries, ttl} \subseteq Nat \ {0}
    /\ {MaxSearches, MaxTime} \subseteq Nat

similarityThreshold == 7

VARIABLES
    entries,    \* query -> when it was stored, and the results
    order,      \* the queries of entries, least recently used first
    now,
    pc, query,  \* of each caller
    results,    \* what a search returned that is about to be cached
    searches,
    uses,       \* every query that was stored or hit, the latest use last
    storedAt    \* when each was stored for the last time

vars == <<entries, order, now, pc, query, results, searches, uses, storedAt>>

AnyQuery == CHOOSE q \in Queries : TRUE

Init ==
    /\ entries = << >> /\ order = << >> /\ now = 0 /\ searches = 0 /\ uses = << >>
    /\ storedAt = [q \in Queries |-> 0]
    /\ pc = [c \in Callers |-> "idle"]
    /\ query = [c \in Callers |-> AnyQuery]
    /\ results = [c \in Callers |-> {}]

TypeOK ==
    /\ DOMAIN entries \subseteq Queries
    /\ entries \in [DOMAIN entries -> [at : 0..MaxTime, results : SUBSET Registries]]
    /\ order \in Seq(Queries) /\ uses \in Seq(Queries)
    /\ query \in [Callers -> Queries] /\ storedAt \in [Queries -> 0..MaxTime]
    /\ now \in 0..MaxTime /\ searches \in 0..MaxSearches
    /\ pc \in [Callers -> {"idle", "get", "search", "put"}]
    /\ results \in [Callers -> SUBSET Registries]

-----------------------------------------------------------------------------
(* SearchCache *)

Elements(s) == {s[i] : i \in DOMAIN s}

InOrder(b) == [n \in 1..Cardinality(b) |-> CHOOSE i \in b : Cardinality({j \in b : j <= i}) = n]

\* The elements of a sequence that are in a set, in their order.
Keeping(s, S) ==
    LET at == {i \in DOMAIN s : s[i] \in S}
    IN  [n \in 1..Cardinality(at) |-> s[InOrder(at)[n]]]

Fresh(q) == now < entries[q].at + ttl
Without(s, q) == Keeping(s, Elements(s) \ {q})

\* moveToEndLocked
\* Mutant: only an entry that is stored again is moved.
moveToEndLockedNot(q) == order' = order
moveToEndLocked(q) == order' = Append(Without(order, q), q)

\* The entries a Get of q may return: its own, or else the most similar ones,
\* of which the order of the map decides.
Similars(q) == {x \in DOMAIN entries : Fresh(x) /\ Similarity[q, x] >= similarityThreshold}
Hits(q) ==
    IF q \in DOMAIN entries /\ Fresh(q) THEN {q}
    ELSE {x \in Similars(q) : \A y \in Similars(q) : Similarity[q, y] <= Similarity[q, x]}

\* What an insertion of q leaves: the entries that are fresh, and of these the
\* ones used last, when there is no room for one more.
freshOrder == Keeping(order, {q \in Elements(order) : Fresh(q)})
Room(s) == IF Len(s) >= maxEntries THEN SubSeq(s, Len(s) - maxEntries + 2, Len(s)) ELSE s

Put(q, found) ==
    LET kept == IF q \in Elements(freshOrder) THEN freshOrder ELSE Room(freshOrder)
    IN  /\ order' = Append(Without(kept, q), q)
        /\ entries' = [x \in Elements(kept) \cup {q} |->
                          IF x = q THEN [at |-> now, results |-> found] ELSE entries[x]]
        /\ uses' = Append(Without(uses, q), q)
        /\ storedAt' = [storedAt EXCEPT ![q] = now]

-----------------------------------------------------------------------------
(* FindSkillsTool.Execute *)

\* What a call knows goes with it.
Return(c) ==
    /\ pc' = [pc EXCEPT ![c] = "idle"]
    /\ query' = [query EXCEPT ![c] = AnyQuery]
    /\ results' = [results EXCEPT ![c] = {}]

Call(c) ==
    /\ pc[c] = "idle" /\ searches < MaxSearches
    /\ searches' = searches + 1
    /\ \E q \in Queries : query' = [query EXCEPT ![c] = q]
    /\ pc' = [pc EXCEPT ![c] = "get"]
    /\ UNCHANGED <<entries, order, now, results, uses, storedAt>>

GetHits(c) ==
    /\ pc[c] = "get"
    /\ \E x \in Hits(query[c]) :
          /\ moveToEndLocked(x)
          /\ uses' = Append(Without(uses, x), x)
    /\ Return(c)
    /\ UNCHANGED <<entries, now, searches, storedAt>>

GetMisses(c) ==
    /\ pc[c] = "get" /\ Hits(query[c]) = {}
    /\ pc' = [pc EXCEPT ![c] = "search"]
    /\ UNCHANGED <<entries, order, now, query, results, searches, uses, storedAt>>

\* The results of the registries that had some; a registry that fails adds none.
\* An error, when all fail, and no results are not cached.
SearchAll(c) ==
    /\ pc[c] = "search"
    /\ \/ Return(c)
       \/ \E some \in (SUBSET Registries) \ {{}} :
             /\ results' = [results EXCEPT ![c] = some]
             /\ pc' = [pc EXCEPT ![c] = "put"]
             /\ UNCHANGED query
    /\ UNCHANGED <<entries, order, now, searches, uses, storedAt>>

PutResults(c) ==
    /\ pc[c] = "put"
    /\ Put(query[c], results[c])
    /\ Return(c)
    /\ UNCHANGED <<now, searches>>

Tick ==
    /\ now < MaxTime
    /\ now' = now + 1
    /\ UNCHANGED <<entries, order, pc, query, results, searches, uses, storedAt>>

Next ==
    \/ Tick
    \/ \E c \in Callers :
          \/ Call(c) \/ GetHits(c) \/ GetMisses(c) \/ SearchAll(c) \/ PutResults(c)

Spec == Init /\ [][Next]_vars

-----------------------------------------------------------------------------
(* Properties                                                              *)

EachOnce(s) == \A i, j \in DOMAIN s : s[i] = s[j] => i = j

\* The order is that of the entries, each once, and they are not too many.
OrderIsEntries ==
    /\ Elements(order) = DOMAIN entries /\ EachOnce(order)
    /\ Len(order) <= maxEntries

\* The order of the entries is that of their last uses, by whomever.
UsedBefore(x, y) == \E i, j \in DOMAIN uses : i < j /\ uses[i] = x /\ uses[j] = y
OrderedByUse == \A i, j \in DOMAIN order : i < j => UsedBefore(order[i], order[j])

\* Least recently used: what was stored is there until it expires or as many
\* queries as the cache holds have been used since its last use.
UsedSince(q) == {x \in Elements(uses) : UsedBefore(q, x)}
RecentAreKept ==
    \A q \in Elements(uses) \ DOMAIN entries :
        now >= storedAt[q] + ttl \/ Cardinality(UsedSince(q)) >= maxEntries

SearchInv == OrderIsEntries /\ OrderedByUse /\ RecentAreKept

\* Does not hold: a query of one or two letters has no trigrams, and two of them
\* are taken for equal, so that one gets the results of the other.
HitsAreOfTheQuery ==
    \A c \in Callers : pc[c] = "get" => \A x \in Hits(query[c]) : x = query[c]

\* Does not hold either: what is cached when a registry failed is served as the
\* result of all of them until it expires.
HitsAreComplete == \A q \in DOMAIN entries : entries[q].results = Registries
=============================================================================
