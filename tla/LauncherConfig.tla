--------------------------- MODULE LauncherConfig ---------------------------
(***************************************************************************)
(* The configuration handlers of the launcher                              *)
(* (web/backend/api/config.go, models.go, pico.go, tools.go).              *)
(*                                                                         *)
(* Every handler that changes the configuration loads the whole file,      *)
(* edits its copy and saves the whole copy; net/http runs the handlers     *)
(* concurrently and no lock covers the two steps.  Models are addressed    *)
(* by their index in the list that the client saw last.                    *)
(*                                                                         *)
(* A client is a browser tab: it fetches its view, sends one request from  *)
(* it, waits for the answer and fetches its view again                     *)
(* (web/frontend/src/components/models/models-page.tsx).  A key is named   *)
(* by the vendor it was entered for.                                       *)
(***************************************************************************)
EXTENDS Naturals, Sequences, SequencesExt, TLAPS

CONSTANTS
    Clients,      \* browser tabs
    Names,        \* model_name of an entry
    Vendors,      \* model of an entry, and the key that goes with it
    MaxModels     \* bound on len(model_list)

ConstantsAssumption == MaxModels \in Nat \ {0}

None == "none"

Entry == [name : Names, vendor : Vendors, key : Vendors \cup {None}]

\* config.Config: model_list, agents.defaults.model_name,
\* channels.pico.{enabled, token}, tools.{spawn, subagent}.enabled.
Config ==
    [models : BoundedSeq(Entry, MaxModels), default : Names \cup {None},
     pico : BOOLEAN, token : {None, "token"},
     spawn : BOOLEAN, subagent : BOOLEAN]

VARIABLES
    file,    \* the configuration file
    view,    \* view[c]: the configuration the tab shows, << >> if none
    job,     \* job[c]: what the tab's request does, "idle" without request
    copy     \* copy[c]: the configuration its handler is about to save

vars == <<file, view, job, copy>>

Nothing == << >>

Jobs == {"idle", "add", "update", "delete", "default", "patch", "put",
         "regen", "pico", "tool"}

TypeOK ==
    /\ file \in Config
    /\ view \in [Clients -> Config \cup {Nothing}]
    /\ job \in [Clients -> Jobs]
    /\ copy \in [Clients -> Config \cup {Nothing}]

Init ==
    /\ \E n \in Names, v \in Vendors :
          file = [models |-> << [name |-> n, vendor |-> v, key |-> v] >>,
                  default |-> n, pico |-> FALSE, token |-> None,
                  spawn |-> FALSE, subagent |-> FALSE]
    /\ view = [c \in Clients |-> Nothing]
    /\ job = [c \in Clients |-> "idle"]
    /\ copy = [c \in Clients |-> Nothing]

-----------------------------------------------------------------------------
(* The edits the handlers make on their copy.                              *)

\* handleListModels, handleGetConfig, handleGetPicoToken, handleListTools.
Fetch(c) ==
    /\ job[c] = "idle" /\ view[c] = Nothing
    /\ view' = [view EXCEPT ![c] = file]
    /\ UNCHANGED <<file, job, copy>>

\* The handler has loaded and edited: the save is still to come.  The tab
\* has sent what it shows and will fetch it again.
Loaded(c, op, new) ==
    /\ job[c] = "idle" /\ view[c] # Nothing
    /\ view' = [view EXCEPT ![c] = Nothing]
    /\ job' = [job EXCEPT ![c] = op]
    /\ copy' = [copy EXCEPT ![c] = new]
    /\ UNCHANGED file

\* A request that an early return answers: nothing changes, the tab
\* fetches its view again.
Refused(c) ==
    /\ job[c] = "idle" /\ view[c] # Nothing
    /\ view' = [view EXCEPT ![c] = Nothing]
    /\ UNCHANGED <<file, job, copy>>

\* handleAddModel: the new entry is appended.
handleAddModel(c, n, v, k) ==
    /\ Len(file.models) < MaxModels
    /\ Loaded(c, "add",
              [file EXCEPT !.models =
                  Append(@, [name |-> n, vendor |-> v, key |-> k])])

\* The entry that replaces `old` when the body is mc: an omitted key is
\* taken from the entry it replaces.
Updated(old, mc) == IF mc.key = None THEN [mc EXCEPT !.key = old.key] ELSE mc

\* handleUpdateModel: the tab sends the name and model of the entry it shows
\* at index i, with a newly typed key or none (edit-model-sheet.tsx).  The
\* handler applies it to the entry at index i of the file.
handleUpdateModel(c, i, typed) ==
    /\ view[c] # Nothing /\ i \in 1..Len(view[c].models)
    /\ LET shown == view[c].models[i]
           mc == [shown EXCEPT !.key = IF typed THEN shown.vendor ELSE None]
       IN IF i \in 1..Len(file.models)
          THEN Loaded(c, "update",
                      [file EXCEPT !.models[i] = Updated(@, mc)])
          ELSE Refused(c)

\* handleDeleteModel: the entry at index i goes; a default of its name is
\* cleared.
Deleted(cfg, i) ==
    [cfg EXCEPT !.models = RemoveAt(@, i),
                !.default = IF @ = cfg.models[i].name THEN None ELSE @]

handleDeleteModel(c, i) ==
    /\ view[c] # Nothing /\ i \in 1..Len(view[c].models)
    /\ IF i \in 1..Len(file.models)
       THEN Loaded(c, "delete", Deleted(file, i))
       ELSE Refused(c)

\* handleSetDefaultModel: only a name of the list becomes the default.
Listed(cfg, n) == \E i \in DOMAIN cfg.models : cfg.models[i].name = n

handleSetDefaultModel(c, n) ==
    /\ view[c] # Nothing /\ Listed(view[c], n)
    /\ IF Listed(file, n)
       THEN Loaded(c, "default", [file EXCEPT !.default = n])
       ELSE Refused(c)

\* Mutant: the rules for the channels are left out.
validateNothing(cfg) == TRUE

\* validateConfig, for the fields of the model.
validateConfig(cfg) == cfg.pico => cfg.token # None

\* handlePatchConfig: mergeMap puts the fields of the patch into the loaded
\* configuration; the result is validated.  The patches are those of the
\* channel page: enabled and token of the pico channel.
mergeMap(cfg, on, t) == [cfg EXCEPT !.pico = on, !.token = t]

handlePatchConfig(c, on, t) ==
    IF validateConfig(mergeMap(file, on, t))
    THEN Loaded(c, "patch", mergeMap(file, on, t))
    ELSE Refused(c)

\* handleUpdateConfig: the body, edited from the shown configuration, is the
\* new file; nothing is loaded.
handleUpdateConfig(c, on, t) ==
    /\ view[c] # Nothing
    /\ IF validateConfig(mergeMap(view[c], on, t))
       THEN Loaded(c, "put", mergeMap(view[c], on, t))
       ELSE Refused(c)

\* handleRegenPicoToken: a new token, whether the channel is enabled or not.
handleRegenPicoToken(c) == Loaded(c, "regen", [file EXCEPT !.token = "token"])

\* ensurePicoChannel, for POST /api/pico/setup and before a gateway starts:
\* nothing is saved when nothing has to change.
EnsuredPico(cfg) == [cfg EXCEPT !.pico = TRUE, !.token = "token"]

ensurePicoChannel(c) ==
    IF EnsuredPico(file) # file
    THEN Loaded(c, "pico", EnsuredPico(file))
    ELSE Refused(c)

\* applyToolState for "spawn": enabling it enables what it depends on.
applyToolState(cfg, on) ==
    [cfg EXCEPT !.spawn = on, !.subagent = @ \/ on]

handleUpdateToolState(c, on) == Loaded(c, "tool", applyToolState(file, on))

-----------------------------------------------------------------------------
(* The end of every handler.                                               *)

Done(c) ==
    /\ job' = [job EXCEPT ![c] = "idle"]
    /\ copy' = [copy EXCEPT ![c] = Nothing]
    /\ UNCHANGED view

\* config.SaveConfig replaces the file atomically.
SaveConfig(c) ==
    /\ job[c] # "idle"
    /\ file' = copy[c]
    /\ Done(c)

\* The write fails: the handler answers an error, the old file stays.
SaveFails(c) ==
    /\ job[c] # "idle"
    /\ UNCHANGED file
    /\ Done(c)

Next ==
    \/ \E c \in Clients : Fetch(c)
    \/ \E c \in Clients, n \in Names, v \in Vendors :
          handleAddModel(c, n, v, v) \/ handleAddModel(c, n, v, None)
    \/ \E c \in Clients, i \in 1..MaxModels, typed \in BOOLEAN :
          handleUpdateModel(c, i, typed)
    \/ \E c \in Clients, i \in 1..MaxModels : handleDeleteModel(c, i)
    \/ \E c \in Clients, n \in Names : handleSetDefaultModel(c, n)
    \/ \E c \in Clients, on \in BOOLEAN, t \in {None, "token"} :
          handlePatchConfig(c, on, t)
    \/ \E c \in Clients, on \in BOOLEAN, t \in {None, "token"} :
          handleUpdateConfig(c, on, t)
    \/ \E c \in Clients : handleRegenPicoToken(c)
    \/ \E c \in Clients : ensurePicoChannel(c)
    \/ \E c \in Clients, on \in BOOLEAN : handleUpdateToolState(c, on)
    \/ \E c \in Clients : SaveConfig(c)
    \/ \E c \in Clients : SaveFails(c)

Spec == Init /\ [][Next]_vars

-----------------------------------------------------------------------------
(* Properties.                                                             *)

\* Whatever the handlers do to one another's saves, the file never enables
\* the pico channel without a token (validateConfig: "channels.pico.token is
\* required when pico channel is enabled").
PicoUsable == file.pico => file.token # None

\* No order of tool toggles and other saves leaves spawn enabled without the
\* subagent tool it needs: buildToolSupport never reports it as blocked.
SpawnNotBlocked == file.spawn => file.subagent

\* The key of an entry was entered for that entry's model: handleUpdateModel
\* keeps "the existing stored key" of the model that the tab edited, and
\* never hands it to another vendor's model.
KeyOfItsModel ==
    \A i \in DOMAIN file.models :
        file.models[i].key \in {file.models[i].vendor, None}

\* A key that is stored is never cleared by an edit that leaves it out: the
\* entries before and after an update have the same keys.
KeysSurviveUpdates ==
    [][\A c \in Clients : (job[c] = "update" /\ file' = copy[c] /\ file' # file)
          => \A i \in DOMAIN file.models \cap DOMAIN file'.models :
                file.models[i].key # None => file'.models[i].key # None]_vars

\* The default model is in model_list: handleSetDefaultModel verifies it and
\* handleDeleteModel clears a default it removes.
DefaultListed == file.default # None => Listed(file, file.default)

\* "Only the fields present in the request body will be updated; all other
\* fields remain unchanged" (handlePatchConfig).
OthersKept ==
    [][\A c \in Clients : (job[c] = "patch" /\ job'[c] = "idle")
          => file' = [file EXCEPT !.pico = file'.pico, !.token = file'.token]]_vars

-----------------------------------------------------------------------------
(* Proofs, for any tabs, names, vendors and bound of the list.            *)

\* What holds of every configuration in a file, a tab or a handler.
Sound(cfg) == (cfg.pico => cfg.token # None) /\ (cfg.spawn => cfg.subagent)

\* What one tab at a time keeps.
KeysRight(cfg) == \A i \in DOMAIN cfg.models : cfg.models[i].key \in {cfg.models[i].vendor, None}
DefaultThere(cfg) == cfg.default # None => Listed(cfg, cfg.default)
Kept(cfg) == KeysRight(cfg) /\ DefaultThere(cfg)

LEMMA BoundedIs ==
    ASSUME NEW S, NEW n \in Nat, NEW s
    PROVE  s \in BoundedSeq(S, n) <=> s \in Seq(S) /\ Len(s) <= n
<1>1. ASSUME s \in Seq(S), Len(s) <= n
      PROVE  s \in BoundedSeq(S, n)
  <2>1. Len(s) \in 0..n /\ s \in [1..Len(s) -> S]
    BY <1>1
  <2> QED
    BY <2>1 DEF BoundedSeq, SeqOf
<1>2. ASSUME s \in BoundedSeq(S, n)
      PROVE  s \in Seq(S) /\ Len(s) <= n
  <2>1. PICK m \in 0..n : s \in [1..m -> S]
    BY <1>2 DEF BoundedSeq, SeqOf
  <2> QED
    BY <2>1
<1> QED
  BY <1>1, <1>2

LEMMA EntryFields ==
    ASSUME NEW n \in Names, NEW v \in Vendors, NEW k \in Vendors \cup {None}
    PROVE  /\ [name |-> n, vendor |-> v, key |-> k] \in Entry
           /\ [name |-> n, vendor |-> v, key |-> k].name = n
           /\ [name |-> n, vendor |-> v, key |-> k].vendor = v
           /\ [name |-> n, vendor |-> v, key |-> k].key = k
BY DEF Entry

LEMMA ModelsType ==
    ASSUME ConstantsAssumption, NEW cfg \in Config
    PROVE  cfg.models \in Seq(Entry) /\ Len(cfg.models) <= MaxModels
BY BoundedIs DEF Config, ConstantsAssumption

\* A configuration whose models are exchanged.
Exchanged(cfg, m, d) == [cfg EXCEPT !.models = m, !.default = d]

LEMMA ModelsReplaced ==
    ASSUME ConstantsAssumption, NEW cfg \in Config, NEW m \in Seq(Entry), Len(m) <= MaxModels,
           NEW d \in Names \cup {None}
    PROVE  /\ Exchanged(cfg, m, d) \in Config
           /\ Exchanged(cfg, m, d).models = m /\ Exchanged(cfg, m, d).default = d
           /\ Sound(cfg) => Sound(Exchanged(cfg, m, d))
<1>1. m \in BoundedSeq(Entry, MaxModels)
  BY BoundedIs DEF ConstantsAssumption
<1> QED
  BY <1>1 DEF Exchanged, Config, Sound

LEMMA AddEdit ==
    ASSUME ConstantsAssumption, NEW cfg \in Config, Len(cfg.models) < MaxModels,
           NEW n \in Names, NEW v \in Vendors, NEW k \in {v, None}
    PROVE  LET new == [cfg EXCEPT !.models = Append(@, [name |-> n, vendor |-> v, key |-> k])]
           IN  /\ new \in Config
               /\ Sound(cfg) => Sound(new)
               /\ Kept(cfg) => Kept(new)
<1> DEFINE e == [name |-> n, vendor |-> v, key |-> k]
           m == Append(cfg.models, e)
           new == [cfg EXCEPT !.models = Append(@, e)]
<1>1. e \in Entry /\ e.vendor = v /\ e.key = k
  BY EntryFields
<1>2. cfg.models \in Seq(Entry)
  BY ModelsType
<1> HIDE DEF e
<1>3. /\ m \in Seq(Entry) /\ Len(m) <= MaxModels
      /\ DOMAIN m = 1..(Len(cfg.models) + 1) /\ DOMAIN cfg.models = 1..Len(cfg.models)
      /\ \A i \in DOMAIN cfg.models : m[i] = cfg.models[i]
      /\ m[Len(cfg.models) + 1] = e
  BY <1>1, <1>2, ModelsType DEF ConstantsAssumption
<1> HIDE DEF m
<1>4. new = Exchanged(cfg, m, cfg.default) /\ cfg.default \in Names \cup {None}
  BY DEF m, Exchanged, Config
<1>5. new \in Config /\ new.models = m /\ new.default = cfg.default /\ (Sound(cfg) => Sound(new))
  BY <1>3, <1>4, ModelsReplaced
<1> HIDE DEF new
<1>6. Len(cfg.models) \in Nat
  BY <1>2
<1>7. ASSUME Kept(cfg)
      PROVE  Kept(new)
  <2>1. KeysRight(new)
    BY <1>1, <1>3, <1>5, <1>6, <1>7 DEF Kept, KeysRight
  <2>2. DefaultThere(new)
    BY <1>3, <1>5, <1>6, <1>7 DEF Kept, DefaultThere, Listed
  <2> QED
    BY <2>1, <2>2 DEF Kept
<1> QED
  BY <1>5, <1>7 DEF new, e

LEMMA UpdateEdit ==
    ASSUME ConstantsAssumption, NEW cfg \in Config, NEW i \in 1..Len(cfg.models), NEW shown \in Entry,
           NEW typed \in BOOLEAN
    PROVE  LET mc == [shown EXCEPT !.key = IF typed THEN shown.vendor ELSE None]
               new == [cfg EXCEPT !.models[i] = Updated(@, mc)]
           IN  /\ new \in Config
               /\ Sound(cfg) => Sound(new)
               /\ Kept(cfg) /\ shown = cfg.models[i] => Kept(new)
<1> DEFINE mc == [shown EXCEPT !.key = IF typed THEN shown.vendor ELSE None]
           e == Updated(cfg.models[i], mc)
           m == [cfg.models EXCEPT ![i] = e]
           new == [cfg EXCEPT !.models[i] = Updated(@, mc)]
<1>1. cfg.models \in Seq(Entry) /\ Len(cfg.models) <= MaxModels
  BY ModelsType
<1>2. cfg.models[i] \in Entry
  BY <1>1
<1>3. e \in Entry /\ e.name = shown.name /\ e.vendor = shown.vendor
      /\ e.key \in {shown.vendor, cfg.models[i].key}
  BY <1>2 DEF Updated, Entry
<1>4. new = Exchanged(cfg, m, cfg.default) /\ cfg.default \in Names \cup {None}
  BY DEF Exchanged, Config
<1> HIDE DEF e, new
<1>5. /\ m \in Seq(Entry) /\ Len(m) <= MaxModels
      /\ DOMAIN m = DOMAIN cfg.models
      /\ \A j \in DOMAIN cfg.models : m[j] = IF j = i THEN e ELSE cfg.models[j]
  BY <1>1, <1>3
<1> HIDE DEF m
<1>6. new \in Config /\ new.models = m /\ new.default = cfg.default /\ (Sound(cfg) => Sound(new))
  BY <1>4, <1>5, ModelsReplaced
<1>7. ASSUME Kept(cfg), shown = cfg.models[i]
      PROVE  Kept(new)
  <2>1. i \in DOMAIN cfg.models
    BY <1>1
  <2>2. KeysRight(new)
    BY <1>3, <1>5, <1>6, <1>7, <2>1 DEF Kept, KeysRight
  <2>3. DefaultThere(new)
    BY <1>3, <1>5, <1>6, <1>7 DEF Kept, DefaultThere, Listed
  <2> QED
    BY <2>2, <2>3 DEF Kept
<1> QED
  BY <1>6, <1>7 DEF new

LEMMA DeleteEdit ==
    ASSUME ConstantsAssumption, NEW cfg \in Config, NEW i \in 1..Len(cfg.models)
    PROVE  /\ Deleted(cfg, i) \in Config
           /\ Sound(cfg) => Sound(Deleted(cfg, i))
           /\ Kept(cfg) => Kept(Deleted(cfg, i))
<1> DEFINE n == Len(cfg.models)
           m == RemoveAt(cfg.models, i)
           d == IF cfg.default = cfg.models[i].name THEN None ELSE cfg.default
<1>1. cfg.models \in Seq(Entry) /\ n <= MaxModels /\ n \in Nat
  BY ModelsType
<1>2. /\ m \in Seq(Entry) /\ Len(m) = n - 1
      /\ \A j \in 1..(n - 1) : m[j] = IF j < i THEN cfg.models[j] ELSE cfg.models[j + 1]
  <2> DEFINE a == SubSeq(cfg.models, 1, i - 1)
             b == SubSeq(cfg.models, i + 1, n)
  <2>1. a \in Seq(Entry) /\ Len(a) = i - 1 /\ \A j \in 1..(i - 1) : a[j] = cfg.models[j]
    BY <1>1
  <2>2. b \in Seq(Entry) /\ Len(b) = n - i /\ \A j \in 1..(n - i) : b[j] = cfg.models[i + j]
    BY <1>1
  <2>3. m = a \o b
    BY DEF RemoveAt
  <2> HIDE DEF a, b, m
  <2>4. m \in Seq(Entry) /\ Len(m) = n - 1
    BY <1>1, <2>1, <2>2, <2>3
  <2>5. ASSUME NEW j \in 1..(n - 1)
        PROVE  m[j] = IF j < i THEN cfg.models[j] ELSE cfg.models[j + 1]
    <3>1. CASE j < i
      BY <1>1, <2>1, <2>2, <2>3, <3>1
    <3>2. CASE ~(j < i)
      <4>1. j > i - 1 /\ j - (i - 1) \in 1..(n - i) /\ i + (j - (i - 1)) = j + 1
        BY <1>1, <3>2
      <4>2. m[j] = b[j - (i - 1)]
        BY <1>1, <2>1, <2>2, <2>3, <4>1
      <4> QED
        BY <2>2, <3>2, <4>1, <4>2
    <3> QED
      BY <3>1, <3>2
  <2> QED
    BY <2>4, <2>5
<1>3. d \in Names \cup {None}
  BY DEF Config
<1>4. Deleted(cfg, i) = Exchanged(cfg, m, d)
  BY DEF Deleted, Exchanged
<1> HIDE DEF m, d
<1>5. /\ Deleted(cfg, i) \in Config /\ Deleted(cfg, i).models = m /\ Deleted(cfg, i).default = d
      /\ Sound(cfg) => Sound(Deleted(cfg, i))
  BY <1>1, <1>2, <1>3, <1>4, ModelsReplaced DEF ConstantsAssumption
<1>6. DOMAIN m = 1..(n - 1) /\ DOMAIN cfg.models = 1..n
  BY <1>1, <1>2
<1>7. ASSUME Kept(cfg)
      PROVE  Kept(Deleted(cfg, i))
  <2>1. KeysRight(Deleted(cfg, i))
    <3> SUFFICES ASSUME NEW j \in 1..(n - 1)
                 PROVE  m[j].key \in {m[j].vendor, None}
      BY <1>5, <1>6 DEF KeysRight
    <3>1. j \in 1..n /\ j + 1 \in 1..n
      BY <1>1
    <3> QED
      BY <1>2, <1>6, <1>7, <3>1 DEF Kept, KeysRight
  <2>2. DefaultThere(Deleted(cfg, i))
    <3> SUFFICES ASSUME d # None
                 PROVE  \E j \in 1..(n - 1) : m[j].name = d
      BY <1>5, <1>6 DEF DefaultThere, Listed
    <3>1. d = cfg.default /\ cfg.models[i].name # cfg.default
      BY DEF d
    <3>2. PICK k \in 1..n : cfg.models[k].name = cfg.default
      BY <1>6, <1>7, <3>1 DEF Kept, DefaultThere, Listed
    <3>3. k # i
      BY <3>1, <3>2
    <3>4. CASE k < i
      BY <1>1, <1>2, <3>1, <3>2, <3>4
    <3>5. CASE k > i
      <4>1. k - 1 \in 1..(n - 1) /\ ~(k - 1 < i) /\ (k - 1) + 1 = k
        BY <1>1, <3>2, <3>5
      <4> QED
        BY <1>2, <3>1, <3>2, <4>1
    <3> QED
      BY <1>1, <3>2, <3>3, <3>4, <3>5
  <2> QED
    BY <2>1, <2>2 DEF Kept
<1> QED
  BY <1>5, <1>7

LEMMA DefaultEdit ==
    ASSUME NEW cfg \in Config, NEW n \in Names
    PROVE  /\ [cfg EXCEPT !.default = n] \in Config
           /\ Sound(cfg) => Sound([cfg EXCEPT !.default = n])
           /\ Kept(cfg) /\ Listed(cfg, n) => Kept([cfg EXCEPT !.default = n])
BY DEF Config, Sound, Kept, KeysRight, DefaultThere, Listed

\* The edits that leave the models alone.
LEMMA OtherEdits ==
    ASSUME NEW cfg \in Config, NEW on \in BOOLEAN, NEW t \in {None, "token"}
    PROVE  /\ mergeMap(cfg, on, t) \in Config
           /\ Sound(cfg) /\ validateConfig(mergeMap(cfg, on, t)) => Sound(mergeMap(cfg, on, t))
           /\ Kept(cfg) => Kept(mergeMap(cfg, on, t))
           /\ [cfg EXCEPT !.token = "token"] \in Config
           /\ Sound(cfg) => Sound([cfg EXCEPT !.token = "token"])
           /\ Kept(cfg) => Kept([cfg EXCEPT !.token = "token"])
           /\ EnsuredPico(cfg) \in Config
           /\ Sound(cfg) => Sound(EnsuredPico(cfg))
           /\ Kept(cfg) => Kept(EnsuredPico(cfg))
           /\ applyToolState(cfg, on) \in Config
           /\ Sound(cfg) => Sound(applyToolState(cfg, on))
           /\ Kept(cfg) => Kept(applyToolState(cfg, on))
<1>2. /\ mergeMap(cfg, on, t) \in Config
      /\ Sound(cfg) /\ validateConfig(mergeMap(cfg, on, t)) => Sound(mergeMap(cfg, on, t))
      /\ Kept(cfg) => Kept(mergeMap(cfg, on, t))
  BY DEF mergeMap, validateConfig, Config, Sound, Kept, KeysRight, DefaultThere, Listed
<1>3. /\ [cfg EXCEPT !.token = "token"] \in Config
      /\ Sound(cfg) => Sound([cfg EXCEPT !.token = "token"])
      /\ Kept(cfg) => Kept([cfg EXCEPT !.token = "token"])
  BY DEF Config, Sound, Kept, KeysRight, DefaultThere, Listed, None
<1>4. /\ EnsuredPico(cfg) \in Config
      /\ Sound(cfg) => Sound(EnsuredPico(cfg))
      /\ Kept(cfg) => Kept(EnsuredPico(cfg))
  BY DEF EnsuredPico, Config, Sound, Kept, KeysRight, DefaultThere, Listed, None
<1>5. applyToolState(cfg, on) \in Config
  BY DEF applyToolState, Config
<1>6. Sound(cfg) => Sound(applyToolState(cfg, on))
  BY DEF applyToolState, Config, Sound
<1>7. Kept(cfg) => Kept(applyToolState(cfg, on))
  BY DEF applyToolState, Config, Kept, KeysRight, DefaultThere, Listed
<1> QED
  BY <1>2, <1>3, <1>4, <1>5, <1>6, <1>7

-----------------------------------------------------------------------------

\* A handler that is about to save has a configuration.
Typed == TypeOK /\ \A c \in Clients : job[c] # "idle" => copy[c] \in Config

SoundInv ==
    /\ Sound(file)
    /\ \A c \in Clients : /\ view[c] # Nothing => Sound(view[c])
                          /\ job[c] # "idle" => Sound(copy[c])

\* A tab that shows a configuration shows the file.
TabInv ==
    /\ Kept(file)
    /\ \A c \in Clients : /\ view[c] # Nothing => view[c] = file /\ job[c] = "idle"
                          /\ job[c] # "idle" => Kept(copy[c])

OneClient == \A c, d \in Clients : c = d

LEMMA LoadedStep ==
    ASSUME Typed, NEW c \in Clients, NEW op \in Jobs \ {"idle"}, NEW new \in Config, Loaded(c, op, new)
    PROVE  /\ Typed'
           /\ SoundInv /\ Sound(new) => SoundInv'
           /\ TabInv /\ Kept(new) => TabInv'
<1>1. Typed'
  BY DEF Loaded, Typed, TypeOK
<1>2. SoundInv /\ Sound(new) => SoundInv'
  BY DEF Loaded, Typed, TypeOK, SoundInv
<1>3. TabInv /\ Kept(new) => TabInv'
  BY DEF Loaded, Typed, TypeOK, TabInv
<1> QED
  BY <1>1, <1>2, <1>3

LEMMA RefusedStep ==
    ASSUME Typed, NEW c \in Clients, Refused(c)
    PROVE  /\ Typed'
           /\ SoundInv => SoundInv'
           /\ TabInv => TabInv'
BY DEF Refused, Typed, TypeOK, SoundInv, TabInv

LEMMA FetchStep ==
    ASSUME Typed, NEW c \in Clients, Fetch(c)
    PROVE  /\ Typed'
           /\ SoundInv => SoundInv'
           /\ TabInv => TabInv'
BY DEF Fetch, Typed, TypeOK, SoundInv, TabInv

\* Only here does one tab change what another shows.
LEMMA SaveSteps ==
    ASSUME Typed, NEW c \in Clients, SaveConfig(c) \/ SaveFails(c)
    PROVE  /\ Typed'
           /\ SoundInv => SoundInv'
           /\ OneClient /\ TabInv => TabInv'
<1>1. "idle" \in Jobs
  BY DEF Jobs
<1>2. Typed'
  BY <1>1 DEF SaveConfig, SaveFails, Done, Typed, TypeOK
<1>3. SoundInv => SoundInv'
  BY DEF SaveConfig, SaveFails, Done, Typed, TypeOK, SoundInv
<1>4. OneClient /\ TabInv => TabInv'
  BY DEF SaveConfig, SaveFails, Done, Typed, TypeOK, TabInv, OneClient
<1> QED
  BY <1>2, <1>3, <1>4

\* The requests that edit the list of models.
LEMMA ModelRequests ==
    ASSUME ConstantsAssumption, Typed, NEW c \in Clients,
           \/ \E n \in Names, v \in Vendors : handleAddModel(c, n, v, v) \/ handleAddModel(c, n, v, None)
           \/ \E i \in 1..MaxModels, typed \in BOOLEAN : handleUpdateModel(c, i, typed)
           \/ \E i \in 1..MaxModels : handleDeleteModel(c, i)
           \/ \E n \in Names : handleSetDefaultModel(c, n)
    PROVE  /\ Typed'
           /\ SoundInv => SoundInv'
           /\ TabInv => TabInv'
<1>0. file \in Config /\ (view[c] # Nothing => view[c] \in Config)
  BY DEF Typed, TypeOK
<1>1. ASSUME NEW n \in Names, NEW v \in Vendors, NEW k \in {v, None}, handleAddModel(c, n, v, k)
      PROVE  /\ Typed'
             /\ SoundInv => SoundInv'
             /\ TabInv => TabInv'
  <2> DEFINE new == [file EXCEPT !.models = Append(@, [name |-> n, vendor |-> v, key |-> k])]
  <2>1. Len(file.models) < MaxModels /\ Loaded(c, "add", new)
    BY <1>1 DEF handleAddModel
  <2>2. new \in Config /\ (Sound(file) => Sound(new)) /\ (Kept(file) => Kept(new))
    BY <1>0, <2>1, AddEdit
  <2> HIDE DEF new
  <2> QED
    BY <2>1, <2>2, LoadedStep DEF Jobs, SoundInv, TabInv
<1>2. ASSUME NEW i \in 1..MaxModels, NEW typed \in BOOLEAN, handleUpdateModel(c, i, typed)
      PROVE  /\ Typed'
             /\ SoundInv => SoundInv'
             /\ TabInv => TabInv'
  <2> DEFINE mc == [view[c].models[i] EXCEPT !.key = IF typed THEN view[c].models[i].vendor ELSE None]
             new == [file EXCEPT !.models[i] = Updated(@, mc)]
  <2>1. view[c] # Nothing /\ i \in 1..Len(view[c].models) /\ view[c].models[i] \in Entry
    <3>1. view[c] # Nothing /\ i \in 1..Len(view[c].models)
      BY <1>2 DEF handleUpdateModel
    <3> QED
      BY <1>0, <3>1, ModelsType
  <2>2. CASE Refused(c)
    BY <2>2, RefusedStep
  <2>3. CASE i \in 1..Len(file.models) /\ Loaded(c, "update", new)
    <3>1. /\ new \in Config /\ (Sound(file) => Sound(new))
          /\ Kept(file) /\ view[c].models[i] = file.models[i] => Kept(new)
      BY <1>0, <2>1, <2>3, UpdateEdit
    <3> HIDE DEF new
    <3>2. TabInv => view[c] = file
      BY <2>1 DEF TabInv
    <3> QED
      BY <2>3, <3>1, <3>2, LoadedStep DEF Jobs, SoundInv, TabInv
  <2> QED
    BY <1>2, <2>2, <2>3 DEF handleUpdateModel
<1>3. ASSUME NEW i \in 1..MaxModels, handleDeleteModel(c, i)
      PROVE  /\ Typed'
             /\ SoundInv => SoundInv'
             /\ TabInv => TabInv'
  <2>1. CASE Refused(c)
    BY <2>1, RefusedStep
  <2>2. CASE i \in 1..Len(file.models) /\ Loaded(c, "delete", Deleted(file, i))
    <3>1. /\ Deleted(file, i) \in Config
          /\ Sound(file) => Sound(Deleted(file, i))
          /\ Kept(file) => Kept(Deleted(file, i))
      BY <1>0, <2>2, DeleteEdit
    <3> QED
      BY <2>2, <3>1, LoadedStep DEF Jobs, SoundInv, TabInv
  <2> QED
    BY <1>3, <2>1, <2>2 DEF handleDeleteModel
<1>4. ASSUME NEW n \in Names, handleSetDefaultModel(c, n)
      PROVE  /\ Typed'
             /\ SoundInv => SoundInv'
             /\ TabInv => TabInv'
  <2>1. CASE Refused(c)
    BY <2>1, RefusedStep
  <2>2. CASE Listed(file, n) /\ Loaded(c, "default", [file EXCEPT !.default = n])
    <3> DEFINE new == [file EXCEPT !.default = n]
    <3>1. new \in Config /\ (Sound(file) => Sound(new)) /\ (Kept(file) => Kept(new))
      BY <1>0, <2>2, DefaultEdit
    <3>2. Loaded(c, "default", new)
      BY <2>2
    <3> HIDE DEF new
    <3> QED
      BY <3>1, <3>2, LoadedStep DEF Jobs, SoundInv, TabInv
  <2> QED
    BY <1>4, <2>1, <2>2 DEF handleSetDefaultModel
<1> QED
  BY <1>1, <1>2, <1>3, <1>4

\* The other requests.
LEMMA OtherRequests ==
    ASSUME Typed, NEW c \in Clients,
           \/ \E on \in BOOLEAN, t \in {None, "token"} : handlePatchConfig(c, on, t)
           \/ \E on \in BOOLEAN, t \in {None, "token"} : handleUpdateConfig(c, on, t)
           \/ handleRegenPicoToken(c)
           \/ ensurePicoChannel(c)
           \/ \E on \in BOOLEAN : handleUpdateToolState(c, on)
    PROVE  /\ Typed'
           /\ SoundInv => SoundInv'
           /\ TabInv => TabInv'
<1>0. file \in Config /\ (view[c] # Nothing => view[c] \in Config) /\ TRUE \in BOOLEAN
  BY DEF Typed, TypeOK
<1>1. ASSUME NEW on \in BOOLEAN, NEW t \in {None, "token"}, handlePatchConfig(c, on, t)
      PROVE  /\ Typed'
             /\ SoundInv => SoundInv'
             /\ TabInv => TabInv'
  <2>1. /\ mergeMap(file, on, t) \in Config
        /\ Sound(file) /\ validateConfig(mergeMap(file, on, t)) => Sound(mergeMap(file, on, t))
        /\ Kept(file) => Kept(mergeMap(file, on, t))
    BY <1>0, OtherEdits
  <2> QED
    BY <1>1, <2>1, LoadedStep, RefusedStep DEF handlePatchConfig, Jobs, SoundInv, TabInv
<1>2. ASSUME NEW on \in BOOLEAN, NEW t \in {None, "token"}, handleUpdateConfig(c, on, t)
      PROVE  /\ Typed'
             /\ SoundInv => SoundInv'
             /\ TabInv => TabInv'
  <2>1. view[c] # Nothing /\ view[c] \in Config
    BY <1>0, <1>2 DEF handleUpdateConfig
  <2>2. /\ mergeMap(view[c], on, t) \in Config
        /\ Sound(view[c]) /\ validateConfig(mergeMap(view[c], on, t)) => Sound(mergeMap(view[c], on, t))
        /\ Kept(view[c]) => Kept(mergeMap(view[c], on, t))
    BY <2>1, OtherEdits
  <2> QED
    BY <1>2, <2>1, <2>2, LoadedStep, RefusedStep DEF handleUpdateConfig, Jobs, SoundInv, TabInv
<1>3. CASE handleRegenPicoToken(c)
  <2> DEFINE new == [file EXCEPT !.token = "token"]
  <2>1. new \in Config /\ (Sound(file) => Sound(new)) /\ (Kept(file) => Kept(new))
    BY <1>0, OtherEdits
  <2>2. Loaded(c, "regen", new)
    BY <1>3 DEF handleRegenPicoToken
  <2> HIDE DEF new
  <2> QED
    BY <2>1, <2>2, LoadedStep DEF Jobs, SoundInv, TabInv
<1>4. CASE ensurePicoChannel(c)
  <2>1. /\ EnsuredPico(file) \in Config
        /\ Sound(file) => Sound(EnsuredPico(file))
        /\ Kept(file) => Kept(EnsuredPico(file))
    BY <1>0, OtherEdits
  <2> QED
    BY <1>4, <2>1, LoadedStep, RefusedStep DEF ensurePicoChannel, Jobs, SoundInv, TabInv
<1>5. ASSUME NEW on \in BOOLEAN, handleUpdateToolState(c, on)
      PROVE  /\ Typed'
             /\ SoundInv => SoundInv'
             /\ TabInv => TabInv'
  <2>1. /\ applyToolState(file, on) \in Config
        /\ Sound(file) => Sound(applyToolState(file, on))
        /\ Kept(file) => Kept(applyToolState(file, on))
    BY <1>0, OtherEdits
  <2> QED
    BY <1>5, <2>1, LoadedStep DEF handleUpdateToolState, Jobs, SoundInv, TabInv
<1> QED
  BY <1>1, <1>2, <1>3, <1>4, <1>5

LEMMA NextStep ==
    ASSUME ConstantsAssumption, Typed, [Next]_vars
    PROVE  /\ Typed'
           /\ SoundInv => SoundInv'
           /\ OneClient /\ TabInv => TabInv'
<1>1. CASE UNCHANGED vars
  BY <1>1 DEF vars, Typed, TypeOK, SoundInv, TabInv
<1>2. ASSUME NEW c \in Clients, Fetch(c)
      PROVE  /\ Typed'
             /\ SoundInv => SoundInv'
             /\ TabInv => TabInv'
  BY <1>2, FetchStep
<1> QED
  BY <1>1, <1>2, SaveSteps, ModelRequests, OtherRequests DEF Next

LEMMA InitHolds ==
    ASSUME ConstantsAssumption, Init
    PROVE  Typed /\ SoundInv /\ TabInv
<1>1. PICK n \in Names, v \in Vendors :
          file = [models |-> << [name |-> n, vendor |-> v, key |-> v] >>,
                  default |-> n, pico |-> FALSE, token |-> None,
                  spawn |-> FALSE, subagent |-> FALSE]
  BY DEF Init
<1> DEFINE e == [name |-> n, vendor |-> v, key |-> v]
           m == << e >>
<1>2. e \in Entry /\ e.name = n /\ e.vendor = v /\ e.key = v
  BY EntryFields
<1> HIDE DEF e
<1>3. m \in BoundedSeq(Entry, MaxModels) /\ DOMAIN m = {1} /\ m[1] = e
  <2>1. m \in Seq(Entry) /\ Len(m) = 1 /\ DOMAIN m = {1} /\ m[1] = e
    BY <1>2
  <2>2. 1 <= MaxModels /\ MaxModels \in Nat
    BY DEF ConstantsAssumption
  <2> HIDE DEF m
  <2> QED
    BY <2>1, <2>2, BoundedIs
<1>4. file = [models |-> m, default |-> n, pico |-> FALSE, token |-> None,
              spawn |-> FALSE, subagent |-> FALSE]
  BY <1>1 DEF m, e
<1> HIDE DEF m
<1>5. file \in Config /\ Sound(file)
  BY <1>3, <1>4 DEF Config, Sound
<1>6. Kept(file)
  BY <1>2, <1>3, <1>4 DEF Kept, KeysRight, DefaultThere, Listed
<1>7. Typed
  BY <1>5 DEF Init, Typed, TypeOK, Jobs
<1>8. SoundInv /\ TabInv
  BY <1>5, <1>6 DEF Init, SoundInv, TabInv
<1> QED
  BY <1>7, <1>8

\* What the two invariants are for.
LEMMA SoundMeans == Typed /\ SoundInv => TypeOK /\ PicoUsable /\ SpawnNotBlocked
BY DEF Typed, SoundInv, Sound, PicoUsable, SpawnNotBlocked

LEMMA TabMeans == Typed /\ TabInv => TypeOK /\ KeyOfItsModel /\ DefaultListed
BY DEF Typed, TabInv, Kept, KeysRight, DefaultThere, KeyOfItsModel, DefaultListed

\* Whatever tabs do to one another's saves, no file enables the pico channel
\* without a token, nor spawn without the subagent tool.
THEOREM SoundAlways ==
    ASSUME ConstantsAssumption
    PROVE  Spec => [](TypeOK /\ PicoUsable /\ SpawnNotBlocked)
<1>1. Init => Typed /\ SoundInv
  BY InitHolds
<1>2. Typed /\ SoundInv /\ [Next]_vars => (Typed /\ SoundInv)'
  BY NextStep
<1>3. Typed /\ SoundInv => TypeOK /\ PicoUsable /\ SpawnNotBlocked
  BY SoundMeans
<1> QED
  BY <1>1, <1>2, <1>3, PTL DEF Spec

\* One tab at a time: a key stays with the model it was entered for, and the
\* default is in the list.
THEOREM OneTabKeeps ==
    ASSUME ConstantsAssumption, OneClient
    PROVE  Spec => [](TypeOK /\ KeyOfItsModel /\ DefaultListed)
<1>1. Init => Typed /\ TabInv
  BY InitHolds
<1>2. Typed /\ TabInv /\ [Next]_vars => (Typed /\ TabInv)'
  BY NextStep
<1>3. Typed /\ TabInv => TypeOK /\ KeyOfItsModel /\ DefaultListed
  BY TabMeans
<1> QED
  BY <1>1, <1>2, <1>3, PTL DEF Spec

=============================================================================
