---------------------------- MODULE CloudCaches ----------------------------
(* What the coordinator of a FUSION appliance keeps of the cloud: recipe    *)
(* names, looked up one by one and filled in from the AutoCook catalogue,   *)
(* the user's presets, the drinks of a Rita machine and whether a firmware  *)
(* update is due. All are fetched by background tasks that a push starts,   *)
(* names, catalogue and presets also by the refresh button. The fetches     *)
(* share the token (TokenRotation) and that button, nothing else, so a      *)
(* behaviour has the traffic of one of them.                                *)
(*                                                                          *)
(* A request is in the language that there is when its task has the token;  *)
(* once the language has changed under a running coordinator, a reply may   *)
(* be in the old one or in the new one (Tongues).                           *)
(*                                                                          *)
(* Bounds: two lookups of one recipe count as one, and so do two fetches    *)
(* that pushes started; the language changes once between two moments at    *)
(* which no name and no answer is kept; the entry is not reloaded while the *)
(* button's fetches run.                                                    *)
EXTENDS CloudReplies

CONSTANTS
  Recipes,     \* recipe ids of the cloud
  Catalogue,   \* those the AutoCook catalogue has
  Langs,       \* languages of Home Assistant
  None

ASSUME CacheAssumption ==
  /\ Catalogue \subseteq Recipes
  /\ None \notin Recipes \cup Langs
  /\ Recipes \cap {"idle", "catalog", "presets"} = {}

(* The presets of an appliance whose cloud id is in the entry, or is not.   *)
Fetches == {"catalog", "presets", "firstPresets", "drinks", "ota"}
Names == [Recipes -> Langs \cup {None}]
NoNames == [r \in Recipes |-> None]
Starters == {"push", "refresh"}
Stages == {"idle", "catalog", "presets"} \cup Recipes

VARIABLES
  fetch,             \* the fetch this behaviour is about
  cloud,             \* what may come of it, and of a name lookup
  settled,           \* from now on the cloud answers and nobody interferes
  lang,              \* hass.config.language
  stamp, fetched,    \* the language kept with the answer, if there is one
  running,           \* the in-flight flag
  flying,            \* the tasks that await the cloud
  waiting,           \* the gate: too early to ask again
  button,            \* what async_refresh_recipe_cache awaits, if it runs
  recipe, shown,     \* recipe of the appliance; whose name is shown with it
  cache, kept,       \* language of each name: in memory, in the entry
  saving,            \* the task that writes the names in five seconds is up
  failed, pending,   \* _failed_recipe_ids, _pending_recipe_fetch
  lookups,           \* the name lookups that await the cloud
  switched,          \* history: the language changed under what is kept
  spoken,            \* history: the language of the answer, unless switched
  spoilt             \* history: a passing error was taken for an answer

topic == <<fetch, cloud>>
asking == <<running, flying, waiting>>
answer == <<stamp, fetched>>
naming == <<recipe, shown, cache, kept, saving, failed, pending, lookups>>
history == <<switched, spoken, spoilt>>
vars == <<topic, settled, lang, answer, asking, button, naming, history>>

TypeOK ==
  /\ fetch \in Fetches /\ settled \in BOOLEAN
  /\ cloud \in [fetch : SUBSET Results, names : SUBSET Results]
  /\ lang \in Langs /\ {stamp, spoken} \subseteq Langs \cup {None}
  /\ fetched \in BOOLEAN
  /\ running \in BOOLEAN /\ flying \subseteq Starters /\ waiting \in BOOLEAN
  /\ button \in Stages
  /\ {recipe, shown, pending} \subseteq Recipes \cup {None}
  /\ {cache, kept} \subseteq Names /\ saving \in BOOLEAN
  /\ failed \subseteq Recipes /\ lookups \subseteq Recipes
  /\ switched \in BOOLEAN /\ spoilt \in BOOLEAN

----------------------------------------------------------------------------
(* What the cloud may answer.                                               *)

(* For what follows only the outcome counts, and whether it may pass.       *)
Alike(results) ==
  {Result(x.out, IF x.on \in Passing THEN "busy" ELSE "found") : x \in results}
TokenResults ==
  {Result("retry", "busy"), Result("auth", "found")}
NameOutcomes == TokenResults \cup Alike(NameResults(TRUE))
ResultsOf(f) ==
  TokenResults \cup
    Alike(CASE f = "catalog" -> CatalogResults
            [] f = "presets" -> PresetResults(TRUE)
            [] f = "firstPresets" -> PresetResults(FALSE)
            [] f = "drinks" -> DrinkResults
            [] f = "ota" -> JobResults)

Settling(x) == x.out \in {"answer", "empty"}
Answers(results) ==
  IF settled THEN {x \in results : Settling(x) /\ x.on \notin Passing}
  ELSE results
Spoils(x) == spoilt' = (spoilt \/ x.on \in Passing)

(* The languages that a reply may be in.                                    *)
Tongues == IF switched THEN Langs ELSE {lang}

----------------------------------------------------------------------------
(* The fetches with a gate.                                                 *)

Localised == fetch \in {"catalog", "presets", "firstPresets"}
Fresh ==
  CASE Localised -> fetched /\ stamp = lang
    [] fetch = "drinks" -> fetched
    [] fetch = "ota" -> FALSE

Starts == ~Fresh /\ ~running /\ ~waiting
StartFetch ==
  /\ running' = (running \/ Starts)
  /\ flying' = IF Starts THEN flying \cup {"push"} ELSE flying
  /\ UNCHANGED waiting

(* An answer is stamped with the language that there is by now; the         *)
(* firmware check is due again after an answer, the others after an error.  *)
Taken(x) ==
  /\ fetched' = (fetched \/ Settling(x))
  /\ stamp' = IF Settling(x) /\ Localised THEN lang ELSE stamp
  /\ waiting' = IF Settling(x) /\ fetch # "ota" THEN waiting ELSE TRUE
  /\ spoken' = IF Settling(x) /\ Localised /\ ~switched THEN lang ELSE spoken
  /\ IF Settling(x) THEN Spoils(x) ELSE UNCHANGED spoilt

(* Mutation: an error leaves the in-flight flag up.                         *)
FlagStays(t, x) ==
  flying' = flying \ {t} /\ running' = (running /\ ~Settling(x)) /\ Taken(x)
FetchOver(t, x) == flying' = flying \ {t} /\ running' = FALSE /\ Taken(x)

----------------------------------------------------------------------------
(* Recipe names.                                                            *)

Looks(r, names) ==
  r # None /\ (r # None => names[r] = None) /\ pending # r /\ r \notin failed

(* _inject_recipe_name for recipe r, on a state that shows the name of old. *)
Inject(r, old, names) ==
  /\ shown' = IF r # None /\ (r # None => names[r] # None) THEN r ELSE old
  /\ IF Looks(r, names)
     THEN /\ pending' = r
          /\ lookups' = lookups \cup {r}
     ELSE UNCHANGED <<pending, lookups>>

(* A push brings a state without names; it may bring another recipe.        *)
Push(r) ==
  /\ recipe' = r /\ StartFetch
  /\ IF fetch = "catalog" THEN Inject(r, None, cache)
     ELSE UNCHANGED <<shown, pending, lookups>>
  /\ UNCHANGED <<topic, settled, lang, answer, button, cache, kept, saving,
                 failed, history>>

(* Mutation: a name is remembered, but not scheduled for the entry.         *)
Unscheduled == UNCHANGED saving
Scheduled == saving' = TRUE

(* The reply to a lookup; a name goes to whatever recipe is there by now.   *)
LookupEnds(r, x) ==
  /\ lookups' = lookups \ {r} /\ pending' = None
  /\ button' = IF button = r THEN "idle" ELSE button
  /\ \/ /\ x.out = "answer" /\ Scheduled
        /\ \E l \in Tongues : cache' = [cache EXCEPT ![r] = l]
        /\ shown' = r
        /\ UNCHANGED <<failed, spoilt>>
     \/ /\ x.out \in {"empty", "auth"} /\ Spoils(x)
        /\ failed' = failed \cup {r}
        /\ UNCHANGED <<saving, cache, shown>>
     \/ /\ x.out = "retry"
        /\ UNCHANGED <<saving, cache, shown, failed, spoilt>>
  /\ UNCHANGED <<topic, settled, lang, answer, asking, recipe, kept, switched,
                 spoken>>

Persist ==
  /\ saving /\ saving' = FALSE
  /\ kept' = cache /\ stamp' = lang
  /\ UNCHANGED <<topic, settled, lang, fetched, asking, button, recipe, shown,
                 cache, failed, pending, lookups, history>>

(* Programs without a cached name get that of a catalogue in language l.    *)
WithCatalogue(l) ==
  [r \in Recipes |->
     IF r \in Catalogue /\ cache[r] = None THEN l ELSE cache[r]]

CatalogEnds(x) ==
  /\ \/ /\ x.out = "answer"
        /\ \E l \in Tongues : cache' = WithCatalogue(l)
        /\ kept' = cache'
        /\ IF cache' # cache THEN Inject(recipe, shown, cache')
           ELSE UNCHANGED <<shown, pending, lookups>>
     \/ /\ x.out = "empty" /\ kept' = cache
        /\ UNCHANGED <<cache, shown, pending, lookups>>
     \/ /\ ~Settling(x) /\ UNCHANGED <<cache, kept, shown, pending, lookups>>
  /\ UNCHANGED <<recipe, saving, failed>>

(* A fetch with a gate ends, and with it the button's part of it.           *)
NextStage == [catalog |-> "presets", presets |-> "idle"]
FetchEnds(t, x) ==
  /\ FetchOver(t, x)
  /\ button' = IF t = "refresh" THEN NextStage[button] ELSE button
  /\ IF fetch = "catalog" THEN CatalogEnds(x) ELSE UNCHANGED naming
  /\ UNCHANGED <<topic, settled, lang, switched>>

----------------------------------------------------------------------------
(* The button (async_refresh_recipe_cache), step by step.                   *)

ButtonAsks ==
  running' = TRUE /\ flying' = flying \cup {"refresh"} /\ UNCHANGED waiting

PressRefresh ==
  /\ ~settled /\ Localised /\ button = "idle" /\ button' = "catalog"
  /\ cache' = NoNames /\ kept' = NoNames /\ failed' = {} /\ fetched' = FALSE
  /\ switched' = (switched /\ (flying # {} \/ lookups # {}))
  /\ IF fetch = "catalog" THEN ButtonAsks ELSE UNCHANGED asking
  /\ UNCHANGED <<topic, settled, lang, stamp, recipe, shown, saving, pending,
                 lookups, spoken, spoilt>>

(* Here the presets only take time, or the catalogue does; the recipe that  *)
(* the appliance has by then is looked up last.                             *)
CatalogDone ==
  /\ fetch # "catalog" /\ button = "catalog" /\ button' = "presets"
  /\ ButtonAsks
  /\ UNCHANGED <<topic, settled, lang, answer, naming, history>>

PresetsDone ==
  /\ fetch = "catalog" /\ button = "presets"
  /\ IF recipe = None THEN button' = "idle" /\ UNCHANGED <<pending, lookups>>
     ELSE /\ button' = recipe /\ pending' = None
          /\ lookups' = lookups \cup {recipe}
  /\ UNCHANGED <<topic, settled, lang, answer, asking, recipe, shown, cache,
                 kept, saving, failed, history>>

----------------------------------------------------------------------------
(* Time, the user and Home Assistant.                                       *)

GateOpens ==
  /\ waiting /\ waiting' = FALSE
  /\ UNCHANGED <<topic, settled, lang, answer, running, flying, button, naming,
                 history>>

SwitchLanguage(l) ==
  /\ ~settled /\ ~switched /\ l # lang /\ lang' = l
  /\ switched' = TRUE /\ spoken' = None
  /\ UNCHANGED <<topic, settled, answer, asking, button, naming, spoilt>>

(* Mutation: names are loaded whatever language they are in.                *)
LoadedAlways(l) == kept
Loaded(l) == IF stamp \notin {None, l} THEN NoNames ELSE kept

(* Unload cancels the tasks; what only the coordinator knew is gone.        *)
Reload(l) ==
  /\ ~settled /\ button = "idle"
  /\ lang' = l /\ cache' = Loaded(l)
  /\ fetched' = (fetched /\ Localised)
  /\ running' = FALSE /\ flying' = {} /\ waiting' = FALSE
  /\ recipe' = None /\ shown' = None /\ saving' = FALSE
  /\ failed' = {} /\ pending' = None /\ lookups' = {}
  /\ switched' = (switched /\ (kept # NoNames \/ fetched))
  /\ UNCHANGED <<topic, settled, stamp, button, kept, spoken, spoilt>>

(* From here on the cloud answers and nobody interferes.                    *)
Settle ==
  /\ ~settled /\ settled' = TRUE
  /\ UNCHANGED <<topic, lang, answer, asking, button, naming, history>>

----------------------------------------------------------------------------
Init ==
  /\ fetch \in Fetches /\ settled = FALSE
  /\ cloud = [fetch |-> ResultsOf(fetch), names |-> NameOutcomes]
  /\ lang \in Langs /\ stamp = None /\ fetched = FALSE
  /\ running = FALSE /\ flying = {} /\ waiting = FALSE /\ button = "idle"
  /\ recipe = None /\ shown = None /\ cache = NoNames /\ kept = NoNames
  /\ saving = FALSE /\ failed = {} /\ pending = None /\ lookups = {}
  /\ switched = FALSE /\ spoken = None /\ spoilt = FALSE

Pushes == \E r \in Recipes \cup {None} :
            (r = None \/ fetch = "catalog") /\ Push(r)
NameReplies == \E r \in lookups, x \in Answers(cloud.names) :
                 LookupEnds(r, x)
FetchReplies == \E t \in flying, x \in Answers(cloud.fetch) :
                  FetchEnds(t, x)
Time == NameReplies \/ FetchReplies \/ GateOpens \/ Persist \/ CatalogDone
        \/ PresetsDone
HomeAssistant == \E l \in Langs : SwitchLanguage(l) \/ Reload(l)

Next == Pushes \/ Time \/ PressRefresh \/ HomeAssistant \/ Settle

Spec == Init /\ [][Next]_vars

(* Pushes keep coming (a heartbeat asks for them), a request has a timeout, *)
(* a gate opens with time and so does the write of the names.               *)
Fairness ==
  WF_vars(Push(recipe)) /\ WF_vars(Time) /\ WF_vars(Settle)

FairSpec == Spec /\ Fairness

----------------------------------------------------------------------------
(* A name that was found is in the entry, or will be: the task that writes  *)
(* it waits (_schedule_recipe_cache_persist, debounced), in whatever order  *)
(* lookups, the catalogue, the button and that task write the cache.        *)
NamesReachEntry ==
  TypeOK /\ (saving \/ \A r \in Recipes : cache[r] \in {None, kept[r]})

(* Names are in the language of Home Assistant, and in the entry in the     *)
(* language of their stamp, through restarts in other languages, half-done  *)
(* refreshes and cancelled writes. A change of language without a restart   *)
(* breaks this in the code and is excused (README).                         *)
NamesInLanguage ==
  ~switched => \A r \in Recipes :
                 cache[r] \in {None, lang} /\ kept[r] \in {None, stamp}

(* Nothing is latched as answered, and no recipe given up, because of a     *)
(* reply that a second request might not get (_raise_if_retryable). The     *)
(* lookup of an unknown appliance id does that in the code (README).        *)
GivenUpOnlyOnAnswers == fetch # "firstPresets" => ~spoilt

(* Once the cloud answers and nobody interferes, each fetch comes to an     *)
(* answer that passes for one in the current language, and the presets are  *)
(* in it; a recipe that stays is shown with its own name, in the current    *)
(* language, although a late lookup may have put another's name there; only *)
(* a recipe the cloud does not know stays without. After a change of        *)
(* language without a restart names and presets may be in the old one for   *)
(* good (README): only then, and that is excused.                           *)
CalmCloudAnswers ==
  /\ <>[](/\ fetched
          /\ Localised => stamp = lang
          /\ Localised /\ fetch # "catalog" /\ ~switched => spoken = lang)
  /\ fetch = "catalog" =>
       \A r \in Recipes :
         <>[](recipe = r) =>
           <>[](\/ shown = r /\ (cache[r] = lang \/ switched)
                \/ r \in failed /\ shown = None)

----------------------------------------------------------------------------
(* What the documents say and the code does not keep.                       *)

(* "Cache auto-invalidates when the HA language changes": the catalogue     *)
(* that is taken for fetched is the one in the current language, even if    *)
(* the language changes with a restart only.                                *)
CatalogueInLanguage ==
  fetch = "catalog" /\ Fresh /\ ~switched => spoken = lang

=============================================================================
