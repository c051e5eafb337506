-------------------------- MODULE CloudCachesProofs --------------------------
(* Theorems about CloudCaches, for any recipes, catalogue and languages:    *)
(* every name that was found reaches the entry, names are in the language   *)
(* of Home Assistant and of the entry's stamp, and nothing is given up      *)
(* because of a reply that a second request might not get.                  *)
EXTENDS CloudCaches, TLAPS

(* The button's part of a fetch is under way only while it awaits it.       *)
ButtonAwaits ==
  "refresh" \in flying =>
    button = IF fetch = "catalog" THEN "catalog" ELSE "presets"

(* Names come from lookups and from the catalogue: a behaviour about any    *)
(* other fetch has none.                                                    *)
NamesOfCatalog ==
  fetch # "catalog" => cache = NoNames /\ kept = NoNames /\ lookups = {}

CacheInv ==
  /\ TypeOK /\ ButtonAwaits /\ NamesOfCatalog
  /\ saving \/ \A r \in Recipes : cache[r] \in {None, kept[r]}
  /\ NamesInLanguage

----------------------------------------------------------------------------
(* Every reply has a result.                                                *)

LEMMA ResultIsResult ==
  ASSUME NEW out \in Outcomes, NEW reply \in Replies
  PROVE  Result(out, reply) \in Results
  BY DEF Result, Results

LEMMA LookupResults ==
  ASSUME NEW reply \in Replies
  PROVE  /\ Lookup(reply) \in Results /\ Devices(reply) \in Results
         /\ HomeIdReply(reply) \in Results /\ Jobs(reply) \in Results
<1>1. ASSUME NEW out \in Outcomes
      PROVE  Result(out, reply) \in Results
  BY ResultIsResult
<1>2. /\ "answer" \in Outcomes /\ "empty" \in Outcomes
      /\ "retry" \in Outcomes /\ "auth" \in Outcomes
      /\ "backend" \in Outcomes /\ "error" \in Outcomes
  BY DEF Outcomes
<1>3. Lookup(reply) \in Results
  BY <1>1, <1>2 DEF Lookup
<1>4. Devices(reply) \in Results
  BY <1>1, <1>2 DEF Devices
<1>5. HomeIdReply(reply) \in Results
  BY <1>1, <1>2 DEF HomeIdReply
<1>6. Jobs(reply) \in Results
  BY <1>1, <1>2 DEF Jobs
<1> QED
  BY <1>3, <1>4, <1>5, <1>6

LEMMA LinksResults == AllLinks \subseteq Results
<1>1. ASSUME NEW d \in Replies, NEW spaces \in SUBSET Replies
      PROVE  RootLinks(d, spaces) \in Results
  <2>1. ASSUME spaces \cap Passing # {}
        PROVE  (CHOOSE r \in spaces \cap Passing : TRUE) \in Replies
    BY <2>1
  <2>2. {"answer", "retry", "empty"} \subseteq Outcomes
        /\ {"found", "nothing"} \subseteq Replies
    BY DEF Outcomes, Replies
  <2>3. Links(spaces) \in Results
    BY <2>1, <2>2, ResultIsResult DEF Links
  <2> QED
    BY <2>3, LookupResults DEF RootLinks
<1> QED
  BY <1>1 DEF AllLinks

LEMMA ByLinkResults ==
  ASSUME NEW l \in Results, NEW reply \in Replies
  PROVE  ByLink(l, reply) \in Results
  BY LookupResults DEF ByLink

LEMMA FetchResults ==
  ASSUME NEW f \in Fetches
  PROVE  ResultsOf(f) \subseteq Results
<1>1. ASSUME NEW results, results \subseteq Results
      PROVE  Alike(results) \subseteq Results
  <2>1. ASSUME NEW x \in results
        PROVE  Result(x.out, IF x.on \in Passing THEN "busy" ELSE "found")
                 \in Results
    BY <1>1 DEF Results, Result, Replies
  <2> QED
    BY <2>1 DEF Alike
<1>2. TokenResults \subseteq Results
  BY DEF TokenResults, Result, Results, Outcomes, Replies
<1>3. CatalogResults \subseteq Results
  BY LinksResults, ByLinkResults DEF CatalogResults
<1>4. Known \in Results
  BY DEF Known, Result, Results, Outcomes, Replies
<1>5. HomeIdResults \subseteq Results
  <2>1. ASSUME NEW d \in Replies, NEW p \in Replies, NEW l \in Replies,
               NEW e \in BOOLEAN
        PROVE  HomeIdAppliances(d, p, e, l) \in Results
    BY LookupResults, ResultIsResult DEF HomeIdAppliances, Outcomes
  <2> QED
    BY <2>1 DEF HomeIdResults
<1>6. ASSUME NEW known \in BOOLEAN
      PROVE  PresetResults(known) \subseteq Results
  <2>1. ASSUME NEW id \in Results, NEW l \in AllLinks, NEW r \in Replies
        PROVE  Presets(id, l, r) \in Results
    BY <2>1, LinksResults, ByLinkResults DEF Presets
  <2> QED
    BY <1>4, <1>5, <2>1 DEF PresetResults
<1>7. DrinkResults \subseteq Results
  <2>1. ASSUME NEW d \in Replies, NEW c \in BOOLEAN, NEW r \in Replies
        PROVE  Drinks(Devices(d), c, r) \in Results
    <3>1. Devices(d) \in Results /\ Lookup(r) \in Results
      BY LookupResults
    <3>2. Result("empty", Devices(d).on) \in Results
      BY <3>1, ResultIsResult DEF Results, Outcomes
    <3> QED
      BY <3>1, <3>2 DEF Drinks
  <2> QED
    BY <2>1 DEF DrinkResults
<1>8. JobResults \subseteq Results
  BY LookupResults DEF JobResults
<1>9. /\ Alike(CatalogResults) \subseteq Results
      /\ Alike(PresetResults(TRUE)) \subseteq Results
      /\ Alike(PresetResults(FALSE)) \subseteq Results
      /\ Alike(DrinkResults) \subseteq Results
      /\ Alike(JobResults) \subseteq Results
  BY <1>1, <1>3, <1>6, <1>7, <1>8
<1> QED
  BY <1>2, <1>9 DEF ResultsOf, Fetches

LEMMA LookupOutcomes == NameOutcomes \subseteq Results
<1>1. ASSUME NEW number \in BOOLEAN
      PROVE  NameResults(number) \subseteq Results
  <2>1. ASSUME NEW r \in Replies, NEW p \in Replies, NEW l \in AllLinks
        PROVE  RecipeName(r, number, l, p) \in Results
    <3>1. Lookup(r) \in Results /\ ByLink(l, p) \in Results
      BY LookupResults, LinksResults, ByLinkResults
    <3> QED
      BY <3>1 DEF RecipeName
  <2> QED
    BY <2>1 DEF NameResults
<1>2. ASSUME NEW x \in NameResults(TRUE)
      PROVE  Result(x.out, IF x.on \in Passing THEN "busy" ELSE "found")
               \in Results
  BY <1>1, <1>2 DEF Results, Result, Replies
<1>3. TokenResults \subseteq Results
  BY DEF TokenResults, Result, Results, Outcomes, Replies
<1> QED
  BY <1>2, <1>3 DEF NameOutcomes, Alike

----------------------------------------------------------------------------
(* The invariant holds at first and is kept by every step.                  *)

LEMMA CacheInvInit == Init => CacheInv
<1> SUFFICES ASSUME Init PROVE CacheInv
  OBVIOUS
<1>1. cloud \in [fetch : SUBSET Results, names : SUBSET Results]
  BY FetchResults, LookupOutcomes DEF Init
<1>2. NoNames \in Names
  BY DEF NoNames, Names
<1>3. TypeOK
  BY <1>1, <1>2 DEF Init, TypeOK, Stages
<1>4. \A r \in Recipes : cache[r] = None /\ kept[r] = None
  BY DEF Init, NoNames
<1> QED
  BY <1>3, <1>4 DEF Init, CacheInv, ButtonAwaits, NamesOfCatalog,
                    NamesInLanguage

(* A fetch that starts or ends disturbs no name.                            *)
LEMMA StartTypes ==
  ASSUME CacheInv, StartFetch
  PROVE  /\ running' \in BOOLEAN /\ waiting' \in BOOLEAN
         /\ flying' \subseteq Starters
         /\ "refresh" \in flying' <=> "refresh" \in flying
  BY DEF CacheInv, TypeOK, StartFetch, Starters

LEMMA TakenTypes ==
  ASSUME CacheInv, NEW x, Taken(x)
  PROVE  /\ fetched' \in BOOLEAN /\ waiting' \in BOOLEAN /\ spoilt' \in BOOLEAN
         /\ {stamp', spoken'} \subseteq Langs \cup {None}
  BY DEF CacheInv, TypeOK, Taken, Spoils

LEMMA TonguesAreLanguages ==
  ASSUME CacheInv
  PROVE  Tongues \subseteq Langs /\ (~switched => Tongues = {lang})
  BY DEF CacheInv, TypeOK, Tongues

LEMMA InjectTypes ==
  ASSUME CacheInv, NEW r \in Recipes \cup {None}, NEW names,
         NEW old \in Recipes \cup {None}, Inject(r, old, names)
  PROVE  /\ shown' \in Recipes \cup {None} /\ pending' \in Recipes \cup {None}
         /\ lookups' \subseteq Recipes
  BY DEF CacheInv, TypeOK, Inject, Looks

LEMMA PushKeeps ==
  ASSUME CacheInv, NEW r \in Recipes \cup {None}, Push(r)
  PROVE  CacheInv'
<1>1. /\ running' \in BOOLEAN /\ waiting' \in BOOLEAN
      /\ flying' \subseteq Starters
      /\ "refresh" \in flying' <=> "refresh" \in flying
  BY StartTypes DEF Push
<1>2. /\ {recipe', shown', pending'} \subseteq Recipes \cup {None}
      /\ lookups' \subseteq Recipes
      /\ fetch # "catalog" => lookups' = lookups
  <2>1. CASE fetch = "catalog"
    BY <2>1, InjectTypes DEF Push
  <2>2. CASE fetch # "catalog"
    BY <2>2 DEF Push, CacheInv, TypeOK
  <2> QED
    BY <2>1, <2>2
<1> QED
  BY <1>1, <1>2 DEF Push, CacheInv, TypeOK, ButtonAwaits, NamesOfCatalog,
                    NamesInLanguage, topic, answer, history

LEMMA LookupKeeps ==
  ASSUME CacheInv, NEW r \in lookups, NEW x, LookupEnds(r, x)
  PROVE  CacheInv'
<1>1. r \in Recipes /\ fetch = "catalog"
  BY DEF CacheInv, TypeOK, NamesOfCatalog
<1>2. /\ button' \in Stages
      /\ "refresh" \in flying => button' = button
  BY <1>1, CacheAssumption
     DEF LookupEnds, CacheInv, TypeOK, ButtonAwaits, Stages
<1>3. /\ {shown', pending'} \subseteq Recipes \cup {None}
      /\ lookups' \subseteq Recipes /\ failed' \subseteq Recipes
      /\ saving' \in BOOLEAN /\ spoilt' \in BOOLEAN
  BY <1>1 DEF LookupEnds, CacheInv, TypeOK, Scheduled, Spoils
<1>4. /\ cache' \in Names
      /\ \/ saving' /\ \E l \in Tongues : cache' = [cache EXCEPT ![r] = l]
         \/ UNCHANGED <<saving, cache>>
  BY <1>1, TonguesAreLanguages
     DEF LookupEnds, CacheInv, TypeOK, Names, Scheduled
<1>5. \A q \in Recipes : ~switched => cache'[q] \in {lang, cache[q]}
  BY <1>1, <1>4, TonguesAreLanguages DEF CacheInv, TypeOK, Names
<1> QED
  BY <1>1, <1>2, <1>3, <1>4, <1>5
     DEF LookupEnds, CacheInv, TypeOK, ButtonAwaits, NamesOfCatalog,
         NamesInLanguage, topic, answer, asking

LEMMA FetchKeeps ==
  ASSUME CacheInv, NEW t \in flying, NEW x, FetchEnds(t, x)
  PROVE  CacheInv'
<1>1. /\ fetched' \in BOOLEAN /\ waiting' \in BOOLEAN /\ spoilt' \in BOOLEAN
      /\ {stamp', spoken'} \subseteq Langs \cup {None}
  BY TakenTypes DEF FetchEnds, FetchOver
<1>2. running' = FALSE /\ flying' = flying \ {t} /\ flying' \subseteq Starters
  BY DEF FetchEnds, FetchOver, CacheInv, TypeOK
<1>3. /\ button' \in Stages
      /\ "refresh" \in flying' => button' = button
  <2>1. CASE t = "refresh"
    <3>1. button \in {"catalog", "presets"}
      BY <2>1 DEF CacheInv, ButtonAwaits
    <3>2. button' \in {"presets", "idle"}
      BY <2>1, <3>1 DEF FetchEnds, NextStage
    <3> QED
      BY <1>2, <2>1, <3>2 DEF Stages
  <2>2. CASE t # "refresh"
    BY <2>2 DEF FetchEnds, CacheInv, TypeOK
  <2> QED
    BY <2>1, <2>2
<1>4. CASE fetch # "catalog"
  <2>1. UNCHANGED naming /\ cache = NoNames /\ kept = NoNames
    BY <1>4 DEF FetchEnds, CacheInv, NamesOfCatalog
  <2>2. \A r \in Recipes : NoNames[r] = None
    BY DEF NoNames
  <2> QED
    BY <1>1, <1>2, <1>3, <1>4, <2>1, <2>2
       DEF FetchEnds, CacheInv, TypeOK, ButtonAwaits, NamesOfCatalog,
           NamesInLanguage, topic, naming
<1>5. CASE fetch = "catalog"
  <2>1. CatalogEnds(x) /\ Localised
    BY <1>5 DEF FetchEnds, Localised
  <2>2. ASSUME NEW l \in Tongues
        PROVE  /\ WithCatalogue(l) \in Names
               /\ \A r \in Recipes :
                    ~switched => WithCatalogue(l)[r] \in {lang, cache[r]}
    BY TonguesAreLanguages DEF WithCatalogue, Names, CacheInv, TypeOK
  <2>3. /\ {shown', pending'} \subseteq Recipes \cup {None}
        /\ lookups' \subseteq Recipes
    BY <2>1, InjectTypes DEF CatalogEnds, CacheInv, TypeOK
  <2>4. /\ cache' \in Names /\ kept' \in Names
        /\ \/ Settling(x) /\ kept' = cache'
           \/ ~Settling(x) /\ kept' = kept /\ cache' = cache
        /\ \A r \in Recipes : ~switched => cache'[r] \in {lang, cache[r]}
    BY <2>1, <2>2 DEF CatalogEnds, CacheInv, TypeOK, Settling
  <2>5. /\ Settling(x) => stamp' = lang
        /\ ~Settling(x) => stamp' = stamp
    BY <2>1 DEF FetchEnds, FetchOver, Taken
  <2>6. UNCHANGED <<topic, settled, lang, switched, recipe, saving, failed>>
    BY <2>1 DEF FetchEnds, CatalogEnds
  <2>7. saving' \/ \A r \in Recipes : cache'[r] \in {None, kept'[r]}
    BY <2>4, <2>6 DEF CacheInv
  <2>8. NamesInLanguage'
    BY <2>4, <2>5, <2>6 DEF CacheInv, NamesInLanguage
  <2>9. TypeOK'
    BY <1>1, <1>2, <1>3, <2>3, <2>4, <2>6 DEF CacheInv, TypeOK, topic
  <2> QED
    BY <1>2, <1>3, <1>5, <2>6, <2>7, <2>8, <2>9
       DEF CacheInv, ButtonAwaits, NamesOfCatalog, topic
<1> QED
  BY <1>4, <1>5

LEMMA ButtonKeeps ==
  ASSUME CacheInv, PressRefresh \/ CatalogDone \/ PresetsDone
  PROVE  CacheInv'
<1>1. CASE PressRefresh
  <2>1. /\ NoNames \in Names
        /\ \A r \in Recipes : NoNames[r] = None
    BY DEF NoNames, Names
  <2>2. /\ running' \in BOOLEAN /\ waiting' \in BOOLEAN
        /\ flying' \subseteq Starters
        /\ "refresh" \in flying' => fetch = "catalog"
    BY <1>1 DEF PressRefresh, ButtonAsks, asking, CacheInv, TypeOK, Starters,
                ButtonAwaits
  <2>3. button' = "catalog" /\ button' \in Stages
        /\ switched' \in BOOLEAN
    BY <1>1 DEF PressRefresh, Stages, CacheInv, TypeOK
  <2> QED
    BY <1>1, <2>1, <2>2, <2>3
       DEF PressRefresh, CacheInv, TypeOK, ButtonAwaits, NamesOfCatalog,
           NamesInLanguage, topic
<1>2. CASE CatalogDone
  BY <1>2 DEF CatalogDone, ButtonAsks, CacheInv, TypeOK, ButtonAwaits, Stages,
              Starters, NamesOfCatalog, NamesInLanguage, topic, answer,
              naming, history
<1>3. CASE PresetsDone
  <2>1. /\ button' \in Stages /\ pending' \in Recipes \cup {None}
        /\ lookups' \subseteq Recipes
    BY <1>3 DEF PresetsDone, CacheInv, TypeOK, Stages
  <2>2. "refresh" \notin flying
    BY <1>3 DEF PresetsDone, CacheInv, ButtonAwaits
  <2> QED
    BY <1>3, <2>1, <2>2
       DEF PresetsDone, CacheInv, TypeOK, ButtonAwaits, NamesOfCatalog,
           NamesInLanguage, topic, answer, asking, history
<1> QED
  BY <1>1, <1>2, <1>3

LEMMA ReloadKeeps ==
  ASSUME CacheInv, NEW l \in Langs, Reload(l)
  PROVE  CacheInv'
<1>1. /\ NoNames \in Names
      /\ \A r \in Recipes : NoNames[r] = None
  BY DEF NoNames, Names
<1>2. cache' \in Names /\ kept' = kept /\ lang' = l /\ stamp' = stamp
  BY <1>1 DEF Reload, Loaded, CacheInv, TypeOK
<1>3. \A r \in Recipes : cache'[r] \in {None, kept[r]}
  BY <1>1 DEF Reload, Loaded
<1>4. NamesInLanguage'
  <2>1. CASE ~switched
    <3>1. \A r \in Recipes : kept[r] \in {None, stamp}
      BY <2>1 DEF CacheInv, NamesInLanguage
    <3>2. \A r \in Recipes : cache'[r] \in {None, l}
      BY <1>1, <3>1 DEF Reload, Loaded
    <3> QED
      BY <1>2, <3>1, <3>2 DEF NamesInLanguage
  <2>2. CASE kept = NoNames
    BY <1>1, <1>2, <1>3, <2>2 DEF NamesInLanguage
  <2>3. CASE switched /\ kept # NoNames
    BY <2>3 DEF Reload, NamesInLanguage
  <2> QED
    BY <2>1, <2>2, <2>3
<1>5. TypeOK'
  BY <1>2 DEF Reload, CacheInv, TypeOK, topic
<1>6. NamesOfCatalog'
  BY <1>1, <1>2 DEF Reload, Loaded, CacheInv, NamesOfCatalog, topic
<1> QED
  BY <1>2, <1>3, <1>4, <1>5, <1>6 DEF Reload, CacheInv, ButtonAwaits

LEMMA CacheInvNext == CacheInv /\ [Next]_vars => CacheInv'
<1> SUFFICES ASSUME CacheInv, [Next]_vars PROVE CacheInv'
  OBVIOUS
<1>1. CASE Persist
  BY <1>1 DEF Persist, CacheInv, TypeOK, ButtonAwaits, NamesOfCatalog,
              NamesInLanguage, topic, asking, history
<1>2. CASE GateOpens
  BY <1>2 DEF GateOpens, CacheInv, TypeOK, ButtonAwaits, NamesOfCatalog,
              NamesInLanguage, topic, answer, naming, history
<1>3. ASSUME NEW l \in Langs, SwitchLanguage(l)
      PROVE  CacheInv'
  BY <1>3 DEF SwitchLanguage, CacheInv, TypeOK, ButtonAwaits, NamesOfCatalog,
              NamesInLanguage, topic, answer, asking, naming
<1>4. CASE Settle
  BY <1>4 DEF Settle, CacheInv, TypeOK, ButtonAwaits, NamesOfCatalog,
              NamesInLanguage, topic, answer, asking, naming, history
<1>5. CASE UNCHANGED vars
  BY <1>5 DEF vars, CacheInv, TypeOK, ButtonAwaits, NamesOfCatalog,
              NamesInLanguage, topic, answer, asking, naming, history
<1> QED
  BY <1>1, <1>2, <1>3, <1>4, <1>5, PushKeeps, LookupKeeps, FetchKeeps,
     ButtonKeeps, ReloadKeeps
     DEF Next, Pushes, Time, NameReplies, FetchReplies, HomeAssistant

----------------------------------------------------------------------------
(* The inductive invariant: the types, what the button awaits, and the two  *)
(* properties below.                                                        *)
THEOREM CacheInvariant == Spec => []CacheInv
  BY CacheInvInit, CacheInvNext, PTL DEF Spec

(* A name that was found is in the entry, or the task that writes it waits. *)
THEOREM NamesKept == Spec => []NamesReachEntry
<1>1. CacheInv => NamesReachEntry
  BY DEF CacheInv, NamesReachEntry
<1> QED
  BY <1>1, CacheInvariant, PTL

(* Names are in the language of Home Assistant, and in the entry in that of *)
(* their stamp, unless the language changed under names that are kept.      *)
THEOREM NamesSpeakTheLanguage == Spec => []NamesInLanguage
<1>1. CacheInv => NamesInLanguage
  BY DEF CacheInv
<1> QED
  BY <1>1, CacheInvariant, PTL

----------------------------------------------------------------------------
(* A result that ends the asking rests on a reply that is no bad moment of  *)
(* the cloud, whatever replies the chain of requests behind it got.         *)

Honest ==
  {x \in Results : x.out \in {"answer", "empty", "auth"} => x.on \notin Passing}

LEMMA RepliesAreHonest ==
  ASSUME NEW reply \in Replies
  PROVE  Lookup(reply) \in Honest /\ Devices(reply) \in Honest
         /\ Jobs(reply) \in Honest
<1>1. ASSUME NEW out, Result(out, reply) \in Results,
             out \in {"answer", "empty", "auth"} => reply \notin Passing
      PROVE  Result(out, reply) \in Honest
  BY <1>1 DEF Honest, Result
<1>2. /\ Lookup(reply) \in Results /\ Devices(reply) \in Results
      /\ Jobs(reply) \in Results
  BY LookupResults
<1>3. Lookup(reply) \in Honest
  BY <1>1, <1>2 DEF Lookup, Replies, Passing
<1>4. Devices(reply) \in Honest
  BY <1>1, <1>2 DEF Devices, Replies, Passing
<1>5. Jobs(reply) \in Honest
  BY <1>1, <1>2 DEF Jobs, Replies, Passing
<1> QED
  BY <1>3, <1>4, <1>5

LEMMA LinksAreHonest == AllLinks \subseteq Honest
<1>1. ASSUME NEW d \in Replies, NEW spaces \in SUBSET Replies
      PROVE  RootLinks(d, spaces) \in Honest
  <2>1. /\ Result("answer", "found") \in Honest
        /\ Result("empty", "nothing") \in Honest
    BY DEF Result, Honest, Results, Outcomes, Replies, Passing
  <2>2. ASSUME NEW r \in Replies
        PROVE  Result("retry", r) \in Honest
    BY DEF Result, Honest, Results, Outcomes
  <2>3. ASSUME spaces \cap Passing # {}
        PROVE  (CHOOSE r \in spaces \cap Passing : TRUE) \in Replies
    BY <2>3
  <2>4. Links(spaces) \in Honest
    BY <2>1, <2>2, <2>3 DEF Links
  <2> QED
    BY <2>4, RepliesAreHonest DEF RootLinks
<1> QED
  BY <1>1 DEF AllLinks

LEMMA ByLinkIsHonest ==
  ASSUME NEW l \in Honest, NEW reply \in Replies
  PROVE  ByLink(l, reply) \in Honest
  BY RepliesAreHonest DEF ByLink

(* What matters of a result survives the loss of the rest.                  *)
LEMMA AlikeIsHonest ==
  ASSUME NEW results, results \subseteq Honest
  PROVE  Alike(results) \subseteq Honest
<1>1. ASSUME NEW x \in results
      PROVE  Result(x.out, IF x.on \in Passing THEN "busy" ELSE "found")
               \in Honest
  <2>1. x \in Honest /\ x.out \in Outcomes
    BY DEF Honest, Results
  <2>2. CASE x.on \in Passing
    BY <2>1, <2>2 DEF Honest, Result, Results, Replies, Passing
  <2>3. CASE x.on \notin Passing
    BY <2>1, <2>3 DEF Honest, Result, Results, Replies, Passing
  <2> QED
    BY <2>2, <2>3
<1> QED
  BY <1>1 DEF Alike

LEMMA TokensAreHonest == TokenResults \subseteq Honest
  BY DEF TokenResults, Honest, Result, Results, Outcomes, Replies, Passing

LEMMA FetchesAreHonest ==
  ASSUME NEW f \in Fetches, f # "firstPresets"
  PROVE  ResultsOf(f) \subseteq Honest
<1>1. CatalogResults \subseteq Honest
  BY LinksAreHonest, ByLinkIsHonest DEF CatalogResults
<1>2. PresetResults(TRUE) \subseteq Honest
  <2>1. ASSUME NEW l \in AllLinks, NEW r \in Replies
        PROVE  Presets(Known, l, r) \in Honest
    BY LinksAreHonest, ByLinkIsHonest DEF Presets, Known, Result
  <2> QED
    BY <2>1 DEF PresetResults
<1>3. DrinkResults \subseteq Honest
  <2>1. ASSUME NEW d \in Replies, NEW c \in BOOLEAN, NEW r \in Replies
        PROVE  Drinks(Devices(d), c, r) \in Honest
    <3>1. Devices(d) \in Honest /\ Lookup(r) \in Honest
      BY RepliesAreHonest
    <3>2. Devices(d).out \in {"answer", "empty"}
            => Result("empty", Devices(d).on) \in Honest
      BY <3>1 DEF Honest, Result, Results, Outcomes
    <3> QED
      BY <3>1, <3>2 DEF Drinks
  <2> QED
    BY <2>1 DEF DrinkResults
<1>4. JobResults \subseteq Honest
  BY RepliesAreHonest DEF JobResults
<1>5. /\ Alike(CatalogResults) \subseteq Honest
      /\ Alike(PresetResults(TRUE)) \subseteq Honest
      /\ Alike(DrinkResults) \subseteq Honest
      /\ Alike(JobResults) \subseteq Honest
  BY <1>1, <1>2, <1>3, <1>4, AlikeIsHonest
<1> QED
  BY <1>5, TokensAreHonest DEF ResultsOf, Fetches

LEMMA NamesAreHonest == NameOutcomes \subseteq Honest
<1>1. ASSUME NEW number \in BOOLEAN
      PROVE  NameResults(number) \subseteq Honest
  <2>1. ASSUME NEW r \in Replies, NEW p \in Replies, NEW l \in AllLinks
        PROVE  RecipeName(r, number, l, p) \in Honest
    <3>1. Lookup(r) \in Honest /\ ByLink(l, p) \in Honest
      BY RepliesAreHonest, LinksAreHonest, ByLinkIsHonest
    <3> QED
      BY <3>1 DEF RecipeName
  <2> QED
    BY <2>1 DEF NameResults
<1>2. Alike(NameResults(TRUE)) \subseteq Honest
  BY <1>1, AlikeIsHonest
<1> QED
  BY <1>2, TokensAreHonest DEF NameOutcomes

----------------------------------------------------------------------------
(* The cloud of a behaviour stays honest, and so nothing is spoilt.         *)
HonestCloud ==
  fetch # "firstPresets" =>
    cloud.fetch \subseteq Honest /\ cloud.names \subseteq Honest /\ ~spoilt

LEMMA HonestInit == Init => HonestCloud
  BY FetchesAreHonest, NamesAreHonest DEF Init, HonestCloud

LEMMA HonestReply ==
  ASSUME NEW results, results \subseteq Honest, NEW x \in Answers(results)
  PROVE  x \in Honest
  BY DEF Answers

LEMMA HonestNext == HonestCloud /\ [Next]_vars => HonestCloud'
<1> SUFFICES ASSUME HonestCloud, [Next]_vars, fetch' # "firstPresets"
             PROVE  HonestCloud'
  BY DEF HonestCloud
<1>1. UNCHANGED topic
  BY DEF Next, Pushes, Time, NameReplies, FetchReplies, HomeAssistant, vars,
         Push, LookupEnds, FetchEnds, GateOpens, Persist, CatalogDone,
         PresetsDone, PressRefresh, SwitchLanguage, Reload, Settle
<1>2. cloud.fetch \subseteq Honest /\ cloud.names \subseteq Honest /\ ~spoilt
  BY <1>1 DEF HonestCloud, topic
<1>3. ASSUME NEW r \in lookups, NEW x \in Answers(cloud.names),
             LookupEnds(r, x)
      PROVE  ~spoilt'
  <2>1. x.out \in {"answer", "empty", "auth"} => x.on \notin Passing
    BY <1>2, HonestReply DEF Honest
  <2> QED
    BY <1>2, <1>3, <2>1 DEF LookupEnds, Spoils
<1>4. ASSUME NEW t \in flying, NEW x \in Answers(cloud.fetch),
             FetchEnds(t, x)
      PROVE  ~spoilt'
  <2>1. x.out \in {"answer", "empty", "auth"} => x.on \notin Passing
    BY <1>2, HonestReply DEF Honest
  <2> QED
    BY <1>2, <1>4, <2>1 DEF FetchEnds, FetchOver, Taken, Settling, Spoils
<1>5. CASE ~NameReplies /\ ~FetchReplies
  <2>1. spoilt' = spoilt
    BY <1>5 DEF Next, Pushes, Time, HomeAssistant, vars, history, Push,
                GateOpens, Persist, CatalogDone, PresetsDone, PressRefresh,
                SwitchLanguage, Reload, Settle
  <2> QED
    BY <1>1, <1>2, <2>1 DEF HonestCloud, topic
<1>6. CASE NameReplies
  BY <1>1, <1>2, <1>3, <1>6 DEF NameReplies, HonestCloud, topic
<1>7. CASE FetchReplies
  BY <1>1, <1>2, <1>4, <1>7 DEF FetchReplies, HonestCloud, topic
<1> QED
  BY <1>5, <1>6, <1>7

(* Nothing is latched as answered and no recipe given up because of a reply *)
(* that a second request might not get, whatever the methods of the cloud   *)
(* client are answered along their chains of requests.                      *)
THEOREM PassingErrorsPass == Spec => []GivenUpOnlyOnAnswers
<1>1. HonestCloud => GivenUpOnlyOnAnswers
  BY DEF HonestCloud, GivenUpOnlyOnAnswers
<1> QED
  BY <1>1, HonestInit, HonestNext, PTL DEF Spec

=============================================================================
