------------------------ MODULE LocalApplianceProofs ------------------------
(* Theorems about LocalAppliance, for any number of service calls beside    *)
(* the poll and any limit of failures: the poll never rules out what the    *)
(* appliance is, comes back empty only for a cause, and a power off is      *)
(* obeyed by a brew asked before it.                                        *)
EXTENDS LocalAppliance, TLAPS

(* Where a poll may be between two reads, and where a block may leave it.   *)
Places == {"idle", "firmware", "airfryer", "extra", "status", "air",
           "filters", "machine", "config"}
WalkSet(places) ==
  [at : places, left : 0..2, got : BOOLEAN, found : BOOLEAN]
Walks == WalkSet((Places \ {"idle"}) \cup {"gone", "done"})

Types ==
  /\ kind \in Kinds /\ auth \in BOOLEAN /\ well \in BOOLEAN
  /\ life \in {"probe", "key", "first", "running"}
  /\ probe \in [Protocols -> Probing \cup {"found", "none", "over"}]
  /\ heard \subseteq Protocols
  /\ verdict \in [Blocks -> {"open", "port", "no"}]
  /\ stored \in BOOLEAN /\ registered \in BOOLEAN
  /\ quiet \in BOOLEAN /\ transient \in BOOLEAN
  /\ poll \in WalkSet(Places)
  /\ retried \in BOOLEAN
  /\ failures \in 0..MaxFailures /\ serving \in BOOLEAN
  /\ shown \in {"nothing", "firmware", "all"}
  /\ calls \in [Callers -> Seq(Sent)]
  /\ brew \in {"idle", "sleep"} \cup Requesting
  /\ late \in BOOLEAN /\ off \in BOOLEAN /\ overruled \in BOOLEAN
  /\ misled \in BOOLEAN /\ disturbed \in BOOLEAN

(* The poll finds the flag of an unanswered request up only together with   *)
(* that of passing trouble, whoever wrote them; and a brew that is off is   *)
(* not under way.                                                           *)
QuietIsTransient == poll.at # "idle" /\ quiet => transient

LocalInv ==
  /\ Types /\ QuietIsTransient
  /\ verdict[BlockOf(kind)] = "no" => misled
  /\ off => brew = "idle"
  /\ ~overruled

LEMMA PlacesOfReads ==
  {"idle", "firmware"} \cup UNION {Reads[b] : b \in Blocks} = Places
<1>1. UNION {Reads[b] : b \in Blocks}
        = Reads.airfryer \cup Reads.purifier \cup Reads.espresso
  BY DEF Blocks
<1> QED
  BY <1>1 DEF Reads, Places

LEMMA TypesAreTypeOK == Types <=> TypeOK
  BY PlacesOfReads DEF Types, TypeOK, WalkSet

LEMMA LocalInvInit == Init => LocalInv
<1> SUFFICES ASSUME Init PROVE LocalInv
  OBVIOUS
<1>1. poll \in WalkSet(Places) /\ poll.at = "idle"
  BY DEF Init, Idle, Walk, WalkSet, Places
<1>2. verdict \in [Blocks -> {"open", "port", "no"}]
      /\ verdict[BlockOf(kind)] # "no"
  BY DEF Init, Blocks, BlockOf, Kinds
<1>3. probe \in [Protocols -> Probing \cup {"found", "none", "over"}]
  BY DEF Init, Probing
<1>4. calls \in [Callers -> Seq(Sent)]
  BY DEF Init
<1>5. failures \in 0..MaxFailures
  BY LocalAssumption DEF Init
<1>6. auth \in BOOLEAN /\ stored \in BOOLEAN
  BY DEF Init
<1> QED
  BY <1>1, <1>2, <1>3, <1>4, <1>5, <1>6
     DEF Init, LocalInv, Types, QuietIsTransient

----------------------------------------------------------------------------
(* Requests of anybody but the poll move the flags together.                *)

LEMMA RequestBegins ==
  ASSUME LocalInv, NEW after \in BOOLEAN, Began(after), UNCHANGED poll
  PROVE  quiet' \in BOOLEAN /\ transient' \in BOOLEAN /\ QuietIsTransient'
  BY DEF Began, QuietIsTransient

LEMMA RequestEnds ==
  ASSUME LocalInv, NEW a, poll' = poll, quiet' => Unanswered(a),
         transient \/ IsTransient(a) => transient'
  PROVE  QuietIsTransient'
  BY DEF LocalInv, QuietIsTransient, Unanswered, IsTransient, Unusable

LEMMA NotedIsBoolean ==
  ASSUME LocalInv, NEW a, Noted(a)
  PROVE  disturbed' \in BOOLEAN
  BY DEF LocalInv, Types, Noted

LEMMA ProbeAnswerKeeps ==
  ASSUME LocalInv, NEW p \in Protocols, ProbeAnswer(p)
  PROVE  LocalInv'
<1>1. /\ heard' \subseteq Protocols
      /\ probe' \in [Protocols -> Probing \cup {"found", "none", "over"}]
  BY DEF ProbeAnswer, LocalInv, Types, Probing
<1> QED
  BY <1>1 DEF ProbeAnswer, LocalInv, Types, QuietIsTransient, device, entry,
              flags, outcome, brewing

LEMMA SetupKeeps ==
  ASSUME LocalInv, Setup
  PROVE  LocalInv'
<1>1. CASE ProbeEnds
  <2>1. /\ life' \in {"first", "key"} /\ heard' = {}
        /\ probe' \in [Protocols -> Probing \cup {"found", "none", "over"}]
    BY <1>1 DEF ProbeEnds
  <2>2. quiet' \in BOOLEAN /\ transient' \in BOOLEAN /\ QuietIsTransient'
    <3>1. CASE UNCHANGED flags
      BY <1>1, <3>1 DEF ProbeEnds, flags, LocalInv, Types, QuietIsTransient
    <3>2. CASE Began(transient)
      BY <1>1, <3>2, RequestBegins DEF ProbeEnds, LocalInv, Types
    <3> QED
      BY <1>1, <3>1, <3>2 DEF ProbeEnds
  <2> QED
    BY <1>1, <2>1, <2>2 DEF ProbeEnds, LocalInv, Types, device, entry,
                            outcome, brewing
<1>2. CASE ExchangeKey
  <2>1. PICK a \in Answers(TRUE) : Ended(a)
    BY <1>2 DEF ExchangeKey
  <2>2. /\ quiet' \in BOOLEAN /\ transient' \in BOOLEAN
        /\ quiet' => Unanswered(a)
        /\ transient \/ IsTransient(a) => transient'
    BY <2>1 DEF Ended, Unanswered, IsTransient
  <2>3. poll' = poll
    BY <1>2 DEF ExchangeKey
  <2>4. QuietIsTransient'
    BY <2>2, <2>3, RequestEnds
  <2>5. quiet' \in BOOLEAN /\ transient' \in BOOLEAN
    BY <2>2
  <2> QED
    BY <1>2, <2>4, <2>5 DEF ExchangeKey, LocalInv, Types, device, entry, outcome,
                      brewing
<1> QED
  BY <1>1, <1>2, ProbeAnswerKeeps DEF Setup

----------------------------------------------------------------------------
(* Service calls and the brew task.                                         *)

LEMMA ChallengedKeeps ==
  ASSUME LocalInv, Challenged, UNCHANGED <<device, well, setup, verdict, entry,
           poll, outcome, calls, brewing, misled, disturbed>>,
         retried' \in BOOLEAN
  PROVE  LocalInv'
<1>1. quiet' \in BOOLEAN /\ transient' \in BOOLEAN /\ QuietIsTransient'
  BY RequestBegins DEF Challenged
<1> QED
  BY <1>1 DEF LocalInv, Types, device, setup, entry, outcome, brewing

LEMMA WritesAreSent ==
  ASSUME NEW w \in Writes
  PROVE  w \in Seq(Sent)
<1>1. /\ <<"write">> \in Seq(Sent) /\ <<"precook", "cook">> \in Seq(Sent)
      /\ <<"precook", "settings", "cook">> \in Seq(Sent)
      /\ <<"pause", "mainmenu">> \in Seq(Sent)
      /\ <<"pause", "settings", "cook">> \in Seq(Sent)
  BY DEF Sent
<1> QED
  BY <1>1 DEF Writes

LEMMA CallsKeep ==
  ASSUME LocalInv, NEW c \in Callers,
         Call(c) \/ CallAnswer(c) \/ CallChallenged(c) \/ SetPower(c)
  PROVE  LocalInv'
<1>1. CASE Call(c)
  <2>1. PICK w \in Writes : calls' = [calls EXCEPT ![c] = w]
    BY <1>1 DEF Call
  <2>2. w \in Seq(Sent)
    BY WritesAreSent
  <2>3. calls' \in [Callers -> Seq(Sent)]
    BY <2>1, <2>2 DEF LocalInv, Types
  <2>4. quiet' \in BOOLEAN /\ transient' \in BOOLEAN /\ QuietIsTransient'
    BY <1>1, RequestBegins DEF Call, LocalInv, Types
  <2> QED
    BY <1>1, <2>3, <2>4 DEF Call, LocalInv, Types, device, setup, entry,
                            outcome, brewing
<1>2. CASE CallAnswer(c)
  <2>1. PICK a : /\ calls' = [calls EXCEPT ![c] = Tail(@)]
                 /\ quiet' = (Unanswered(a) /\ Tail(calls[c]) = <<>>)
                 /\ transient' = (transient \/ IsTransient(a))
                 /\ Noted(a)
    BY <1>2 DEF CallAnswer
  <2>2. calls[c] \in Seq(Sent) /\ calls[c] # <<>>
    BY <1>2 DEF CallAnswer, LocalInv, Types
  <2>3. Tail(calls[c]) \in Seq(Sent)
    BY <2>2
  <2>4. calls' \in [Callers -> Seq(Sent)]
    BY <2>1, <2>3 DEF LocalInv, Types
  <2>5. quiet' \in BOOLEAN /\ transient' \in BOOLEAN /\ QuietIsTransient'
    <3>1. /\ quiet' \in BOOLEAN /\ transient' \in BOOLEAN
          /\ quiet' => Unanswered(a)
          /\ transient \/ IsTransient(a) => transient'
      BY <2>1 DEF Unanswered, IsTransient
    <3>2. poll' = poll
      BY <1>2 DEF CallAnswer
    <3> QED
      BY <3>1, <3>2, RequestEnds
  <2>6. disturbed' \in BOOLEAN
    BY <2>1, NotedIsBoolean
  <2> QED
    BY <1>2, <2>4, <2>5, <2>6 DEF CallAnswer, LocalInv, Types, device, setup,
                                  entry, outcome, brewing
<1>3. CASE CallChallenged(c)
  BY <1>3, ChallengedKeeps DEF CallChallenged, LocalInv, Types
<1>4. CASE SetPower(c)
  <2>1. <<"write">> \in Seq(Sent)
    BY DEF Sent
  <2>2. calls' \in [Callers -> Seq(Sent)]
    BY <1>4, <2>1 DEF SetPower, LocalInv, Types
  <2>3. quiet' \in BOOLEAN /\ transient' \in BOOLEAN /\ QuietIsTransient'
    BY <1>4, RequestBegins DEF SetPower, LocalInv, Types
  <2>4. /\ brew' \in {"idle", "sleep"} \cup Requesting
        /\ late' \in BOOLEAN /\ off' \in BOOLEAN
        /\ off' => brew' = "idle"
    BY <1>4 DEF SetPower, CancelBrew, LocalInv, Types
  <2> QED
    BY <1>4, <2>2, <2>3, <2>4 DEF SetPower, LocalInv, Types, device, setup,
                                  entry, outcome
<1> QED
  BY <1>1, <1>2, <1>3, <1>4

(* A brew that goes on is not off, so that no step of it is overruled.      *)
LEMMA BrewGoesOn ==
  ASSUME LocalInv, brew # "idle", UNCHANGED off,
         NEW to \in {"idle", "sleep"} \cup Requesting, BrewGoes(to)
  PROVE  /\ brew' \in {"idle", "sleep"} \cup Requesting
         /\ late' \in BOOLEAN /\ off' \in BOOLEAN /\ overruled' \in BOOLEAN
         /\ ~off' /\ ~overruled'
  BY DEF LocalInv, Types, BrewGoes

LEMMA BrewKeeps ==
  ASSUME LocalInv, PressBrew \/ Brew \/ BrewChallenged \/ Deadline
  PROVE  LocalInv'
<1>1. CASE PressBrew
  <2>1. quiet' \in BOOLEAN /\ transient' \in BOOLEAN /\ QuietIsTransient'
    BY <1>1, RequestBegins DEF PressBrew, LocalInv, Types
  <2> QED
    BY <1>1, <2>1 DEF PressBrew, Requesting, LocalInv, Types, device, setup,
                      entry, outcome
<1>2. CASE BrewAnswer
  <2>0. PICK a : \E to \in AfterRequest(a) :
                   /\ BrewGoes(to)
                   /\ quiet' = (Unanswered(a) /\ to \notin Requesting)
                   /\ transient' = (transient \/ IsTransient(a))
                   /\ Noted(a)
    BY <1>2 DEF BrewAnswer
  <2>1. PICK to \in AfterRequest(a) :
          /\ BrewGoes(to)
          /\ quiet' = (Unanswered(a) /\ to \notin Requesting)
          /\ transient' = (transient \/ IsTransient(a))
          /\ Noted(a)
    BY <2>0
  <2>2. to \in {"idle", "sleep"} \cup Requesting
    BY <1>2, <2>1 DEF BrewAnswer, AfterRequest, AfterCheck, AfterWait,
                      Requesting
  <2>3. brew # "idle" /\ UNCHANGED <<poll, off>>
    BY <1>2 DEF BrewAnswer, Requesting
  <2>4. /\ brew' \in {"idle", "sleep"} \cup Requesting
        /\ late' \in BOOLEAN /\ off' \in BOOLEAN /\ overruled' \in BOOLEAN
        /\ ~off' /\ ~overruled'
    BY <2>1, <2>2, <2>3, BrewGoesOn
  <2>5. quiet' \in BOOLEAN /\ transient' \in BOOLEAN /\ QuietIsTransient'
    <3>1. /\ quiet' \in BOOLEAN /\ transient' \in BOOLEAN
          /\ quiet' => Unanswered(a)
          /\ transient \/ IsTransient(a) => transient'
      BY <2>1 DEF Unanswered, IsTransient
    <3>2. poll' = poll
      BY <2>3
    <3> QED
      BY <3>1, <3>2, RequestEnds
  <2>6. disturbed' \in BOOLEAN
    BY <2>1, NotedIsBoolean
  <2> QED
    BY <1>2, <2>4, <2>5, <2>6 DEF BrewAnswer, LocalInv, Types, device, setup,
                                  entry, outcome
<1>3. CASE BrewWakes
  <2>1. /\ brew' \in {"idle", "sleep"} \cup Requesting
        /\ late' \in BOOLEAN /\ off' \in BOOLEAN /\ overruled' \in BOOLEAN
        /\ ~off' /\ ~overruled'
    BY <1>3, BrewGoesOn DEF BrewWakes, Requesting
  <2>2. quiet' \in BOOLEAN /\ transient' \in BOOLEAN /\ QuietIsTransient'
    BY <1>3, RequestBegins DEF BrewWakes, LocalInv, Types
  <2> QED
    BY <1>3, <2>1, <2>2 DEF BrewWakes, LocalInv, Types, device, setup, entry,
                            outcome
<1>4. CASE BrewChallenged
  BY <1>4, ChallengedKeeps DEF BrewChallenged, LocalInv, Types
<1>5. CASE Deadline
  BY <1>5 DEF Deadline, LocalInv, Types, QuietIsTransient, device, setup,
              entry, flags, outcome
<1> QED
  BY <1>1, <1>2, <1>3, <1>4, <1>5 DEF Brew

----------------------------------------------------------------------------
(* The poll.                                                                *)

LEMMA WalksOn ==
  ASSUME NEW got \in BOOLEAN, NEW airfryer \in BOOLEAN, NEW q \in BOOLEAN,
         NEW v
  PROVE  /\ ToFirmware(got, q) \in Walks
         /\ ToEspresso(got, airfryer, q, v) \in Walks
         /\ ToPurifier(got, airfryer, q, v) \in Walks
<1>1. /\ Gone(got) \in Walks
      /\ Walk("firmware", 0, got, FALSE) \in Walks
      /\ Walk("machine", 0, got, FALSE) \in Walks
      /\ Walk("status", 0, got, FALSE) \in Walks
  BY DEF Gone, Walk, Walks, WalkSet, Places
<1>2. ToFirmware(got, q) \in Walks
  BY <1>1 DEF ToFirmware
<1>3. ToEspresso(got, airfryer, q, v) \in Walks
  BY <1>1, <1>2 DEF ToEspresso
<1>4. ToPurifier(got, airfryer, q, v) \in Walks
  BY <1>1, <1>3 DEF ToPurifier
<1> QED
  BY <1>2, <1>3, <1>4

LEMMA FirstReadsAreWalks ==
  ASSUME NEW walk \in FirstReads
  PROVE  walk \in Walks
<1>1. CASE verdict["airfryer"] = "no" \/ ~auth
  BY <1>1, WalksOn DEF FirstReads, StartQuiet
<1>2. CASE ~(verdict["airfryer"] = "no" \/ ~auth)
  <2>1. PICK n \in {1, 2} : walk = Walk("airfryer", n, FALSE, FALSE)
    BY <1>2 DEF FirstReads
  <2> QED
    BY <2>1 DEF Walk, Walks, WalkSet, Places
<1> QED
  BY <1>1, <1>2

LEMMA NextReadIsWalk ==
  ASSUME LocalInv, NEW a, NEW v
  PROVE  NextRead(a, v) \in Walks
<1> DEFINE got == poll.got \/ a = "data"
           found == poll.found \/ a = "data"
           q == Unanswered(a)
<1>1. /\ poll.at \in Places /\ poll.left \in 0..2
      /\ poll.got \in BOOLEAN /\ poll.found \in BOOLEAN
      /\ got \in BOOLEAN /\ found \in BOOLEAN /\ q \in BOOLEAN
      /\ (a = "data") \in BOOLEAN
  BY DEF LocalInv, Types, WalkSet, Unanswered
<1>2. /\ ToFirmware(got, q) \in Walks
      /\ ToEspresso(got, FALSE, q, v) \in Walks
      /\ ToPurifier(got, got, q, v) \in Walks
  <2> HIDE DEF got, q
  <2> QED
    BY <1>1, WalksOn
<1>3. ASSUME NEW g \in BOOLEAN, NEW f \in BOOLEAN, NEW left \in 0..2,
             NEW at \in {"airfryer", "extra", "air", "filters", "config",
                         "done"}
      PROVE  Walk(at, left, g, f) \in Walks
  BY DEF Walk, Walks, WalkSet, Places
<1>4. /\ Walk("extra", 0, TRUE, TRUE) \in Walks
      /\ Walk("air", 0, got, found) \in Walks
      /\ Walk("filters", 0, got, found) \in Walks
      /\ Walk("config", 0, got, found) \in Walks
      /\ Walk("done", 0, poll.got, a = "data") \in Walks
      /\ poll.left > 1 => Walk("airfryer", poll.left - 1, FALSE, FALSE) \in Walks
  <2>1. poll.left > 1 => poll.left - 1 \in 0..2
    BY <1>1
  <2>2. 0 \in 0..2
    OBVIOUS
  <2> HIDE DEF got, found
  <2> QED
    BY <1>1, <1>3, <2>1, <2>2, Zenon
<1> QED
  BY <1>2, <1>4, Zenon DEF NextRead

(* Whether the poll goes on or is over, it leaves the state well typed, and *)
(* the flag of an unanswered request down while it goes on.                 *)
LEMMA AdvanceKeeps ==
  ASSUME LocalInv, NEW walk \in Walks, NEW v, NEW q \in BOOLEAN,
         Advance(walk, v, q)
  PROVE  /\ poll' \in WalkSet(Places) /\ quiet' \in BOOLEAN
         /\ life' \in {"probe", "key", "first", "running"}
         /\ failures' \in 0..MaxFailures /\ serving' \in BOOLEAN
         /\ shown' \in {"nothing", "firmware", "all"}
         /\ stored' \in BOOLEAN /\ registered' \in BOOLEAN
         /\ poll'.at # "idle" => ~quiet'
<1>1. CASE Over(walk)
  <2>1. Conclude(walk, v)
    BY <1>1 DEF Advance
  <2>2. poll' \in WalkSet(Places) /\ poll'.at = "idle"
    BY <2>1 DEF Conclude, Idle, Walk, WalkSet, Places
  <2>3. failures' \in 0..MaxFailures
    BY <2>1, LocalAssumption DEF Conclude, LocalInv, Types
  <2>4. /\ life' = "running" /\ serving' \in BOOLEAN
        /\ shown' \in {"nothing", "firmware", "all"}
        /\ stored' \in BOOLEAN /\ registered' \in BOOLEAN
    BY <2>1 DEF Conclude, LocalInv, Types
  <2>5. quiet' \in BOOLEAN
    BY DEF Advance, Over
  <2> QED
    BY <2>2, <2>3, <2>4, <2>5
<1>2. CASE ~Over(walk)
  <2>1. poll' = walk /\ UNCHANGED <<life, outcome, entry>> /\ ~quiet'
        /\ quiet' \in BOOLEAN
    BY <1>2 DEF Advance, Over
  <2>2. walk \in WalkSet(Places)
    BY <1>2 DEF Over, Walks, WalkSet, Places
  <2> QED
    BY <2>1, <2>2 DEF LocalInv, Types, outcome, entry
<1> QED
  BY <1>1, <1>2

(* A read whose block is the appliance's own rules it out on a glitch only: *)
(* every other answer without data is passing trouble.                      *)
LEMMA OwnBlockStays ==
  ASSUME LocalInv, poll.at # "idle", NEW a \in Answers(Own),
         BlockOf(kind) \in RuledOut(a)
  PROVE  a = "glitch" /\ poll.at # "firmware"
<1>1. /\ a # "data" /\ ~transient /\ ~IsTransient(a)
      /\ BlockOf(kind) \in Ending(a)
  BY DEF RuledOut
<1>2. ~Unanswered(a)
  BY <1>1 DEF LocalInv, QuietIsTransient, Unanswered, IsTransient, Unusable
<1>3. /\ poll.at \in Reads[BlockOf(kind)]
      /\ poll.at \in {"airfryer", "filters", "config"}
      /\ poll.at = "airfryer" => poll.left = 1
  BY <1>1, <1>2 DEF Ending
<1>4. Own = TRUE
  BY <1>3 DEF Own
<1>5. a \in {"data", "busy", "denied", "none", "glitch"}
  BY <1>4 DEF Answers
<1> QED
  BY <1>1, <1>3, <1>5 DEF IsTransient, Unusable

LEMMA VerdictStays ==
  ASSUME LocalInv, poll.at # "idle", NEW a \in Answers(Own)
  PROVE  /\ Verdict(a) \in [Blocks -> {"open", "port", "no"}]
         /\ Verdict(a)[BlockOf(kind)] = "no"
              => misled \/ (a = "glitch" /\ poll.at # "firmware")
<1>1. BlockOf(kind) \in Blocks
  BY DEF LocalInv, Types, BlockOf, Kinds, Blocks
<1>2. CASE poll.at = "airfryer" /\ a = "data"
  BY <1>1, <1>2 DEF Verdict, LocalInv, Types, Blocks
<1>3. CASE ~(poll.at = "airfryer" /\ a = "data")
  <2>1. Verdict(a) =
          [b \in Blocks |-> IF b \in RuledOut(a) THEN "no" ELSE verdict[b]]
    BY <1>3 DEF Verdict
  <2>2. Verdict(a) \in [Blocks -> {"open", "port", "no"}]
    BY <2>1 DEF LocalInv, Types
  <2>3. ASSUME Verdict(a)[BlockOf(kind)] = "no"
        PROVE  misled \/ (a = "glitch" /\ poll.at # "firmware")
    BY <1>1, <2>1, <2>3, OwnBlockStays DEF LocalInv
  <2> QED
    BY <2>2, <2>3
<1> QED
  BY <1>2, <1>3

LEMMA PollKeeps ==
  ASSUME LocalInv, Poll \/ PollChallenged
  PROVE  LocalInv'
<1>1. CASE PollStart
  <2>1. PICK walk \in FirstReads : Advance(walk, verdict, StartQuiet)
    BY <1>1 DEF PollStart
  <2>2. walk \in Walks /\ StartQuiet \in BOOLEAN
    BY FirstReadsAreWalks DEF StartQuiet
  <2>3. /\ poll' \in WalkSet(Places) /\ quiet' \in BOOLEAN
        /\ life' \in {"probe", "key", "first", "running"}
        /\ failures' \in 0..MaxFailures /\ serving' \in BOOLEAN
        /\ shown' \in {"nothing", "firmware", "all"}
        /\ stored' \in BOOLEAN /\ registered' \in BOOLEAN
        /\ poll'.at # "idle" => ~quiet'
    BY <2>1, <2>2, AdvanceKeeps
  <2> QED
    BY <1>1, <2>3 DEF PollStart, LocalInv, Types, QuietIsTransient, device,
                      brewing
<1>2. CASE PollAnswer
  <2>1. PICK a \in Answers(Own) :
          /\ verdict' = Verdict(a)
          /\ Advance(NextRead(a, verdict'), verdict', Unanswered(a))
          /\ transient' = (transient \/ IsTransient(a))
          /\ misled' = (misled \/ (a = "glitch" /\ poll.at # "firmware"))
          /\ Noted(a)
    BY <1>2 DEF PollAnswer
  <2>2. NextRead(a, verdict') \in Walks /\ Unanswered(a) \in BOOLEAN
    BY NextReadIsWalk DEF Unanswered, LocalInv, Types
  <2>3. /\ poll' \in WalkSet(Places) /\ quiet' \in BOOLEAN
        /\ life' \in {"probe", "key", "first", "running"}
        /\ failures' \in 0..MaxFailures /\ serving' \in BOOLEAN
        /\ shown' \in {"nothing", "firmware", "all"}
        /\ stored' \in BOOLEAN /\ registered' \in BOOLEAN
        /\ poll'.at # "idle" => ~quiet'
    BY <2>1, <2>2, AdvanceKeeps
  <2>4. /\ verdict' \in [Blocks -> {"open", "port", "no"}]
        /\ verdict'[BlockOf(kind)] = "no" => misled'
    BY <1>2, <2>1, VerdictStays DEF PollAnswer
  <2>5. BlockOf(kind)' = BlockOf(kind)
    BY <1>2 DEF PollAnswer, device, BlockOf
  <2>6. transient' \in BOOLEAN /\ misled' \in BOOLEAN /\ disturbed' \in BOOLEAN
    BY <2>1, NotedIsBoolean DEF LocalInv, Types, IsTransient
  <2> QED
    BY <1>2, <2>3, <2>4, <2>5, <2>6
       DEF PollAnswer, LocalInv, Types, QuietIsTransient, device, brewing
<1>3. CASE PollChallenged
  BY <1>3, ChallengedKeeps DEF PollChallenged
<1> QED
  BY <1>1, <1>2, <1>3 DEF Poll

----------------------------------------------------------------------------
(* The theorems.                                                            *)

LEMMA LocalInvNext == LocalInv /\ [Next]_vars => LocalInv'
<1> SUFFICES ASSUME LocalInv, [Next]_vars PROVE LocalInv'
  OBVIOUS
<1>1. CASE ApplianceChanges
  BY <1>1 DEF ApplianceChanges, LocalInv, Types, QuietIsTransient, device,
              setup, entry, flags, outcome, brewing
<1>2. CASE UNCHANGED vars
  BY <1>2 DEF vars, LocalInv, Types, QuietIsTransient, device, setup, entry,
              flags, outcome, brewing
<1> QED
  BY <1>1, <1>2, SetupKeeps, PollKeeps, CallsKeep, BrewKeeps DEF Next

(* The inductive invariant: the types, what a poll may find in the shared   *)
(* flags, and the two properties below.                                     *)
THEOREM LocalInvariant == Spec => []LocalInv
  BY LocalInvInit, LocalInvNext, PTL DEF Spec

(* The poll never rules out what the appliance is, unless it took a glitch  *)
(* for a fact, whatever requests end badly and whatever commands do to the  *)
(* flags meanwhile.                                                         *)
THEOREM OwnKindStays == Spec => []VerdictEarned
<1>1. LocalInv => VerdictEarned
  BY TypesAreTypeOK DEF LocalInv, VerdictEarned
<1> QED
  BY <1>1, LocalInvariant, PTL

(* After a power off a brew asked before it sends nothing more.             *)
THEOREM PowerOffObeyed == Spec => []OffIsObeyed
<1>1. LocalInv => OffIsObeyed
  BY DEF LocalInv, OffIsObeyed
<1> QED
  BY <1>1, LocalInvariant, PTL

----------------------------------------------------------------------------
(* A lost poll has its cause: what ends a poll early, the flag of an        *)
(* unanswered request, is up only if a request during this poll was noted.  *)

PollNoted ==
  /\ poll.at # "idle" => life \in {"first", "running"}
  /\ poll.at # "idle" /\ quiet => disturbed

(* A request of anybody else that begins, or ends with its answer noted.    *)
LEMMA OthersAreNoted ==
  ASSUME PollNoted, UNCHANGED <<poll, life>>,
         \/ quiet' = FALSE
         \/ UNCHANGED <<quiet, disturbed>>
         \/ \E a : Noted(a) /\ (quiet' => Unanswered(a))
  PROVE  PollNoted'
<1>1. CASE quiet' = FALSE
  BY <1>1 DEF PollNoted
<1>2. CASE UNCHANGED <<quiet, disturbed>>
  BY <1>2 DEF PollNoted
<1>3. CASE \E a : Noted(a) /\ (quiet' => Unanswered(a))
  <2>1. PICK a : Noted(a) /\ (quiet' => Unanswered(a))
    BY <1>3
  <2>2. ASSUME poll.at # "idle", quiet' PROVE disturbed'
    <3>1. quiet \/ a = "none"
      BY <2>1, <2>2 DEF Unanswered
    <3>2. disturbed' = (disturbed \/ a \in Unusable \cup {"glitch"})
      BY <2>1, <2>2 DEF Noted
    <3> QED
      BY <3>1, <3>2, <2>2 DEF PollNoted, Unusable
  <2> QED
    BY <2>2 DEF PollNoted
<1> QED
  BY <1>1, <1>2, <1>3

LEMMA SetupIsNoted ==
  ASSUME PollNoted, Setup
  PROVE  PollNoted' /\ failures' = failures
<1>1. life \in {"probe", "key"}
  BY DEF Setup, ProbeAnswer, ProbeEnds, ExchangeKey
<1>2. poll.at = "idle"
  BY <1>1 DEF PollNoted
<1>3. poll' = poll /\ failures' = failures
  BY DEF Setup, ProbeAnswer, ProbeEnds, ExchangeKey, outcome
<1> QED
  BY <1>2, <1>3 DEF PollNoted

LEMMA ChallengeIsNoted ==
  ASSUME PollNoted, Challenged, UNCHANGED <<poll, setup, outcome>>
  PROVE  PollNoted' /\ failures' = failures
  BY OthersAreNoted DEF Challenged, Began, setup, outcome

LEMMA CallsAreNoted ==
  ASSUME PollNoted, NEW c \in Callers,
         Call(c) \/ CallAnswer(c) \/ CallChallenged(c) \/ SetPower(c)
  PROVE  PollNoted' /\ failures' = failures
<1>1. CASE Call(c) \/ SetPower(c)
  BY <1>1, OthersAreNoted DEF Call, SetPower, Began, setup, outcome
<1>2. CASE CallAnswer(c)
  <2>1. \E a : Noted(a) /\ (quiet' => Unanswered(a))
    BY <1>2 DEF CallAnswer
  <2> QED
    BY <1>2, <2>1, OthersAreNoted DEF CallAnswer, setup, outcome
<1>3. CASE CallChallenged(c)
  BY <1>3, ChallengeIsNoted DEF CallChallenged
<1> QED
  BY <1>1, <1>2, <1>3

LEMMA BrewIsNoted ==
  ASSUME PollNoted, PressBrew \/ Brew \/ BrewChallenged \/ Deadline
  PROVE  PollNoted' /\ failures' = failures
<1>1. CASE PressBrew \/ BrewWakes
  BY <1>1, OthersAreNoted DEF PressBrew, BrewWakes, Began, setup, outcome
<1>2. CASE BrewAnswer
  <2>1. \E a : Noted(a) /\ (quiet' => Unanswered(a))
    BY <1>2 DEF BrewAnswer
  <2> QED
    BY <1>2, <2>1, OthersAreNoted DEF BrewAnswer, setup, outcome
<1>3. CASE BrewChallenged
  BY <1>3, ChallengeIsNoted DEF BrewChallenged
<1>4. CASE Deadline
  BY <1>4, OthersAreNoted DEF Deadline, flags, setup, outcome
<1> QED
  BY <1>1, <1>2, <1>3, <1>4 DEF Brew

(* The first read of a poll is never its end.                               *)
LEMMA PollBegins ==
  ASSUME LocalInv, PollStart
  PROVE  PollNoted' /\ failures' = failures
<1>1. PICK walk \in FirstReads : Advance(walk, verdict, StartQuiet)
  BY DEF PollStart
<1>2. ~Over(walk)
  <2>1. CASE verdict["airfryer"] = "no" \/ ~auth
    <3>1. walk = ToPurifier(FALSE, FALSE, FALSE, verdict)
      BY <2>1, <1>1 DEF FirstReads, StartQuiet
    <3> QED
      BY <3>1 DEF ToPurifier, ToEspresso, ToFirmware, Walk, Over
  <2>2. CASE ~(verdict["airfryer"] = "no" \/ ~auth)
    BY <1>1, <2>2 DEF FirstReads, Walk, Over
  <2> QED
    BY <2>1, <2>2
<1>3. poll' = walk /\ UNCHANGED <<life, outcome>> /\ ~quiet'
  BY <1>1, <1>2 DEF Advance, StartQuiet
<1> QED
  BY <1>3 DEF PollStart, PollNoted, outcome

(* A read that ends the poll without data was noted, or came on top of one. *)
LEMMA EndIsNoted ==
  ASSUME LocalInv, PollNoted, poll.at # "idle", NEW a \in Answers(Own),
         NEW v, Noted(a), Over(NextRead(a, v)), ~NextRead(a, v).got,
         ~NextRead(a, v).found
  PROVE  disturbed'
<1>1. CASE Unanswered(a)
  BY <1>1 DEF Unanswered, PollNoted, Noted, Unusable
<1>2. CASE ~Unanswered(a)
  <2>1. poll.at \in Places \ {"idle"}
    BY DEF LocalInv, Types, WalkSet
  <2>2. ASSUME NEW got, NEW airfryer
        PROVE  /\ ~Over(ToFirmware(got, FALSE))
               /\ ~Over(ToEspresso(got, airfryer, FALSE, v))
               /\ ~Over(ToPurifier(got, airfryer, FALSE, v))
    BY DEF ToFirmware, ToEspresso, ToPurifier, Walk, Over
  <2>3. poll.at = "firmware" /\ a # "data"
    <3>1. ASSUME NEW at \in Places, NEW left, NEW got, NEW found
          PROVE  ~Over(Walk(at, left, got, found))
      BY DEF Walk, Over, Places
    <3>2. Walk("done", 0, poll.got, a = "data").found = (a = "data")
      BY DEF Walk
    <3>3. (poll.got \/ a = "data") \in BOOLEAN /\ Unanswered(a) = FALSE
      BY <1>2 DEF Unanswered, LocalInv, Types
    <3> QED
      BY <2>1, <2>2, <3>1, <3>2, <3>3 DEF NextRead, Places, Reads
  <2>4. a \in {"busy", "denied", "none", "glitch"}
    BY <2>3 DEF Own, Answers
  <2> QED
    BY <2>4 DEF Noted, Unusable
<1> QED
  BY <1>1, <1>2

LEMMA PollIsNoted ==
  ASSUME LocalInv, PollNoted, PollAnswer
  PROVE  PollNoted' /\ (failures' > failures => disturbed')
<1>1. PICK a \in Answers(Own) :
        /\ Advance(NextRead(a, verdict'), verdict', Unanswered(a))
        /\ Noted(a)
  BY DEF PollAnswer
<1>2. poll.at # "idle" /\ failures \in 0..MaxFailures
  BY DEF PollAnswer, LocalInv, Types
<1> DEFINE walk == NextRead(a, verdict')
<1> HIDE DEF walk
<1>3. CASE Over(walk)
  <2>1. Conclude(walk, verdict')
    BY <1>1, <1>3 DEF Advance, walk
  <2>2. poll'.at = "idle"
    BY <2>1 DEF Conclude, Idle, Walk
  <2>3. failures' > failures => ~walk.got /\ ~walk.found
    BY <1>2, <2>1, LocalAssumption DEF Conclude
  <2> QED
    BY <1>1, <1>2, <1>3, <2>2, <2>3, EndIsNoted DEF PollNoted, walk
<1>4. CASE ~Over(walk)
  <2>1. UNCHANGED <<life, outcome>> /\ ~quiet'
    BY <1>1, <1>4 DEF Advance, walk
  <2>2. failures' = failures /\ ~(failures' > failures)
    BY <1>2, <2>1 DEF outcome
  <2> QED
    BY <1>2, <2>1, <2>2 DEF PollNoted
<1> QED
  BY <1>3, <1>4

LEMMA NotedStep ==
  LocalInv /\ PollNoted /\ [Next]_vars
    => PollNoted' /\ (failures' > failures => disturbed')
<1> SUFFICES ASSUME LocalInv, PollNoted, [Next]_vars
             PROVE  PollNoted' /\ (failures' > failures => disturbed')
  OBVIOUS
<1>1. failures' = failures => ~(failures' > failures)
  BY DEF LocalInv, Types
<1>2. CASE ApplianceChanges \/ UNCHANGED vars
  BY <1>1, <1>2 DEF ApplianceChanges, vars, setup, flags, outcome, PollNoted
<1>3. CASE PollStart
  BY <1>1, <1>3, PollBegins
<1>4. CASE PollAnswer
  BY <1>4, PollIsNoted
<1>5. CASE PollChallenged
  BY <1>1, <1>5, ChallengeIsNoted DEF PollChallenged
<1>6. CASE Setup
  BY <1>1, <1>6, SetupIsNoted
<1>7. CASE \E c \in Callers :
             Call(c) \/ CallAnswer(c) \/ CallChallenged(c) \/ SetPower(c)
  BY <1>1, <1>7, CallsAreNoted
<1>8. CASE PressBrew \/ Brew \/ BrewChallenged \/ Deadline
  BY <1>1, <1>8, BrewIsNoted
<1> QED
  BY <1>2, <1>3, <1>4, <1>5, <1>6, <1>7, <1>8 DEF Next, Poll

(* A poll counts as failed only if a request during it, of the poll or of   *)
(* anybody else, was not answered usefully.                                 *)
THEOREM LostPollIsExplained == Spec => LostPollHasCause
<1>1. Init => PollNoted
  BY DEF Init, Idle, Walk, PollNoted
<1>2. Spec => []PollNoted
  BY <1>1, LocalInvariant, NotedStep, PTL DEF Spec
<1>3. LocalInv /\ PollNoted /\ [Next]_vars => [failures' > failures => disturbed']_vars
  BY NotedStep
<1> QED
  BY <1>2, <1>3, LocalInvariant, PTL DEF Spec, LostPollHasCause

=============================================================================
