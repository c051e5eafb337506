--------------------------- MODULE LocalAppliance ---------------------------
(* A local appliance over HTTP: the probe and setup of its config entry,    *)
(* the poll that walks its ports and finds out what it is, the commands of  *)
(* service calls, and the brew task of an espresso machine. Each of them    *)
(* is a chain of requests, and all share two flags of the client, which     *)
(* requests write before and after their await and the poll reads: that     *)
(* nothing answered (_no_response), and that something passing went wrong   *)
(* during the poll (_probe_transient).                                      *)
(*                                                                          *)
(* Home Assistant runs one poll at a time. An answer is what becomes of it: *)
(*   "data"    200 with a usable body, or a write that was accepted         *)
(*   "absent"  501 and the like: the appliance has no such port             *)
(*   "glitch"  an answer to an existing port that cannot be used: a 5xx, or *)
(*             a 200 that does not decrypt                                  *)
(*   "busy"    429        "denied"  401        "none"  no answer at all     *)
EXTENDS Naturals, Sequences

CONSTANTS
  Callers,     \* service calls that may be under way at the same time
  MaxFailures  \* _max_failures; with one the first poll could fail setup

ASSUME LocalAssumption ==
  MaxFailures \in Nat \ {0, 1}

Kinds == {"spectre", "venus", "purifier", "espresso"}
Blocks == {"airfryer", "purifier", "espresso"}
BlockOf(kind) == IF kind \in {"spectre", "venus"} THEN "airfryer" ELSE kind
Protocols == {"https", "http"}
Probing == {"dev1", "dev0", "status"}
Reads == [airfryer |-> {"airfryer", "extra"},
          purifier |-> {"status", "air", "filters"},
          espresso |-> {"machine", "config"}]
Unusable == {"busy", "denied", "none"}

VARIABLES
  kind, auth,  \* what the appliance is; whether the entry has its secrets
  well,        \* it answers, and its answers are usable
  life,        \* of the entry: "probe", "key", "first" (poll), "running"
  probe,       \* the two probe tasks
  heard,       \* protocols on which the probe got some HTTP response
  verdict,     \* airfryer_port, purifier_port, espresso_port
  stored,      \* the entry holds the airfryer port (CONF_AIRFRYER_PORT)
  registered,  \* the entities of the appliance keep their registry entries
  quiet,       \* _no_response
  transient,   \* _probe_transient
  poll,        \* get_full_state: its read and what it has found so far
  retried,     \* the poll's read went out again after a 401
  failures,    \* _consecutive_failures
  shown,       \* what the coordinator's state holds: nothing, firmware, all
  serving,     \* last_update_success
  calls,       \* the writes each service call still has to make
  brew,        \* _espresso_brew_task
  late,        \* its 90 s are over
  off,         \* the machine was told to power off after the brew was asked
  misled,      \* the poll took a glitch of the appliance for a fact
  disturbed,   \* during this poll some request was not answered usefully
  overruled    \* the brew task began a request although off

device == <<kind, auth>>
setup == <<life, probe, heard>>
flags == <<quiet, transient>>
outcome == <<failures, shown, serving>>
brewing == <<brew, late, off, overruled>>
entry == <<stored, registered>>
vars == <<device, well, setup, verdict, entry, flags, poll, retried,
          outcome, calls, brewing, misled, disturbed>>

(* left: candidate ports still to try; got: the appliance's own data; found:*)
(* something in this block.                                                 *)
Walk(at, left, got, found) ==
  [at |-> at, left |-> left, got |-> got, found |-> found]
Idle == Walk("idle", 0, FALSE, FALSE)

----------------------------------------------------------------------------
(* Requests.                                                                *)

(* What the appliance may answer on a port of its own, or one it lacks.     *)
Answers(own) ==
  IF well THEN {IF own THEN "data" ELSE "absent"}
  ELSE {"busy", "denied", "none"} \cup
         (IF own THEN {"data", "glitch"} ELSE {"absent"})

(* Mutation: only a request without an answer counts as passing trouble.    *)
SilenceIsTransient(a) == a = "none"
IsTransient(a) == a \in Unusable

(* _request: the flags before it goes out, and after its answer.            *)
Unanswered(a) == quiet \/ a = "none"
Began(after) == quiet' = FALSE /\ transient' = after
Ended(a) ==
  /\ quiet' = Unanswered(a)
  /\ transient' = (transient \/ IsTransient(a))
Noted(a) ==
  disturbed' =
    (disturbed \/ (poll.at # "idle" /\ a \in Unusable \cup {"glitch"}))

(* A 401 with a challenge: credentials are made, and the request goes out   *)
(* again. Once per request; only the poll's retries are counted here.       *)
Challenged == auth /\ Began(TRUE)

----------------------------------------------------------------------------
(* Setup: probe_device, the key exchange, the first poll, the entities.     *)

(* One task per protocol: the device port of product 1 and of product 0,    *)
(* then the status port; a 401 is enough, and no response ends the attempt. *)
ProbeAnswer(p) ==
  /\ life = "probe" /\ probe[p] \in Probing
  /\ \E a \in {"data", "other", "denied", "none"} :
       /\ heard' = IF a = "none" THEN heard ELSE heard \cup {p}
       /\ probe' = [probe EXCEPT ![p] =
            CASE a \in {"data", "denied"} -> "found"
              [] a = "other" /\ @ = "dev1" -> "dev0"
              [] a = "other" /\ @ = "dev0" -> "status"
              [] a = "none" /\ @ # "status" -> "status"
              [] OTHER -> IF p \in heard' THEN "found" ELSE "none"]
  /\ UNCHANGED <<device, well, life, verdict, entry, flags, poll, retried,
                 outcome, calls, brewing, misled, disturbed>>

(* The first task to find the appliance wins and the other is cancelled;    *)
(* one that ends without it leaves the answer to the other.                 *)
ProbeDecided ==
  \/ \E p \in Protocols : probe[p] = "found"
  \/ \A p \in Protocols : probe[p] = "none"

(* Setup goes on without the appliance as well, and polls it anyway. An     *)
(* HTTP appliance without its key is asked for it first.                    *)
ProbeEnds ==
  /\ life = "probe" /\ ProbeDecided
  /\ \/ life' = "first" /\ UNCHANGED flags
     \/ life' = "key" /\ Began(transient)
  /\ probe' = [p \in Protocols |-> "over"] /\ heard' = {}
  /\ UNCHANGED <<device, well, verdict, entry, poll, retried,
                 outcome, calls, brewing, misled, disturbed>>

ExchangeKey ==
  /\ life = "key" /\ life' = "first"
  /\ \E a \in Answers(TRUE) : Ended(a)
  /\ UNCHANGED <<device, well, probe, heard, verdict, entry, poll, retried,
                 outcome, calls, brewing, misled, disturbed>>

----------------------------------------------------------------------------
(* The poll: get_full_state and what _async_update_data_local makes of it.  *)

Gone(got) == Walk("gone", 0, got, FALSE)
Over(walk) == walk.at \in {"gone", "done"}

(* Each block is skipped where its verdict is in, and between two blocks a  *)
(* poll without data gives up if the last request got no answer.            *)
ToFirmware(got, q) ==
  IF ~got /\ q THEN Gone(got) ELSE Walk("firmware", 0, got, FALSE)

ToEspresso(got, airfryer, q, v) ==
  IF ~got /\ q THEN Gone(got)
  ELSE IF ~airfryer /\ v["espresso"] # "no" /\ auth
  THEN Walk("machine", 0, got, FALSE) ELSE ToFirmware(got, q)

ToPurifier(got, airfryer, q, v) ==
  IF ~got /\ q THEN Gone(got)
  ELSE IF ~airfryer /\ v["purifier"] # "no"
  THEN Walk("status", 0, got, FALSE) ELSE ToEspresso(got, airfryer, q, v)

(* Mutation: the flag keeps what the previous poll left in it.              *)
QuietLeft == quiet
StartQuiet == FALSE

(* One port to try if the poll knows it or an airfryer's model tells, else  *)
(* several: the appliance's own is the last of two.                         *)
FirstReads ==
  IF verdict["airfryer"] = "no" \/ ~auth
  THEN {ToPurifier(FALSE, FALSE, StartQuiet, verdict)}
  ELSE {Walk("airfryer", n, FALSE, FALSE) :
          n \in CASE verdict["airfryer"] = "port" -> {1}
                 [] BlockOf(kind) = "airfryer" -> {1, 2}
                 [] OTHER -> {2}}

(* Three polls in a row without data take the entities down, and one with   *)
(* some brings them back. After the first poll setup stores the port and    *)
(* drops the entities whose properties are missing, unless there is no      *)
(* state or an airfryer's port is known and its data are not there.         *)
Conclude(walk, v) ==
  LET ok == walk.got \/ walk.found IN
  /\ poll' = Idle /\ life' = "running"
  /\ failures' = IF ok THEN 0
                 ELSE IF failures < MaxFailures THEN failures + 1 ELSE failures
  /\ serving' = (ok \/ failures' < MaxFailures)
  /\ shown' = IF walk.got THEN "all" ELSE IF ok THEN "firmware" ELSE shown
  /\ stored' = (stored \/ (life = "first" /\ v["airfryer"] = "port"))
  /\ registered' = (registered /\
       ~(life = "first" /\ ok /\ ~walk.got /\ v["airfryer"] # "port"))

(* The poll goes to its next read, or is over in the same step.             *)
Advance(walk, v, q) ==
  /\ IF Over(walk) THEN Conclude(walk, v)
     ELSE poll' = walk /\ UNCHANGED <<life, outcome, entry>>
  /\ quiet' = (q /\ Over(walk))

PollStart ==
  /\ life \in {"first", "running"} /\ poll.at = "idle"
  /\ \E walk \in FirstReads : Advance(walk, verdict, StartQuiet)
  /\ transient' = FALSE /\ disturbed' = FALSE
  /\ UNCHANGED <<device, well, probe, heard, verdict, retried, calls,
                 brewing, misled>>

(* Whether the port read is one the appliance has.                          *)
Own ==
  \/ poll.at = "firmware"
  \/ poll.at \in Reads[BlockOf(kind)] /\ (poll.at = "airfryer" => poll.left = 1)

(* The read after this one: of the airfryer's candidates the next, until    *)
(* one answers or nothing does; the three more ports of a Venus, each of    *)
(* which may fail (one read here); the others read all they have.           *)
NextRead(a, v) ==
  LET got == poll.got \/ a = "data"
      found == poll.found \/ a = "data"
      q == Unanswered(a)
  IN CASE poll.at = "airfryer" /\ a = "data" /\ kind = "venus" ->
            Walk("extra", 0, TRUE, TRUE)
       [] poll.at = "airfryer" /\ a # "data" /\ poll.left > 1 /\ ~q ->
            Walk("airfryer", poll.left - 1, FALSE, FALSE)
       [] poll.at \in Reads["airfryer"] -> ToPurifier(got, got, q, v)
       [] poll.at = "status" -> Walk("air", 0, got, found)
       [] poll.at = "air" -> Walk("filters", 0, got, found)
       [] poll.at = "filters" -> ToEspresso(got, FALSE, q, v)
       [] poll.at = "machine" -> Walk("config", 0, got, found)
       [] poll.at = "config" -> ToFirmware(got, q)
       [] OTHER -> Walk("done", 0, poll.got, a = "data")

(* The block whose last read this is; none while there is more to read.     *)
Ending(a) ==
  {b \in Blocks :
     /\ poll.at \in Reads[b] \cap {"airfryer", "filters", "config"}
     /\ poll.at = "airfryer" => poll.left = 1 \/ Unanswered(a)}

(* A block in which nothing answered rules out its kind of appliance until  *)
(* the restart, if the entry has the secrets and no trouble was passing.    *)
RuledOut(a) ==
  {b \in Ending(a) :
     /\ a # "data" /\ ~poll.found /\ auth /\ verdict[b] = "open"
     /\ ~(transient \/ IsTransient(a))}

Verdict(a) ==
  IF poll.at = "airfryer" /\ a = "data"
  THEN [verdict EXCEPT !["airfryer"] = "port"]
  ELSE [b \in Blocks |-> IF b \in RuledOut(a) THEN "no" ELSE verdict[b]]

PollAnswer ==
  /\ poll.at # "idle"
  /\ \E a \in Answers(Own) :
       /\ verdict' = Verdict(a)
       /\ Advance(NextRead(a, verdict'), verdict', Unanswered(a))
       /\ transient' = (transient \/ IsTransient(a))
       /\ misled' = (misled \/ (a = "glitch" /\ poll.at # "firmware"))
       /\ Noted(a)
  /\ retried' = FALSE
  /\ UNCHANGED <<device, well, probe, heard, calls, brewing>>

PollChallenged ==
  /\ poll.at # "idle" /\ ~retried /\ retried' = TRUE /\ Challenged
  /\ UNCHANGED <<device, well, setup, verdict, entry, poll, outcome, calls,
                 brewing, misled, disturbed>>

----------------------------------------------------------------------------
(* Service calls: each write waits for its answer, and the call goes on     *)
(* with the next whatever it was.                                           *)

(* A Venus whose port is known is driven in steps; what is asked for        *)
(* settings and of a cook that runs decides which of them there are.        *)
Sent == {"write", "precook", "settings", "cook", "pause", "mainmenu"}
Writes ==
  {<<"write">>} \cup
  (IF kind = "venus" /\ verdict["airfryer"] = "port"
   THEN {<<"precook", "cook">>, <<"precook", "settings", "cook">>,
         <<"pause", "mainmenu">>, <<"pause", "settings", "cook">>}
   ELSE {})

Call(c) ==
  /\ life = "running" /\ kind # "espresso" /\ calls[c] = <<>>
  /\ \E w \in Writes : calls' = [calls EXCEPT ![c] = w]
  /\ Began(transient)
  /\ UNCHANGED <<device, well, setup, verdict, entry, poll, retried, outcome,
                 brewing, misled, disturbed>>

(* Until its port is known a Venus is sent SPECTRE commands to a port that  *)
(* it does not have.                                                        *)
CallAnswer(c) ==
  /\ calls[c] # <<>>
  /\ \E a \in Answers(kind = "venus" => verdict["airfryer"] = "port") :
       /\ calls' = [calls EXCEPT ![c] = Tail(@)]
       /\ quiet' = (Unanswered(a) /\ Tail(calls[c]) = <<>>)
       /\ transient' = (transient \/ IsTransient(a))
       /\ Noted(a)
  /\ UNCHANGED <<device, well, setup, verdict, entry, poll, retried, outcome,
                 brewing, misled>>

CallChallenged(c) ==
  /\ calls[c] # <<>> /\ Challenged
  /\ UNCHANGED <<device, well, setup, verdict, entry, poll, retried, outcome,
                 calls, brewing, misled, disturbed>>

----------------------------------------------------------------------------
(* The espresso machine: power and brew.                                    *)

Requesting == {"check", "on", "wait", "put"}

(* The brew task takes its next step, which may be a request.               *)
BrewGoes(to) ==
  /\ brew' = to
  /\ late' = (late /\ to \in {"sleep", "wait"})
  /\ overruled' = (overruled \/ (off /\ to \in {"on", "put"}))

(* The button starts a task unless one is under way.                        *)
PressBrew ==
  /\ life = "running" /\ kind = "espresso" /\ brew = "idle"
  /\ brew' = "check" /\ off' = FALSE
  /\ Began(transient)
  /\ UNCHANGED <<device, well, setup, verdict, entry, poll, retried, outcome,
                 calls, late, misled, disturbed, overruled>>

(* mainstate: a status without an answer counts as a machine that is off.   *)
AfterCheck(a) ==
  IF a = "data" THEN {"put", "idle", "on", "sleep"} ELSE {"on"}
(* The 90 s end the wait between two readings, never during one.            *)
(* Mutation: only the machine ends it.                                      *)
WaitAnyway(a) ==
  (IF a = "data" THEN {"put", "idle"} ELSE {}) \cup {"sleep"}
AfterWait(a) ==
  (IF a = "data" THEN {"put", "idle"} ELSE {})
  \cup {IF late THEN "idle" ELSE "sleep"}

AfterRequest(a) ==
  CASE brew = "check" -> AfterCheck(a)
    [] brew = "on" -> {"sleep"}
    [] brew = "wait" -> AfterWait(a)
    [] brew = "put" -> {"idle"}

BrewAnswer ==
  /\ brew \in Requesting
  /\ \E a \in Answers(TRUE) : \E to \in AfterRequest(a) :
       /\ BrewGoes(to)
       /\ quiet' = (Unanswered(a) /\ to \notin Requesting)
       /\ transient' = (transient \/ IsTransient(a))
       /\ Noted(a)
  /\ UNCHANGED <<device, well, setup, verdict, entry, poll, retried, outcome,
                 calls, off, misled>>

BrewChallenged ==
  /\ brew \in Requesting /\ Challenged
  /\ UNCHANGED <<device, well, setup, verdict, entry, poll, retried, outcome,
                 calls, brewing, misled, disturbed>>

(* Three seconds later it asks again.                                       *)
BrewWakes ==
  /\ brew = "sleep" /\ BrewGoes("wait")
  /\ Began(transient)
  /\ UNCHANGED <<device, well, setup, verdict, entry, poll, retried, outcome,
                 calls, off, misled, disturbed>>

Deadline ==
  /\ brew \in {"sleep", "wait"} /\ late' = TRUE
  /\ UNCHANGED <<device, well, setup, verdict, entry, flags, poll, retried,
                 outcome, calls, brew, off, overruled, misled, disturbed>>

(* Power off cancels the task at its await, before its own write goes out.  *)
(* Mutation: it leaves the task alone.                                      *)
LeaveBrew == UNCHANGED <<brew, late>>
CancelBrew == brew' = "idle" /\ late' = FALSE

SetPower(c) ==
  /\ life = "running" /\ kind = "espresso" /\ calls[c] = <<>>
  /\ \/ CancelBrew /\ off' = (brew # "idle")
     \/ off' = FALSE /\ UNCHANGED <<brew, late>>
  /\ calls' = [calls EXCEPT ![c] = <<"write">>]
  /\ Began(transient)
  /\ UNCHANGED <<device, well, setup, verdict, entry, poll, retried, outcome,
                 misled, disturbed, overruled>>

----------------------------------------------------------------------------
(* The appliance and the entry around them.                                 *)

ApplianceChanges ==
  /\ well' = ~well
  /\ UNCHANGED <<device, setup, verdict, entry, flags, poll, retried, outcome,
                 calls, brewing, misled, disturbed>>

(* A load of the entry: all but the port that an earlier one may have       *)
(* stored, and the registry, starts afresh. Only a purifier is of use       *)
(* without the secrets.                                                     *)
Init ==
  /\ kind \in Kinds /\ well \in BOOLEAN
  /\ auth \in (IF kind = "purifier" THEN BOOLEAN ELSE {TRUE})
  /\ stored \in (IF BlockOf(kind) = "airfryer" THEN BOOLEAN ELSE {FALSE})
  /\ registered = TRUE
  /\ life = "probe" /\ probe = [p \in Protocols |-> "dev1"] /\ heard = {}
  /\ verdict = [b \in Blocks |->
                   IF b = "airfryer" /\ stored THEN "port" ELSE "open"]
  /\ quiet = FALSE /\ transient = FALSE
  /\ poll = Idle /\ retried = FALSE
  /\ failures = 0 /\ shown = "nothing" /\ serving = TRUE
  /\ calls = [c \in Callers |-> <<>>]
  /\ brew = "idle" /\ late = FALSE /\ off = FALSE /\ overruled = FALSE
  /\ misled = FALSE /\ disturbed = FALSE

Setup == ProbeEnds \/ ExchangeKey \/ \E p \in Protocols : ProbeAnswer(p)
Poll == PollStart \/ PollAnswer
Brew == BrewAnswer \/ BrewWakes

Next ==
  \/ Setup \/ Poll \/ PollChallenged
  \/ \E c \in Callers :
       Call(c) \/ CallAnswer(c) \/ CallChallenged(c) \/ SetPower(c)
  \/ PressBrew \/ Brew \/ BrewChallenged \/ Deadline
  \/ ApplianceChanges

Spec == Init /\ [][Next]_vars

(* Every request ends within its timeout, Home Assistant polls at each      *)
(* interval, and time passes for the brew task.                             *)
Fairness ==
  /\ WF_vars(Setup) /\ WF_vars(Poll) /\ WF_vars(Brew) /\ WF_vars(Deadline)

FairSpec == Spec /\ Fairness

----------------------------------------------------------------------------
(* Properties.                                                              *)

TypeOK ==
  /\ kind \in Kinds /\ auth \in BOOLEAN /\ well \in BOOLEAN
  /\ life \in {"probe", "key", "first", "running"}
  /\ probe \in [Protocols -> Probing \cup {"found", "none", "over"}]
  /\ heard \subseteq Protocols
  /\ verdict \in [Blocks -> {"open", "port", "no"}]
  /\ stored \in BOOLEAN /\ registered \in BOOLEAN
  /\ quiet \in BOOLEAN /\ transient \in BOOLEAN
  /\ poll \in [at : {"idle", "firmware"} \cup UNION {Reads[b] : b \in Blocks},
                left : 0..2, got : BOOLEAN, found : BOOLEAN]
  /\ retried \in BOOLEAN
  /\ failures \in 0..MaxFailures /\ serving \in BOOLEAN
  /\ shown \in {"nothing", "firmware", "all"}
  /\ calls \in [Callers -> Seq(Sent)]
  /\ brew \in {"idle", "sleep"} \cup Requesting
  /\ late \in BOOLEAN /\ off \in BOOLEAN /\ overruled \in BOOLEAN
  /\ misled \in BOOLEAN /\ disturbed \in BOOLEAN

(* The poll never rules out what the appliance is, however its requests end *)
(* in silence, 429 or 401 and whatever commands do to the flags meanwhile,  *)
(* unless it took a glitch for a fact (local_api.py:119-123).               *)
VerdictEarned == TypeOK /\ (verdict[BlockOf(kind)] = "no" => misled)

(* A poll comes back empty only if some request during it, of the poll or   *)
(* of anybody else, was not answered usefully: an appliance that answers is *)
(* not counted towards going offline.                                       *)
LostPollHasCause == [][failures' > failures => disturbed']_vars

(* Once the appliance answers again for good, its entities come back with   *)
(* its data, whatever was cached before, and without a reload.              *)
Recovers ==
  (<>[](well) /\ []~misled)
  => <>[](serving /\ shown = "all")

(* After a power off nothing of a brew asked before it is sent: neither the *)
(* brew nor the power on of its wake-up.                                    *)
OffIsObeyed == ~overruled

(* Every brew task ends, whatever the machine says or fails to say.         *)
BrewEnds == []<>(brew = "idle")

=============================================================================
