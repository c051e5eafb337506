------------------------- MODULE CoordinatorProofs -------------------------
(* Theorems about two things the coordinator does for a FUSION appliance:  *)
(* how the properties behind its NCP ports become entities (PortDiscovery, *)
(* for any appliance, platforms and inbox), and what its cook commands     *)
(* promise (FusionCook, for any callers and calls).                        *)
EXTENDS PortDiscovery, FusionCook, TLAPS

-----------------------------------------------------------------------------
(* The properties of the NCP ports and their entities.                     *)

(* What the paho thread knows grows, and the snapshots reach the event loop *)
(* in the order in which they were taken: each has what came before it.     *)
Growing ==
  /\ state \subseteq merged
  /\ \A i \in 1..Len(inbox) :
       state \subseteq inbox[i] /\ inbox[i] \subseteq merged
  /\ \A i, j \in 1..Len(inbox) : i < j => inbox[i] \subseteq inbox[j]

(* An entity stands for a property that is known: no prune takes its entry. *)
EntitiesKnown == \A f \in Platforms : entities[f] \subseteq state

DiscoveryInv ==
  TypeOK /\ Growing /\ EntitiesKnown /\ EveryPropertyShown

(* What only the paho thread, the network and the executor write.           *)
LoopSide == <<loop, setup, registered, registry>>

LEMMA InitDiscovery == Init => DiscoveryInv
<1> SUFFICES ASSUME Init
             PROVE  DiscoveryInv
  OBVIOUS
<1>1. inbox \in Seq(States) /\ Len(inbox) = 0 /\ 0 <= MaxInbox
  BY DiscoveryAssumption DEF Init
<1>2. TypeOK
  BY <1>1, DiscoveryAssumption DEF Init, TypeOK, States
<1>3. Growing
  BY <1>1 DEF Init, Growing
<1>4. EntitiesKnown /\ EveryPropertyShown
  BY DEF Init, EntitiesKnown, EveryPropertyShown
<1>5. QED
  BY <1>2, <1>3, <1>4 DEF DiscoveryInv

(* A step that leaves the event loop, the state and the inbox alone.        *)
LEMMA QuietInv ==
  ASSUME DiscoveryInv,
         UNCHANGED <<LoopSide, merged, inbox>>,
         up' \in BOOLEAN, askedAll' \in BOOLEAN, due' \in BOOLEAN,
         job' \in BOOLEAN, asked' \subseteq Ports, discovered' \subseteq Ports,
         reported' \subseteq Ports, hand' \subseteq Props
  PROVE  DiscoveryInv'
  BY DEF DiscoveryInv, TypeOK, Growing, EntitiesKnown, EveryPropertyShown,
         LoopSide, loop

(* A snapshot with all that is merged joins the inbox.                      *)
LEMMA HandOverInv ==
  ASSUME DiscoveryInv, UNCHANGED <<wire, LoopSide, asking>>,
         hand' \subseteq Props,
         merged' \in States, merged \subseteq merged', HandOver(merged')
  PROVE  DiscoveryInv'
<1>1. inbox \in Seq(States) /\ Len(inbox) < MaxInbox
      /\ inbox' = Append(inbox, merged')
  BY DEF DiscoveryInv, TypeOK, HandOver
<1>2. /\ inbox' \in Seq(States) /\ Len(inbox') = Len(inbox) + 1
      /\ \A i \in 1..Len(inbox) : inbox'[i] = inbox[i]
      /\ inbox'[Len(inbox) + 1] = merged'
  BY <1>1
<1>3. Len(inbox) \in Nat
  BY <1>1
<1>4. Len(inbox') <= MaxInbox
  BY <1>1, <1>2, <1>3, DiscoveryAssumption
<1>5. TypeOK'
  BY <1>2, <1>4 DEF DiscoveryInv, TypeOK, wire, LoopSide, loop, asking
<1>6. \A i \in 1..Len(inbox') :
        i = Len(inbox) + 1 \/ i \in 1..Len(inbox)
  BY <1>2, <1>3
<1>7. Growing'
  <2>1. state' = state
    BY DEF LoopSide, loop
  <2>2. \A i \in 1..Len(inbox') :
          state' \subseteq inbox'[i] /\ inbox'[i] \subseteq merged'
    BY <1>2, <1>6, <2>1 DEF DiscoveryInv, Growing
  <2>3. ASSUME NEW i \in 1..Len(inbox'), NEW j \in 1..Len(inbox'), i < j
        PROVE  inbox'[i] \subseteq inbox'[j]
    <3>1. i \in 1..Len(inbox)
      BY <1>2, <1>3, <2>3
    <3>2. CASE j \in 1..Len(inbox)
      BY <1>2, <2>3, <3>1, <3>2 DEF DiscoveryInv, Growing
    <3>3. CASE j = Len(inbox) + 1
      BY <1>2, <3>1, <3>3 DEF DiscoveryInv, Growing
    <3>4. QED
      BY <1>6, <3>2, <3>3
  <2>4. QED
    BY <2>1, <2>2, <2>3 DEF DiscoveryInv, Growing
<1>8. QED
  BY <1>5, <1>7
     DEF DiscoveryInv, EntitiesKnown, EveryPropertyShown, LoopSide, loop

(* The event loop takes the first snapshot: nothing known gets lost, and    *)
(* the callbacks are given what is new in it.                               *)
LEMMA ReceiveInv ==
  ASSUME DiscoveryInv, Receive
  PROVE  DiscoveryInv' /\ state \subseteq state'
<1>1. /\ inbox \in Seq(States) /\ inbox # <<>> /\ inbox' = Tail(inbox)
      /\ state' = Head(inbox)
  BY DEF DiscoveryInv, TypeOK, Receive
<1>2. /\ Len(inbox) \in Nat \ {0} /\ state' = inbox[1] /\ inbox[1] \in States
      /\ inbox' \in Seq(States) /\ Len(inbox') = Len(inbox) - 1
      /\ \A i \in 1..Len(inbox') : inbox'[i] = inbox[i + 1]
  BY <1>1
<1>3. state \subseteq state' /\ state' \in States
  BY <1>2 DEF DiscoveryInv, Growing
<1>4. DEFINE new == New(state')
<1>5. /\ new \subseteq state' /\ new \subseteq Props
      /\ state' \cap Props \subseteq seen \cup new
  BY DEF New
<1>6. /\ seen' = seen \cup new
      /\ entities' = [f \in Platforms |->
                        entities[f] \cup {q \in new : Offered(f, q)}]
      /\ registry' = [f \in Platforms |-> registry[f] \cup entities'[f]]
      /\ UNCHANGED <<wire, paho, setup, registered>>
      /\ due' \in BOOLEAN /\ job' \in BOOLEAN
  BY DEF Receive, Notify, Created, DiscoveryInv, TypeOK
<1> HIDE DEF new
<1>7. TypeOK'
  <2>1. Len(inbox') <= MaxInbox
    BY <1>2, DiscoveryAssumption DEF DiscoveryInv, TypeOK
  <2>2. seen' \subseteq state'
    BY <1>3, <1>5, <1>6 DEF DiscoveryInv, TypeOK
  <2>3. \A f \in Platforms :
          /\ entities'[f] \subseteq Props /\ registry'[f] \subseteq Props
          /\ entities'[f] \subseteq Reads[f] \cap registry'[f]
    BY <1>5, <1>6 DEF DiscoveryInv, TypeOK, Offered
  <2>4. /\ entities' \in [Platforms -> SUBSET Props]
        /\ registry' \in [Platforms -> SUBSET Props]
    BY <1>6, <2>3
  <2>5. QED
    BY <1>2, <1>3, <1>6, <2>1, <2>2, <2>3, <2>4
       DEF DiscoveryInv, TypeOK, wire, paho
<1>8. Growing'
  <2>1. merged' = merged
    BY <1>6 DEF paho
  <2>2. \A i \in 1..Len(inbox') : i + 1 \in 1..Len(inbox) /\ 1 < i + 1
    BY <1>2
  <2>3. 1 \in 1..Len(inbox)
    BY <1>2
  <2>4. state' \subseteq merged'
    BY <1>2, <2>1, <2>3 DEF DiscoveryInv, Growing
  <2>5. \A i \in 1..Len(inbox') :
          state' \subseteq inbox'[i] /\ inbox'[i] \subseteq merged'
    BY <1>2, <2>1, <2>2, <2>3 DEF DiscoveryInv, Growing
  <2>6. ASSUME NEW i \in 1..Len(inbox'), NEW j \in 1..Len(inbox'), i < j
        PROVE  inbox'[i] \subseteq inbox'[j]
    BY <1>2, <2>2, <2>6 DEF DiscoveryInv, Growing
  <2>7. QED
    BY <2>4, <2>5, <2>6 DEF Growing
<1>9. EveryPropertyShown'
  <2> SUFFICES ASSUME NEW f \in registered', NEW q \in state', q \in Reads[f]
               PROVE  q \in entities'[f]
    BY DEF EveryPropertyShown
  <2>1. f \in registered /\ f \in Platforms /\ q \in Props
    BY <1>6, DiscoveryAssumption DEF DiscoveryInv, TypeOK
  <2>2. CASE q \in seen
    BY <1>6, <2>1, <2>2 DEF DiscoveryInv, TypeOK, EveryPropertyShown
  <2>3. CASE q \in new
    BY <1>6, <2>1, <2>3 DEF Offered
  <2>4. QED
    BY <1>5, <2>1, <2>2, <2>3
<1>10. EntitiesKnown'
  <2>1. \A f \in Platforms : entities'[f] \subseteq entities[f] \cup new
    BY <1>6
  <2>2. QED
    BY <1>3, <1>5, <2>1 DEF DiscoveryInv, EntitiesKnown
<1>11. QED
  BY <1>3, <1>7, <1>8, <1>9, <1>10 DEF DiscoveryInv

(* A platform finds what is in the state and will be offered what comes.    *)
LEMMA SetupInv ==
  ASSUME DiscoveryInv, NEW f \in Platforms, SetupPlatform(f)
  PROVE  DiscoveryInv'
<1> DEFINE found == state \cap Reads[f]
<1>1. /\ registered' = registered \cup {f}
      /\ entities' = [entities EXCEPT ![f] = @ \cup found]
      /\ registry' = [registry EXCEPT ![f] = @ \cup found]
      /\ seen' = seen \cup found
      /\ UNCHANGED <<wire, paho, inbox, state, setup, asking>>
  BY DEF SetupPlatform
<1>2. found \subseteq Props /\ found \subseteq state /\ found \subseteq Reads[f]
  BY DiscoveryAssumption
<1> HIDE DEF found
<1>3. TypeOK'
  BY <1>1, <1>2 DEF DiscoveryInv, TypeOK, wire, paho, asking
<1>4. Growing'
  BY <1>1 DEF DiscoveryInv, Growing, paho
<1>5. EveryPropertyShown'
  <2> SUFFICES ASSUME NEW g \in registered', NEW q \in state', q \in Reads[g]
               PROVE  q \in entities'[g]
    BY DEF EveryPropertyShown
  <2>1. g \in Platforms
    BY <1>1 DEF DiscoveryInv, TypeOK
  <2>2. CASE g = f
    BY <1>1, <2>1, <2>2 DEF found, DiscoveryInv, TypeOK
  <2>3. CASE g # f
    BY <1>1, <2>1, <2>3 DEF DiscoveryInv, TypeOK, EveryPropertyShown
  <2>4. QED
    BY <2>2, <2>3
<1>6. EntitiesKnown'
  BY <1>1, <1>2 DEF DiscoveryInv, EntitiesKnown, TypeOK
<1>7. QED
  BY <1>3, <1>4, <1>5, <1>6 DEF DiscoveryInv

(* The prune takes only entries without an entity.                          *)
LEMMA EndWaitInv ==
  ASSUME DiscoveryInv, EndWait
  PROVE  DiscoveryInv'
<1>1. /\ registry' = [f \in Platforms |->
                        IF Complete THEN registry[f] \ Stale(f) ELSE registry[f]]
      /\ setup' = "platforms"
      /\ UNCHANGED <<wire, paho, inbox, loop, registered, asking>>
  BY DEF EndWait
<1>2. \A f \in Platforms : Stale(f) \cap state = {}
  BY DEF Stale
<1>3. /\ registry' \in [Platforms -> SUBSET Props]
      /\ \A f \in Platforms : entities[f] \subseteq registry'[f]
  BY <1>1, <1>2 DEF DiscoveryInv, TypeOK, EntitiesKnown
<1>4. TypeOK'
  BY <1>1, <1>3 DEF DiscoveryInv, TypeOK, wire, paho, loop, asking
<1>5. QED
  BY <1>1, <1>4
     DEF DiscoveryInv, Growing, EntitiesKnown, EveryPropertyShown, paho, loop

(* Every step keeps the invariant and what the coordinator knows.           *)
LEMMA StepInv ==
  ASSUME DiscoveryInv, [Next]_vars
  PROVE  DiscoveryInv' /\ state \subseteq state'
<1> USE DEF LoopSide
<1>1. ASSUME UNCHANGED <<LoopSide, merged, inbox>>, hand' = hand,
             up' \in BOOLEAN, askedAll' \in BOOLEAN, due' \in BOOLEAN,
             job' \in BOOLEAN, asked' \subseteq Ports,
             discovered' \subseteq Ports, reported' \subseteq Ports
      PROVE  DiscoveryInv' /\ state \subseteq state'
  <2>1. hand' \subseteq Props
    BY <1>1 DEF DiscoveryInv, TypeOK
  <2>2. QED
    BY <1>1, <2>1, QuietInv DEF loop
<1>2. CASE AnswerAllPorts
  BY <1>1, <1>2 DEF AnswerAllPorts, paho, asking, DiscoveryInv, TypeOK
<1>3. ASSUME NEW p \in Ports, AnswerPort(p) \/ Event(p)
      PROVE  DiscoveryInv' /\ state \subseteq state'
  <2>1. PICK S \in SUBSET Props : Report(p, S) /\ asked' \subseteq asked
    BY <1>3, DiscoveryAssumption DEF AnswerPort, Event
  <2>2. hand' \subseteq Props
    BY <2>1 DEF Report
  <2>3. QED
    BY <2>1, <2>2, QuietInv DEF Report, loop, asking, DiscoveryInv, TypeOK
<1>4. CASE Merge
  <2>1. hand \subseteq Props
    BY <1>4 DEF Merge, DiscoveryInv, TypeOK
  <2>2. merged' \in States /\ merged \subseteq merged'
    BY <1>4, <2>1 DEF Merge, States, DiscoveryInv, TypeOK
  <2>3. QED
    BY <1>4, <2>2, HandOverInv DEF Merge, loop
<1>5. CASE Shadow
  <2>1. merged' \in States /\ merged \subseteq merged'
    BY <1>5 DEF Shadow, States, DiscoveryInv, TypeOK
  <2>2. hand' \subseteq Props
    BY <1>5 DEF Shadow, DiscoveryInv, TypeOK
  <2>3. QED
    BY <1>5, <2>1, <2>2, HandOverInv DEF Shadow, loop
<1>6. CASE Network
  BY <1>1, <1>6 DEF Network, Ignored, Drop, Reconnect, MergedKept, ReadFails,
                    paho, asking, DiscoveryInv, TypeOK
<1>7. CASE RunJob
  BY <1>1, <1>7 DEF RunJob, paho, DiscoveryInv, TypeOK
<1>8. CASE TimePasses
  BY <1>1, <1>8 DEF TimePasses, wire, paho, DiscoveryInv, TypeOK
<1>9. CASE Receive
  BY <1>9, ReceiveInv
<1>10. CASE Heartbeat \/ SetupAsks
  BY <1>1, <1>10 DEF Heartbeat, SetupAsks, wire, paho, DiscoveryInv, TypeOK
<1>11. CASE EndWait
  BY <1>11, EndWaitInv DEF EndWait, loop
<1>12. ASSUME NEW f \in Platforms, SetupPlatform(f)
       PROVE  DiscoveryInv' /\ state \subseteq state'
  BY <1>12, SetupInv DEF SetupPlatform
<1>13. CASE UNCHANGED vars
  BY <1>1, <1>13 DEF vars, wire, paho, asking, DiscoveryInv, TypeOK
<1>14. QED
  BY <1>2, <1>3, <1>4, <1>5, <1>6, <1>7, <1>8, <1>9, <1>10, <1>11, <1>12, <1>13
     DEF Next, Paho, Loop

(* The invariant of the discovery: types, the order of the snapshots, and   *)
(* entities only for what is known (mqtt_api.py:1262, coordinator.py:253).  *)
THEOREM DiscoveryInvariant == Spec => []DiscoveryInv
<1>1. DiscoveryInv /\ [Next]_vars => DiscoveryInv'
  BY StepInv
<1>2. QED
  BY <1>1, InitDiscovery, PTL DEF Spec

(* Types; among them: an entity keeps its registry entry, whatever setup     *)
(* prunes, and what was seen is still known (__init__.py:304).              *)
THEOREM DiscoveryTypes == Spec => []TypeOK
<1>1. DiscoveryInv => TypeOK
  BY DEF DiscoveryInv
<1>2. QED
  BY <1>1, DiscoveryInvariant, PTL

(* Whatever the order in which properties arrive and platforms are set up,  *)
(* each platform has its entity for each property the coordinator knows     *)
(* (coordinator.py:2206).                                                   *)
THEOREM EveryPropertyIsShown == Spec => []EveryPropertyShown
<1>1. DiscoveryInv => EveryPropertyShown
  BY DEF DiscoveryInv
<1>2. QED
  BY <1>1, DiscoveryInvariant, PTL

(* No snapshot takes a known property away (mqtt_api.py:1262).              *)
THEOREM KnownPropertiesStay == Spec => PropertiesStay
<1>1. DiscoveryInv /\ [Next]_vars => [state \subseteq state']_state
  BY StepInv
<1>2. QED
  BY <1>1, DiscoveryInvariant, PTL DEF Spec, PropertiesStay

-----------------------------------------------------------------------------
(* The inductive invariant of the cook commands, call by call.             *)

(* A write that is open is the one its step writes.                        *)
WritesItsStep(c) ==
  result[c] = "open" =>
    /\ at[c] \in Writing
    /\ write[c] \in Commands
    /\ write[c].act = Act(op[c], at[c])

(* While nothing goes wrong, a write that has returned was applied.        *)
AnswersMean(c) ==
  at[c] \in Writing =>
    /\ result[c] \in {"open", "true", "false"}
    /\ result[c] = "true" /\ trouble[c] # "other" => effect[c] = "applied"
    /\ effect[c] = "refused" \/ result[c] = "false" => trouble[c] # "none"

(* How far a keep warm has come while nobody interfered.                   *)
WarmProgress(c) ==
  op[c] = "warm" /\ trouble[c] # "other" =>
    /\ at[c] = "set" /\ effect[c] = "applied" => program = "warm"
    /\ at[c] \in {"await", "go"} => program = "warm"

(* A stop that is untroubled has seen that the appliance does not cook     *)
(* before it sends what a cooking Venus ignores.                           *)
StopProgress(c) ==
  op[c] = "stop" /\ trouble[c] = "none" =>
    /\ at[c] \in {"look", "hold", "leave"}
    /\ at[c] = "hold" /\ effect[c] = "applied" => dev # "cooking"
    /\ at[c] = "leave" /\ venus => dev # "cooking"
    /\ at[c] = "leave" /\ effect[c] = "applied" => dev \notin {"cooking", "pause"}

(* So has a change; one that finds the appliance cooking when no port is   *)
(* known writes to no port.                                                *)
ChangeProgress(c) ==
  op[c] \in {"update", "change", "alter"} /\ trouble[c] = "none" /\ venus =>
    /\ at[c] \in {"look", "hold", "set", "go"}
    /\ at[c] = "look" => op[c] = "update"
    /\ at[c] = "hold" => op[c] = "change"
    /\ at[c] = "hold" /\ effect[c] = "applied" => dev # "cooking"
    /\ at[c] = "set" /\ effect[c] = "applied" => program = "user"
    /\ at[c] = "set" /\ effect[c] # "applied" /\ dev = "cooking" /\ op[c] # "update"
       => result[c] # "open" \/ ~write[c].addressed
    /\ at[c] = "go" => program = "user"

Progress(c) ==
  /\ WritesItsStep(c) /\ AnswersMean(c)
  /\ WarmProgress(c) /\ StopProgress(c) /\ ChangeProgress(c)

CookInv == CookTypeOK /\ \A c \in Callers : Progress(c)

Ops == {"none", "start", "pause", "stop", "settings", "warm", "update", "change", "alter"}

-----------------------------------------------------------------------------
(* A step that does not concern a call: it leaves the call where it is,    *)
(* and the appliance too unless the call learns of it.                     *)
Spared(c) ==
  /\ op'[c] = op[c] /\ at'[c] = at[c] /\ venus' = venus
  /\ write'[c] = write[c] /\ result'[c] = result[c] /\ effect'[c] = effect[c]
  /\ \/ trouble'[c] = "other"
     \/ /\ trouble'[c] = trouble[c] /\ program' = program
        /\ dev' = dev \/ (dev = "standby" /\ dev' = "idle")

LEMMA SparedProgress ==
  ASSUME NEW c \in Callers, Progress(c), Spared(c)
  PROVE  Progress(c)'
<1>1. WritesItsStep(c)'
  BY DEF Progress, WritesItsStep, Spared, Act
<1>2. AnswersMean(c)'
  BY DEF Progress, AnswersMean, Spared
<1>3. WarmProgress(c)'
  BY DEF Progress, WarmProgress, Spared
<1>4. StopProgress(c)'
  BY DEF Progress, StopProgress, Spared
<1>5. ChangeProgress(c)'
  BY DEF Progress, ChangeProgress, Spared
<1> QED BY <1>1, <1>2, <1>3, <1>4, <1>5 DEF Progress

(* What entering a step does.                                              *)
LEMMA Entered ==
  ASSUME CookTypeOK, NEW c \in Callers, NEW o \in Ops, NEW step \in Steps, Enter(c, o, step),
         CookAssumption
  PROVE  /\ op'[c] = o /\ at'[c] = step
         /\ op' \in [Callers -> Ops] /\ at' \in [Callers -> Steps]
         /\ step \in Writing =>
              /\ result'[c] = "open" /\ effect'[c] = "none"
              /\ write'[c] = [act |-> Act(o, step), addressed |-> Addressed]
              /\ write'[c] \in Commands
         /\ step \notin Writing => UNCHANGED contract
         /\ adrift' = adrift
         /\ write' \in [Callers -> Commands \cup {None}]
         /\ result' \in [Callers -> {"none", "open", "true", "false"}]
         /\ effect' \in [Callers -> {"none", "applied", "refused"}]
         /\ \A d \in Callers \ {c} :
              /\ op'[d] = op[d] /\ at'[d] = at[d]
              /\ write'[d] = write[d] /\ result'[d] = result[d] /\ effect'[d] = effect[d]
<1> DEFINE cmd == [act |-> Act(o, step), addressed |-> Addressed]
<1>1. op' = [op EXCEPT ![c] = o] /\ at' = [at EXCEPT ![c] = step]
  BY DEF Enter
<1>2. cmd \in Commands
  <2>1. Act(o, step) \in Acts /\ Addressed \in BOOLEAN
    BY DEF Act, Acts, Addressed
  <2> QED BY <2>1 DEF CookAssumption
<1>3. CASE step \in Writing
  <2>1. /\ write' = [write EXCEPT ![c] = cmd]
        /\ result' = [result EXCEPT ![c] = "open"]
        /\ effect' = [effect EXCEPT ![c] = "none"]
        /\ adrift' = adrift
    BY <1>3 DEF Enter, BeginWrite
  <2> HIDE DEF cmd
  <2>2. write'[c] = cmd /\ result'[c] = "open" /\ effect'[c] = "none"
    BY <2>1 DEF CookTypeOK
  <2>3. /\ write' \in [Callers -> Commands \cup {None}]
        /\ result' \in [Callers -> {"none", "open", "true", "false"}]
        /\ effect' \in [Callers -> {"none", "applied", "refused"}]
    BY <1>2, <2>1 DEF CookTypeOK
  <2>4. op' \in [Callers -> Ops] /\ at' \in [Callers -> Steps] /\ op'[c] = o /\ at'[c] = step
    BY <1>1 DEF CookTypeOK, Ops
  <2>5. \A d \in Callers \ {c} :
              /\ op'[d] = op[d] /\ at'[d] = at[d]
              /\ write'[d] = write[d] /\ result'[d] = result[d] /\ effect'[d] = effect[d]
    BY <1>1, <2>1 DEF CookTypeOK
  <2> QED BY <1>2, <1>3, <2>1, <2>2, <2>3, <2>4, <2>5 DEF cmd
<1>4. CASE step \notin Writing
  <2>1. UNCHANGED contract
    BY <1>4 DEF Enter
  <2>2. op' \in [Callers -> Ops] /\ at' \in [Callers -> Steps] /\ op'[c] = o /\ at'[c] = step
    BY <1>1 DEF CookTypeOK, Ops
  <2>3. \A d \in Callers \ {c} : op'[d] = op[d] /\ at'[d] = at[d]
    BY <1>1 DEF CookTypeOK
  <2> QED BY <1>4, <2>1, <2>2, <2>3 DEF contract, CookTypeOK
<1> QED BY <1>3, <1>4

-----------------------------------------------------------------------------
(* The calls.                                                              *)

Kinds ==
  /\ venus \in BOOLEAN /\ ports \in {"none", "some", "control"}
  /\ dev \in Statuses /\ program \in {"old", "user", "warm"}
  /\ trouble \in [Callers -> {"none", "refused", "other"}]

(* What a call owes the invariant when it enters a step.                   *)
LEMMA EnterProgress ==
  ASSUME CookAssumption, CookTypeOK, NEW c \in Callers, NEW o \in Ops, NEW step \in Steps,
         Enter(c, o, step), venus' = venus, result[c] # "open",
         o = "warm" /\ trouble'[c] # "other" /\ step \in {"await", "go"} => program' = "warm",
         o = "stop" /\ trouble'[c] = "none" =>
           /\ step \in {"look", "hold", "leave"}
           /\ step = "leave" /\ venus => dev' # "cooking",
         o \in {"update", "change", "alter"} /\ trouble'[c] = "none" /\ venus =>
           /\ step \in {"look", "hold", "set", "go"}
           /\ step = "look" => o = "update"
           /\ step = "hold" => o = "change"
           /\ step = "set" /\ o # "update" /\ dev' = "cooking" => ~Addressed
           /\ step = "go" => program' = "user"
  PROVE  Progress(c)'
<1>1. /\ op'[c] = o /\ at'[c] = step
      /\ step \in Writing =>
           /\ result'[c] = "open" /\ effect'[c] = "none"
           /\ write'[c] = [act |-> Act(o, step), addressed |-> Addressed]
           /\ write'[c] \in Commands
      /\ step \notin Writing => result'[c] = result[c]
  BY Entered DEF contract
<1>2. WritesItsStep(c)'
  <2>1. CASE step \in Writing
    <3>1. write'[c].act = Act(o, step) /\ Act(o, step)' = Act(o, step)
      BY <1>1, <2>1 DEF Act
    <3> QED BY <1>1, <2>1, <3>1 DEF WritesItsStep, Act
  <2>2. CASE step \notin Writing
    BY <1>1, <2>2 DEF WritesItsStep
  <2> QED BY <2>1, <2>2
<1>3. AnswersMean(c)'
  BY <1>1 DEF AnswersMean
<1>4. WarmProgress(c)'
  BY <1>1 DEF WarmProgress, Writing
<1>5. StopProgress(c)'
  BY <1>1 DEF StopProgress, Writing
<1>6. ChangeProgress(c)'
  <2>1. step \in Writing => write'[c].addressed = Addressed
    BY <1>1
  <2> QED BY <1>1, <2>1 DEF ChangeProgress, Writing
<1> QED BY <1>2, <1>3, <1>4, <1>5, <1>6 DEF Progress

(* The other calls are spared when one enters a step.                      *)
LEMMA EnterSpares ==
  ASSUME CookAssumption, CookTypeOK, NEW c \in Callers, NEW o \in Ops, NEW step \in Steps,
         Enter(c, o, step), UNCHANGED <<venus, program>>,
         dev' = dev \/ (dev = "standby" /\ dev' = "idle"),
         NEW d \in Callers \ {c}, trouble'[d] = trouble[d]
  PROVE  Spared(d)
<1>1. op'[d] = op[d] /\ at'[d] = at[d]
  BY DEF Enter, CookTypeOK
<1>2. write'[d] = write[d] /\ result'[d] = result[d] /\ effect'[d] = effect[d]
  BY DEF Enter, BeginWrite, contract, CookTypeOK
<1> QED BY <1>1, <1>2 DEF Spared

LEMMA EnterKeepsTypes ==
  ASSUME CookAssumption, CookTypeOK, NEW c \in Callers, NEW o \in Ops, NEW step \in Steps,
         Enter(c, o, step), Kinds', Progress(c)'
  PROVE  CookTypeOK'
<1>1. \A d \in Callers \ {c} : at'[d] = at[d] /\ result'[d] = result[d]
  BY DEF Enter, BeginWrite, contract, CookTypeOK
<1>2. \A d \in Callers : result'[d] = "open" => at'[d] \in Writing
  BY <1>1 DEF CookTypeOK, Progress, WritesItsStep
<1>3. /\ op' \in [Callers -> Ops] /\ at' \in [Callers -> Steps]
      /\ write' \in [Callers -> Commands \cup {None}]
      /\ result' \in [Callers -> {"none", "open", "true", "false"}]
      /\ effect' \in [Callers -> {"none", "applied", "refused"}]
      /\ adrift' \subseteq Commands
  BY Entered DEF CookTypeOK
<1> QED BY <1>2, <1>3 DEF Kinds, CookTypeOK, Ops

(* Proved of every step below.                                             *)
Kept(c) == CookTypeOK' /\ Progress(c)' /\ \A d \in Callers \ {c} : Spared(d)

LEMMA NoCall ==
  ASSUME NEW c, Progress(c), at[c] \notin Writing
  PROVE  result[c] # "open"
BY DEF Progress, WritesItsStep

LEMMA CallKept ==
  ASSUME CookAssumption, CookTypeOK, NEW c \in Callers, NEW o \in Calls, Progress(c), Call(c, o)
  PROVE  Kept(c)
<1> DEFINE step == CASE o = "pause" -> "hold"
                     [] o \in {"stop", "update"} -> "look"
                     [] OTHER -> "ensure"
           mark == IF \E d \in Callers : at[d] # "idle" THEN "other" ELSE "none"
<1>1. Enter(c, o, step) /\ UNCHANGED cook /\ at[c] = "idle"
      /\ trouble' = [trouble EXCEPT ![c] = mark]
  BY DEF Call
<1>2. o \in Ops /\ step \in Steps /\ o \in {"start", "pause", "stop", "settings", "warm", "update"}
  BY DEF CookAssumption, Ops, Steps, Writing
<1>3. step = "hold" => o = "pause"
  BY <1>2
<1>4. step \in {"hold", "look", "ensure"} /\ (o \in {"stop", "update"} => step = "look")
  BY <1>2
<1>5. mark \in {"none", "other"}
  OBVIOUS
<1> HIDE DEF step, mark
<1>6. result[c] # "open"
  BY <1>1, NoCall DEF Writing
<1>7. Progress(c)'
  BY <1>1, <1>2, <1>3, <1>4, <1>6, EnterProgress DEF cook
<1>8. Kinds'
  BY <1>1, <1>5 DEF Kinds, CookTypeOK, cook
<1>9. \A d \in Callers \ {c} : trouble'[d] = trouble[d]
  BY <1>1 DEF CookTypeOK
<1>10. CookTypeOK'
  BY <1>1, <1>2, <1>7, <1>8, EnterKeepsTypes
<1>11. \A d \in Callers \ {c} : Spared(d)
  <2> TAKE d \in Callers \ {c}
  <2>1. UNCHANGED <<venus, program>> /\ dev' = dev
    BY <1>1 DEF cook
  <2>2. trouble'[d] = trouble[d]
    BY <1>9
  <2> QED BY <1>1, <1>2, <2>1, <2>2, EnterSpares
<1> QED BY <1>7, <1>10, <1>11 DEF Kept

LEMMA WakeKept ==
  ASSUME CookAssumption, CookTypeOK, NEW c \in Callers, Progress(c), WakeAirfryer(c)
  PROVE  Kept(c)
<1>1. /\ Enter(c, op[c], "wanted") /\ at[c] = "ensure"
      /\ UNCHANGED <<venus, ports, program, trouble>>
      /\ (dev' = dev \/ (dev = "standby" /\ dev' = "idle"))
  <2>1. dev' \in {dev, IF dev = "standby" THEN "idle" ELSE dev}
    BY DEF WakeAirfryer
  <2>2. dev' = dev \/ (dev = "standby" /\ dev' = "idle")
    BY <2>1
  <2> QED BY <2>2 DEF WakeAirfryer
<1>2. op[c] \in Ops /\ "wanted" \in Steps
  BY DEF CookTypeOK, Ops, Steps
<1>3. result[c] # "open"
  BY <1>1, NoCall DEF Writing
<1>4. Progress(c)'
  BY <1>1, <1>2, <1>3, EnterProgress DEF Progress, StopProgress, ChangeProgress
<1>5. Kinds'
  BY <1>1 DEF Kinds, CookTypeOK, Statuses
<1> QED BY <1>1, <1>2, <1>4, <1>5, EnterSpares, EnterKeepsTypes DEF Kept

LEMMA EnsuredKept ==
  ASSUME CookAssumption, CookTypeOK, NEW c \in Callers, Progress(c), Ensured(c)
  PROVE  Kept(c)
<1> DEFINE step == IF op[c] = "start" THEN "go" ELSE "look"
<1>1. Enter(c, op[c], step) /\ UNCHANGED cook /\ UNCHANGED trouble /\ at[c] \in {"wanted", "ensure"}
  BY DEF Ensured
<1>2. op[c] \in Ops /\ step \in Steps
  BY DEF CookTypeOK, Ops, Steps, Writing
<1>3. result[c] # "open"
  BY <1>1, NoCall DEF Writing
<1>4. step \in {"go", "look"} /\ (step = "go" => op[c] = "start")
  OBVIOUS
<1> HIDE DEF step
<1>5. Progress(c)'
  BY <1>1, <1>2, <1>3, <1>4, EnterProgress DEF Progress, StopProgress, ChangeProgress, cook
<1>6. Kinds'
  BY <1>1 DEF Kinds, CookTypeOK, cook
<1>7. CookTypeOK'
  BY <1>1, <1>2, <1>5, <1>6, EnterKeepsTypes
<1>8. \A d \in Callers \ {c} : Spared(d)
  <2> TAKE d \in Callers \ {c}
  <2>1. UNCHANGED <<venus, program>> /\ dev' = dev /\ trouble'[d] = trouble[d]
    BY <1>1 DEF cook
  <2> QED BY <1>1, <1>2, <2>1, EnterSpares
<1> QED BY <1>5, <1>7, <1>8 DEF Kept

(* The step an update takes when it sees the status, and a stop.           *)
LEMMA LookKept ==
  ASSUME CookAssumption, CookTypeOK, NEW c \in Callers, Progress(c), Look(c)
  PROVE  Kept(c)
<1>1. PICK status \in Statuses :
        /\ CASE op[c] = "update" -> UpdateWith(c, status)
             [] op[c] = "stop" -> StopWith(c, status)
             [] OTHER -> Enter(c, op[c], IF status = "standby" THEN "wake" ELSE "set")
        /\ Trouble({d \in {c} : status # dev})
  BY DEF Look
<1>2. at[c] = "look" /\ UNCHANGED <<venus, dev, program, ports>>
  BY DEF Look, cook
<1>3. result[c] # "open"
  BY <1>2, NoCall DEF Writing
<1>4. /\ trouble'[c] = IF status # dev THEN "other" ELSE trouble[c]
      /\ \A d \in Callers \ {c} : trouble'[d] = trouble[d]
  BY <1>1 DEF Trouble
<1>5. Kinds'
  BY <1>1, <1>2 DEF Trouble, Kinds, CookTypeOK
<1>6. /\ {"update", "change", "alter", "stop", "none"} \subseteq Ops /\ op[c] \in Ops
      /\ {"hold", "set", "wake", "leave", "idle"} \subseteq Steps
  BY DEF Ops, Steps, Writing, CookTypeOK
<1>7. PICK o \in Ops, step \in Steps :
        /\ Enter(c, o, step)
        /\ o = "warm" => step \in {"wake", "set"}
        /\ o = "stop" /\ trouble'[c] = "none" =>
             /\ step \in {"hold", "leave"}
             /\ step = "leave" => ~venus
        /\ o \in {"update", "change", "alter"} /\ trouble'[c] = "none" /\ venus =>
             /\ step \in {"hold", "set"}
             /\ step = "hold" => o = "change"
             /\ step = "set" /\ o # "update" /\ dev = "cooking" => ~Addressed
  <2>1. CASE op[c] = "update" /\ MidCook(status)
    <3>1. Enter(c, "change", "hold")
      BY <1>1, <2>1 DEF UpdateWith
    <3> QED BY <1>6, <3>1
  <2>2. CASE op[c] = "update" /\ ~MidCook(status)
    <3> DEFINE o == IF LooksVenus \/ status = "cooking" THEN "alter" ELSE "update"
    <3>1. Enter(c, o, "set") /\ o \in {"alter", "update"}
      BY <1>1, <2>2 DEF UpdateWith
    <3>2. trouble'[c] = "none" /\ venus /\ o # "update" /\ dev = "cooking" => ~Addressed
      BY <1>4, <2>2 DEF MidCook, LooksVenus, Addressed
    <3> HIDE DEF o
    <3> QED BY <1>6, <3>1, <3>2
  <2>3. CASE op[c] = "stop"
    <3>1. ~venus => Enter(c, "stop", "leave")
      BY <1>1, <2>3 DEF StopWith, Leaves
    <3>2. venus => Enter(c, "none", "idle") \/ Enter(c, "stop", "hold")
      BY <1>1, <2>3 DEF StopWith, Leaves, Done
    <3> QED BY <1>6, <3>1, <3>2
  <2>4. CASE op[c] \notin {"update", "stop"}
    <3> DEFINE step == IF status = "standby" THEN "wake" ELSE "set"
    <3>1. Enter(c, op[c], step) /\ step \in {"wake", "set"}
      BY <1>1, <2>4
    <3>2. op[c] \in {"change", "alter"} /\ venus => trouble[c] # "none"
      BY <1>2 DEF Progress, ChangeProgress
    <3>3. op[c] \in {"change", "alter"} /\ venus => trouble'[c] # "none"
      BY <1>4, <3>2
    <3> HIDE DEF step
    <3> QED BY <1>6, <2>4, <3>1, <3>3
  <2> QED BY <2>1, <2>2, <2>3, <2>4
<1>8. Progress(c)'
  BY <1>2, <1>3, <1>7, EnterProgress
<1>9. CookTypeOK'
  BY <1>5, <1>7, <1>8, EnterKeepsTypes
<1>10. \A d \in Callers \ {c} : Spared(d)
  <2> TAKE d \in Callers \ {c}
  <2>1. UNCHANGED <<venus, program>> /\ dev' = dev /\ trouble'[d] = trouble[d]
    BY <1>2, <1>4
  <2> QED BY <1>7, <2>1, EnterSpares
<1> QED BY <1>8, <1>9, <1>10 DEF Kept

(* What follows a write: it goes on only from what it was for.             *)
LEMMA ProceedKept ==
  ASSUME CookAssumption, CookTypeOK, NEW c \in Callers, Progress(c), Proceed(c)
  PROVE  Kept(c)
<1>1. at[c] \in Writing /\ result[c] # "open" /\ UNCHANGED <<venus, dev, program, ports, trouble>>
  BY DEF Proceed, Awaited, cook
<1>2. /\ trouble[c] # "other" /\ result[c] = "true" => effect[c] = "applied"
      /\ trouble[c] = "none" => effect[c] = "applied"
  BY <1>1 DEF Progress, AnswersMean
<1>3. /\ {"change", "stop", "warm", "none"} \subseteq Ops /\ op[c] \in Ops
      /\ {"hold", "set", "leave", "awaken", "await", "go", "idle"} \subseteq Steps
  BY DEF Ops, Steps, Writing, CookTypeOK
<1>4. PICK o \in Ops, step \in Steps :
        /\ Enter(c, o, step)
        /\ o = "warm" /\ step \in {"await", "go"} /\ trouble[c] # "other" => program = "warm"
        /\ o = "stop" /\ trouble[c] = "none" =>
             step = "leave" /\ (venus => dev # "cooking")
        /\ o \in {"update", "change", "alter"} /\ trouble[c] = "none" /\ venus =>
             \/ step = "set" /\ dev # "cooking"
             \/ step = "go" /\ program = "user"
  <2>1. CASE at[c] = "wake"
    <3>1. Enter(c, op[c], "awaken")
      BY <2>1 DEF Proceed
    <3>2. trouble[c] = "none" =>
             op[c] # "stop" /\ (venus => op[c] \notin {"update", "change", "alter"})
      BY <2>1 DEF Progress, StopProgress, ChangeProgress
    <3> QED BY <1>3, <3>1, <3>2
  <2>2. CASE at[c] = "hold" /\ op[c] = "stop"
    <3>1. Enter(c, "stop", "leave")
      BY <2>2 DEF Proceed
    <3>2. trouble[c] = "none" => dev # "cooking"
      BY <1>2, <2>2 DEF Progress, StopProgress
    <3> QED BY <1>3, <3>1, <3>2
  <2>3. CASE at[c] = "hold" /\ op[c] = "change"
    <3>1. Enter(c, "change", "set")
      BY <2>3 DEF Proceed
    <3>2. trouble[c] = "none" /\ venus => dev # "cooking"
      BY <1>2, <2>3 DEF Progress, ChangeProgress
    <3> QED BY <1>3, <3>1, <3>2
  <2>4. CASE at[c] = "set" /\ op[c] = "warm" /\ WarmAccepted(c)
    <3>1. Enter(c, "warm", "await")
      BY <2>4 DEF Proceed
    <3>2. trouble[c] # "other" => program = "warm"
      BY <1>2, <2>4 DEF Progress, WarmProgress, WarmAccepted
    <3> QED BY <1>3, <3>1, <3>2
  <2>5. CASE at[c] = "set" /\ op[c] = "change"
    <3>1. Enter(c, "change", "go")
      BY <2>5 DEF Proceed, Resumes
    <3>2. trouble[c] = "none" /\ venus => program = "user"
      BY <1>2, <2>5 DEF Progress, ChangeProgress
    <3> QED BY <1>3, <3>1, <3>2
  <2>6. CASE /\ at[c] # "wake"
             /\ at[c] = "hold" => op[c] \notin {"stop", "change"}
             /\ at[c] = "set" => op[c] # "change" /\ ~(op[c] = "warm" /\ WarmAccepted(c))
    <3>1. Enter(c, "none", "idle")
      BY <2>6 DEF Proceed, Done
    <3> QED BY <1>3, <3>1
  <2> QED BY <2>1, <2>2, <2>3, <2>4, <2>5, <2>6
<1>5. Progress(c)'
  BY <1>1, <1>4, EnterProgress
<1>6. Kinds'
  BY <1>1 DEF Kinds, CookTypeOK
<1>7. CookTypeOK'
  BY <1>4, <1>5, <1>6, EnterKeepsTypes
<1>8. \A d \in Callers \ {c} : Spared(d)
  <2> TAKE d \in Callers \ {c}
  <2>1. UNCHANGED <<venus, program>> /\ dev' = dev /\ trouble'[d] = trouble[d]
    BY <1>1
  <2> QED BY <1>4, <2>1, EnterSpares
<1> QED BY <1>5, <1>7, <1>8 DEF Kept

LEMMA WaitedKept ==
  ASSUME CookAssumption, CookTypeOK, NEW c \in Callers, Progress(c), Waited(c)
  PROVE  Kept(c)
<1>1. /\ UNCHANGED <<venus, dev, program, ports, trouble>> /\ at[c] \in {"awaken", "await"}
      /\ at[c] = "awaken" => Enter(c, op[c], "set")
      /\ at[c] = "await" => Enter(c, op[c], "go")
  BY DEF Waited, cook
<1>2. op[c] \in Ops /\ {"set", "go"} \subseteq Steps
  BY DEF CookTypeOK, Ops, Steps, Writing
<1>3. result[c] # "open"
  BY <1>1, NoCall DEF Writing
<1>4. PICK step \in {"set", "go"} :
        Enter(c, op[c], step) /\ (step = "go" => at[c] = "await")
  BY <1>1
<1>5. step \in Steps
  BY <1>2, <1>4
<1>6. /\ trouble[c] = "none" => op[c] # "stop" /\ (venus => op[c] \notin {"update", "change", "alter"})
      /\ op[c] = "warm" /\ trouble[c] # "other" /\ step = "go" => program = "warm"
  BY <1>1, <1>4 DEF Progress, StopProgress, ChangeProgress, WarmProgress
<1>7. Progress(c)'
  BY <1>1, <1>2, <1>3, <1>4, <1>5, <1>6, EnterProgress
<1>8. Kinds'
  BY <1>1 DEF Kinds, CookTypeOK
<1>9. CookTypeOK'
  BY <1>2, <1>4, <1>5, <1>7, <1>8, EnterKeepsTypes
<1>10. \A d \in Callers \ {c} : Spared(d)
  <2> TAKE d \in Callers \ {c}
  <2>1. UNCHANGED <<venus, program>> /\ dev' = dev /\ trouble'[d] = trouble[d]
    BY <1>1
  <2> QED BY <1>2, <1>4, <1>5, <2>1, EnterSpares
<1> QED BY <1>7, <1>9, <1>10 DEF Kept

-----------------------------------------------------------------------------
(* The writes.                                                             *)

LEMMA ReturnKept ==
  ASSUME CookAssumption, CookTypeOK, NEW c \in Callers, Progress(c), Return(c)
  PROVE  Kept(c)
<1>1. /\ result[c] = "open" /\ UNCHANGED <<venus, dev, program, ports, op, at, effect>>
      /\ write' = [write EXCEPT ![c] = None]
  BY DEF Return, ReturnTrue, ReturnFalse, Returns, cook
<1>2. /\ at[c] \in Writing /\ write[c] \in Commands
  BY <1>1 DEF Progress, WritesItsStep
<1>3. PICK value \in {"true", "false"} :
        /\ result' = [result EXCEPT ![c] = value]
        /\ value = "true" => trouble'[c] = IF effect[c] # "applied" THEN "other" ELSE trouble[c]
        /\ value = "false" => trouble'[c] # "none" /\ (trouble'[c] = "other" <=> trouble[c] = "other")
  BY DEF Return, ReturnTrue, ReturnFalse, Returns, Trouble, Refused, CookTypeOK
<1>4. result'[c] = value /\ \A d \in Callers \ {c} : result'[d] = result[d] /\ write'[d] = write[d]
  BY <1>1, <1>3 DEF CookTypeOK
<1>5. \A d \in Callers \ {c} : trouble'[d] = trouble[d]
  BY DEF Return, Trouble, Refused, CookTypeOK
<1>6. Progress(c)'
  <2>1. trouble'[c] = "none" => trouble[c] = "none"
    BY <1>3
  <2>2. trouble'[c] # "other" => trouble[c] # "other"
    BY <1>3
  <2>3. WritesItsStep(c)'
    BY <1>4 DEF WritesItsStep
  <2>4. AnswersMean(c)'
    BY <1>1, <1>2, <1>3, <1>4 DEF Progress, AnswersMean
  <2>5. WarmProgress(c)' /\ StopProgress(c)'
    BY <1>1, <2>1, <2>2 DEF Progress, WarmProgress, StopProgress
  <2>6. ChangeProgress(c)'
    BY <1>1, <1>4, <2>1 DEF Progress, ChangeProgress
  <2> QED BY <2>3, <2>4, <2>5, <2>6 DEF Progress
<1>7. CookTypeOK'
  <2>1. adrift' \subseteq Commands
    BY <1>2 DEF Return, ReturnTrue, ReturnFalse, Unsettled, CookTypeOK
  <2>2. result' \in [Callers -> {"none", "open", "true", "false"}]
    BY <1>3 DEF CookTypeOK
  <2>3. trouble' \in [Callers -> {"none", "refused", "other"}]
    BY DEF Return, Trouble, Refused, CookTypeOK
  <2>4. write' \in [Callers -> Commands \cup {None}]
    BY <1>1 DEF CookTypeOK
  <2>5. \A d \in Callers : result'[d] = "open" => at'[d] \in Writing
    BY <1>1, <1>4 DEF CookTypeOK
  <2> QED BY <1>1, <2>1, <2>2, <2>3, <2>4, <2>5 DEF CookTypeOK
<1>8. \A d \in Callers \ {c} : Spared(d)
  BY <1>1, <1>4, <1>5 DEF Spared
<1> QED BY <1>6, <1>7, <1>8 DEF Kept

(* What the appliance makes of the write of a call at its step.            *)
LEMMA Applied ==
  ASSUME CookTypeOK, NEW c \in Callers, Progress(c), result[c] = "open",
         Accepts(write[c]), Obey(write[c].act)
  PROVE  /\ dev' \in Statuses /\ program' \in {"old", "user", "warm"}
         /\ op[c] = "warm" /\ at[c] = "set" => program' = "warm"
         /\ at[c] = "go" => program' = program
         /\ at[c] = "hold" => dev' # "cooking"
         /\ at[c] = "leave" /\ (venus => dev # "cooking") => dev' \in {"idle", "standby"}
         /\ op[c] \in {"update", "change", "alter"} /\ trouble[c] = "none" /\ venus /\ at[c] = "set"
            /\ effect[c] # "applied" => program' = "user"
<1>1. at[c] \in Writing /\ write[c].act = Act(op[c], at[c])
  BY DEF Progress, WritesItsStep
<1>2. dev' = Reading(write[c].act) /\ program' = Programmed(write[c].act)
  BY DEF Obey
<1>3. dev' \in Statuses /\ program' \in {"old", "user", "warm"}
  BY <1>2 DEF CookTypeOK, Statuses, Reading, Programmed
<1>4. op[c] = "warm" /\ at[c] = "set" => program' = "warm"
  BY <1>1, <1>2 DEF Act, Programmed
<1>5. at[c] = "go" => program' = program
  BY <1>1, <1>2 DEF Act, Programmed
<1>6. at[c] = "hold" => dev' # "cooking"
  BY <1>1, <1>2 DEF Act, Reading
<1>7. at[c] = "leave" /\ (venus => dev # "cooking") => dev' \in {"idle", "standby"}
  BY <1>1, <1>2 DEF Act, Reading, Unmoved
<1>8. op[c] \in {"update", "change", "alter"} /\ trouble[c] = "none" /\ venus /\ at[c] = "set"
      /\ effect[c] # "applied" => program' = "user"
  <2> SUFFICES ASSUME op[c] \in {"update", "change", "alter"}, trouble[c] = "none", venus,
                      at[c] = "set", effect[c] # "applied"
               PROVE  program' = "user"
    OBVIOUS
  <2>1. write[c].act = IF op[c] = "update" THEN "set" ELSE "values"
    BY <1>1 DEF Act
  <2>2. dev # "cooking"
    BY <2>1 DEF Accepts, Progress, ChangeProgress
  <2> QED BY <1>2, <2>1, <2>2 DEF Programmed, Unmoved
<1> QED BY <1>3, <1>4, <1>5, <1>6, <1>7, <1>8

LEMMA EffectKept ==
  ASSUME CookAssumption, CookTypeOK, NEW c \in Callers, Progress(c), Effect(c)
  PROVE  Kept(c)
<1>1. /\ result[c] = "open" /\ effect[c] = "none"
      /\ UNCHANGED <<write, result, adrift, venus, ports, op, at>>
  BY DEF Effect, TakeEffect
<1>2. PICK e \in {"applied", "refused"} : effect' = [effect EXCEPT ![c] = e]
  BY DEF Effect, TakeEffect
<1>3. effect'[c] = e /\ \A d \in Callers \ {c} : effect'[d] = effect[d]
  BY <1>2 DEF CookTypeOK
<1>4. CASE e = "applied"
  <2>1. Accepts(write[c]) /\ Obey(write[c].act) /\ Trouble(Callers \ {c})
    BY <1>3, <1>4 DEF Effect
  <2>2. trouble'[c] = trouble[c] /\ \A d \in Callers \ {c} : trouble'[d] = "other"
    BY <2>1 DEF Trouble
  <2>3. trouble' \in [Callers -> {"none", "refused", "other"}]
    BY <2>1 DEF Trouble, CookTypeOK
  <2>4. /\ dev' \in Statuses /\ program' \in {"old", "user", "warm"}
        /\ op[c] = "warm" /\ at[c] = "set" => program' = "warm"
        /\ at[c] = "go" => program' = program
        /\ at[c] = "hold" => dev' # "cooking"
        /\ at[c] = "leave" /\ (venus => dev # "cooking") => dev' \in {"idle", "standby"}
        /\ op[c] \in {"update", "change", "alter"} /\ trouble[c] = "none" /\ venus /\ at[c] = "set"
           => program' = "user"
    BY <1>1, <2>1, Applied
  <2>5. at[c] \in Writing
    BY <1>1 DEF Progress, WritesItsStep
  <2>6. WritesItsStep(c)'
    BY <1>1 DEF Progress, WritesItsStep, Act
  <2>7. AnswersMean(c)'
    BY <1>1, <1>3, <1>4, <2>2 DEF Progress, AnswersMean
  <2>8. WarmProgress(c)'
    BY <1>1, <2>2, <2>4, <2>5 DEF Progress, WarmProgress, Writing
  <2>9. StopProgress(c)'
    BY <1>1, <2>2, <2>4 DEF Progress, StopProgress
  <2>10. ChangeProgress(c)'
    BY <1>1, <1>3, <1>4, <2>2, <2>4, <2>5 DEF Progress, ChangeProgress, Writing
  <2>11. effect' \in [Callers -> {"none", "applied", "refused"}]
    BY <1>2 DEF CookTypeOK
  <2>12. CookTypeOK'
    BY <1>1, <2>3, <2>4, <2>11 DEF CookTypeOK
  <2>13. \A d \in Callers \ {c} : Spared(d)
    BY <1>1, <1>3, <2>2 DEF Spared
  <2> QED BY <2>6, <2>7, <2>8, <2>9, <2>10, <2>12, <2>13 DEF Kept, Progress
<1>5. CASE e = "refused"
  <2>1. UNCHANGED <<dev, program>> /\ Refused(c)
    BY <1>3, <1>5 DEF Effect
  <2>2. /\ trouble'[c] # "none" /\ (trouble'[c] = "other" <=> trouble[c] = "other")
        /\ \A d \in Callers \ {c} : trouble'[d] = trouble[d]
    BY <2>1 DEF Refused, CookTypeOK
  <2>3. WritesItsStep(c)'
    BY <1>1 DEF Progress, WritesItsStep, Act
  <2>4. AnswersMean(c)'
    BY <1>1, <2>2 DEF Progress, AnswersMean
  <2>5. WarmProgress(c)'
    BY <1>1, <1>3, <1>5, <2>1, <2>2 DEF Progress, WarmProgress
  <2>6. StopProgress(c)' /\ ChangeProgress(c)'
    BY <2>2 DEF StopProgress, ChangeProgress
  <2>7. CookTypeOK'
    BY <1>1, <1>2, <2>1 DEF CookTypeOK, Refused
  <2>8. \A d \in Callers \ {c} : Spared(d)
    BY <1>1, <1>3, <2>1, <2>2 DEF Spared
  <2> QED BY <2>3, <2>4, <2>5, <2>6, <2>7, <2>8 DEF Kept, Progress
<1> QED BY <1>4, <1>5

-----------------------------------------------------------------------------
(* Every step: one call is at work, or none is.                            *)
LEMMA SharedKept ==
  ASSUME CookTypeOK, LateEffect \/ Touched \/ ForgetPorts \/ PortsAnswer \/ UNCHANGED cookVars
  PROVE  CookTypeOK' /\ \A c \in Callers : Spared(c)
<1>1. CASE LateEffect
  <2>1. /\ UNCHANGED <<write, result, effect, venus, ports, op, at>> /\ adrift' \subseteq adrift
        /\ \E cmd \in adrift : Obey(cmd.act)
        /\ Trouble(Callers)
    BY <1>1 DEF LateEffect, Settle
  <2>2. dev' \in Statuses /\ program' \in {"old", "user", "warm"}
    BY <2>1 DEF Obey, Reading, Programmed, CookTypeOK, Statuses
  <2>3. \A c \in Callers : trouble'[c] = "other"
    BY <2>1 DEF Trouble
  <2>4. trouble' \in [Callers -> {"none", "refused", "other"}]
    BY <2>1 DEF Trouble
  <2> QED BY <2>1, <2>2, <2>3, <2>4 DEF CookTypeOK, Spared
<1>2. CASE Touched
  <2>1. /\ UNCHANGED <<write, result, effect, adrift, venus, ports, op, at>>
        /\ dev' \in Statuses /\ program' \in {"old", "user", "warm"}
        /\ Trouble(Callers)
    BY <1>2 DEF Touched, contract, CookTypeOK
  <2>2. \A c \in Callers : trouble'[c] = "other"
    BY <2>1 DEF Trouble
  <2>3. trouble' \in [Callers -> {"none", "refused", "other"}]
    BY <2>1 DEF Trouble
  <2> QED BY <2>1, <2>2, <2>3 DEF CookTypeOK, Spared
<1>3. CASE ForgetPorts \/ PortsAnswer
  BY <1>3 DEF ForgetPorts, PortsAnswer, Shown, contract, CookTypeOK, Spared
<1>4. CASE UNCHANGED cookVars
  BY <1>4 DEF cookVars, CookTypeOK, Spared
<1> QED BY <1>1, <1>2, <1>3, <1>4

LEMMA CallsKeep ==
  ASSUME CookAssumption, CookInv, NEW c \in Callers,
         (\E o \in Calls : Call(c, o)) \/ Go(c) \/ Effect(c)
  PROVE  Kept(c)
BY CallKept, WakeKept, EnsuredKept, LookKept, ReturnKept, ProceedKept, WaitedKept, EffectKept
   DEF CookInv, Go

LEMMA CookStep ==
  ASSUME CookAssumption, CookInv, [CookNext]_cookVars
  PROVE  CookInv'
<1>1. ASSUME NEW c \in Callers, (\E o \in Calls : Call(c, o)) \/ Go(c) \/ Effect(c)
      PROVE  CookInv'
  <2>1. Kept(c)
    BY <1>1, CallsKeep
  <2>2. \A d \in Callers \ {c} : Progress(d)'
    BY <2>1, SparedProgress DEF Kept, CookInv
  <2> QED BY <2>1, <2>2 DEF Kept, CookInv
<1>2. ASSUME LateEffect \/ Touched \/ ForgetPorts \/ PortsAnswer \/ UNCHANGED cookVars
      PROVE  CookInv'
  BY <1>2, SharedKept, SparedProgress DEF CookInv
<1> QED BY <1>1, <1>2 DEF CookNext

LEMMA CookStart ==
  ASSUME CookInit
  PROVE  CookInv
<1>1. CookTypeOK
  BY DEF CookInit, ContractInit, CookTypeOK, Shown, Statuses, Steps
<1>2. \A c \in Callers : op[c] = "none" /\ at[c] = "idle" /\ result[c] = "none"
  BY DEF CookInit, ContractInit
<1>3. ASSUME NEW c \in Callers PROVE Progress(c)
  BY <1>2 DEF Progress, WritesItsStep, AnswersMean, WarmProgress, StopProgress,
              ChangeProgress, Writing
<1> QED BY <1>1, <1>3 DEF CookInv

THEOREM CookInvariant == CookSpec => []CookInv
<1>1. CookInv /\ [CookNext]_cookVars => CookInv'
  BY CookAssumption, CookStep
<1> QED BY <1>1, CookStart, PTL DEF CookSpec

-----------------------------------------------------------------------------
(* The properties of the cook commands.                                    *)

(* A call's write is applied by Effect alone, and its end is its own step. *)
LEMMA OwnStep ==
  ASSUME CookTypeOK, NEW c \in Callers, [CookNext]_cookVars, ~Spared(c),
         \A d \in Callers : Kept(d) \/ ~((\E o \in Calls : Call(d, o)) \/ Go(d) \/ Effect(d))
  PROVE  (\E o \in Calls : Call(c, o)) \/ Go(c) \/ Effect(c)
<1>1. ~(LateEffect \/ Touched \/ ForgetPorts \/ PortsAnswer \/ UNCHANGED cookVars)
  BY SharedKept
<1>2. PICK d \in Callers : (\E o \in Calls : Call(d, o)) \/ Go(d) \/ Effect(d)
  BY <1>1 DEF CookNext
<1>3. d = c
  BY <1>2 DEF Kept
<1> QED BY <1>2, <1>3

LEMMA OwnAfterInv ==
  ASSUME CookAssumption, CookInv, [CookNext]_cookVars, NEW c \in Callers, ~Spared(c)
  PROVE  (\E o \in Calls : Call(c, o)) \/ Go(c) \/ Effect(c)
BY CallsKeep, OwnStep DEF CookInv

LEMMA AppliedByEffect ==
  ASSUME CookAssumption, CookInv, [CookNext]_cookVars, NEW c \in Callers, Applying(c)
  PROVE  Effect(c) /\ Obey(write[c].act) /\ result[c] = "open"
<1>1. ~Spared(c)
  BY DEF Spared, Applying
<1>2. ~Return(c)
  BY DEF Return, ReturnTrue, ReturnFalse, Returns, Applying
<1>3. ASSUME NEW o, NEW step, Enter(c, o, step) PROVE FALSE
  BY <1>3 DEF Enter, BeginWrite, contract, Applying, CookInv, CookTypeOK
<1>4. ~(\E o \in Calls : Call(c, o)) /\ ~WakeAirfryer(c) /\ ~Ensured(c) /\ ~Waited(c)
  BY <1>3 DEF Call, WakeAirfryer, Ensured, Waited
<1>5. ~Look(c) /\ ~Proceed(c)
  BY <1>3 DEF Look, UpdateWith, StopWith, Proceed, Done
<1>6. Effect(c)
  BY <1>1, <1>2, <1>4, <1>5, OwnAfterInv DEF Go
<1> QED BY <1>6 DEF Effect, TakeEffect, Applying

LEMMA EndedBySelf ==
  ASSUME CookAssumption, CookInv, [CookNext]_cookVars, NEW c \in Callers, Ending(c)
  PROVE  /\ Look(c) \/ Proceed(c)
         /\ UNCHANGED <<dev, program, venus>>
<1>1. ~Spared(c)
  BY DEF Spared, Ending
<1>2. ~Effect(c) /\ ~Return(c)
  BY DEF Effect, Return, Ending, cook
<1>3. ASSUME NEW o, NEW step, Enter(c, o, step), step # "idle" PROVE FALSE
  BY <1>3 DEF Enter, Ending, CookInv, CookTypeOK
<1>4. ~WakeAirfryer(c) /\ ~Ensured(c) /\ ~Waited(c)
  BY <1>3 DEF WakeAirfryer, Ensured, Waited
<1>5. ~(\E o \in Calls : Call(c, o))
  BY DEF Call, Ending
<1>6. Look(c) \/ Proceed(c)
  BY <1>1, <1>2, <1>4, <1>5, OwnAfterInv DEF Go
<1> QED BY <1>6 DEF Look, Proceed, cook

(* Theorem: keep warm heats on the keep warm program: when its start is    *)
(* applied and nobody interfered, its settings are in                      *)
(* (coordinator.py async_keep_warm).                                       *)
THEOREM KeepWarmIsWarm == CookSpec => WarmStartsWarm
<1>1. CookInv /\ [CookNext]_cookVars =>
        \A c \in Callers :
          op[c] = "warm" /\ at[c] = "go" /\ Applying(c) /\ trouble[c] # "other"
          => program' = "warm"
  <2> SUFFICES ASSUME CookInv, [CookNext]_cookVars, NEW c \in Callers,
                      op[c] = "warm", at[c] = "go", Applying(c), trouble[c] # "other"
               PROVE  program' = "warm"
    OBVIOUS
  <2>1. Obey(write[c].act) /\ result[c] = "open"
    BY AppliedByEffect, CookAssumption
  <2>2. write[c].act = "cook"
    BY <2>1 DEF CookInv, Progress, WritesItsStep, Act
  <2>3. program = "warm"
    BY DEF CookInv, Progress, WarmProgress
  <2> QED BY <2>1, <2>2, <2>3 DEF Obey, Programmed
<1> QED BY <1>1, CookInvariant, PTL DEF CookSpec, WarmStartsWarm

(* Theorem: an untroubled stop leaves the appliance not cooking, a Venus   *)
(* too, whatever the other calls do.                                       *)
THEOREM StopEnds == CookSpec => StopEndsCook
<1>1. CookInv /\ [CookNext]_cookVars =>
        \A c \in Callers : op[c] = "stop" /\ Ending(c) => dev \notin {"cooking", "pause"}
  <2> SUFFICES ASSUME CookInv, [CookNext]_cookVars, NEW c \in Callers, op[c] = "stop", Ending(c)
               PROVE  dev \notin {"cooking", "pause"}
    OBVIOUS
  <2>1. Progress(c)
    BY DEF CookInv
  <2>2. CASE Look(c)
    <3>1. PICK status \in Statuses : StopWith(c, status) /\ Trouble({d \in {c} : status # dev})
      BY <2>2 DEF Look
    <3>2. status = dev
      BY <3>1 DEF Trouble, Ending
    <3>3. status = "standby"
      BY <3>1 DEF StopWith, Enter, Ending, CookInv, CookTypeOK
    <3> QED BY <3>2, <3>3
  <2>3. CASE Proceed(c)
    <3>1. at[c] \in Writing /\ result[c] # "open" /\ trouble[c] = "none"
      BY <2>3 DEF Proceed, Awaited, Ending
    <3>2. effect[c] = "applied"
      BY <2>1, <3>1 DEF Progress, AnswersMean
    <3>3. at[c] \in {"hold", "leave"}
      BY <2>1, <3>1 DEF Progress, StopProgress, Writing
    <3>4. at[c] # "hold"
      BY <2>3 DEF Proceed, Enter, Ending, CookInv, CookTypeOK
    <3> QED BY <2>1, <3>1, <3>2, <3>3, <3>4 DEF Progress, StopProgress
  <2> QED BY <2>2, <2>3, EndedBySelf, CookAssumption
<1> QED BY <1>1, CookInvariant, PTL DEF CookSpec, StopEndsCook

(* Theorem: an untroubled change of a running cook is in effect on a Venus *)
(* when the call returns.                                                  *)
THEOREM ChangeInEffect == CookSpec => ChangeReachesCook
<1>1. CookInv /\ [CookNext]_cookVars =>
        \A c \in Callers :
          op[c] \in {"update", "change", "alter"} /\ Ending(c) /\ venus => program = "user"
  <2> SUFFICES ASSUME CookInv, [CookNext]_cookVars, NEW c \in Callers,
                      op[c] \in {"update", "change", "alter"}, Ending(c), venus
               PROVE  program = "user"
    OBVIOUS
  <2>1. Progress(c)
    BY DEF CookInv
  <2>2. CASE Look(c)
    <3>1. trouble[c] = "none" /\ at[c] = "look"
      BY <2>2 DEF Look, Trouble, Ending, CookInv, CookTypeOK
    <3>2. op[c] = "update"
      BY <2>1, <3>1 DEF Progress, ChangeProgress
    <3>3. PICK status \in Statuses : UpdateWith(c, status)
      BY <2>2, <3>2 DEF Look
    <3> QED BY <3>3 DEF UpdateWith, Enter, Ending, CookInv, CookTypeOK
  <2>3. CASE Proceed(c)
    <3>1. at[c] \in Writing /\ result[c] # "open" /\ trouble[c] = "none"
      BY <2>3 DEF Proceed, Awaited, Ending
    <3>2. effect[c] = "applied"
      BY <2>1, <3>1 DEF Progress, AnswersMean
    <3>3. at[c] \in {"hold", "set", "go"}
      BY <2>1, <3>1 DEF Progress, ChangeProgress, Writing
    <3>4. at[c] # "hold"
      <4> SUFFICES ASSUME at[c] = "hold" PROVE FALSE
        OBVIOUS
      <4>1. op[c] = "change"
        BY <2>1, <3>1 DEF Progress, ChangeProgress
      <4> QED BY <2>3, <4>1 DEF Proceed, Enter, Ending, CookInv, CookTypeOK
    <3> QED BY <2>1, <3>1, <3>2, <3>3, <3>4 DEF Progress, ChangeProgress
  <2> QED BY <2>2, <2>3, EndedBySelf, CookAssumption
<1> QED BY <1>1, CookInvariant, PTL DEF CookSpec, ChangeReachesCook

=============================================================================
