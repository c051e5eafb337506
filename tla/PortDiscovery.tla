--------------------------- MODULE PortDiscovery ---------------------------
(* How the properties of a FUSION appliance become entities. The paho       *)
(* thread learns the ports, counts those that reported, merges what they    *)
(* say into its state and hands a snapshot to the event loop; there the     *)
(* coordinator looks for properties it has not seen and the platforms       *)
(* create entities for them. Setup waits for the ports, prunes entities     *)
(* that nothing seems to report and sets up the platforms, in between.      *)
(*                                                                          *)
(* The paho thread and the event loop share `discovered`, `reported` and    *)
(* the inbox of the loop. `asked` is the queue that PortQueue has in full.  *)
(* Left out: values (a property is known or not), the ports that only a     *)
(* busy answer named (they end the wait of setup, which a deadline may end  *)
(* at any time), and unload.                                                *)
EXTENDS Naturals, Sequences

CONSTANTS
  Ports,       \* the read ports of the appliance
  Props,       \* properties the integration knows
  Holds,       \* Holds[p]: the properties port p of this appliance has
  Platforms,   \* sensor, switch, ...
  Reads,       \* Reads[f]: the properties platform f has entities for
  Prunable,    \* the platforms _cleanup_stale_entities looks at
  Basics,      \* what any state has: power, connection
  MaxInbox     \* bound: snapshots on their way to the event loop

ASSUME DiscoveryAssumption ==
  /\ Ports # {} /\ Basics \notin Props
  /\ Holds \in [Ports -> SUBSET Props]
  /\ Reads \in [Platforms -> SUBSET Props]
  /\ Prunable \subseteq Platforms
  /\ MaxInbox \in Nat \ {0}

VARIABLES
  up,          \* the link; the appliance may be asleep behind it
  askedAll,    \* a getAllPorts is on its way or before a sleeping appliance
  asked,       \* ports queued for getPort or in flight
  discovered,  \* _discovered_ports
  reported,    \* _reported_ports
  hand,        \* properties the paho thread is about to merge
  merged,      \* what PhilipsMQTTClient._state has; {}: None
  inbox,       \* snapshots handed over with call_soon_threadsafe
  state,       \* what the coordinator's _state has; {}: None
  seen,        \* _seen_properties
  setup,       \* "waiting" for the ports or setting up the "platforms"
  registered,  \* platforms that are set up and have registered a callback
  entities,    \* entities[f]: the properties with an entity of f
  registry,    \* registry[f]: those with an entry in the entity registry
  due,         \* FUSION_HEARTBEAT_INTERVAL has passed since _last_port_request
  job          \* refresh_port_data is queued for the executor

wire == <<up, askedAll, asked, discovered, reported>>
paho == <<hand, merged>>
loop == <<state, seen, entities>>
asking == <<due, job>>
vars == <<wire, paho, inbox, loop, setup, registered, registry, asking>>

States == SUBSET (Props \cup {Basics})

----------------------------------------------------------------------------
(* The paho thread. _handle_ncp_response has two sections of the lock: the  *)
(* first counts the port as reported, the second merges its properties.     *)

Idle == up /\ hand = {}

AnswerAllPorts ==
  /\ Idle /\ askedAll /\ askedAll' = FALSE
  /\ discovered' = Ports /\ reported' = {} /\ asked' = Ports
  /\ UNCHANGED <<up, paho, inbox, loop, setup, registered, registry, asking>>

(* The port says what it has: all of it in an answer to getPort, what has   *)
(* changed in an event. Either counts.                                      *)
Report(p, S) ==
  /\ reported' = reported \cup {p}
  /\ hand' = S
  /\ UNCHANGED <<up, askedAll, discovered, merged, inbox, loop, setup,
                 registered, registry, asking>>

AnswerPort(p) ==
  Idle /\ p \in asked /\ asked' = asked \ {p} /\ Report(p, Holds[p])

Event(p) ==
  /\ Idle /\ UNCHANGED asked
  /\ \E S \in SUBSET Holds[p] \ {{}} : Report(p, S)

(* Busy once too often, an answer lost, or a sleeping appliance.            *)
ReadFails(p) ==
  /\ p \in asked /\ asked' = asked \ {p}
  /\ UNCHANGED <<up, askedAll, discovered, reported, paho, inbox, loop, setup,
                 registered, registry, asking>>

HandOver(s) == Len(inbox) < MaxInbox /\ inbox' = Append(inbox, s)

Merge ==
  /\ hand # {} /\ hand' = {}
  /\ merged' = merged \cup {Basics} \cup hand
  /\ HandOver(merged')
  /\ UNCHANGED <<wire, loop, setup, registered, registry, asking>>

(* The shadow comes from the cloud, whether the appliance sleeps or not.    *)
Shadow ==
  /\ Idle /\ merged' = merged \cup {Basics} /\ HandOver(merged')
  /\ UNCHANGED <<wire, hand, loop, setup, registered, registry, asking>>

(* getAllPorts to an appliance that is asleep, or lost.                     *)
Ignored ==
  /\ askedAll /\ askedAll' = FALSE
  /\ UNCHANGED <<up, asked, discovered, reported, paho, inbox, loop, setup,
                 registered, registry, asking>>

Drop ==
  /\ up /\ up' = FALSE /\ askedAll' = FALSE
  /\ UNCHANGED <<asked, discovered, reported, paho, inbox, loop, setup,
                 registered, registry, asking>>

(* Mutation: a reconnect that starts from an empty state.                   *)
MergedForgotten == {}
MergedKept == merged

(* loop_stop() joins the old thread; only _do_reconnect forgets the ports,  *)
(* not the backoff loop. on_connect asks for all ports.                     *)
Reconnect ==
  /\ hand = {} /\ up' = TRUE /\ askedAll' = TRUE /\ asked' = {}
  /\ discovered' \in {discovered, {}}
  /\ merged' = MergedKept
  /\ UNCHANGED <<reported, hand, inbox, loop, setup, registered, registry,
                 asking>>

(* refresh_port_data, in an executor thread.                                *)
RunJob ==
  /\ job /\ job' = FALSE
  /\ asked' = IF up THEN asked \cup discovered ELSE asked
  /\ askedAll' = (askedAll \/ (up /\ discovered = {}))
  /\ UNCHANGED <<up, discovered, reported, paho, inbox, loop, setup,
                 registered, registry, due>>

Paho ==
  \/ AnswerAllPorts \/ Merge \/ Shadow
  \/ \E p \in Ports : AnswerPort(p) \/ Event(p)
Network == Ignored \/ Drop \/ Reconnect \/ \E p \in Ports : ReadFails(p)

----------------------------------------------------------------------------
(* The event loop.                                                          *)

New(s) == (s \cap Props) \ seen

(* Mutation: one platform claims a property for itself.                     *)
Claimed(f, q) ==
  /\ f \in registered /\ q \in Reads[f]
  /\ f = CHOOSE g \in registered : q \in Reads[g]
(* Every callback is given every new property and takes those it reads.     *)
Offered(f, q) == f \in registered /\ q \in Reads[f]

Created(new) ==
  [f \in Platforms |-> entities[f] \cup {q \in new : Offered(f, q)}]

(* _notify_new_properties: whoever claims them, they are seen.              *)
Notify(new) ==
  /\ entities' = Created(new)
  /\ registry' = [f \in Platforms |-> registry[f] \cup entities'[f]]
  /\ seen' = seen \cup new

(* Mutation: only the heartbeat asks again.                                 *)
HeartbeatAsks == FALSE
(* _maybe_request_ncp_ports; a task, then an executor job.                  *)
Asks == up /\ discovered = {} /\ due

(* update_from_mqtt, one callback of the event loop.                        *)
Receive ==
  /\ inbox # <<>> /\ inbox' = Tail(inbox)
  /\ state' = Head(inbox)
  /\ Notify(New(state'))
  /\ due' = (due /\ ~Asks) /\ job' = (job \/ Asks)
  /\ UNCHANGED <<wire, paho, setup, registered>>

(* The heartbeat runs once some entity listens.                             *)
Heartbeat ==
  /\ registered # {} /\ up /\ due' = FALSE /\ job' = TRUE
  /\ UNCHANGED <<wire, paho, inbox, loop, setup, registered, registry>>

TimePasses ==
  /\ due' = TRUE
  /\ UNCHANGED <<wire, paho, inbox, loop, setup, registered, registry, job>>

(* While it waits, setup asks a silent appliance again.                     *)
SetupAsks ==
  /\ setup = "waiting" /\ discovered = {} /\ job' = TRUE
  /\ UNCHANGED <<wire, paho, inbox, loop, setup, registered, registry, due>>

Complete == discovered # {} /\ discovered \subseteq reported
Stale(f) ==
  {q \in registry[f] : f \in Prunable /\ state # {} /\ q \notin state}

(* The wait ends when all ports have replied or at its deadline; then, in   *)
(* the same turn of the loop, setup prunes.                                 *)
EndWait ==
  /\ setup = "waiting" /\ setup' = "platforms"
  /\ registry' = [f \in Platforms |->
                    IF Complete THEN registry[f] \ Stale(f) ELSE registry[f]]
  /\ UNCHANGED <<wire, paho, inbox, loop, registered, asking>>

(* async_setup_entry of a platform: entities for what is there, a callback  *)
(* for what will come.                                                      *)
SetupPlatform(f) ==
  /\ setup = "platforms" /\ f \notin registered
  /\ registered' = registered \cup {f}
  /\ LET found == state \cap Reads[f] IN
       /\ entities' = [entities EXCEPT ![f] = @ \cup found]
       /\ registry' = [registry EXCEPT ![f] = @ \cup found]
       /\ seen' = seen \cup found
  /\ UNCHANGED <<wire, paho, inbox, state, setup, asking>>

Loop ==
  \/ Receive \/ Heartbeat \/ SetupAsks \/ EndWait
  \/ \E f \in Platforms : SetupPlatform(f)

----------------------------------------------------------------------------
(* connect() has returned, the first refresh has asked for the ports; the   *)
(* registry has the entities of earlier runs, stale ones among them.        *)
Init ==
  /\ up = TRUE /\ askedAll = TRUE /\ asked = {}
  /\ discovered = {} /\ reported = {}
  /\ hand = {} /\ merged = {} /\ inbox = <<>>
  /\ state = {} /\ seen = {} /\ setup = "waiting" /\ registered = {}
  /\ entities = [f \in Platforms |-> {}] /\ registry = Reads
  /\ due = FALSE /\ job = FALSE

Next == Paho \/ Network \/ RunJob \/ TimePasses \/ Loop

Spec == Init /\ [][Next]_vars

(* The loop runs on: a push or a heartbeat, whichever comes; each push      *)
(* restarts the timer of the heartbeat, so neither is fair by itself.       *)
Fairness ==
  /\ WF_vars(Receive \/ Heartbeat) /\ WF_vars(TimePasses) /\ WF_vars(RunJob)
  /\ WF_vars(EndWait)
  /\ \A f \in Platforms : WF_vars(SetupPlatform(f))

FairSpec == Spec /\ Fairness

----------------------------------------------------------------------------
TypeOK ==
  /\ up \in BOOLEAN /\ askedAll \in BOOLEAN /\ due \in BOOLEAN /\ job \in BOOLEAN
  /\ asked \subseteq Ports /\ discovered \subseteq Ports /\ reported \subseteq Ports
  /\ hand \subseteq Props /\ merged \in States
  /\ inbox \in Seq(States) /\ Len(inbox) <= MaxInbox
  /\ state \in States /\ seen \subseteq state
  /\ setup \in {"waiting", "platforms"} /\ registered \subseteq Platforms
  /\ entities \in [Platforms -> SUBSET Props]
  /\ registry \in [Platforms -> SUBSET Props]
  /\ \A f \in Platforms : entities[f] \subseteq Reads[f] \cap registry[f]

(* A property that the coordinator knows has its entity on every platform   *)
(* that is set up and reads it, whether the property or the platform came   *)
(* first and whoever else claimed it (sensor.py:88, coordinator.py:2196).   *)
EveryPropertyShown ==
  \A f \in registered : state \cap Reads[f] \subseteq entities[f]

(* No snapshot takes a property away again, not after a reconnect either:   *)
(* an entity that has appeared does not lose its value (mqtt_api.py:1262).  *)
PropertiesStay == [][state \subseteq state']_state

(* An appliance that has not named its ports is asked again, although a     *)
(* chatty one keeps the heartbeat from running (coordinator.py:293).        *)
SilentIsAskedAgain ==
  up /\ discovered = {} /\ ~askedAll ~> askedAll \/ discovered # {} \/ ~up

----------------------------------------------------------------------------
(* What the code's own comments say and the code does not keep.             *)

(* "Only prune stale entities once every port has reported [...] running    *)
(* cleanup on either would wrongly remove valid FUSION entities for         *)
(* properties that simply have not arrived": what is pruned is nothing that *)
(* a port of the appliance has, even if all it said so far has arrived.     *)
PruneSparesReported ==
  [][inbox = <<>> /\ hand = {} =>
       \A f \in Platforms, p \in Ports :
         (registry[f] \ registry'[f]) \cap Holds[p] = {}]_registry

=============================================================================
