----------------------------- MODULE FusionCook -----------------------------
(***************************************************************************)
(* The cook commands of a FUSION airfryer (coordinator.py): start, pause,  *)
(* stop, settings, keep warm and the change of a running cook, each a      *)
(* sequence of NCP writes with waits in between, while the user touches    *)
(* the appliance, its status reaches the coordinator late, and a refresh   *)
(* of the link forgets which ports it has.                                 *)
(*                                                                         *)
(* A write is what WriteContract says of it; NcpWrite implements that. A   *)
(* SPECTRE and a Venus 2 (HD9880) are modelled: the latter hides its       *)
(* control port in standby and goes through pause to be stopped or         *)
(* changed.                                                                *)
(***************************************************************************)
EXTENDS WriteContract, Naturals, FiniteSets

CONSTANTS
  Calls,     \* the operations that are called
  MaxAdrift  \* bound: commands of former writes still on their way

Statuses == {"standby", "idle", "setting", "cooking", "pause"}
Acts == {"wake", "set", "setwarm", "values", "pause", "standby", "menu", "cook"}

ASSUME CookAssumption ==
  /\ Commands = [act : Acts, addressed : BOOLEAN]
  /\ Calls \subseteq {"start", "pause", "stop", "settings", "warm", "update"}

VARIABLES
  venus,    \* the appliance is a Venus 2, which its model name says
  ports,    \* what getAllPorts named: "none", "some" or "control" too
  dev,      \* the status of the appliance ("idle" is mainmenu on a Venus)
  program,  \* what it cooks or would cook: "old", "user" or "warm"
  op,       \* op[c]: the call of c, "none" when there is none; "change" is
            \* an update that found a Venus cooking, "alter" one that sends
            \* the values alone
  at,       \* at[c]: the step it is at
  trouble   \* history, trouble[c]: during the call a write was "refused"; or
            \* "other": somebody else moved the appliance, the status was
            \* old, or a write was not answered

cook == <<venus, dev, program, ports>>
cookVars == <<write, result, effect, adrift, venus, ports, dev, program, op, at,
          trouble>>

Writing == {"wake", "set", "hold", "leave", "go"}
Steps == Writing \cup {"idle", "ensure", "wanted", "look", "awaken", "await"}

Trouble(cs) == trouble' = [c \in Callers |-> IF c \in cs THEN "other" ELSE trouble[c]]
Refused(c) == trouble' = [trouble EXCEPT ![c] = IF @ = "none" THEN "refused" ELSE @]

-----------------------------------------------------------------------------
(* What the appliance does with a command it accepts. A Venus that cooks   *)
(* accepts and ignores new values, the menu and standby. A command to a    *)
(* port the appliance does not have is refused (port_error), and settings  *)
(* that ask for the setting status are while it cooks.                     *)

Addressed == ~venus \/ ports = "control"

Accepts(cmd) ==
  cmd.addressed /\ (dev = "cooking" => cmd.act \notin {"set", "setwarm"})

Unmoved == venus /\ dev = "cooking"

Reading(act) ==
  CASE act = "cook" -> "cooking"
    [] act = "pause" /\ dev = "cooking" -> "pause"
    [] act \in {"set", "setwarm"} -> "setting"
    [] act \in {"wake", "menu"} /\ ~Unmoved -> "idle"
    [] act = "standby" /\ ~Unmoved -> "standby"
    [] OTHER -> dev

Programmed(act) ==
  CASE act \in {"set", "values"} /\ ~Unmoved -> "user"
    [] act = "setwarm" -> "warm"
    [] OTHER -> program

Obey(act) == dev' = Reading(act) /\ program' = Programmed(act)

Effect(c) ==
  /\ TakeEffect(c)
  /\ IF effect'[c] = "applied"
       THEN Accepts(write[c]) /\ Obey(write[c].act) /\ Trouble(Callers \ {c})
       ELSE UNCHANGED <<dev, program>> /\ Refused(c)
  /\ UNCHANGED <<venus, ports, op, at>>

LateEffect ==
  /\ Settle
  /\ \E cmd \in adrift : Accepts(cmd) /\ Obey(cmd.act)
  /\ Trouble(Callers)
  /\ UNCHANGED <<venus, ports, op, at>>

(* The user at the appliance, or its own program.                          *)
Touched ==
  /\ dev' \in Statuses \ {dev} /\ program' \in {program, "old"}
  /\ Trouble(Callers)
  /\ UNCHANGED <<contract, venus, ports, op, at>>

-----------------------------------------------------------------------------
(* The link: _do_reconnect clears the discovered ports; an answer to       *)
(* getAllPorts, which the CONNACK, a wake and the heartbeat ask, names     *)
(* those the appliance shows.                                              *)

ForgetPorts ==
  /\ ports # "none" /\ ports' = "none"
  /\ UNCHANGED <<contract, venus, dev, program, op, at, trouble>>

Shown == IF venus /\ dev = "standby" THEN "some" ELSE "control"

PortsAnswer ==
  /\ ports # Shown /\ ports' = Shown
  /\ UNCHANGED <<contract, venus, dev, program, op, at, trouble>>

-----------------------------------------------------------------------------
(* The calls.                                                              *)

(* is_venus: what the discovered ports say.                                *)
LooksVenus == venus /\ ports # "none"

Act(o, step) ==
  CASE step = "wake" -> "wake"
    [] step = "hold" -> "pause"
    [] step = "go" -> "cook"
    [] step = "leave" -> IF venus THEN "menu" ELSE "standby"
    [] step = "set" /\ o = "warm" -> "setwarm"
    [] step = "set" /\ o \in {"change", "alter"} -> "values"
    [] OTHER -> "set"

(* c, doing o, goes on with a step; a writing step starts its write.       *)
Enter(c, o, step) ==
  /\ op' = [op EXCEPT ![c] = o]
  /\ at' = [at EXCEPT ![c] = step]
  /\ IF step \in Writing
       THEN /\ BeginWrite(c, [act |-> Act(o, step), addressed |-> Addressed])
       ELSE UNCHANGED contract

Done(c) == Enter(c, "none", "idle")

Call(c, o) ==
  /\ at[c] = "idle"
  /\ Enter(c, o, CASE o = "pause" -> "hold"
                   [] o \in {"stop", "update"} -> "look"
                   [] OTHER -> "ensure")
  /\ trouble' = [trouble EXCEPT ![c] =
                   IF \E d \in Callers : at[d] # "idle" THEN "other" ELSE "none"]
  /\ UNCHANGED cook

(* _ensure_fusion_control_port: when no control port is known the shadow    *)
(* powers the appliance on, which may be lost, and the ports are asked for.*)
WakeAirfryer(c) ==
  /\ at[c] = "ensure" /\ ports # "control"
  /\ Enter(c, op[c], "wanted")
  /\ dev' \in {dev, IF dev = "standby" THEN "idle" ELSE dev}
  /\ UNCHANGED <<venus, ports, program, trouble>>

(* It returns when one is known, or after 10 s; the callers go on either   *)
(* way.                                                                    *)
Ensured(c) ==
  /\ at[c] = "wanted" \/ (at[c] = "ensure" /\ ports = "control")
  /\ Enter(c, op[c], IF op[c] = "start" THEN "go" ELSE "look")
  /\ UNCHANGED <<cook, trouble>>

(* Mutation: a Venus is changed while it cooks.                            *)
NeverHeld(seen) == FALSE

MidCook(seen) == LooksVenus /\ seen = "cooking"

(* How an update goes about it.                                            *)
UpdateWith(c, seen) ==
  IF MidCook(seen) THEN Enter(c, "change", "hold")
  ELSE Enter(c, IF LooksVenus \/ seen = "cooking" THEN "alter" ELSE "update", "set")

(* Mutation: a Venus is sent to standby as a SPECTRE is.                   *)
StopsAtOnce == TRUE

Leaves == ~venus

StopWith(c, seen) ==
  IF Leaves THEN Enter(c, "stop", "leave")
  ELSE IF seen = "standby" THEN Done(c) ELSE Enter(c, "stop", "hold")

(* The step the status decides on. The one in the coordinator's state may  *)
(* be any, since pushes are late and get lost.                             *)
Look(c) ==
  /\ at[c] = "look"
  /\ \E seen \in Statuses :
       /\ CASE op[c] = "update" -> UpdateWith(c, seen)
            [] op[c] = "stop" -> StopWith(c, seen)
            [] OTHER -> Enter(c, op[c], IF seen = "standby" THEN "wake" ELSE "set")
       /\ Trouble({d \in {c} : seen # dev})
  /\ UNCHANGED cook

(* What will be refused anyway need not be kept adrift.                    *)
FewAdrift ==
  /\ Cardinality(adrift') <= MaxAdrift
  /\ \A cmd \in adrift' : cmd.addressed

(* _mqtt_command returns. A True that no effect backs is silence.          *)
Return(c) ==
  /\ \/ ReturnTrue(c) /\ FewAdrift /\ Trouble({d \in {c} : effect[d] # "applied"})
     \/ ReturnFalse(c) /\ Refused(c)
  /\ UNCHANGED <<cook, op, at>>

(* Mutation: keep warm goes on after a refusal.                            *)
WarmAlways(c) == TRUE

WarmAccepted(c) == result[c] = "true"

(* Mutation: the cook is resumed only when the change was accepted.        *)
ResumeIfApplied(c) == result[c] = "true"

Resumes(c) == op[c] = "change"

Awaited(c) == result[c] # "open"

(* What follows a write that has returned.                                 *)
Proceed(c) ==
  /\ at[c] \in Writing /\ Awaited(c)
  /\ CASE at[c] = "wake" -> Enter(c, op[c], "awaken")
       [] at[c] = "hold" /\ op[c] = "stop" -> Enter(c, "stop", "leave")
       [] at[c] = "hold" /\ op[c] = "change" -> Enter(c, "change", "set")
       [] at[c] = "set" /\ op[c] = "warm" /\ WarmAccepted(c) -> Enter(c, "warm", "await")
       [] at[c] = "set" /\ op[c] = "change" /\ Resumes(c) -> Enter(c, "change", "go")
       [] OTHER -> Done(c)
  /\ UNCHANGED <<cook, trouble>>

(* Mutation: there is no deadline.                                         *)
NoDeadline(c) == dev = IF at[c] = "awaken" THEN "idle" ELSE "setting"

(* _wait_for_status returns within 10 s, reached or not.                   *)
Over(c) == TRUE

Waited(c) ==
  /\ Over(c)
  /\ \/ at[c] = "awaken" /\ Enter(c, op[c], "set")
     \/ at[c] = "await" /\ Enter(c, op[c], "go")
  /\ UNCHANGED <<cook, trouble>>

Go(c) == WakeAirfryer(c) \/ Ensured(c) \/ Look(c) \/ Return(c) \/ Proceed(c) \/ Waited(c)

-----------------------------------------------------------------------------
CookInit ==
  /\ ContractInit
  /\ venus \in BOOLEAN /\ dev \in {"standby", "idle"}
  /\ ports = Shown /\ program = "old"
  /\ op = [c \in Callers |-> "none"] /\ at = [c \in Callers |-> "idle"]
  /\ trouble = [c \in Callers |-> "none"]

CookNext ==
  \/ \E c \in Callers : (\E o \in Calls : Call(c, o)) \/ Go(c) \/ Effect(c)
  \/ LateEffect \/ Touched
  \/ ForgetPorts \/ PortsAnswer

CookSpec == CookInit /\ [][CookNext]_cookVars

(* The event loop and the threads go on with a call, and a write returns   *)
(* (WriteReturns of NcpWrite). Nothing obliges the appliance to do anything.*)
FairCookSpec == CookSpec /\ \A c \in Callers : WF_cookVars(Go(c))

-----------------------------------------------------------------------------
(* Every variable has its type, and only a call that is at a writing step  *)
(* has a write open (_mqtt_command is awaited).                            *)
CookTypeOK ==
  /\ write \in [Callers -> Commands \cup {None}]
  /\ result \in [Callers -> {"none", "open", "true", "false"}]
  /\ effect \in [Callers -> {"none", "applied", "refused"}]
  /\ adrift \subseteq Commands
  /\ venus \in BOOLEAN /\ ports \in {"none", "some", "control"}
  /\ dev \in Statuses /\ program \in {"old", "user", "warm"}
  /\ op \in [Callers -> {"none", "start", "pause", "stop", "settings", "warm",
                         "update", "change", "alter"}]
  /\ at \in [Callers -> Steps]
  /\ trouble \in [Callers -> {"none", "refused", "other"}]
  /\ \A c \in Callers : result[c] = "open" => at[c] \in Writing

Applying(c) == effect[c] # "applied" /\ effect'[c] = "applied"
Ending(c) == at[c] # "idle" /\ at'[c] = "idle" /\ trouble'[c] = "none"

(* Keep warm heats on the keep warm program: when its start is applied,    *)
(* every write was answered and nobody interfered, its settings are in.    *)
WarmStartsWarm ==
  [][\A c \in Callers :
       op[c] = "warm" /\ at[c] = "go" /\ Applying(c) /\ trouble[c] # "other"
       => program' = "warm"]_cookVars

(* A stop that went through untroubled leaves the appliance not cooking: a *)
(* Venus ignores what ends the cook of a SPECTRE.                          *)
StopEndsCook ==
  [][\A c \in Callers :
       op[c] = "stop" /\ Ending(c) => dev \notin {"cooking", "pause"}]_cookVars

(* A change of a running cook that went through untroubled is in effect.   *)
ChangeReachesCook ==
  [][\A c \in Callers :
       op[c] \in {"update", "change", "alter"} /\ Ending(c) /\ venus => program = "user"]_cookVars

(* A cook that a change has paused is sent its resume, refusals and        *)
(* unanswered writes notwithstanding.                                      *)
ResumeAttempted ==
  \A c \in Callers :
    op[c] = "change" /\ at[c] = "hold" ~> op[c] = "change" /\ at[c] = "go"

(* Every call returns: no wait for the appliance is without a deadline.    *)
(* (With the types: a write that is open belongs to a step that writes.)   *)
CallsReturn ==
  []CookTypeOK /\ \A c \in Callers : []<>(at[c] = "idle")

=============================================================================
