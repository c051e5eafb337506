---------------------------- MODULE WriteContract ----------------------------
(***************************************************************************)
(* What a caller of _mqtt_command may rely on, one write at a time: the    *)
(* appliance applies or refuses the write at most once, False means that   *)
(* it has not applied it and will not, and True only that it may have,     *)
(* now or later (an answer that was lost counts as success).               *)
(***************************************************************************)
CONSTANTS Callers, Commands, None

VARIABLES
  write,   \* write[c]: the command c is writing, None when it is not
  result,  \* result[c]: "none" before the first, "open", "true" or "false"
  effect,  \* effect[c]: "none", "applied" or "refused" while it was open
  adrift   \* commands whose write returned, that may still take effect

contract == <<write, result, effect, adrift>>

BeginWrite(c, cmd) ==
  /\ result[c] # "open"
  /\ write' = [write EXCEPT ![c] = cmd]
  /\ result' = [result EXCEPT ![c] = "open"]
  /\ effect' = [effect EXCEPT ![c] = "none"]
  /\ UNCHANGED adrift

TakeEffect(c) ==
  /\ result[c] = "open" /\ effect[c] = "none"
  /\ \E e \in {"applied", "refused"} : effect' = [effect EXCEPT ![c] = e]
  /\ UNCHANGED <<write, result, adrift>>

Returns(c, value) ==
  /\ result[c] = "open" /\ result' = [result EXCEPT ![c] = value]
  /\ write' = [write EXCEPT ![c] = None]
  /\ UNCHANGED effect

(* A write that returns unanswered is left adrift.                         *)
Unsettled(c) == IF effect[c] = "none" THEN {write[c]} ELSE {}

ReturnTrue(c) ==
  /\ Returns(c, "true")
  /\ adrift' \in SUBSET (adrift \cup Unsettled(c))

ReturnFalse(c) ==
  /\ effect[c] # "applied"
  /\ Returns(c, "false")
  /\ UNCHANGED adrift

Settle == adrift' \in SUBSET adrift /\ UNCHANGED <<write, result, effect>>

ContractInit ==
  /\ write = [c \in Callers |-> None]
  /\ result = [c \in Callers |-> "none"]
  /\ effect = [c \in Callers |-> "none"]
  /\ adrift = {}

ContractNext ==
  \/ \E c \in Callers :
       \/ \E cmd \in Commands : BeginWrite(c, cmd)
       \/ TakeEffect(c) \/ ReturnTrue(c) \/ ReturnFalse(c)
  \/ Settle

ContractSpec == ContractInit /\ [][ContractNext]_contract

=============================================================================
