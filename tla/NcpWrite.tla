------------------------------ MODULE NcpWrite ------------------------------
(***************************************************************************)
(* Writes to the NCP of a FUSION appliance (send_port_command_and_wait and *)
(* _send_and_wait in mqtt_api.py, _mqtt_command in coordinator.py).        *)
(*                                                                         *)
(* A caller is a service call whose write runs on an executor thread. Its  *)
(* attempts carry fresh correlation ids; the paho thread releases the      *)
(* caller whose cid an answer echoes. Commands and answers can be lost and *)
(* overtake each other. A cid is recycled once nothing refers to it.       *)
(***************************************************************************)
EXTENDS Naturals

CONSTANTS
  Callers,    \* service calls
  Commands,   \* what they write
  Cids,       \* correlation ids
  None,       \* no command, no cid, no answer, no caller
  RetryLimit  \* _WRITE_BUSY_RETRY_LIMIT

ASSUME WriteAssumption ==
  /\ None \notin Commands \cup Cids \cup Callers \cup {"ok", "busy", "error"}
  /\ RetryLimit \in Nat

VARIABLES
  up,        \* the link is up: _client is set and _connected
  stopping,  \* self._stop
  at,        \* at[c]: where c is in send_port_command_and_wait
  write,     \* write[c]: the command it is writing, None when it is not
  cid,       \* cid[c]: its key in self._pending_writes, None when not there
  heard,     \* heard[c]: the status stored under that key
  retries,   \* retries[c]: the local variable
  result,    \* result[c]: what _mqtt_command returned, "open" before that
  toNcp,     \* commands on their way to the appliance
  answers,   \* answers on their way back
  effect,    \* history: what the appliance did with the write of c
  lateSends  \* history: attempts of this write published after stop, up to 2

vars == <<up, stopping, at, write, cid, heard, retries, result, toNcp, answers,
          effect, lateSends>>

session == <<up, stopping>>

(* An answer's status: 0, busy(1), or any other code.                      *)
Statuses == {"ok", "busy", "error"}

(* `by` is the caller whose open write the command belongs to.             *)
CommandsSent == [cid : Cids, cmd : Commands, by : Callers \cup {None}]
Answers == [cid : Cids, status : Statuses]

Unused(k) ==
  /\ \A c \in Callers : cid[c] # k
  /\ \A m \in toNcp \cup answers : m.cid # k

-----------------------------------------------------------------------------
(* The caller.                                                             *)

Begin(c, cmd) ==
  /\ at[c] = "idle" /\ at' = [at EXCEPT ![c] = "send"]
  /\ write' = [write EXCEPT ![c] = cmd]
  /\ result' = [result EXCEPT ![c] = "open"]
  /\ effect' = [effect EXCEPT ![c] = "none"]
  /\ lateSends' = [lateSends EXCEPT ![c] = 0]
  /\ UNCHANGED <<session, cid, heard, retries, toNcp, answers>>

(* _send_and_wait registers the cid, then publishes.                       *)
Send(c) ==
  /\ at[c] = "send" /\ up
  /\ at' = [at EXCEPT ![c] = "wait"]
  /\ \E k \in Cids : Unused(k)
  /\ LET k == CHOOSE k \in Cids : Unused(k) IN
       /\ cid' = [cid EXCEPT ![c] = k]
       /\ toNcp' = toNcp \cup {[cid |-> k, cmd |-> write[c], by |-> c]}
  /\ lateSends' = [lateSends EXCEPT ![c] = IF stopping /\ @ < 2 THEN @ + 1 ELSE @]
  /\ UNCHANGED <<session, write, heard, retries, result, answers, effect>>

(* What the finally clause leaves behind.                                  *)
Unregister(c) ==
  /\ cid' = [cid EXCEPT ![c] = None]
  /\ heard' = [heard EXCEPT ![c] = None]

Disowned(c) ==
  {[cid |-> m.cid, cmd |-> m.cmd, by |-> IF m.by = c THEN None ELSE m.by] : m \in toNcp}

Return(c, value) ==
  /\ at' = [at EXCEPT ![c] = "idle"]
  /\ result' = [result EXCEPT ![c] = value]
  /\ write' = [write EXCEPT ![c] = None]
  /\ retries' = [retries EXCEPT ![c] = 0]
  /\ toNcp' = Disowned(c)
  /\ Unregister(c)
  /\ UNCHANGED <<session, answers, effect, lateSends>>

SendOffline(c) == at[c] = "send" /\ ~up /\ Return(c, "false")

RetryAllowed(c) == retries[c] # RetryLimit

(* Sleep before the next attempt.                                          *)
Breathe(c) ==
  /\ at' = [at EXCEPT ![c] = "breathe"]
  /\ retries' = [retries EXCEPT ![c] = @ + 1]
  /\ Unregister(c)
  /\ UNCHANGED <<session, write, result, toNcp, answers, effect, lateSends>>

Waiting(c, status) == at[c] = "wait" /\ heard[c] = status

HeardOk(c) == Waiting(c, "ok") /\ Return(c, "true")
HeardError(c) == Waiting(c, "error") /\ Return(c, "false")
HeardBusy(c) == Waiting(c, "busy") /\ RetryAllowed(c) /\ Breathe(c)
GaveUp(c) == Waiting(c, "busy") /\ ~RetryAllowed(c) /\ Return(c, "false")

(* Mutations: no answer is taken for a refusal; is tried again; is waited  *)
(* for without a limit.                                                    *)
SilenceFails(c) == Waiting(c, None) /\ Return(c, "false")
RetrySilence(c) == Waiting(c, None) /\ RetryAllowed(c) /\ Breathe(c)
WaitForever(c) == FALSE

(* event.wait(timeout) ends without an answer: counts as sent.             *)
TimedOut(c) == Waiting(c, None) /\ Return(c, "true")

(* Mutation: the breather is a plain sleep.                                *)
NotSilenced == FALSE

Silenced == stopping

SendAgain(c) ==
  /\ at[c] = "breathe" /\ ~Silenced
  /\ at' = [at EXCEPT ![c] = "send"]
  /\ UNCHANGED <<session, write, cid, heard, retries, result, toNcp, answers,
                 effect, lateSends>>

StopWakes(c) == at[c] = "breathe" /\ Silenced /\ Return(c, "false")

Caller(c) ==
  \/ Send(c) \/ SendOffline(c)
  \/ HeardOk(c) \/ HeardError(c) \/ HeardBusy(c) \/ GaveUp(c) \/ TimedOut(c)
  \/ SendAgain(c) \/ StopWakes(c)

-----------------------------------------------------------------------------
(* The paho thread: _handle_ncp_response up to the release of the write.   *)

(* Mutation: an answer releases whoever waits.                             *)
AnyWaiting(c, a) == cid[c] # None

Addressed(c, a) == cid[c] = a.cid

Deliver(a) ==
  /\ up
  /\ answers' = answers \ {a}
  /\ heard' = [c \in Callers |-> IF Addressed(c, a) THEN a.status ELSE heard[c]]
  /\ UNCHANGED <<session, at, write, cid, retries, result, toNcp, effect, lateSends>>

-----------------------------------------------------------------------------
(* The appliance and the network.                                          *)

Answer(m, status) ==
  /\ toNcp' = toNcp \ {m}
  /\ answers' = answers \cup {[cid |-> m.cid, status |-> status]}

Marked(m, what) == [c \in Callers |-> IF c = m.by THEN what ELSE effect[c]]

Apply(m) ==
  /\ Answer(m, "ok") /\ effect' = Marked(m, "applied")
  /\ UNCHANGED <<session, at, write, cid, heard, retries, result, lateSends>>

Refuse(m) ==
  /\ Answer(m, "error") /\ effect' = Marked(m, "refused")
  /\ UNCHANGED <<session, at, write, cid, heard, retries, result, lateSends>>

AnswerBusy(m) ==
  /\ Answer(m, "busy")
  /\ UNCHANGED <<session, at, write, cid, heard, retries, result, effect, lateSends>>

LoseCommand(m) ==
  /\ toNcp' = toNcp \ {m}
  /\ UNCHANGED <<session, at, write, cid, heard, retries, result, answers, effect,
                 lateSends>>

LoseAnswer(a) ==
  /\ answers' = answers \ {a}
  /\ UNCHANGED <<session, at, write, cid, heard, retries, result, toNcp, effect,
                 lateSends>>

Appliance(m) == Apply(m) \/ Refuse(m) \/ AnswerBusy(m) \/ LoseCommand(m)

Link ==
  /\ up' \in BOOLEAN /\ stopping' \in BOOLEAN
  /\ stopping => stopping' /\ (up' => up)
  /\ session' # session
  /\ UNCHANGED <<at, write, cid, heard, retries, result, toNcp, answers, effect,
                 lateSends>>

-----------------------------------------------------------------------------
Init ==
  /\ up = TRUE /\ stopping = FALSE
  /\ at = [c \in Callers |-> "idle"]
  /\ write = [c \in Callers |-> None]
  /\ cid = [c \in Callers |-> None] /\ heard = [c \in Callers |-> None]
  /\ retries = [c \in Callers |-> 0]
  /\ result = [c \in Callers |-> "none"] /\ effect = [c \in Callers |-> "none"]
  /\ toNcp = {} /\ answers = {}
  /\ lateSends = [c \in Callers |-> 0]

Next ==
  \/ \E c \in Callers : (\E cmd \in Commands : Begin(c, cmd)) \/ Caller(c)
  \/ \E m \in toNcp : Appliance(m)
  \/ \E a \in answers : Deliver(a) \/ LoseAnswer(a)
  \/ Link

Spec == Init /\ [][Next]_vars

(* Threads run and time passes; a message arrives or is lost in the end,   *)
(* which frees its cid. The appliance may always be silent.                *)
FairSpec ==
  /\ Spec
  /\ \A c \in Callers : SF_vars(Caller(c))
  /\ WF_vars(\E m \in toNcp : Appliance(m))
  /\ WF_vars(\E a \in answers : Deliver(a) \/ LoseAnswer(a))

-----------------------------------------------------------------------------
(* Every variable has its type.                                            *)
TypeOK ==
  /\ up \in BOOLEAN /\ stopping \in BOOLEAN
  /\ at \in [Callers -> {"idle", "send", "wait", "breathe"}]
  /\ write \in [Callers -> Commands \cup {None}]
  /\ cid \in [Callers -> Cids \cup {None}]
  /\ heard \in [Callers -> Statuses \cup {None}]
  /\ retries \in [Callers -> 0..RetryLimit]
  /\ result \in [Callers -> {"none", "open", "true", "false"}]
  /\ toNcp \subseteq CommandsSent /\ answers \subseteq Answers
  /\ effect \in [Callers -> {"none", "applied", "refused"}]
  /\ lateSends \in [Callers -> 0..2]

(* A caller is released by the answer to its own write: it reports success *)
(* only for what the appliance applied, and a refusal only for what it     *)
(* refused, although the answers to several writes are outstanding.        *)
AnswerIsOwn ==
  \A c \in Callers :
    /\ heard[c] = "ok" => effect[c] = "applied"
    /\ heard[c] = "error" => effect[c] = "refused"

(* A write the appliance has applied or refused is not on its way again:   *)
(* only busy may be followed by another attempt.                           *)
NotSentTwice == \A m \in toNcp : m.by # None => effect[m.by] = "none"

(* Once disconnect() has set _stop, a write is published at most once      *)
(* more, whatever the appliance answers.                                   *)
OneLateSend == \A c \in Callers : lateSends[c] <= 1

(* Every write returns, whatever is lost and however long the appliance    *)
(* stays busy (_mqtt_command holds its service call meanwhile).            *)
WriteReturns == \A c \in Callers : result[c] = "open" ~> result[c] # "open"

Contract == INSTANCE WriteContract WITH
  adrift <- {m.cmd : m \in {n \in toNcp : n.by = None}}

(* A write keeps what its callers rely on.                                 *)
KeepsContract == Contract!ContractSpec

=============================================================================
