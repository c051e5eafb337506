------------------------------ MODULE PortQueue ------------------------------
(***************************************************************************)
(* The serialised getPort reads of a FUSION appliance (mqtt_api.py): the   *)
(* queue, the one read in flight, the pump and its timer, the busy         *)
(* retries, and what a reconnect or an unload does to all of them.         *)
(*                                                                         *)
(* Any thread may run the pump: the paho thread after a getAllPorts reply, *)
(* an executor thread on a heartbeat, the thread of a timer. The publish   *)
(* happens between two sections of self._lock, so every other party can    *)
(* act while a pumper is at "send" or "sent".                              *)
(*                                                                         *)
(* Time is two facts: whether the read in flight has been there for        *)
(* _PORT_INFLIGHT_TIMEOUT (old), and which timer is armed.                 *)
(***************************************************************************)
EXTENDS Naturals, SequencesExt

CONSTANTS
  ReadPorts,  \* the read ports getAllPorts names, in the order it names them
  Pumpers,    \* threads that may run the pump
  Cids,       \* correlation ids, recycled once nothing refers to them
  None,       \* Python's None
  BusyLimit   \* _PORT_BUSY_RETRY_LIMIT

Ports == ToSet(ReadPorts)

ASSUME QueueAssumption ==
  /\ ReadPorts \in Seq(Ports)
  /\ None \notin Ports \cup Cids
  /\ BusyLimit \in Nat \ {0}

VARIABLES
  up,          \* the link is up: _client is set and _connected
  stopping,    \* disconnect() was called
  queue,       \* self._port_queue
  inflight,    \* self._inflight_port
  awaited,     \* self._inflight_cid
  old,         \* the read in flight was popped 5 s ago or more
  tries,       \* self._port_busy_counts, 0 for a missing key
  timer,       \* self._pump_timer: "off", "gap" (1 s or 3 s) or "safety" (5.5 s)
  pc,          \* pc[t]: where pumper t is
  reading,     \* reading[t]: the local variable `port` of pumper t
  stamped,     \* stamped[t]: its local variable `cid`
  requests,    \* getPorts whose answer is still to come
  asked,       \* history: how often a port was popped in this round
  disturbed    \* history: a read timed out, or a session ended

vars == <<up, stopping, queue, inflight, awaited, old,
          tries, timer, pc, reading, stamped, requests, asked, disturbed>>

session == <<up, stopping>>
slot == <<inflight, awaited, old>>
pumping == <<pc, reading, stamped>>

Requests == [port : Ports, cid : Cids]

Unused(c) ==
  /\ c # awaited
  /\ \A t \in Pumpers : stamped[t] # c
  /\ \A r \in requests : r.cid # c
NewCid == CHOOSE c \in Cids : Unused(c)

EmptySlot == inflight' = None /\ awaited' = None /\ old' = FALSE

-----------------------------------------------------------------------------
(* _enqueue_port_reads with new_round. Whoever calls it goes on to pump.   *)

(* Mutation: the read in flight is not looked at.                          *)
NotQueued(p, q) == ~Contains(q, p)

Wanted(p, q) == p # inflight /\ ~Contains(q, p)

(* The queue q once the loop has gone over the first n ports.              *)
Enqueued[n \in 0..Len(ReadPorts)] ==
  IF n = 0 THEN queue
  ELSE LET q == Enqueued[n - 1]
           p == ReadPorts[n]
       IN  IF Wanted(p, q) THEN Append(q, p) ELSE q

EnqueueAll ==
  /\ queue' = Enqueued[Len(ReadPorts)]
  /\ tries' = [p \in Ports |-> 0]
  /\ asked' = [p \in Ports |-> 0]

(* The answer to getAllPorts, handled on the paho thread, or               *)
(* refresh_port_data with the ports of the last answer. The appliance may  *)
(* answer, and a heartbeat or push may ask, at any time the link is up.    *)
EnqueuePortReads(t) ==
  /\ up
  /\ pc[t] = "idle" /\ pc' = [pc EXCEPT ![t] = "pump"]
  /\ EnqueueAll
  /\ UNCHANGED <<session, slot, timer, reading, stamped, requests, disturbed>>

-----------------------------------------------------------------------------
(* _pump_port_queue: its first section of the lock, one action per outcome. *)

(* Mutation: a pump that finds the link down just returns.                 *)
KeepReads == UNCHANGED <<queue, slot>>

DropReads == queue' = <<>> /\ EmptySlot

PumpLinkDown(t) ==
  /\ pc[t] = "pump" /\ ~up
  /\ DropReads
  /\ pc' = [pc EXCEPT ![t] = "idle"]
  /\ UNCHANGED <<session, tries, timer, reading, stamped, requests, asked, disturbed>>

Occupied == inflight # None /\ ~old

PumpOccupied(t) ==
  /\ pc[t] = "pump" /\ up /\ Occupied
  /\ pc' = [pc EXCEPT ![t] = "idle"]
  /\ UNCHANGED <<session, queue, slot, tries, timer, reading, stamped, requests,
                 asked, disturbed>>

PumpEmpty(t) ==
  /\ pc[t] = "pump" /\ up /\ ~Occupied
  /\ queue = <<>> /\ EmptySlot
  /\ pc' = [pc EXCEPT ![t] = "idle"]
  /\ UNCHANGED <<session, queue, tries, timer, reading, stamped, requests, asked, disturbed>>

PumpPop(t) ==
  /\ pc[t] = "pump" /\ up /\ ~Occupied
  /\ queue # <<>>
  /\ queue' = Tail(queue)
  /\ inflight' = Head(queue) /\ awaited' = None /\ old' = FALSE
  /\ reading' = [reading EXCEPT ![t] = Head(queue)]
  /\ asked' = [asked EXCEPT ![Head(queue)] = IF @ > BusyLimit THEN @ ELSE @ + 1]
  /\ pc' = [pc EXCEPT ![t] = "send"]
  /\ UNCHANGED <<session, tries, timer, stamped, requests, disturbed>>

(* send_port_command, outside the lock.                                    *)
Send(t) ==
  /\ pc[t] = "send" /\ up
  /\ \E c \in Cids : Unused(c)
  /\ stamped' = [stamped EXCEPT ![t] = NewCid]
  /\ requests' = requests \cup {[port |-> reading[t], cid |-> NewCid]}
  /\ pc' = [pc EXCEPT ![t] = "sent"]
  /\ UNCHANGED <<session, queue, slot, tries, timer, reading, asked, disturbed>>

SendNothing(t) ==
  /\ pc[t] = "send" /\ ~up
  /\ pc' = [pc EXCEPT ![t] = "sent"]
  /\ UNCHANGED <<session, queue, slot, tries, timer, reading, stamped, requests,
                 asked, disturbed>>

(* The second section of the lock.                                         *)
Rest(t) ==
  /\ pc' = [pc EXCEPT ![t] = "idle"]
  /\ reading' = [reading EXCEPT ![t] = None]
  /\ stamped' = [stamped EXCEPT ![t] = None]

(* Its reply has landed, or the queue has moved on.                        *)
SentTaken(t) ==
  /\ pc[t] = "sent" /\ inflight # reading[t]
  /\ Rest(t)
  /\ UNCHANGED <<session, queue, slot, tries, timer, requests, asked, disturbed>>

SentNothing(t) ==
  /\ pc[t] = "sent" /\ inflight = reading[t] /\ stamped[t] = None
  /\ inflight' = None /\ old' = FALSE /\ queue' = <<>>
  /\ Rest(t)
  /\ UNCHANGED <<session, awaited, tries, timer, requests, asked, disturbed>>

(* Mutation: no safety net under a lost reply.                             *)
NoSafetyNet == timer' = timer

SafetyNet == timer' = "safety"

Sent(t) ==
  /\ pc[t] = "sent" /\ inflight = reading[t] /\ stamped[t] # None
  /\ awaited' = stamped[t]
  /\ SafetyNet
  /\ Rest(t)
  /\ UNCHANGED <<session, queue, inflight, old, tries, requests, asked, disturbed>>

Pump(t) ==
  \/ PumpLinkDown(t) \/ PumpOccupied(t) \/ PumpEmpty(t) \/ PumpPop(t)
  \/ Send(t) \/ SendNothing(t)
  \/ SentTaken(t) \/ SentNothing(t) \/ Sent(t)

-----------------------------------------------------------------------------
(* _on_getport_reply. The answer to r reaches the paho thread; it is not   *)
(* ours when nothing is in flight, or the cid is known and another one.    *)

Ours(r) == inflight # None /\ (awaited = None \/ r.cid = awaited)

Handled(r) == up /\ requests' = requests \ {r}

ReplyIgnored(r) ==
  /\ Handled(r) /\ ~Ours(r)
  /\ UNCHANGED <<session, queue, slot, tries, timer, pumping, asked, disturbed>>

ReplyOk(r) ==
  /\ Handled(r) /\ Ours(r)
  /\ EmptySlot
  /\ tries' = [tries EXCEPT ![inflight] = 0]
  /\ timer' = "gap"
  /\ UNCHANGED <<session, queue, pumping, asked, disturbed>>

RetryAllowed(p) == tries[p] + 1 < BusyLimit
Requeue(p) == IF Contains(queue, p) THEN queue ELSE Append(queue, p)

ReplyBusy(r) ==
  /\ Handled(r) /\ Ours(r)
  /\ EmptySlot
  /\ tries' = [tries EXCEPT ![inflight] = @ + 1]
  /\ queue' = IF RetryAllowed(inflight) THEN Requeue(inflight) ELSE queue
  /\ timer' = "gap"
  /\ UNCHANGED <<session, pumping, asked, disturbed>>

(* The appliance does not answer, or the answer is lost (from_ncp is QoS 0).*)
NoReply(r) ==
  /\ requests' = requests \ {r}
  /\ UNCHANGED <<session, queue, slot, tries, timer, pumping, asked, disturbed>>

Reply(r) == ReplyIgnored(r) \/ ReplyOk(r) \/ ReplyBusy(r) \/ NoReply(r)

-----------------------------------------------------------------------------
(* Timers and time. The safety timer is armed after the pop it guards, and *)
(* every later pop re-arms it once published: when it runs out, the read   *)
(* in flight is old, or its pumper has not come to re-arm it yet (awaited). *)

Due ==
  \/ timer = "gap"
  \/ timer = "safety" /\ (inflight = None \/ old \/ awaited = None)

TimerFires(t) ==
  /\ Due
  /\ timer' = "off"
  /\ pc[t] = "idle" /\ pc' = [pc EXCEPT ![t] = "pump"]
  /\ UNCHANGED <<session, queue, slot, tries, reading, stamped, requests, asked, disturbed>>

ReadAges ==
  /\ inflight # None /\ ~old
  /\ old' = TRUE
  /\ disturbed' = TRUE
  /\ UNCHANGED <<session, queue, inflight, awaited, tries, timer, pumping, requests,
                 asked>>

-----------------------------------------------------------------------------
(* The session.                                                            *)

LinkLost ==
  /\ up /\ up' = FALSE
  /\ disturbed' = TRUE
  /\ UNCHANGED <<stopping, queue, slot, tries, timer, pumping, requests, asked>>

CancelPortQueue == DropReads /\ timer' = "off"

(* A reconnect: it cancels the queue, then the CONNACK comes. In between   *)
(* the queue is empty and the pump does nothing.                           *)
Reconnected ==
  /\ ~up /\ ~stopping /\ up' = TRUE
  /\ CancelPortQueue
  /\ UNCHANGED <<stopping, tries, pumping, requests, asked, disturbed>>

(* disconnect() cancels the queue first and closes the link after.         *)
Stop ==
  /\ ~stopping /\ stopping' = TRUE
  /\ CancelPortQueue
  /\ disturbed' = TRUE
  /\ UNCHANGED <<up, tries, pumping, requests, asked>>

Finished ==
  /\ stopping /\ ~up /\ timer = "off"
  /\ \A t \in Pumpers : pc[t] = "idle"
  /\ requests = {}
  /\ UNCHANGED vars

-----------------------------------------------------------------------------
Init ==
  /\ up = FALSE /\ stopping = FALSE
  /\ queue = <<>> /\ inflight = None /\ awaited = None /\ old = FALSE
  /\ tries = [p \in Ports |-> 0] /\ timer = "off"
  /\ pc = [t \in Pumpers |-> "idle"]
  /\ reading = [t \in Pumpers |-> None] /\ stamped = [t \in Pumpers |-> None]
  /\ requests = {}
  /\ asked = [p \in Ports |-> 0] /\ disturbed = FALSE

Next ==
  \/ \E t \in Pumpers : EnqueuePortReads(t) \/ Pump(t) \/ TimerFires(t)
  \/ ReadAges
  \/ \E r \in requests : Reply(r)
  \/ LinkLost \/ Reconnected \/ Stop
  \/ Finished

Spec == Init /\ [][Next]_vars

(* Threads run, timers run out, time passes, a session that disconnect has *)
(* given up ends, and a message is handled or lost in the end (a cid is    *)
(* recycled only then). Nothing obliges the appliance to answer, the link  *)
(* to hold or to come back, or a heartbeat to run.                         *)
Scheduling ==
  /\ \A t \in Pumpers : WF_vars(Pump(t))
  /\ WF_vars(\E t \in Pumpers : TimerFires(t))
  /\ WF_vars(ReadAges)
  /\ WF_vars(stopping /\ LinkLost)
  /\ WF_vars(\E r \in requests : Reply(r))

FairSpec == Spec /\ Scheduling

-----------------------------------------------------------------------------
(* Every variable has its type.                                            *)
TypeOK ==
  /\ up \in BOOLEAN /\ stopping \in BOOLEAN
  /\ queue \in Seq(Ports)
  /\ inflight \in Ports \cup {None} /\ awaited \in Cids \cup {None} /\ old \in BOOLEAN
  /\ tries \in [Ports -> 0..BusyLimit]
  /\ timer \in {"off", "gap", "safety"}
  /\ pc \in [Pumpers -> {"idle", "pump", "send", "sent"}]
  /\ reading \in [Pumpers -> Ports \cup {None}]
  /\ stamped \in [Pumpers -> Cids \cup {None}]
  /\ requests \subseteq Requests
  /\ asked \in [Ports -> 0..(BusyLimit + 1)] /\ disturbed \in BOOLEAN

(* A port is read once at a time: it is queued at most once, and not while *)
(* it is in flight, whoever enqueues and whatever reply is late.           *)
ReadOnce ==
  /\ IsInjective(queue)
  /\ inflight # None => ~Contains(queue, inflight)

(* A round asks a port at most BusyLimit times, busy replies credited to   *)
(* the wrong port included: a burst is what wedges the NCP.                *)
BusyBounded == \A p \in Ports : asked[p] <= BusyLimit

(* While the appliance answers within 5 s and the session lasts, it never  *)
(* holds two reads at once.                                                *)
OneReadAtATime ==
  ~disturbed => \A r1, r2 \in requests : r1 = r2

(* A read in flight or a queued port always has a timer or a pumper that   *)
(* will move it: the queue cannot stall between the lock sections.         *)
NeverStalled ==
  inflight # None \/ queue # <<>>
  => timer # "off" \/ \E t \in Pumpers : pc[t] # "idle"

(* The reads are in order whatever the replies do: QueueInv is the whole of *)
(* what _inflight_lock protects across the publish (mqtt_api.py:651-722).   *)
QueueInv ==
  TypeOK /\ ReadOnce /\ BusyBounded /\ OneReadAtATime /\ NeverStalled

(* Every queued port is sent or dropped in the end, with replies lost: no  *)
(* port is queued for ever.                                                *)
QueueServed == \A p \in Ports : []<>~Contains(queue, p)

(* After disconnect() the pump comes to rest for good, even if a reply in  *)
(* the paho thread has filled the queue again behind the cancel.           *)
StopSilences ==
  <>[](stopping => queue = <<>> /\ inflight = None /\ timer = "off")

=============================================================================
