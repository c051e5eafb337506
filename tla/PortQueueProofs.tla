--------------------------- MODULE PortQueueProofs ---------------------------
(***************************************************************************)
(* Proofs about PortQueue: what its queue invariant needs besides itself,  *)
(* and that every step of every thread keeps it, for every list of ports,  *)
(* every set of pumpers and of correlation ids, and every busy limit.      *)
(*                                                                         *)
(* The loop of _enqueue_port_reads is the recursive function Enqueued. It  *)
(* is reasoned about by a smallest counterexample: strict inclusion is     *)
(* well founded on the finite sets 0..n, so a nonempty set of numbers has  *)
(* a least member.                                                         *)
(***************************************************************************)
EXTENDS PortQueue, FiniteSetTheorems, TLAPS

-----------------------------------------------------------------------------
(* The inductive invariant.                                                *)

Publishing(t) == pc[t] \in {"send", "sent"}

(* A pumper between its lock sections knows which port it has popped.      *)
PumpersKnow == \A t \in Pumpers : Publishing(t) => reading[t] # None

(* What is left of the BusyLimit attempts: a queued port has been asked no *)
(* more often than it was found busy, the port in flight once more.        *)
AttemptsLeft ==
  /\ \A p \in Ports : Contains(queue, p) => asked[p] <= tries[p] /\ tries[p] < BusyLimit
  /\ inflight # None
     => asked[inflight] <= tries[inflight] + 1 /\ tries[inflight] < BusyLimit

(* An undisturbed session: before the link first comes up nothing is sent; *)
(* after that the slot is free only when no getPort is on its way, one     *)
(* pumper at most is about to send, and none has failed to.                *)
Undisturbed ==
  /\ ~old
  /\ ~up => inflight = None
  /\ inflight = None => requests = {} /\ \A t \in Pumpers : pc[t] # "send"
  /\ \A t \in Pumpers : pc[t] = "send" => requests = {}
  /\ \A t \in Pumpers : pc[t] = "sent" => stamped[t] # None
  /\ \A t, u \in Pumpers : pc[t] = "send" /\ pc[u] = "send" => t = u
  /\ \A r1, r2 \in requests : r1 = r2

(* A pumper that has popped the port in flight and will re-arm the timer.  *)
Held == \E t \in Pumpers : Publishing(t) /\ reading[t] = inflight

Pumping == \E t \in Pumpers : pc[t] = "pump"

(* Who moves the queue on: the timer, or the pumper that popped the read   *)
(* in flight, or, when that read is old or the slot free, one that pumps.  *)
QueueMoves ==
  /\ inflight # None =>
       /\ timer = "gap" \/ awaited = None => Held
       /\ timer = "off" => Held \/ (old /\ Pumping)
  /\ inflight = None /\ queue # <<>> => timer # "off" \/ Pumping

PumpInv ==
  /\ TypeOK /\ PumpersKnow
  /\ ReadOnce /\ AttemptsLeft /\ BusyBounded
  /\ ~disturbed => Undisturbed
  /\ QueueMoves
-----------------------------------------------------------------------------
(* The least number principle, for sets.                                   *)
LEMMA LeastNumber ==
  ASSUME NEW T \in SUBSET Nat, T # {}
  PROVE  \E m \in T : \A k \in T : m <= k
<1> DEFINE Below == {0..n : n \in T}
           Order == StrictSubsetOrdering(Nat)
<1>1. IsWellFoundedOn(Order, FiniteSubsetsOf(Nat))
  BY FS_StrictSubsetOrderingWellFounded
<1>2. ASSUME NEW n \in Nat PROVE 0..n \in FiniteSubsetsOf(Nat)
  <2>1. IsFiniteSet(0..n)
    BY FS_Interval
  <2> QED BY <2>1 DEF FiniteSubsetsOf
<1>3. Below \subseteq FiniteSubsetsOf(Nat) /\ Below # {}
  BY <1>2
<1>4. PICK least \in Below : \A b \in Below : <<b, least>> \notin Order
  <2> HIDE DEF Below, Order
  <2> QED BY <1>1, <1>3, WFMin
<1>5. PICK m \in T : least = 0..m
  OBVIOUS
<1>6. ASSUME NEW k \in T, ~(m <= k) PROVE FALSE
  <2>1. 0..k \in Below /\ 0..k \subseteq 0..m /\ 0..k # 0..m
    BY <1>6
  <2>2. <<0..k, 0..m>> \in Order
    BY <2>1 DEF StrictSubsetOrdering
  <2> QED BY <1>4, <1>5, <2>1, <2>2
<1> QED BY <1>6

-----------------------------------------------------------------------------
(* Sequences without repetition.                                           *)

LEMMA AppendOnce ==
  ASSUME NEW S, NEW q \in Seq(S), NEW p \in S,
         IsInjective(q), ~Contains(q, p)
  PROVE  /\ Append(q, p) \in Seq(S)
         /\ IsInjective(Append(q, p))
         /\ \A x : Contains(Append(q, p), x) <=> Contains(q, x) \/ x = p
<1>1. /\ Append(q, p) \in Seq(S) /\ Len(Append(q, p)) = Len(q) + 1 /\ Len(q) \in Nat
      /\ DOMAIN q = 1..Len(q) /\ DOMAIN Append(q, p) = 1..(Len(q) + 1)
      /\ \A i \in 1..Len(q) : Append(q, p)[i] = q[i]
      /\ Append(q, p)[Len(q) + 1] = p
  OBVIOUS
<1>2. IsInjective(Append(q, p))
  BY <1>1 DEF IsInjective, Contains
<1>3. ASSUME NEW x PROVE Contains(Append(q, p), x) <=> Contains(q, x) \/ x = p
  <2> DEFINE n == Len(q)
  <2>1. \A i \in 1..(n + 1) : i = n + 1 \/ i \in 1..n
    BY <1>1
  <2>2. \A i \in 1..n : i \in 1..(n + 1)
    BY <1>1
  <2>3. n + 1 \in 1..(n + 1)
    BY <1>1
  <2> QED BY <1>1, <2>1, <2>2, <2>3 DEF Contains
<1> QED BY <1>1, <1>2, <1>3

LEMMA TailOnce ==
  ASSUME NEW S, NEW q \in Seq(S), q # <<>>, IsInjective(q)
  PROVE  /\ Head(q) \in S /\ Tail(q) \in Seq(S)
         /\ IsInjective(Tail(q))
         /\ Contains(q, Head(q)) /\ ~Contains(Tail(q), Head(q))
         /\ \A x : Contains(Tail(q), x) => Contains(q, x)
<1>1. /\ Head(q) \in S /\ Tail(q) \in Seq(S) /\ Len(Tail(q)) = Len(q) - 1
      /\ Len(q) \in Nat \ {0}
      /\ DOMAIN q = 1..Len(q) /\ DOMAIN Tail(q) = 1..(Len(q) - 1)
      /\ \A i \in 1..(Len(q) - 1) : Tail(q)[i] = q[i + 1]
      /\ Head(q) = q[1]
  OBVIOUS
<1>2. \A i \in 1..(Len(q) - 1) : i + 1 \in 1..Len(q) /\ i + 1 # 1
  BY <1>1
<1>3. 1 \in 1..Len(q)
  BY <1>1
<1>4. IsInjective(Tail(q))
  <2> SUFFICES ASSUME NEW a \in 1..(Len(q) - 1), NEW b \in 1..(Len(q) - 1), q[a + 1] = q[b + 1]
               PROVE  a = b
    BY <1>1 DEF IsInjective
  <2>1. a + 1 = b + 1
    BY <1>1, <1>2 DEF IsInjective
  <2> QED BY <1>1, <2>1
<1>5. Contains(q, Head(q)) /\ ~Contains(Tail(q), Head(q))
  BY <1>1, <1>2, <1>3 DEF Contains, IsInjective
<1>6. \A x : Contains(Tail(q), x) => Contains(q, x)
  BY <1>1, <1>2 DEF Contains
<1> QED BY <1>1, <1>4, <1>5, <1>6

LEMMA EmptyOnce ==
  ASSUME NEW S
  PROVE  /\ <<>> \in Seq(S) /\ IsInjective(<<>>)
         /\ \A x : ~Contains(<<>>, x)
BY DEF IsInjective, Contains

-----------------------------------------------------------------------------
(* The loop of _enqueue_port_reads.                                        *)

Pass(f, n) ==
  IF n = 0 THEN queue
  ELSE IF Wanted(ReadPorts[n], f[n - 1]) THEN Append(f[n - 1], ReadPorts[n]) ELSE f[n - 1]

PassesTo(n) == \E f : f = [i \in 0..n |-> Pass(f, i)]

LEMMA LoopRuns == \A n \in Nat : PassesTo(n)
<1> DEFINE T == {n \in Nat : ~PassesTo(n)}
<1> SUFFICES ASSUME T # {} PROVE FALSE
  OBVIOUS
<1>1. PICK m \in T : \A k \in T : m <= k
  BY LeastNumber
<1>2. m # 0
  <2> SUFFICES PassesTo(0)
    OBVIOUS
  <2> DEFINE f == [i \in 0..0 |-> queue]
  <2>1. \A i \in 0..0 : Pass(f, i) = queue
    BY DEF Pass
  <2>2. f = [i \in 0..0 |-> Pass(f, i)]
    BY <2>1
  <2> QED BY <2>2 DEF PassesTo
<1>3. m - 1 \in Nat /\ m - 1 \notin T
  BY <1>1, <1>2
<1>4. PICK f : f = [i \in 0..(m - 1) |-> Pass(f, i)]
  BY <1>3 DEF PassesTo
<1> DEFINE g == [i \in 0..m |-> IF i = m THEN Pass(f, m) ELSE f[i]]
<1>5. ASSUME NEW i \in 0..m PROVE g[i] = Pass(g, i)
  <2>1. i = m \/ i \in 0..(m - 1)
    BY <1>2
  <2>2. i # 0 => g[i - 1] = f[i - 1]
    BY <1>2
  <2>3. Pass(g, i) = Pass(f, i)
    BY <2>2 DEF Pass
  <2>4. i # m => g[i] = f[i] /\ f[i] = Pass(f, i)
    BY <1>4, <2>1
  <2>5. i = m => g[i] = Pass(f, i)
    OBVIOUS
  <2> QED BY <2>3, <2>4, <2>5
<1>6. g = [i \in 0..m |-> Pass(g, i)]
  <2> SUFFICES [i \in 0..m |-> g[i]] = [i \in 0..m |-> Pass(g, i)]
    OBVIOUS
  <2> HIDE DEF g
  <2> QED BY <1>5
<1>7. PassesTo(m)
  BY <1>6 DEF PassesTo
<1> QED BY <1>7

(* The recursive definition of Enqueued defines a function.                *)
LEMMA EnqueuedIsLoop ==
  Enqueued = [n \in 0..Len(ReadPorts) |-> Pass(Enqueued, n)]
<1> DEFINE Is(f) == f = [n \in 0..Len(ReadPorts) |-> Pass(f, n)]
<1>1. Len(ReadPorts) \in Nat
  BY QueueAssumption
<1>2. \E f : Is(f)
  BY <1>1, LoopRuns DEF PassesTo
<1>3. Enqueued = CHOOSE f : Is(f)
  BY DEF Enqueued, Pass
<1>4. Is(Enqueued)
  <2> HIDE DEF Is
  <2> QED BY <1>2, <1>3
<1> QED BY <1>4

(* What enqueuing keeps: no port twice, and not the port in flight.        *)
LEMMA EnqueuedOnce ==
  ASSUME queue \in Seq(Ports), ReadOnce
  PROVE  LET q == Enqueued[Len(ReadPorts)]
         IN  /\ q \in Seq(Ports) /\ IsInjective(q)
             /\ inflight # None => ~Contains(q, inflight)
<1> DEFINE Good(q) == /\ q \in Seq(Ports) /\ IsInjective(q)
                      /\ inflight # None => ~Contains(q, inflight)
           T == {n \in 0..Len(ReadPorts) : ~Good(Enqueued[n])}
<1>1. Len(ReadPorts) \in Nat /\ \A n \in 1..Len(ReadPorts) : ReadPorts[n] \in Ports
  BY QueueAssumption
<1>2. Enqueued[0] = queue
  BY EnqueuedIsLoop, <1>1 DEF Pass
<1>3. ASSUME NEW n \in 1..Len(ReadPorts), Good(Enqueued[n - 1])
      PROVE  Good(Enqueued[n])
  <2> DEFINE q == Enqueued[n - 1]
             p == ReadPorts[n]
  <2>1. Enqueued[n] = IF Wanted(p, q) THEN Append(q, p) ELSE q
    <3>1. Enqueued[n] = Pass(Enqueued, n)
      BY EnqueuedIsLoop, <1>1
    <3> QED BY <3>1, <1>1 DEF Pass
  <2>2. CASE ~Wanted(p, q)
    BY <1>3, <2>1, <2>2
  <2>3. CASE Wanted(p, q)
    <3> HIDE DEF p, q
    <3>1. p \in Ports /\ q \in Seq(Ports) /\ IsInjective(q)
          /\ (inflight # None => ~Contains(q, inflight))
      BY <1>1, <1>3 DEF p, q
    <3>2. p # inflight /\ ~Contains(q, p)
      BY <2>3 DEF Wanted
    <3>3. Good(Append(q, p))
      BY <3>1, <3>2, AppendOnce
    <3> QED BY <2>1, <2>3, <3>3
  <2> QED BY <2>2, <2>3
<1>4. T = {}
  <2> SUFFICES ASSUME T # {} PROVE FALSE
    OBVIOUS
  <2>1. T \in SUBSET Nat
    BY <1>1
  <2>2. PICK m \in T : \A k \in T : m <= k
    <3> HIDE DEF T
    <3> QED BY <2>1, LeastNumber
  <2>3. m # 0
    BY <1>2 DEF ReadOnce
  <2>4. m \in 1..Len(ReadPorts) /\ m - 1 \in 0..Len(ReadPorts) /\ m - 1 \notin T
    BY <1>1, <2>1, <2>2, <2>3
  <2>5. Good(Enqueued[m - 1])
    BY <2>4
  <2>6. Good(Enqueued[m])
    BY <1>3, <2>4, <2>5
  <2> QED BY <2>2, <2>6
<1> QED BY <1>1, <1>4

-----------------------------------------------------------------------------
(* Types.                                                                  *)

USE DEF session, slot, pumping, EmptySlot, DropReads, CancelPortQueue, Rest,
        SafetyNet, Handled

LEMMA NewCidUnused ==
  ASSUME \E c \in Cids : Unused(c)
  PROVE  NewCid \in Cids /\ NewCid # None /\ Unused(NewCid)
<1>1. NewCid \in Cids /\ Unused(NewCid)
  BY DEF NewCid
<1> QED BY <1>1, QueueAssumption

LEMMA NothingQueued == <<>> \in Seq(Ports)
BY EmptyOnce

LEMMA FreshCounter == 0 \in 0..BusyLimit /\ 0 \in 0..(BusyLimit + 1)
BY QueueAssumption

LEMMA TypeStart == Init => TypeOK
<1> SUFFICES ASSUME Init PROVE TypeOK
  OBVIOUS
<1>1. queue \in Seq(Ports)
  BY DEF Init
<1>2. tries \in [Ports -> 0..BusyLimit] /\ asked \in [Ports -> 0..(BusyLimit + 1)]
  BY FreshCounter DEF Init
<1>3. pc \in [Pumpers -> {"idle", "pump", "send", "sent"}]
  BY DEF Init
<1>4. reading \in [Pumpers -> Ports \cup {None}] /\ stamped \in [Pumpers -> Cids \cup {None}]
  BY DEF Init
<1> QED BY <1>1, <1>2, <1>3, <1>4 DEF Init, TypeOK

(* A pumper's own step moves it along and leaves the other pumpers alone.  *)
LEMMA OthersStay ==
  ASSUME TypeOK, NEW t \in Pumpers, EnqueuePortReads(t) \/ Pump(t) \/ TimerFires(t)
  PROVE  /\ pc' = [pc EXCEPT ![t] = pc'[t]]
         /\ pc'[t] \in {"idle", "pump", "send", "sent"}
         /\ \A u \in Pumpers \ {t} :
               pc'[u] = pc[u] /\ reading'[u] = reading[u] /\ stamped'[u] = stamped[u]
BY DEF TypeOK, EnqueuePortReads, EnqueueAll, Pump, PumpLinkDown, PumpOccupied,
       PumpEmpty, PumpPop, Send, SendNothing, SentTaken, SentNothing, Sent, TimerFires

LEMMA TypeEnqueue ==
  ASSUME TypeOK, ReadOnce, NEW t \in Pumpers, EnqueuePortReads(t)
  PROVE  TypeOK'
<1>1. queue' \in Seq(Ports)
  BY EnqueuedOnce DEF TypeOK, EnqueuePortReads, EnqueueAll
<1>2. tries' \in [Ports -> 0..BusyLimit] /\ asked' \in [Ports -> 0..(BusyLimit + 1)]
  BY QueueAssumption DEF EnqueuePortReads, EnqueueAll
<1> QED BY <1>1, <1>2 DEF TypeOK, EnqueuePortReads

LEMMA TypePump ==
  ASSUME TypeOK, PumpersKnow, NEW t \in Pumpers, Pump(t)
  PROVE  TypeOK'
<1>1. CASE PumpLinkDown(t)
  BY <1>1, NothingQueued DEF PumpLinkDown, TypeOK
<1>2. CASE PumpOccupied(t)
  BY <1>2 DEF PumpOccupied, TypeOK
<1>3. CASE PumpEmpty(t)
  BY <1>3 DEF PumpEmpty, TypeOK
<1>4. CASE PumpPop(t)
  <2>1. Head(queue) \in Ports /\ Tail(queue) \in Seq(Ports)
    BY <1>4 DEF PumpPop, TypeOK
  <2>2. asked' \in [Ports -> 0..(BusyLimit + 1)]
    BY <1>4, <2>1, QueueAssumption DEF PumpPop, TypeOK
  <2> QED BY <1>4, <2>1, <2>2 DEF PumpPop, TypeOK
<1>5. CASE Send(t)
  <2>1. reading[t] \in Ports
    BY <1>5 DEF Send, TypeOK, PumpersKnow, Publishing
  <2>2. NewCid \in Cids
    BY <1>5, NewCidUnused DEF Send
  <2>3. requests' \subseteq Requests
    BY <1>5, <2>1, <2>2 DEF Send, TypeOK, Requests
  <2> QED BY <1>5, <2>2, <2>3 DEF Send, TypeOK
<1>6. CASE SendNothing(t)
  BY <1>6 DEF SendNothing, TypeOK
<1>7. CASE SentTaken(t)
  BY <1>7 DEF SentTaken, TypeOK
<1>8. CASE SentNothing(t)
  BY <1>8, NothingQueued DEF SentNothing, TypeOK
<1>9. CASE Sent(t)
  BY <1>9 DEF Sent, TypeOK
<1> QED BY <1>1, <1>2, <1>3, <1>4, <1>5, <1>6, <1>7, <1>8, <1>9 DEF Pump

LEMMA TypeReply ==
  ASSUME TypeOK, AttemptsLeft, NEW r \in requests, Reply(r)
  PROVE  TypeOK'
<1>1. CASE ReplyIgnored(r)
  BY <1>1 DEF ReplyIgnored, TypeOK
<1>2. CASE ReplyOk(r)
  <2>1. tries' \in [Ports -> 0..BusyLimit]
    BY <1>2, FreshCounter DEF ReplyOk, TypeOK
  <2> QED BY <1>2, <2>1 DEF ReplyOk, TypeOK
<1>3. CASE ReplyBusy(r)
  <2>1. inflight \in Ports
    BY <1>3 DEF ReplyBusy, Ours, TypeOK
  <2>2. tries[inflight] + 1 \in 0..BusyLimit
    BY <1>3, <2>1, QueueAssumption DEF ReplyBusy, Ours, TypeOK, AttemptsLeft
  <2>3. tries' \in [Ports -> 0..BusyLimit]
    BY <1>3, <2>2 DEF ReplyBusy, TypeOK
  <2>4. queue' \in Seq(Ports)
    BY <1>3, <2>1 DEF ReplyBusy, Requeue, TypeOK
  <2> QED BY <1>3, <2>3, <2>4 DEF ReplyBusy, TypeOK
<1>4. CASE NoReply(r)
  BY <1>4 DEF NoReply, TypeOK
<1> QED BY <1>1, <1>2, <1>3, <1>4 DEF Reply

LEMMA TypeStep ==
  ASSUME TypeOK, PumpersKnow, ReadOnce, AttemptsLeft, [Next]_vars
  PROVE  TypeOK'
<1>1. ASSUME NEW t \in Pumpers, TimerFires(t) PROVE TypeOK'
  BY <1>1 DEF TimerFires, TypeOK
<1>2. CASE ReadAges
  BY <1>2 DEF ReadAges, TypeOK
<1>3. CASE LinkLost
  BY <1>3 DEF LinkLost, TypeOK
<1>4. CASE Reconnected
  BY <1>4, NothingQueued DEF Reconnected, TypeOK
<1>5. CASE Stop
  BY <1>5, NothingQueued DEF Stop, TypeOK
<1>6. CASE UNCHANGED vars
  BY <1>6 DEF vars, TypeOK
<1>7. CASE Finished
  BY <1>6, <1>7 DEF Finished
<1> QED BY <1>1, <1>2, <1>3, <1>4, <1>5, <1>6, <1>7, TypeEnqueue, TypePump, TypeReply
        DEF Next

-----------------------------------------------------------------------------
(* What a step does to the pumpers, to the queue and the slot, and to the  *)
(* counters: the cases the invariants below are argued by.                 *)

(* A pumper that is between its sections knows its port in the next state. *)
LEMMA KnowStep ==
  ASSUME TypeOK, PumpersKnow, [Next]_vars
  PROVE  PumpersKnow'
<1> SUFFICES ASSUME NEW u \in Pumpers, Publishing(u)' PROVE reading'[u] # None
  BY DEF PumpersKnow
<1>1. ASSUME NEW t \in Pumpers, EnqueuePortReads(t) \/ Pump(t) \/ TimerFires(t)
      PROVE  reading'[u] # None
  <2>1. CASE u # t
    BY <1>1, <2>1, OthersStay DEF PumpersKnow, Publishing
  <2>2. CASE u = t /\ PumpPop(t)
    <3>1. Head(queue) # None
      BY <2>2, QueueAssumption DEF PumpPop, TypeOK
    <3> QED BY <2>2, <3>1 DEF PumpPop, TypeOK
  <2>3. CASE u = t /\ (Send(t) \/ SendNothing(t))
    BY <2>3 DEF Send, SendNothing, PumpersKnow, Publishing, TypeOK
  <2>4. CASE u = t /\ ~PumpPop(t) /\ ~Send(t) /\ ~SendNothing(t)
    <3>1. pc'[t] \in {"idle", "pump"}
      BY <1>1, <2>4 DEF EnqueuePortReads, Pump, PumpLinkDown, PumpOccupied, PumpEmpty,
                        SentTaken, SentNothing, Sent, TimerFires, TypeOK
    <3> QED BY <2>4, <3>1 DEF Publishing
  <2> QED BY <2>1, <2>2, <2>3, <2>4
<1>2. CASE UNCHANGED <<pc, reading>>
  BY <1>2 DEF PumpersKnow, Publishing
<1>3. ASSUME NEW r \in requests, Reply(r) PROVE UNCHANGED <<pc, reading>>
  BY <1>3 DEF Reply, ReplyIgnored, ReplyOk, ReplyBusy, NoReply
<1>4. ReadAges \/ LinkLost \/ Reconnected \/ Stop \/ Finished \/ UNCHANGED vars
      => UNCHANGED <<pc, reading>>
  BY DEF ReadAges, LinkLost, Reconnected, Stop, Finished, vars
<1> QED BY <1>1, <1>2, <1>3, <1>4 DEF Next

(* What a step can do to the queue and to the read in flight: clear both,  *)
(* free the slot, put a port back, pop one, or enqueue a round.            *)
LEMMA ReadOnceStep ==
  ASSUME TypeOK, ReadOnce, [Next]_vars
  PROVE  ReadOnce'
<1> DEFINE Kept == queue' = queue /\ (inflight' = inflight \/ inflight' = None)
<1>1. Kept => ReadOnce'
  BY DEF ReadOnce
<1>2. queue' = <<>> /\ inflight' = None => ReadOnce'
  BY EmptyOnce DEF ReadOnce
<1>3. ASSUME NEW t \in Pumpers, EnqueuePortReads(t) PROVE ReadOnce'
  BY <1>3, EnqueuedOnce DEF EnqueuePortReads, EnqueueAll, TypeOK, ReadOnce
<1>4. ASSUME NEW t \in Pumpers, PumpPop(t) PROVE ReadOnce'
  BY <1>4, TailOnce DEF PumpPop, TypeOK, ReadOnce
<1>5. ASSUME NEW t \in Pumpers, PumpLinkDown(t) \/ SentNothing(t) PROVE ReadOnce'
  BY <1>2, <1>5 DEF PumpLinkDown, SentNothing
<1>6. ASSUME NEW t \in Pumpers,
             \/ PumpOccupied(t) \/ PumpEmpty(t) \/ Send(t) \/ SendNothing(t)
             \/ SentTaken(t) \/ Sent(t) \/ TimerFires(t)
      PROVE  Kept
  BY <1>6 DEF PumpOccupied, PumpEmpty, Send, SendNothing, SentTaken, Sent, TimerFires
<1>7. ASSUME NEW r \in requests, ReplyBusy(r) PROVE ReadOnce'
  <2>1. inflight \in Ports /\ ~Contains(queue, inflight)
    BY <1>7 DEF ReplyBusy, Ours, TypeOK, ReadOnce
  <2>2. queue' = queue \/ queue' = Append(queue, inflight)
    BY <1>7 DEF ReplyBusy, Requeue
  <2>3. IsInjective(Append(queue, inflight))
    BY <2>1, AppendOnce DEF TypeOK, ReadOnce
  <2>4. inflight' = None /\ IsInjective(queue)
    BY <1>7 DEF ReplyBusy, ReadOnce
  <2> QED BY <2>2, <2>3, <2>4 DEF ReadOnce
<1>8. ASSUME NEW r \in requests, ReplyIgnored(r) \/ ReplyOk(r) \/ NoReply(r)
      PROVE  Kept
  BY <1>8 DEF ReplyIgnored, ReplyOk, NoReply
<1>9. Reconnected \/ Stop => ReadOnce'
  BY <1>2 DEF Reconnected, Stop
<1>10. ReadAges \/ LinkLost \/ Finished \/ UNCHANGED vars => Kept
  BY DEF ReadAges, LinkLost, Finished, vars
<1> HIDE DEF Kept
<1> QED BY <1>1, <1>3, <1>4, <1>5, <1>6, <1>7, <1>8, <1>9, <1>10 DEF Next, Pump, Reply

(* The attempts of a round. A reply that frees the slot takes its port out *)
(* of the account, or puts it back with one attempt more found busy.       *)
LEMMA AttemptsStep ==
  ASSUME TypeOK, ReadOnce, AttemptsLeft, [Next]_vars
  PROVE  AttemptsLeft'
<1> DEFINE Kept == /\ queue' = queue /\ (inflight' = inflight \/ inflight' = None)
                   /\ UNCHANGED <<tries, asked>>
<1>1. Kept => AttemptsLeft'
  BY DEF AttemptsLeft
<1>2. queue' = <<>> /\ inflight' = None => AttemptsLeft'
  BY EmptyOnce DEF AttemptsLeft
<1>3. ASSUME NEW t \in Pumpers, EnqueuePortReads(t) PROVE AttemptsLeft'
  <2>1. \A p \in Ports : tries'[p] = 0 /\ asked'[p] = 0
    BY <1>3 DEF EnqueuePortReads, EnqueueAll
  <2>2. inflight' \in Ports \cup {None}
    BY <1>3 DEF EnqueuePortReads, TypeOK
  <2> QED BY <2>1, <2>2, QueueAssumption DEF AttemptsLeft
<1>4. ASSUME NEW t \in Pumpers, PumpPop(t) PROVE AttemptsLeft'
  <2> DEFINE h == Head(queue)
  <2>1. /\ h \in Ports /\ Contains(queue, h) /\ ~Contains(Tail(queue), h)
        /\ \A p : Contains(Tail(queue), p) => Contains(queue, p)
    BY <1>4, TailOnce DEF PumpPop, TypeOK, ReadOnce
  <2>2. queue' = Tail(queue) /\ inflight' = h /\ tries' = tries
    BY <1>4 DEF PumpPop
  <2>3. \A p \in Ports : asked[p] \in 0..(BusyLimit + 1) /\ tries[p] \in 0..BusyLimit
    BY DEF TypeOK
  <2>4. asked'[h] <= asked[h] + 1 /\ \A p \in Ports : p # h => asked'[p] = asked[p]
    BY <1>4, <2>1, <2>3, QueueAssumption DEF PumpPop, TypeOK
  <2>5. asked'[h] \in 0..(BusyLimit + 1)
    BY <1>4, <2>1, <2>3, QueueAssumption DEF PumpPop, TypeOK
  <2> HIDE DEF h
  <2>6. asked'[h] <= tries[h] + 1 /\ tries[h] < BusyLimit
    BY <2>1, <2>3, <2>4, <2>5, QueueAssumption DEF AttemptsLeft
  <2>7. \A p \in Ports : Contains(Tail(queue), p) => asked'[p] <= tries[p] /\ tries[p] < BusyLimit
    BY <2>1, <2>4 DEF AttemptsLeft
  <2> QED BY <2>2, <2>6, <2>7 DEF AttemptsLeft
<1>5. ASSUME NEW t \in Pumpers, PumpLinkDown(t) \/ SentNothing(t) PROVE AttemptsLeft'
  BY <1>2, <1>5 DEF PumpLinkDown, SentNothing
<1>6. ASSUME NEW t \in Pumpers,
             \/ PumpOccupied(t) \/ PumpEmpty(t) \/ Send(t) \/ SendNothing(t)
             \/ SentTaken(t) \/ Sent(t) \/ TimerFires(t)
      PROVE  Kept
  BY <1>6 DEF PumpOccupied, PumpEmpty, Send, SendNothing, SentTaken, Sent, TimerFires
<1>7. ASSUME NEW r \in requests, ReplyOk(r) \/ ReplyBusy(r) PROVE AttemptsLeft'
  <2>1. inflight \in Ports /\ ~Contains(queue, inflight) /\ inflight' = None
    BY <1>7 DEF ReplyOk, ReplyBusy, Ours, TypeOK, ReadOnce
  <2>2. asked' = asked /\ \A p \in Ports : p # inflight => tries'[p] = tries[p]
    BY <1>7, <2>1 DEF ReplyOk, ReplyBusy, TypeOK
  <2>3. CASE queue' = queue
    BY <2>1, <2>2, <2>3 DEF AttemptsLeft
  <2>4. CASE queue' # queue
    <3>1. /\ queue' = Append(queue, inflight) /\ RetryAllowed(inflight)
          /\ tries'[inflight] = tries[inflight] + 1
      BY <1>7, <2>1, <2>4 DEF ReplyOk, ReplyBusy, Requeue, TypeOK
    <3>2. \A p : Contains(queue', p) <=> Contains(queue, p) \/ p = inflight
      BY <2>1, <3>1, AppendOnce DEF TypeOK, ReadOnce
    <3>3. asked'[inflight] <= tries'[inflight] /\ tries'[inflight] < BusyLimit
      BY <2>1, <2>2, <3>1, QueueAssumption DEF RetryAllowed, AttemptsLeft, TypeOK
    <3> QED BY <2>1, <2>2, <3>2, <3>3 DEF AttemptsLeft
  <2> QED BY <2>3, <2>4
<1>8. ASSUME NEW r \in requests, ReplyIgnored(r) \/ NoReply(r)
      PROVE  Kept
  BY <1>8 DEF ReplyIgnored, NoReply
<1>9. Reconnected \/ Stop => AttemptsLeft'
  BY <1>2 DEF Reconnected, Stop
<1>10. ReadAges \/ LinkLost \/ Finished \/ UNCHANGED vars => Kept
  BY DEF ReadAges, LinkLost, Finished, vars
<1> HIDE DEF Kept
<1> QED BY <1>1, <1>3, <1>4, <1>5, <1>6, <1>7, <1>8, <1>9, <1>10 DEF Next, Pump, Reply

(* Only a pop asks, and the port it asks for is then in flight.            *)
LEMMA BusyStep ==
  ASSUME TypeOK, ReadOnce, AttemptsLeft, BusyBounded, [Next]_vars, TypeOK', AttemptsLeft'
  PROVE  BusyBounded'
<1>1. CASE asked' = asked
  BY <1>1 DEF BusyBounded
<1>2. ASSUME NEW t \in Pumpers, EnqueuePortReads(t) PROVE BusyBounded'
  BY <1>2, QueueAssumption DEF EnqueuePortReads, EnqueueAll, BusyBounded
<1>3. ASSUME NEW t \in Pumpers, PumpPop(t) PROVE BusyBounded'
  <2>1. /\ inflight' = Head(queue) /\ Head(queue) \in Ports
        /\ \A p \in Ports : p # Head(queue) => asked'[p] = asked[p]
    BY <1>3 DEF PumpPop, TypeOK
  <2>2. asked'[inflight'] <= tries'[inflight'] + 1 /\ tries'[inflight'] < BusyLimit
    BY <2>1, QueueAssumption DEF AttemptsLeft
  <2>3. asked'[inflight'] <= BusyLimit
    BY <2>1, <2>2, QueueAssumption DEF TypeOK
  <2> QED BY <2>1, <2>3 DEF BusyBounded
<1>4. ASSUME NEW t \in Pumpers, Pump(t), ~PumpPop(t) PROVE asked' = asked
  BY <1>4 DEF Pump, PumpLinkDown, PumpOccupied, PumpEmpty, Send, SendNothing,
              SentTaken, SentNothing, Sent
<1>5. ASSUME NEW t \in Pumpers, TimerFires(t) PROVE asked' = asked
  BY <1>5 DEF TimerFires
<1>6. ASSUME NEW r \in requests, Reply(r) PROVE asked' = asked
  BY <1>6 DEF Reply, ReplyIgnored, ReplyOk, ReplyBusy, NoReply
<1>7. ReadAges \/ LinkLost \/ Reconnected \/ Stop \/ Finished \/ UNCHANGED vars
      => asked' = asked
  BY DEF ReadAges, LinkLost, Reconnected, Stop, Finished, vars
<1> QED BY <1>1, <1>2, <1>3, <1>4, <1>5, <1>6, <1>7 DEF Next

-----------------------------------------------------------------------------
(* An undisturbed session.                                                 *)
LEMMA UndisturbedStep ==
  ASSUME TypeOK, ~disturbed => Undisturbed, [Next]_vars
  PROVE  ~disturbed' => Undisturbed'
<1> SUFFICES ASSUME ~disturbed' PROVE Undisturbed'
  OBVIOUS
<1>1. ~disturbed
  BY DEF TypeOK, Next, EnqueuePortReads, Pump, PumpLinkDown, PumpOccupied, PumpEmpty,
         PumpPop, Send, SendNothing, SentTaken, SentNothing, Sent, TimerFires, ReadAges,
         Reply, ReplyIgnored, ReplyOk, ReplyBusy, NoReply, LinkLost, Reconnected, Stop,
         Finished, vars
<1>2. Undisturbed
  BY <1>1
<1>3. ASSUME NEW t \in Pumpers, EnqueuePortReads(t) \/ TimerFires(t) PROVE Undisturbed'
  <2>1. /\ UNCHANGED <<up, inflight, old, requests, stamped>>
        /\ \A u \in Pumpers : pc'[u] = pc[u] \/ pc'[u] = "pump"
    BY <1>3 DEF EnqueuePortReads, TimerFires, TypeOK
  <2> QED BY <1>2, <2>1 DEF Undisturbed
<1>4. ASSUME NEW t \in Pumpers, PumpLinkDown(t) PROVE Undisturbed'
  <2>1. inflight = None /\ ~old' /\ UNCHANGED <<up, inflight, requests, stamped>>
    BY <1>2, <1>4 DEF PumpLinkDown, Undisturbed
  <2>2. \A u \in Pumpers : pc'[u] = pc[u] \/ pc'[u] = "idle"
    BY <1>4 DEF PumpLinkDown, TypeOK
  <2> QED BY <1>2, <2>1, <2>2 DEF Undisturbed
<1>5. ASSUME NEW t \in Pumpers, PumpOccupied(t) \/ PumpEmpty(t) PROVE Undisturbed'
  <2>1. ~old' /\ UNCHANGED <<up, inflight, requests, stamped>>
    BY <1>2, <1>5 DEF PumpOccupied, PumpEmpty, Occupied, Undisturbed
  <2>2. \A u \in Pumpers : pc'[u] = pc[u] \/ pc'[u] = "idle"
    BY <1>5 DEF PumpOccupied, PumpEmpty, TypeOK
  <2> QED BY <1>2, <2>1, <2>2 DEF Undisturbed
<1>6. ASSUME NEW t \in Pumpers, PumpPop(t) PROVE Undisturbed'
  <2>1. inflight = None /\ requests = {} /\ \A u \in Pumpers : pc[u] # "send"
    BY <1>2, <1>6 DEF PumpPop, Occupied, Undisturbed
  <2>2. /\ up' /\ ~old' /\ requests' = {} /\ stamped' = stamped
        /\ inflight' \in Ports /\ inflight' # None
    BY <1>6, <2>1, QueueAssumption DEF PumpPop, TypeOK
  <2>3. \A u \in Pumpers : u # t => pc'[u] = pc[u]
    BY <1>6 DEF PumpPop, TypeOK
  <2>4. pc'[t] = "send"
    BY <1>6 DEF PumpPop, TypeOK
  <2> QED BY <1>2, <2>1, <2>2, <2>3, <2>4 DEF Undisturbed
<1>7. ASSUME NEW t \in Pumpers, Send(t) PROVE Undisturbed'
  <2>1. requests = {} /\ inflight # None /\ \A u \in Pumpers : pc[u] = "send" => u = t
    BY <1>2, <1>7 DEF Send, Undisturbed
  <2>2. UNCHANGED <<up, inflight, old>> /\ \A r1, r2 \in requests' : r1 = r2
    BY <1>7, <2>1 DEF Send
  <2>3. pc'[t] = "sent" /\ \A u \in Pumpers : u # t => pc'[u] = pc[u]
    BY <1>7 DEF Send, TypeOK
  <2>4. stamped'[t] # None /\ \A u \in Pumpers : u # t => stamped'[u] = stamped[u]
    BY <1>7, NewCidUnused DEF Send, TypeOK
  <2> QED BY <1>2, <2>1, <2>2, <2>3, <2>4 DEF Undisturbed
<1>8. ASSUME NEW t \in Pumpers PROVE ~SendNothing(t) /\ ~SentNothing(t)
  BY <1>2 DEF SendNothing, SentNothing, Undisturbed
<1>9. ASSUME NEW t \in Pumpers, SentTaken(t) \/ Sent(t) PROVE Undisturbed'
  <2>1. UNCHANGED <<up, inflight, old, requests>>
    BY <1>9 DEF SentTaken, Sent
  <2>2. pc'[t] = "idle" /\ \A u \in Pumpers : u # t => pc'[u] = pc[u] /\ stamped'[u] = stamped[u]
    BY <1>9 DEF SentTaken, Sent, TypeOK
  <2> QED BY <1>2, <2>1, <2>2 DEF Undisturbed
<1>10. ASSUME NEW r \in requests, ReplyIgnored(r) \/ NoReply(r) PROVE Undisturbed'
  <2>1. UNCHANGED <<up, inflight, old, pc, stamped>> /\ requests' \subseteq requests
    BY <1>10 DEF ReplyIgnored, NoReply
  <2> QED BY <1>2, <2>1 DEF Undisturbed
<1>11. ASSUME NEW r \in requests, ReplyOk(r) \/ ReplyBusy(r) PROVE Undisturbed'
  <2>1. requests' = {} /\ inflight' = None /\ ~old' /\ UNCHANGED <<up, pc, stamped>>
    BY <1>2, <1>11 DEF ReplyOk, ReplyBusy, Undisturbed
  <2>2. \A u \in Pumpers : pc[u] # "send"
    BY <1>2, <1>11 DEF Undisturbed
  <2> QED BY <1>2, <2>1, <2>2 DEF Undisturbed
<1>12. CASE Reconnected
  <2>1. inflight = None /\ inflight' = None /\ ~old' /\ up' /\ UNCHANGED <<pc, stamped, requests>>
    BY <1>2, <1>12 DEF Reconnected, Undisturbed
  <2> QED BY <1>2, <2>1 DEF Undisturbed
<1>13. ~ReadAges /\ ~LinkLost /\ ~Stop
  BY DEF ReadAges, LinkLost, Stop
<1>14. CASE UNCHANGED vars
  BY <1>2, <1>14 DEF vars, Undisturbed
<1>15. CASE Finished
  BY <1>14, <1>15 DEF Finished
<1> QED BY <1>3, <1>4, <1>5, <1>6, <1>7, <1>8, <1>9, <1>10, <1>11, <1>12, <1>13, <1>14,
           <1>15 DEF Next, Pump, Reply

-----------------------------------------------------------------------------
(* The queue moves on.                                                     *)

(* Nobody who holds the read in flight, or pumps, is disturbed by a step   *)
(* of another thread.                                                      *)
LEMMA MovesKept ==
  ASSUME Held \/ Pumping, NEW t \in Pumpers, inflight' = inflight,
         \A u \in Pumpers \ {t} : pc'[u] = pc[u] /\ reading'[u] = reading[u]
  PROVE  /\ Held /\ (Publishing(t) /\ reading[t] = inflight
                     => Publishing(t)' /\ reading'[t] = inflight) => Held'
         /\ Pumping /\ (pc[t] = "pump" => pc'[t] = "pump") => Pumping'
BY DEF Held, Pumping, Publishing

LEMMA MovesStep ==
  ASSUME TypeOK, PumpersKnow, QueueMoves, [Next]_vars
  PROVE  QueueMoves'
<1>1. queue' = <<>> /\ inflight' = None => QueueMoves'
  BY DEF QueueMoves
<1>2. ASSUME NEW t \in Pumpers, EnqueuePortReads(t) PROVE QueueMoves'
  <2>1. pc'[t] = "pump" /\ ~Publishing(t) /\ UNCHANGED <<inflight, awaited, old, timer, reading>>
    BY <1>2 DEF EnqueuePortReads, TypeOK, Publishing
  <2>2. \A u \in Pumpers \ {t} : pc'[u] = pc[u]
    BY <1>2 DEF EnqueuePortReads, TypeOK
  <2>3. Pumping'
    BY <2>1 DEF Pumping
  <2>4. Held => Held'
    BY <2>1, <2>2, MovesKept
  <2> QED BY <2>1, <2>3, <2>4 DEF QueueMoves
<1>3. ASSUME NEW t \in Pumpers, TimerFires(t) PROVE QueueMoves'
  <2>1. pc'[t] = "pump" /\ ~Publishing(t) /\ UNCHANGED <<queue, inflight, awaited, old, reading>>
        /\ timer' = "off"
    BY <1>3 DEF TimerFires, TypeOK, Publishing
  <2>2. \A u \in Pumpers \ {t} : pc'[u] = pc[u]
    BY <1>3 DEF TimerFires, TypeOK
  <2>3. Pumping'
    BY <2>1 DEF Pumping
  <2>4. Held => Held'
    BY <2>1, <2>2, MovesKept
  <2>5. inflight # None => Held \/ old
    BY <1>3 DEF TimerFires, Due, QueueMoves
  <2> QED BY <2>1, <2>3, <2>4, <2>5 DEF QueueMoves
<1>4. ASSUME NEW t \in Pumpers, PumpLinkDown(t) \/ PumpEmpty(t) \/ SentNothing(t)
      PROVE  QueueMoves'
  BY <1>1, <1>4 DEF PumpLinkDown, PumpEmpty, SentNothing
<1>5. ASSUME NEW t \in Pumpers, PumpOccupied(t) PROVE QueueMoves'
  <2>1. inflight # None /\ ~old /\ ~Publishing(t) /\ UNCHANGED <<inflight, awaited, old, timer, reading>>
    BY <1>5 DEF PumpOccupied, Occupied, Publishing
  <2>2. \A u \in Pumpers \ {t} : pc'[u] = pc[u]
    BY <1>5 DEF PumpOccupied, TypeOK
  <2>3. Held => Held'
    BY <2>1, <2>2, MovesKept
  <2> QED BY <2>1, <2>3 DEF QueueMoves
<1>6. ASSUME NEW t \in Pumpers, PumpPop(t) PROVE QueueMoves'
  <2>1. pc'[t] = "send" /\ reading'[t] = inflight'
    BY <1>6 DEF PumpPop, TypeOK
  <2>2. Held'
    BY <2>1 DEF Held, Publishing
  <2>3. inflight' # None
    BY <1>6, QueueAssumption DEF PumpPop, TypeOK
  <2> QED BY <2>2, <2>3 DEF QueueMoves
<1>7. ASSUME NEW t \in Pumpers, Send(t) \/ SendNothing(t) PROVE QueueMoves'
  <2>1. /\ UNCHANGED <<queue, inflight, awaited, old, timer, reading>>
        /\ pc[t] = "send" /\ pc'[t] = "sent"
    BY <1>7 DEF Send, SendNothing, TypeOK
  <2>2. \A u \in Pumpers \ {t} : pc'[u] = pc[u]
    BY <1>7 DEF Send, SendNothing, TypeOK
  <2>3. (Held => Held') /\ (Pumping => Pumping')
    BY <2>1, <2>2 DEF Held, Pumping, Publishing
  <2> QED BY <2>1, <2>3 DEF QueueMoves
<1>8. ASSUME NEW t \in Pumpers, SentTaken(t) PROVE QueueMoves'
  <2>1. /\ UNCHANGED <<queue, inflight, awaited, old, timer>>
        /\ pc[t] = "sent" /\ reading[t] # inflight
    BY <1>8 DEF SentTaken
  <2>2. \A u \in Pumpers \ {t} : pc'[u] = pc[u] /\ reading'[u] = reading[u]
    BY <1>8 DEF SentTaken, TypeOK
  <2>3. (Held => Held') /\ (Pumping => Pumping')
    BY <2>1, <2>2, MovesKept
  <2> QED BY <2>1, <2>3 DEF QueueMoves
<1>9. ASSUME NEW t \in Pumpers, Sent(t) PROVE QueueMoves'
  <2>1. /\ timer' = "safety" /\ inflight' = inflight /\ inflight # None
        /\ awaited' # None
    BY <1>9 DEF Sent, PumpersKnow, Publishing
  <2> QED BY <2>1 DEF QueueMoves
<1>10. ASSUME NEW r \in requests, ReplyOk(r) \/ ReplyBusy(r) PROVE QueueMoves'
  BY <1>10 DEF ReplyOk, ReplyBusy, QueueMoves
<1>11. ASSUME UNCHANGED <<queue, inflight, awaited, timer, pc, reading>>, old => old'
       PROVE  QueueMoves'
  BY <1>11 DEF QueueMoves, Held, Pumping, Publishing
<1>12. ASSUME NEW r \in requests, ReplyIgnored(r) \/ NoReply(r) PROVE QueueMoves'
  BY <1>11, <1>12 DEF ReplyIgnored, NoReply
<1>13. ReadAges \/ LinkLost \/ Finished \/ UNCHANGED vars => QueueMoves'
  BY <1>11 DEF ReadAges, LinkLost, Finished, vars
<1>14. Reconnected \/ Stop => QueueMoves'
  BY <1>1 DEF Reconnected, Stop
<1> QED BY <1>2, <1>3, <1>4, <1>5, <1>6, <1>7, <1>8, <1>9, <1>10, <1>12, <1>13, <1>14
        DEF Next, Pump, Reply

-----------------------------------------------------------------------------
(* Theorem: the inductive invariant holds in every reachable state.        *)
THEOREM PumpInvariant == Spec => []PumpInv
<1>1. Init => PumpInv
  <2> SUFFICES ASSUME Init PROVE PumpInv
    OBVIOUS
  <2>1. TypeOK
    BY TypeStart
  <2>2. \A p \in Ports : asked[p] = 0
    BY DEF Init
  <2>3. \A t \in Pumpers : pc[t] = "idle"
    BY DEF Init
  <2>4. PumpersKnow /\ Undisturbed /\ QueueMoves
    BY <2>3 DEF Init, PumpersKnow, Publishing, Undisturbed, QueueMoves
  <2>5. ReadOnce /\ AttemptsLeft
    BY EmptyOnce DEF Init, ReadOnce, AttemptsLeft
  <2>6. BusyBounded
    BY <2>2, QueueAssumption DEF BusyBounded
  <2> QED BY <2>1, <2>4, <2>5, <2>6 DEF PumpInv
<1>2. PumpInv /\ [Next]_vars => PumpInv'
  <2> SUFFICES ASSUME PumpInv, [Next]_vars PROVE PumpInv'
    OBVIOUS
  <2>1. TypeOK /\ PumpersKnow /\ ReadOnce /\ AttemptsLeft /\ BusyBounded
        /\ (~disturbed => Undisturbed) /\ QueueMoves
    BY DEF PumpInv
  <2>2. TypeOK' /\ PumpersKnow'
    BY <2>1, TypeStep, KnowStep
  <2>3. ReadOnce' /\ AttemptsLeft'
    BY <2>1, ReadOnceStep, AttemptsStep
  <2>4. BusyBounded'
    BY <2>1, <2>2, <2>3, BusyStep
  <2>5. (~disturbed' => Undisturbed') /\ QueueMoves'
    BY <2>1, UndisturbedStep, MovesStep
  <2> QED BY <2>2, <2>3, <2>4, <2>5 DEF PumpInv
<1> QED BY <1>1, <1>2, PTL DEF Spec

(* Theorem: whatever the threads, the replies, the timers and the session  *)
(* do, a port is read once at a time (mqtt_api.py:646-648) and at most     *)
(* BusyLimit times a round (756-762), an undisturbed session holds one     *)
(* read at a time (651-667), and a queued port or a read in flight always  *)
(* has a timer or a pumper that will move it (684-712).                    *)
THEOREM QueueInOrder == Spec => []QueueInv
<1>1. PumpInv => QueueInv
  <2> SUFFICES ASSUME PumpInv PROVE QueueInv
    OBVIOUS
  <2>1. TypeOK /\ ReadOnce /\ BusyBounded
    BY DEF PumpInv
  <2>2. OneReadAtATime
    BY DEF PumpInv, Undisturbed, OneReadAtATime
  <2>3. Held \/ Pumping => \E t \in Pumpers : pc[t] # "idle"
    BY DEF Held, Pumping, Publishing
  <2>4. NeverStalled
    BY <2>3 DEF PumpInv, QueueMoves, NeverStalled
  <2> QED BY <2>1, <2>2, <2>4 DEF QueueInv
<1> QED BY <1>1, PumpInvariant, PTL

=============================================================================
