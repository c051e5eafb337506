--------------------------- MODULE MqttLinkProofs ---------------------------
(* Theorems about MqttLink, for any sets of clients, threads and refresh   *)
(* coroutines.                                                             *)
EXTENDS MqttLink, TLAPS

(* The sets of locations are named so that the provers see their members.  *)
USE DEF NetStates, WorkerStates, MaxLate

(* The client a dial picks is a client.                                    *)
LEMMA NewClientType ==
  ASSUME \E c \in Clients : Unused(c)
  PROVE  NewClient \in Clients
BY DEF NewClient

LEMMA LeaveType ==
  ASSUME PlacesOK, NEW w \in Workers, NEW to \in WorkerStates, Leave(w, to)
  PROVE  /\ wpc' \in [Workers -> WorkerStates]
         /\ mine' \in [Workers -> Clients \cup {NoClient}]
         /\ lockHolder' \in Workers \cup {NoOne}
BY DEF PlacesOK, Leave, Unlocked

LEMMA FailType ==
  ASSUME PlacesOK, NEW w \in Workers, Fail(w) \/ Succeed(w)
  PROVE  /\ wpc' \in [Workers -> WorkerStates]
         /\ mine' \in [Workers -> Clients \cup {NoClient}]
         /\ lockHolder' \in Workers \cup {NoOne}
<1>1. \E to \in WorkerStates : Leave(w, to)
  BY DEF Fail, Succeed
<1>2. QED
  BY <1>1, LeaveType

LEMMA GotoType ==
  ASSUME PlacesOK, NEW w \in Workers, NEW from, NEW to \in WorkerStates,
         Goto(w, from, to)
  PROVE  wpc' \in [Workers -> WorkerStates]
BY DEF PlacesOK, Goto

LEMMA MoveType ==
  ASSUME PlacesOK, NEW w \in Workers, NEW from, NEW to \in WorkerStates,
         Move(w, from, to)
  PROVE  PlacesOK'
<1>1. wpc' \in [Workers -> WorkerStates]
  BY GotoType DEF Move
<1>2. QED
  BY <1>1 DEF PlacesOK, Move, flags

(* The step from connect() of a worker.                                    *)
LEMMA ConnectType ==
  ASSUME PlacesOK, NEW w \in Workers, Connect(w)
  PROVE  PlacesOK'
<1>1. CASE DialOk(w)
  <2>1. NewClient \in Clients
    BY <1>1, NewClientType DEF DialOk
  <2>2. wpc' \in [Workers -> WorkerStates]
    BY <1>1, GotoType DEF DialOk
  <2>3. lateDials' \in 0..MaxLate
    BY <1>1 DEF DialOk, CountLate, PlacesOK
  <2>4. mine' \in [Workers -> Clients \cup {NoClient}]
    BY <1>1, <2>1 DEF DialOk, PlacesOK
  <2>5. net' \in [Clients -> NetStates]
    BY <1>1, <2>1 DEF DialOk, PlacesOK
  <2>6. QED
    BY <1>1, <2>2, <2>3, <2>4, <2>5 DEF PlacesOK, DialOk, flags
<1>2. CASE DialFail(w)
  BY <1>2, FailType DEF PlacesOK, DialFail, flags
<1>3. CASE Publish(w)
  <2>1. wpc' \in [Workers -> WorkerStates]
    BY <1>3, GotoType DEF Publish
  <2>2. QED
    BY <1>3, <2>1 DEF PlacesOK, Publish, flags
<1>4. CASE Start(w)
  <2>1. wpc' \in [Workers -> WorkerStates]
    BY <1>4, GotoType DEF Start
  <2>2. net' \in [Clients -> NetStates]
    BY <1>4 DEF Start, PlacesOK
  <2>3. QED
    BY <1>4, <2>1, <2>2 DEF PlacesOK, Start, flags
<1>5. CASE AwaitDone(w)
  BY <1>5, FailType DEF PlacesOK, AwaitDone, flags
<1>6. CASE AwaitPoll(w)
  BY <1>6, MoveType DEF AwaitPoll
<1>7. CASE PollAgain(w)
  BY <1>7, MoveType DEF PollAgain
<1>8. CASE PollStopped(w)
  BY <1>8, MoveType DEF PollStopped
<1>9. CASE TimedOut(w)
  BY <1>9, MoveType DEF TimedOut
<1>10. CASE Abandon(w)
  <2>1. net' \in [Clients -> NetStates]
    BY <1>10 DEF Abandon, AfterLoopStop, PlacesOK
  <2>2. client' \in Clients \cup {NoClient}
    BY <1>10 DEF Abandon, PlacesOK
  <2>3. QED
    BY <1>10, <2>1, <2>2, FailType DEF PlacesOK, Abandon, flags
<1>11. QED
  BY <1>1, <1>2, <1>3, <1>4, <1>5, <1>6, <1>7, <1>8, <1>9, <1>10 DEF Connect

(* Steps of the locked section that precedes connect().                    *)
LEMMA ReconnectType ==
  ASSUME PlacesOK, NEW w \in Threads \cup Refreshers, Reconnect(w)
  PROVE  PlacesOK'
<1>0. w \in Workers
  BY DEF Workers
<1>1. CASE EnterRefused(w)
  BY <1>0, <1>1, FailType DEF PlacesOK, EnterRefused, flags
<1>2. CASE Enter(w)
  <2>1. wpc' \in [Workers -> WorkerStates]
    BY <1>0, <1>2, GotoType DEF Enter
  <2>2. QED
    BY <1>0, <1>2, <2>1 DEF PlacesOK, Enter, flags
<1>3. CASE TeardownNothing(w)
  <2>1. wpc' \in [Workers -> WorkerStates]
    BY <1>0, <1>3, GotoType DEF TeardownNothing
  <2>2. QED
    BY <1>3, <2>1 DEF PlacesOK, TeardownNothing, flags
<1>4. CASE Teardown(w)
  <2>1. wpc' \in [Workers -> WorkerStates]
    BY <1>0, <1>4, GotoType DEF Teardown
  <2>2. QED
    BY <1>4, <2>1 DEF PlacesOK, Teardown, AfterLoopStop, flags
<1>5. CASE Hangup(w)
  <2>1. wpc' \in [Workers -> WorkerStates]
    BY <1>0, <1>5, GotoType DEF Hangup
  <2>2. net' \in [Clients -> NetStates]
    BY <1>5 DEF PlacesOK, Hangup, AfterDisconnect
  <2>3. QED
    BY <1>5, <2>1, <2>2 DEF PlacesOK, Hangup, flags
<1>6. CASE HangupNone(w)
  BY <1>0, <1>6, FailType DEF PlacesOK, HangupNone, flags
<1>7. QED
  BY <1>1, <1>2, <1>3, <1>4, <1>5, <1>6 DEF Reconnect

LEMMA BackoffType ==
  ASSUME PlacesOK, NEW t \in Threads, Backoff(t)
  PROVE  PlacesOK'
<1>0. t \in Workers
  BY DEF Workers
<1>1. CASE BackoffStopped(t)
  BY <1>0, <1>1, MoveType DEF BackoffStopped
<1>2. CASE BackoffElapsed(t)
  BY <1>0, <1>2, MoveType DEF BackoffElapsed
<1>3. CASE CredOk(t)
  BY <1>0, <1>3, MoveType DEF CredOk
<1>4. CASE CredFail(t)
  BY <1>0, <1>4, MoveType DEF CredFail
<1>5. CASE CredRejected(t)
  <2>1. wpc' \in [Workers -> WorkerStates]
    BY <1>0, <1>5, GotoType DEF CredRejected
  <2>2. QED
    BY <1>5, <2>1 DEF PlacesOK, CredRejected
<1>6. CASE Exit(t)
  <2>1. wpc' \in [Workers -> WorkerStates]
    BY <1>0, <1>6, GotoType DEF Exit
  <2>2. QED
    BY <1>6, <2>1 DEF PlacesOK, Exit, flags
<1>7. QED
  BY <1>1, <1>2, <1>3, <1>4, <1>5, <1>6 DEF Backoff

LEMMA RefreshType ==
  ASSUME PlacesOK, NEW p \in Refreshers, Refresh(p) \/ OrphanJobEnds(p)
  PROVE  PlacesOK'
<1>0. p \in Workers
  BY DEF Workers
<1>1. CASE StartRefresh(p)
  BY <1>1 DEF PlacesOK, StartRefresh
<1>2. CASE TokensOk(p)
  <2>1. wpc' \in [Workers -> WorkerStates]
    BY <1>0, <1>2, GotoType DEF TokensOk
  <2>2. QED
    BY <1>2, <2>1 DEF PlacesOK, TokensOk, flags
<1>3. CASE JobStart(p)
  BY <1>0, <1>3, MoveType DEF JobStart
<1>4. CASE TokensFail(p)
  BY <1>4 DEF PlacesOK, TokensFail, FinishRefresh
<1>5. CASE TokensRejected(p)
  BY <1>5 DEF PlacesOK, TokensRejected, FinishRefresh
<1>6. CASE JobEnded(p)
  BY <1>6 DEF PlacesOK, JobEnded, FinishRefresh
<1>7. CASE RestartSpawn(p)
  <2>1. wpc' \in [Workers -> WorkerStates]
    BY <1>7, GotoType DEF RestartSpawn, SpawnBackoff, Workers
  <2>2. QED
    BY <1>7, <2>1 DEF PlacesOK, RestartSpawn, flags
<1>8. CASE RestartSkip(p)
  BY <1>8 DEF PlacesOK, RestartSkip, flags
<1>9. CASE OrphanJobEnds(p)
  BY <1>0, <1>9 DEF PlacesOK, OrphanJobEnds, flags
<1>10. QED
  BY <1>1, <1>2, <1>3, <1>4, <1>5, <1>6, <1>7, <1>8, <1>9 DEF Refresh

LEMMA EntryType ==
  ASSUME PlacesOK, SetupDone \/ SetupFailed \/ Unload \/ Disconnect
  PROVE  PlacesOK'
<1>0. Setup \in Workers
  BY DEF Workers
<1>1. CASE SetupDone
  BY <1>1, <1>0 DEF PlacesOK, SetupDone, Goto
<1>2. CASE SetupFailed
  BY <1>2, <1>0 DEF PlacesOK, SetupFailed, Goto
<1>3. CASE Unload
  <2>1. wpc' \in [Workers -> WorkerStates]
    BY <1>3 DEF Unload, PlacesOK
  <2>2. cpc' \in [Refreshers -> {"idle", "tokens", "job", "restart"}]
    BY <1>3 DEF Unload, PlacesOK
  <2>3. QED
    BY <1>3, <2>1, <2>2 DEF PlacesOK, Unload
<1>4. CASE DiscStop
  BY <1>4 DEF PlacesOK, DiscStop
<1>5. CASE DiscJoin
  BY <1>5 DEF PlacesOK, DiscJoin, AfterLoopStop, flags
<1>6. CASE DiscBye
  <2>1. net' \in [Clients -> NetStates]
    BY <1>6 DEF PlacesOK, DiscBye, AfterDisconnect
  <2>2. QED
    BY <1>6, <2>1 DEF PlacesOK, DiscBye, flags
<1>7. CASE DiscClear
  BY <1>7 DEF PlacesOK, DiscClear
<1>8. CASE DiscNone
  BY <1>8 DEF PlacesOK, DiscNone
<1>9. QED
  BY <1>1, <1>2, <1>3, <1>4, <1>5, <1>6, <1>7, <1>8 DEF Disconnect

LEMMA NetworkType ==
  ASSUME PlacesOK, NEW c \in Clients, Network(c)
  PROVE  PlacesOK'
<1>1. CASE OnConnect(c)
  BY <1>1 DEF PlacesOK, OnConnect
<1>2. CASE LoseLink(c)
  BY <1>2 DEF PlacesOK, LoseLink, flags
<1>3. CASE OnDisconnectStale(c)
  BY <1>3 DEF PlacesOK, OnDisconnectStale, flags
<1>4. CASE OnDisconnect(c)
  BY <1>4 DEF PlacesOK, OnDisconnect, flags
<1>5. CASE DropClaimed(c)
  <2>1. wpc' \in [Workers -> WorkerStates]
    BY <1>5, GotoType DEF DropClaimed, SpawnBackoff, Workers
  <2>2. QED
    BY <1>5, <2>1 DEF PlacesOK, DropClaimed, flags
<1>6. CASE DropOwned(c)
  BY <1>6 DEF PlacesOK, DropOwned, flags
<1>7. QED
  BY <1>1, <1>2, <1>3, <1>4, <1>5, <1>6 DEF Network, Callback

(* A flag is set, cleared or left alone.                                   *)
LEMMA FlagsType ==
  ASSUME FlagsOK, [Next]_vars
  PROVE  FlagsOK'
<1> USE DEF FlagsOK, flags
<1>1. ASSUME NEW w \in Workers, Connect(w) PROVE FlagsOK'
  BY <1>1 DEF Connect, Move, DialOk, DialFail, Publish, Start, AwaitDone, AwaitPoll,
              PollAgain, PollStopped, TimedOut, Abandon
<1>2. ASSUME NEW w \in Threads \cup Refreshers, Reconnect(w) PROVE FlagsOK'
  BY <1>2 DEF Reconnect, EnterRefused, Enter, TeardownNothing, Teardown, Hangup, HangupNone
<1>3. ASSUME NEW t \in Threads, Backoff(t) PROVE FlagsOK'
  BY <1>3 DEF Backoff, Move, BackoffStopped, BackoffElapsed, CredOk, CredFail,
              CredRejected, Exit, ReleaseReconnect
<1>4. ASSUME NEW p \in Refreshers, Refresh(p) \/ OrphanJobEnds(p) PROVE FlagsOK'
  BY <1>4 DEF Refresh, Move, StartRefresh, TokensOk, JobStart, TokensFail, TokensRejected,
              JobEnded, RestartSpawn, RestartSkip, OrphanJobEnds, FinishRefresh,
              ClaimReconnect, ReleaseReconnect
<1>5. CASE SetupDone \/ SetupFailed \/ Unload
  BY <1>5 DEF SetupDone, SetupFailed, Unload
<1>6. CASE Disconnect
  BY <1>6 DEF Disconnect, DiscStop, DiscJoin, DiscBye, DiscClear, DiscNone
<1>7. ASSUME NEW c \in Clients, Network(c) PROVE FlagsOK'
  BY <1>7 DEF Network, Callback, OnConnect, LoseLink, OnDisconnectStale, OnDisconnect,
              DropClaimed, DropOwned, ClaimReconnect
<1>8. CASE TokenAges \/ Finished \/ UNCHANGED vars
  BY <1>8 DEF TokenAges, Finished, vars
<1>9. QED
  BY <1>1, <1>2, <1>3, <1>4, <1>5, <1>6, <1>7, <1>8 DEF Next

LEMMA PlacesType ==
  ASSUME PlacesOK, [Next]_vars
  PROVE  PlacesOK'
<1>1. CASE \E w \in Workers : Connect(w)
  BY <1>1, ConnectType
<1>2. CASE \E w \in Threads \cup Refreshers : Reconnect(w)
  BY <1>2, ReconnectType
<1>3. CASE \E t \in Threads : Backoff(t)
  BY <1>3, BackoffType
<1>4. CASE \E p \in Refreshers : Refresh(p) \/ OrphanJobEnds(p)
  BY <1>4, RefreshType
<1>5. CASE SetupDone \/ SetupFailed \/ Unload \/ Disconnect
  BY <1>5, EntryType
<1>6. CASE \E c \in Clients : Network(c)
  BY <1>6, NetworkType
<1>7. CASE TokenAges
  BY <1>7 DEF PlacesOK, TokenAges
<1>8. CASE Finished \/ UNCHANGED vars
  BY <1>8 DEF PlacesOK, Finished, vars
<1>9. QED
  BY <1>1, <1>2, <1>3, <1>4, <1>5, <1>6, <1>7, <1>8 DEF Next

(* Every variable keeps its type.                                          *)
THEOREM TypeCorrect == Spec => []TypeOK
<1>1. Init => TypeOK
  <2> SUFFICES ASSUME Init PROVE TypeOK
    OBVIOUS
  <2>1. wpc \in [Workers -> WorkerStates]
    BY DEF Init
  <2>2. lateDials \in 0..MaxLate
    BY DEF Init
  <2>3. net \in [Clients -> NetStates]
    BY DEF Init
  <2>4. FlagsOK
    BY DEF Init, FlagsOK
  <2>5. QED
    BY <2>1, <2>2, <2>3, <2>4 DEF Init, TypeOK, PlacesOK
<1>2. TypeOK /\ [Next]_vars => TypeOK'
  BY FlagsType, PlacesType DEF TypeOK
<1>3. QED
  BY <1>1, <1>2, PTL DEF Spec

-----------------------------------------------------------------------------
(* Ownership of the reconnect. A step leaves every owner alone, adds one   *)
(* while there is none, or removes the only one.                           *)
LEMMA OwnersKept ==
  ASSUME SingleOwner, reconnecting' = reconnecting,
         \A o \in Owners : Owns(o)' <=> Owns(o)
  PROVE  SingleOwner'
BY DEF SingleOwner

LEMMA OwnerTaken ==
  ASSUME SingleOwner, ~reconnecting, reconnecting' = TRUE,
         NEW p \in Owners, Owns(p)',
         \A o \in Owners \ {p} : Owns(o)' <=> Owns(o)
  PROVE  SingleOwner'
BY DEF SingleOwner

LEMMA OwnerGone ==
  ASSUME SingleOwner, reconnecting' = FALSE, NEW p \in Owners, Owns(p), ~Owns(p)',
         \A o \in Owners \ {p} : Owns(o)' <=> Owns(o)
  PROVE  SingleOwner'
BY DEF SingleOwner

(* A worker that moves between places that are both not "idle" stays what  *)
(* it was.                                                                 *)
LEMMA BusyKeepsOwners ==
  ASSUME PlacesOK, SingleOwner, NEW w \in Workers, NEW to,
         wpc[w] # "idle", to # "idle", wpc' = [wpc EXCEPT ![w] = to],
         UNCHANGED <<cpc, reconnecting>>
  PROVE  SingleOwner'
<1>1. \A o \in Owners : Owns(o)' <=> Owns(o)
  BY DEF Owns, Owners, PlacesOK
<1>2. QED
  BY <1>1, OwnersKept

(* What a refresh coroutine's job does is of no concern to ownership.      *)
LEMMA JobKeepsOwners ==
  ASSUME PlacesOK, SingleOwner, NEW p \in Refreshers \cup {Setup}, NEW to,
         wpc' = [wpc EXCEPT ![p] = to], UNCHANGED <<cpc, reconnecting>>
  PROVE  SingleOwner'
<1>1. \A o \in Owners : Owns(o)' <=> Owns(o)
  BY LinkAssumption DEF Owns, Owners, PlacesOK, Workers
<1>2. QED
  BY <1>1, OwnersKept

LEMMA ConnectOwners ==
  ASSUME PlacesOK, SingleOwner, NEW w \in Workers, Connect(w) \/ Reconnect(w)
  PROVE  SingleOwner'
<1>1. wpc[w] # "idle"
  BY DEF Connect, Reconnect, Goto, Move, DialOk, DialFail, Publish, Start, AwaitDone,
         AwaitPoll, PollAgain, PollStopped, TimedOut, Abandon, EnterRefused,
         Enter, TeardownNothing, Teardown, Hangup, HangupNone
<1>2. PICK to \in WorkerStates \ {"idle"} : wpc' = [wpc EXCEPT ![w] = to]
  BY DEF Connect, Reconnect, Goto, Move, Fail, Succeed, Leave, DialOk, DialFail, Publish,
         Start, AwaitDone, AwaitPoll, PollAgain, PollStopped, TimedOut, Abandon,
         EnterRefused, Enter, TeardownNothing, Teardown, Hangup, HangupNone
<1>3. UNCHANGED <<cpc, reconnecting>>
  BY DEF Connect, Reconnect, Move, DialOk, DialFail, Publish, Start, AwaitDone,
         AwaitPoll, PollAgain, PollStopped, TimedOut, Abandon, EnterRefused,
         Enter, TeardownNothing, Teardown, Hangup, HangupNone
<1>4. QED
  BY <1>1, <1>2, <1>3, BusyKeepsOwners

LEMMA BackoffOwners ==
  ASSUME PlacesOK, SingleOwner, NEW t \in Threads, Backoff(t)
  PROVE  SingleOwner'
<1>0. t \in Workers /\ t \in Owners /\ t \notin Refreshers
  BY LinkAssumption DEF Workers, Owners
<1>1. CASE Exit(t)
  <2>1. Owns(t)
    BY <1>1 DEF Exit, Goto, Owns
  <2>2. ~Owns(t)'
    BY <1>0, <1>1 DEF Exit, Goto, Owns, PlacesOK
  <2>3. \A o \in Owners \ {t} : Owns(o)' <=> Owns(o)
    BY <1>1 DEF Exit, Goto, Owns, Owners, PlacesOK
  <2>4. QED
    BY <1>0, <1>1, <2>1, <2>2, <2>3, OwnerGone DEF Exit, ReleaseReconnect
<1>2. CASE ~Exit(t)
  <2>1. wpc[t] # "idle"
    BY <1>2 DEF Backoff, BackoffStopped, BackoffElapsed, CredOk, CredFail, CredRejected,
                Move, Goto
  <2>2. PICK to \in WorkerStates \ {"idle"} : wpc' = [wpc EXCEPT ![t] = to]
    BY <1>2 DEF Backoff, BackoffStopped, BackoffElapsed, CredOk, CredFail, CredRejected,
                Move, Goto
  <2>3. UNCHANGED <<cpc, reconnecting>>
    BY <1>2 DEF Backoff, BackoffStopped, BackoffElapsed, CredOk, CredFail, CredRejected,
                Move
  <2>4. QED
    BY <1>0, <2>1, <2>2, <2>3, BusyKeepsOwners
<1>3. QED
  BY <1>1, <1>2

(* A claim that spawns a backoff thread.                                   *)
LEMMA SpawnOwners ==
  ASSUME PlacesOK, SingleOwner, ClaimReconnect, SpawnBackoff,
         \A p \in Refreshers : cpc'[p] = cpc[p] \/ {cpc'[p], cpc[p]} \subseteq {"idle", "restart"}
  PROVE  SingleOwner'
<1>1. PICK t \in Threads : Goto(t, "idle", "backoff")
  BY DEF SpawnBackoff
<1>2. t \in Owners /\ t \in Workers
  BY DEF Owners, Workers
<1>3. Owns(t)'
  BY <1>1, <1>2 DEF Owns, Goto, PlacesOK
<1>4. \A o \in Owners \ {t} : Owns(o)' <=> Owns(o)
  BY <1>1, <1>2 DEF Owns, Owners, Goto, PlacesOK
<1>5. QED
  BY <1>2, <1>3, <1>4, OwnerTaken DEF ClaimReconnect

(* The finally clause of a refresh coroutine.                              *)
LEMMA FinishOwners ==
  ASSUME PlacesOK, SingleOwner, NEW p \in Refreshers, NEW to \in {"idle", "restart"},
         cpc[p] \in {"tokens", "job"}, FinishRefresh(p, to),
         \A t \in Threads : wpc'[t] = wpc[t]
  PROVE  SingleOwner'
<1>0. p \in Owners /\ p \notin Threads
  BY LinkAssumption DEF Owners
<1>1. Owns(p)
  BY DEF Owns
<1>2. ~Owns(p)'
  BY <1>0 DEF Owns, FinishRefresh, PlacesOK
<1>3. \A o \in Owners \ {p} : Owns(o)' <=> Owns(o)
  BY DEF Owns, Owners, FinishRefresh, PlacesOK
<1>4. QED
  BY <1>0, <1>1, <1>2, <1>3, OwnerGone DEF FinishRefresh, ReleaseReconnect

LEMMA RefreshOwners ==
  ASSUME PlacesOK, SingleOwner, NEW p \in Refreshers, Refresh(p) \/ OrphanJobEnds(p)
  PROVE  SingleOwner'
<1>0. p \in Owners /\ p \in Workers /\ p \notin Threads
  BY LinkAssumption DEF Owners, Workers
<1>1. CASE StartRefresh(p)
  <2>1. Owns(p)'
    BY <1>0, <1>1 DEF StartRefresh, Owns, PlacesOK
  <2>2. \A o \in Owners \ {p} : Owns(o)' <=> Owns(o)
    BY <1>1 DEF StartRefresh, Owns, Owners, PlacesOK
  <2>3. QED
    BY <1>0, <1>1, <2>1, <2>2, OwnerTaken DEF StartRefresh, ClaimReconnect
<1>2. CASE TokensOk(p)
  <2>1. \A o \in Owners : Owns(o)' <=> Owns(o)
    BY <1>0, <1>2 DEF TokensOk, Goto, Owns, Owners, PlacesOK
  <2>2. QED
    BY <1>2, <2>1, OwnersKept DEF TokensOk
<1>3. CASE JobStart(p)
  BY <1>3, JobKeepsOwners DEF JobStart, Move, Goto
<1>4. CASE TokensFail(p)
  BY <1>4, FinishOwners DEF TokensFail
<1>5. CASE TokensRejected(p)
  BY <1>5, FinishOwners DEF TokensRejected
<1>6. CASE JobEnded(p)
  <2>1. \A t \in Threads : wpc'[t] = wpc[t]
    BY <1>0, <1>6 DEF JobEnded, PlacesOK, Workers
  <2>2. QED
    BY <1>6, <2>1, FinishOwners DEF JobEnded
<1>7. CASE RestartSpawn(p)
  BY <1>7, SpawnOwners DEF RestartSpawn, PlacesOK
<1>8. CASE RestartSkip(p)
  <2>1. \A o \in Owners : Owns(o)' <=> Owns(o)
    BY <1>0, <1>8 DEF RestartSkip, Owns, Owners, PlacesOK
  <2>2. QED
    BY <1>8, <2>1, OwnersKept DEF RestartSkip
<1>9. CASE OrphanJobEnds(p)
  BY <1>9, JobKeepsOwners DEF OrphanJobEnds
<1>10. QED
  BY <1>1, <1>2, <1>3, <1>4, <1>5, <1>6, <1>7, <1>8, <1>9 DEF Refresh

LEMMA UnloadOwners ==
  ASSUME PlacesOK, SingleOwner, Unload
  PROVE  SingleOwner'
<1>0. \A t \in Threads : wpc'[t] = wpc[t]
  BY LinkAssumption DEF Unload, Cancelled, PlacesOK, Workers
<1>1. CASE Cancelled = {}
  <2>1. \A o \in Owners : Owns(o)' <=> Owns(o)
    BY <1>0, <1>1 DEF Unload, Owns, Owners, PlacesOK
  <2>2. QED
    BY <1>1, <2>1, OwnersKept DEF Unload
<1>2. CASE Cancelled # {}
  <2>1. PICK p : p \in Cancelled
    BY <1>2
  <2>2. p \in Owners /\ p \in Refreshers /\ p \notin Threads /\ Owns(p)
    BY <2>1, LinkAssumption DEF Cancelled, Owners, Owns
  <2>3. ~Owns(p)'
    BY <2>1, <2>2 DEF Unload, Owns
  <2>4. \A o \in Owners \ {p} : Owns(o)' <=> Owns(o)
    <3>1. \A o \in Owners \ {p} : ~Owns(o)
      BY <2>2 DEF SingleOwner
    <3>2. \A o \in Owners : Owns(o)' => Owns(o)
      BY <1>0 DEF Unload, Owns, Owners, PlacesOK
    <3>3. QED
      BY <3>1, <3>2
  <2>5. QED
    BY <1>2, <2>2, <2>3, <2>4, OwnerGone DEF Unload
<1>3. QED
  BY <1>1, <1>2

LEMMA NetworkOwners ==
  ASSUME PlacesOK, SingleOwner, NEW c \in Clients, Network(c)
  PROVE  SingleOwner'
<1>1. CASE DropClaimed(c)
  BY <1>1, SpawnOwners DEF DropClaimed
<1>2. CASE ~DropClaimed(c)
  <2>1. UNCHANGED <<wpc, cpc, reconnecting>>
    BY <1>2 DEF Network, Callback, OnConnect, LoseLink, OnDisconnectStale, OnDisconnect,
                DropOwned
  <2>2. QED
    BY <2>1, OwnersKept DEF Owns
<1>3. QED
  BY <1>1, <1>2

(* There is at most one owner, and the flag says whether there is one.     *)
THEOREM OwnershipIsExclusive == Spec => []SingleOwner
<1>1. Init => SingleOwner
  BY LinkAssumption DEF Init, SingleOwner, Owns, Owners, Workers
<1>2. PlacesOK /\ SingleOwner /\ [Next]_vars => SingleOwner'
  <2> SUFFICES ASSUME PlacesOK, SingleOwner, [Next]_vars PROVE SingleOwner'
    OBVIOUS
  <2>1. CASE \E w \in Workers : Connect(w)
    BY <2>1, ConnectOwners
  <2>2. CASE \E w \in Threads \cup Refreshers : Reconnect(w)
    BY <2>2, ConnectOwners DEF Workers
  <2>3. CASE \E t \in Threads : Backoff(t)
    BY <2>3, BackoffOwners
  <2>4. CASE \E p \in Refreshers : Refresh(p) \/ OrphanJobEnds(p)
    BY <2>4, RefreshOwners
  <2>5. CASE SetupDone \/ SetupFailed
    BY <2>5, JobKeepsOwners DEF SetupDone, SetupFailed, Goto
  <2>6. CASE Unload
    BY <2>6, UnloadOwners
  <2>7. CASE \E c \in Clients : Network(c)
    BY <2>7, NetworkOwners
  <2>8. CASE Disconnect \/ TokenAges \/ Finished \/ UNCHANGED vars
    <3>1. UNCHANGED <<wpc, cpc, reconnecting>>
      BY <2>8 DEF Disconnect, DiscStop, DiscJoin, DiscBye, DiscClear, DiscNone, TokenAges,
                  Finished, vars
    <3>2. QED
      BY <3>1, OwnersKept DEF Owns
  <2>9. QED
    BY <2>1, <2>2, <2>3, <2>4, <2>5, <2>6, <2>7, <2>8 DEF Next
<1>3. TypeOK => PlacesOK
  BY DEF TypeOK
<1>4. QED
  BY <1>1, <1>2, <1>3, TypeCorrect, PTL DEF Spec

-----------------------------------------------------------------------------
(* One live client. The inductive invariant says who holds the lock, what  *)
(* the local variable of connect() refers to, that setup runs alone until  *)
(* its client is lost, which client may be live, and when _connected lags. *)

PreDial == {"teardown", "hangup", "dial"}
Dialled == {"publish", "start", "await", "poll", "abandon"}

(* The places from which a worker still has a client to close or to start. *)
Early == PreDial \cup {"publish", "start"}

USE DEF Connecting, Dialled

(* _reconnect_lock is held by the worker between its taking and releasing  *)
(* it; setup connects without it.                                          *)
LockIsHeld ==
  /\ \A w \in Owners : wpc[w] \in Connecting <=> lockHolder = w
  /\ lockHolder # Setup

(* What may run in which phase of the config entry.                        *)
PhaseFits ==
  /\ wpc[Setup] \in {"idle", "ok", "exc", "dial"} \cup Dialled
  /\ wpc[Setup] # "idle" => phase = "connecting"
  /\ phase \in {"connecting", "ready"} => dpc = "idle"
  /\ dpc \in {"idle", "stop"} <=> ~stop
  /\ phase = "connecting" => \A p \in Refreshers : cpc[p] = "idle"
  /\ phase \in {"connecting", "ready"} =>
       \A p \in Refreshers : wpc[p] # "idle" => cpc[p] = "job"

(* A worker has a client from the dial to the end of connect(), which no   *)
(* other worker has, and the client's network thread runs from "start" on. *)
MineFits ==
  \A w \in Workers :
    /\ wpc[w] \in Dialled <=> mine[w] # NoClient
    /\ wpc[w] \in {"publish", "start"} => net[mine[w]] \in {"open", "dead"}
    /\ wpc[w] \in {"await", "poll", "abandon"} => net[mine[w]] # "open"
    /\ \A v \in Workers \ {w} : mine[v] = mine[w] => mine[w] = NoClient

(* Setup, which takes no lock, has the link for itself until its client's  *)
(* network thread has ended.                                               *)
SetupAlone ==
  wpc[Setup] \in {"dial"} \cup Dialled =>
    \/ /\ \A t \in Threads : wpc[t] = "idle"
       /\ \A d \in Clients : net[d] # "dead" => d = mine[Setup]
    \/ wpc[Setup] \in {"await", "poll", "abandon"} /\ net[mine[Setup]] = "dead"

LinkShape == PlacesOK /\ LockIsHeld /\ PhaseFits /\ MineFits /\ SetupAlone

(* The one live client is self._client, or about to be, unless disconnect()*)
(* has begun; none is live where a worker is about to dial, or where a     *)
(* backoff thread is about to tear one down.                               *)
LiveIsCurrent ==
  /\ OneLiveClient
  /\ \A d \in Clients : net[d] \in Live =>
       stop \/ d = client \/ \E w \in Workers : wpc[w] = "publish" /\ mine[w] = d
  /\ \A w \in Workers : \A d \in Clients : net[d] \in Live =>
       /\ wpc[w] \in {"teardown", "hangup"} =>
            d = client /\ w \notin Threads /\ dpc # "clear"
       /\ wpc[w] # "dial"
       /\ wpc[w] \in {"publish", "start"} => d = mine[w]

(* _connected is False while a client has not had its CONNACK, such a      *)
(* client is in some connect(), and _connected is True once it has.        *)
FlagFollows ==
  /\ \A d \in Clients : net[d] \in {"open", "run"} =>
       ~connected /\ (stop \/ \E w \in Workers : mine[w] = d)
  /\ \A w \in Workers : wpc[w] \in {"dial", "publish", "start"} => ~connected
  /\ client \in Clients /\ net[client] = "up" => connected \/ stop

(* Once a client has been dialled after the stop, nobody is about to dial. *)
DialsOnce ==
  /\ lateDials <= 1
  /\ lateDials = 1 => stop /\ \A w \in Workers : wpc[w] \notin PreDial

LinkInv == LinkShape /\ LiveIsCurrent /\ FlagFollows /\ DialsOnce

(* The lock, when no worker enters or leaves the locked section.           *)
LEMMA LockSteady ==
  ASSUME LockIsHeld, lockHolder' = lockHolder,
         \A w \in Owners : wpc'[w] \in Connecting <=> wpc[w] \in Connecting
  PROVE  LockIsHeld'
BY DEF LockIsHeld

LEMMA LockStep ==
  ASSUME PlacesOK, LockIsHeld, [Next]_vars
  PROVE  LockIsHeld'
<1> USE DEF PlacesOK, Owners, Workers
<1>1. ASSUME NEW w \in Workers, Connect(w) PROVE LockIsHeld'
  <2>1. CASE DialFail(w) \/ AwaitDone(w) \/ Abandon(w)
    BY <2>1, LinkAssumption DEF DialFail, AwaitDone, Abandon, Fail, Succeed, Leave, Unlocked,
                                LockIsHeld
  <2>2. CASE ~(DialFail(w) \/ AwaitDone(w) \/ Abandon(w))
    BY <1>1, <2>2, LockSteady DEF Connect, DialOk, Publish, Start, AwaitPoll, PollAgain,
                                  PollStopped, TimedOut, Goto, Move
  <2>3. QED
    BY <2>1, <2>2
<1>2. ASSUME NEW w \in Threads \cup Refreshers, Reconnect(w) PROVE LockIsHeld'
  <2>1. CASE HangupNone(w) \/ EnterRefused(w)
    BY <2>1, LinkAssumption DEF HangupNone, EnterRefused, Fail, Succeed, Leave, Unlocked,
                                LockIsHeld
  <2>2. CASE Enter(w)
    BY <2>2, LinkAssumption DEF Enter, Goto, LockIsHeld
  <2>3. CASE TeardownNothing(w) \/ Teardown(w) \/ Hangup(w)
    BY <2>3, LockSteady DEF TeardownNothing, Teardown, Hangup, Goto
  <2>4. QED
    BY <1>2, <2>1, <2>2, <2>3 DEF Reconnect
<1>3. ASSUME NEW t \in Threads, Backoff(t) PROVE LockIsHeld'
  BY <1>3, LockSteady DEF Backoff, BackoffStopped, BackoffElapsed, CredOk, CredFail,
                          CredRejected, Exit, Goto, Move
<1>4. ASSUME NEW p \in Refreshers, Refresh(p) \/ OrphanJobEnds(p) PROVE LockIsHeld'
  <2>1. CASE RestartSpawn(p)
    BY <2>1, LockSteady DEF RestartSpawn, SpawnBackoff, Goto
  <2>2. CASE ~RestartSpawn(p)
    BY <1>4, <2>2, LockSteady DEF Refresh, Move, StartRefresh, TokensOk, JobStart, TokensFail,
                                  TokensRejected, JobEnded, RestartSkip, OrphanJobEnds,
                                  FinishRefresh, Goto
  <2>3. QED
    BY <2>1, <2>2
<1>5. CASE SetupDone \/ SetupFailed \/ Unload \/ Disconnect
  <2>1. CASE SetupDone \/ SetupFailed
    BY <2>1, LockSteady DEF SetupDone, SetupFailed, Goto
  <2>2. CASE Unload
    BY <2>2, LockSteady DEF Unload
  <2>3. CASE Disconnect
    BY <2>3, LockSteady DEF Disconnect, DiscStop, DiscJoin, DiscBye, DiscClear, DiscNone
  <2>4. QED
    BY <1>5, <2>1, <2>2, <2>3
<1>6. ASSUME NEW c \in Clients, Network(c) PROVE LockIsHeld'
  BY <1>6, LockSteady DEF Network, Callback, OnConnect, LoseLink, OnDisconnectStale,
                          OnDisconnect, DropClaimed, DropOwned, SpawnBackoff, Goto
<1>7. CASE TokenAges \/ Finished \/ UNCHANGED vars
  BY <1>7, LockSteady DEF TokenAges, Finished, vars
<1>8. QED
  BY <1>1, <1>2, <1>3, <1>4, <1>5, <1>6, <1>7 DEF Next

LEMMA PhaseStep ==
  ASSUME PlacesOK, PhaseFits, [Next]_vars
  PROVE  PhaseFits'
<1> USE DEF PlacesOK, PhaseFits, Workers, flags
<1>1. ASSUME NEW w \in Workers, Connect(w) PROVE PhaseFits'
  BY <1>1, LinkAssumption DEF Connect, DialOk, DialFail, Publish, Start, AwaitDone, AwaitPoll,
     PollAgain, PollStopped, TimedOut, Abandon, Goto, Move, Fail, Succeed, Leave
<1>2. ASSUME NEW w \in Threads \cup Refreshers, Reconnect(w) PROVE PhaseFits'
  BY <1>2, LinkAssumption DEF Reconnect, EnterRefused, Enter, TeardownNothing, Teardown, Hangup,
     HangupNone, Goto, Fail, Succeed, Leave
<1>3. ASSUME NEW t \in Threads, Backoff(t) PROVE PhaseFits'
  BY <1>3, LinkAssumption DEF Backoff, BackoffStopped, BackoffElapsed, CredOk, CredFail,
     CredRejected, Exit, Goto, Move
<1>4. ASSUME NEW p \in Refreshers, Refresh(p) \/ OrphanJobEnds(p) PROVE PhaseFits'
  BY <1>4, LinkAssumption DEF Refresh, Move, StartRefresh, TokensOk, JobStart, TokensFail,
     TokensRejected, JobEnded, RestartSpawn, RestartSkip, OrphanJobEnds, FinishRefresh,
     SpawnBackoff, Goto
<1>5. CASE SetupDone \/ SetupFailed
  BY <1>5, LinkAssumption DEF SetupDone, SetupFailed, Goto
<1>6. CASE Unload
  BY <1>6, LinkAssumption DEF Unload, Cancelled
<1>7. CASE Disconnect
  BY <1>7 DEF Disconnect, DiscStop, DiscJoin, DiscBye, DiscClear, DiscNone
<1>8. ASSUME NEW c \in Clients, Network(c) PROVE PhaseFits'
  BY <1>8, LinkAssumption DEF Network, Callback, OnConnect, LoseLink, OnDisconnectStale,
     OnDisconnect, DropClaimed, DropOwned, SpawnBackoff, Goto
<1>9. CASE TokenAges \/ Finished \/ UNCHANGED vars
  BY <1>9 DEF TokenAges, Finished, vars
<1>10. QED
  BY <1>1, <1>2, <1>3, <1>4, <1>5, <1>6, <1>7, <1>8, <1>9 DEF Next

-----------------------------------------------------------------------------
(* What a step may do to the network side of a client, and to the workers. *)

NetEdges == {<<"open", "run">>, <<"open", "dead">>, <<"run", "up">>, <<"run", "lost">>,
             <<"run", "dead">>, <<"up", "lost">>, <<"up", "dead">>, <<"lost", "dead">>,
             <<"lost", "drop">>, <<"drop", "dead">>}

NetStep ==
  \A c \in Clients :
    \/ net'[c] = net[c]
    \/ <<net[c], net'[c]>> \in NetEdges
    \/ \E w \in Workers : DialOk(w) /\ c = NewClient

(* A client follows the edges of its life, and only a dial starts it anew. *)
LEMMA NetMoves ==
  ASSUME PlacesOK, [Next]_vars
  PROVE  NetStep
<1> USE DEF PlacesOK, NetStep, NetEdges
<1>1. CASE UNCHANGED net
  BY <1>1
<1>2. ASSUME NEW w \in Workers, Connect(w) PROVE NetStep
  <2>1. CASE DialOk(w)
    BY <2>1, NewClientType DEF DialOk
  <2>2. CASE Start(w)
    BY <2>2 DEF Start
  <2>3. CASE Abandon(w)
    BY <2>3 DEF Abandon, Joinable, AfterLoopStop
  <2>4. CASE ~DialOk(w) /\ ~Start(w) /\ ~Abandon(w)
    BY <1>2, <2>4 DEF Connect, Move, DialFail, Publish, AwaitDone, AwaitPoll, PollAgain,
                      PollStopped, TimedOut
  <2>5. QED
    BY <2>1, <2>2, <2>3, <2>4
<1>3. ASSUME NEW w \in Threads \cup Refreshers, Reconnect(w) PROVE NetStep
  <2>1. CASE Teardown(w)
    BY <2>1 DEF Teardown, Joinable, AfterLoopStop
  <2>2. CASE Hangup(w)
    BY <2>2 DEF Hangup, Joinable, AfterDisconnect
  <2>3. CASE ~Teardown(w) /\ ~Hangup(w)
    BY <1>3, <2>3 DEF Reconnect, EnterRefused, Enter, TeardownNothing, HangupNone
  <2>4. QED
    BY <2>1, <2>2, <2>3
<1>4. CASE Disconnect
  <2>1. CASE DiscJoin
    BY <2>1 DEF DiscJoin, Joinable, AfterLoopStop
  <2>2. CASE DiscBye
    BY <2>2 DEF DiscBye, Joinable, AfterDisconnect
  <2>3. CASE ~DiscJoin /\ ~DiscBye
    BY <1>4, <2>3 DEF Disconnect, DiscStop, DiscClear, DiscNone
  <2>4. QED
    BY <2>1, <2>2, <2>3
<1>5. ASSUME NEW c \in Clients, Network(c) PROVE NetStep
  <2>1. CASE OnConnect(c)
    BY <2>1 DEF OnConnect
  <2>2. CASE LoseLink(c)
    BY <2>2 DEF LoseLink
  <2>3. CASE Callback(c)
    BY <2>3 DEF Callback, OnDisconnect, OnDisconnectStale, DropClaimed, DropOwned
  <2>4. QED
    BY <1>5, <2>1, <2>2, <2>3 DEF Network
<1>6. ASSUME NEW t \in Threads, Backoff(t) PROVE UNCHANGED net
  BY <1>6 DEF Backoff, BackoffStopped, BackoffElapsed, CredOk, CredFail, CredRejected, Exit,
              Move
<1>7. ASSUME NEW p \in Refreshers, Refresh(p) \/ OrphanJobEnds(p) PROVE UNCHANGED net
  BY <1>7 DEF Refresh, Move, StartRefresh, TokensOk, JobStart, TokensFail, TokensRejected,
              JobEnded, RestartSpawn, RestartSkip, OrphanJobEnds, FinishRefresh
<1>8. CASE SetupDone \/ SetupFailed \/ Unload \/ TokenAges \/ Finished \/ UNCHANGED vars
  BY <1>1, <1>8 DEF SetupDone, SetupFailed, Unload, TokenAges, Finished, vars
<1>9. QED
  BY <1>1, <1>2, <1>3, <1>4, <1>5, <1>6, <1>7, <1>8 DEF Next

(* Only a dial makes a client live.                                        *)
LEMMA LiveByDial ==
  ASSUME PlacesOK, [Next]_vars, NEW c \in Clients, net[c] \notin Live, net'[c] \in Live
  PROVE  \E w \in Workers : DialOk(w) /\ c = NewClient
BY NetMoves DEF NetStep, NetEdges, Live, PlacesOK

(* A step in or before connect() moves its worker, and nobody else.        *)
LEMMA AttemptMoves ==
  ASSUME NEW w \in Workers, Connect(w) \/ Reconnect(w)
  PROVE  /\ wpc[w] # "idle"
         /\ \E to \in WorkerStates \ {"idle"} : wpc' = [wpc EXCEPT ![w] = to]
         /\ mine' = mine \/ \E m : mine' = [mine EXCEPT ![w] = m]
         /\ UNCHANGED <<flags, reconnecting, cpc, dpc>>
<1> USE DEF Connect, Reconnect, Goto, Move, DialOk, DialFail, Publish, Start, AwaitDone,
            AwaitPoll, PollAgain, PollStopped, TimedOut, Abandon, EnterRefused, Enter,
            TeardownNothing, Teardown, Hangup, HangupNone, Fail, Succeed, Leave
<1>1. wpc[w] # "idle"
  OBVIOUS
<1>2. \E to \in WorkerStates \ {"idle"} : wpc' = [wpc EXCEPT ![w] = to]
  OBVIOUS
<1>3. mine' = mine \/ \E m : mine' = [mine EXCEPT ![w] = m]
  OBVIOUS
<1>4. UNCHANGED <<flags, reconnecting, cpc, dpc>>
  OBVIOUS
<1>5. QED
  BY <1>1, <1>2, <1>3, <1>4

LEMMA DialMine ==
  ASSUME PlacesOK, MineFits, NEW w \in Workers, DialOk(w)
  PROVE  MineFits'
<1> USE DEF PlacesOK
<1>1. NewClient \in Clients
  BY NewClientType DEF DialOk
<1>2. \A v \in Workers : mine[v] # NewClient
  BY DEF DialOk, NewClient, Unused
<1> HIDE DEF NewClient
<1>3. /\ wpc'[w] = "publish" /\ mine'[w] = NewClient
      /\ net'[NewClient] = "open" /\ NewClient # NoClient
  BY <1>1, LinkAssumption DEF DialOk, Goto
<1>4. \A v \in Workers \ {w} : wpc'[v] = wpc[v] /\ mine'[v] = mine[v]
  BY DEF DialOk, Goto
<1>5. \A c \in Clients \ {NewClient} : net'[c] = net[c]
  BY DEF DialOk
<1> HIDE DEF PlacesOK
<1>6. \A v \in Workers : wpc[v] \in Dialled => mine[v] \in Clients \ {NewClient}
  BY <1>2 DEF MineFits, PlacesOK
<1>7. QED
  BY <1>3, <1>4, <1>5, <1>6 DEF MineFits

LEMMA MineStep ==
  ASSUME PlacesOK, MineFits, [Next]_vars
  PROVE  MineFits'
<1> USE DEF PlacesOK, MineFits, Workers
<1>1. ASSUME NEW w \in Workers, Connect(w) PROVE MineFits'
  <2>1. CASE DialOk(w)
    BY <2>1, DialMine
  <2>2. CASE Start(w)
    BY <2>2 DEF Start, Goto
  <2>3. CASE Publish(w)
    BY <2>3 DEF Publish, Goto
  <2>4. CASE Abandon(w)
    BY <2>4 DEF Abandon, Fail, Leave, AfterLoopStop
  <2>5. CASE AwaitDone(w) \/ DialFail(w)
    BY <2>5 DEF AwaitDone, DialFail, Fail, Succeed, Leave
  <2>6. CASE AwaitPoll(w) \/ PollAgain(w) \/ PollStopped(w) \/ TimedOut(w)
    BY <2>6 DEF AwaitPoll, PollAgain, PollStopped, TimedOut, Move, Goto
  <2>7. QED
    BY <1>1, <2>1, <2>2, <2>3, <2>4, <2>5, <2>6 DEF Connect
<1>2. ASSUME NEW w \in Threads \cup Refreshers, Reconnect(w) PROVE MineFits'
  BY <1>2 DEF Reconnect, EnterRefused, Enter, TeardownNothing, Teardown, Hangup, HangupNone,
              Fail, Succeed, Leave, Goto, AfterLoopStop, AfterDisconnect
<1>3. ASSUME NEW t \in Threads, Backoff(t) PROVE MineFits'
  BY <1>3 DEF Backoff, BackoffStopped, BackoffElapsed, CredOk, CredFail, CredRejected, Exit,
              Goto, Move
<1>4. ASSUME NEW p \in Refreshers, Refresh(p) \/ OrphanJobEnds(p) PROVE MineFits'
  BY <1>4 DEF Refresh, Move, StartRefresh, TokensOk, JobStart, TokensFail, TokensRejected,
              JobEnded, RestartSpawn, RestartSkip, OrphanJobEnds, FinishRefresh,
              SpawnBackoff, Goto
<1>5. CASE SetupDone \/ SetupFailed
  BY <1>5 DEF SetupDone, SetupFailed, Goto
<1>6. CASE Unload
  BY <1>6 DEF Unload, Cancelled
<1>7. CASE Disconnect
  <2>1. CASE DiscJoin
    BY <2>1 DEF DiscJoin, AfterLoopStop
  <2>2. CASE DiscBye
    BY <2>2 DEF DiscBye, AfterDisconnect
  <2>3. CASE DiscStop \/ DiscClear \/ DiscNone
    BY <2>3 DEF DiscStop, DiscClear, DiscNone
  <2>4. QED
    BY <1>7, <2>1, <2>2, <2>3 DEF Disconnect
<1>8. ASSUME NEW c \in Clients, Network(c) PROVE MineFits'
  BY <1>8 DEF Network, Callback, OnConnect, LoseLink, OnDisconnectStale, OnDisconnect,
              DropClaimed, DropOwned, SpawnBackoff, Goto
<1>9. CASE TokenAges \/ Finished \/ UNCHANGED vars
  BY <1>9 DEF TokenAges, Finished, vars
<1>10. QED
  BY <1>1, <1>2, <1>3, <1>4, <1>5, <1>6, <1>7, <1>8, <1>9 DEF Next

(* A worker under way while setup connects: setup has lost its client.     *)
LEMMA SetupLost ==
  ASSUME LinkShape, NEW w \in Owners, wpc[w] # "idle",
         wpc'[Setup] = wpc[Setup], mine'[Setup] = mine[Setup],
         mine[Setup] \in Clients /\ net[mine[Setup]] = "dead" => net'[mine[Setup]] = "dead"
  PROVE  SetupAlone'
BY DEF LinkShape, PlacesOK, PhaseFits, MineFits, SetupAlone, Owners, Workers

LEMMA SetupConnects ==
  ASSUME LinkShape, Connect(Setup)
  PROVE  SetupAlone'
<1> USE DEF LinkShape, PlacesOK, Workers
<1>1. CASE DialOk(Setup)
  BY <1>1, LinkAssumption, NewClientType DEF SetupAlone, DialOk, Goto, MineFits
<1>2. CASE Start(Setup)
  BY <1>2, LinkAssumption DEF SetupAlone, Start, Goto, MineFits
<1>3. CASE ~DialOk(Setup) /\ ~Start(Setup)
  BY <1>3, LinkAssumption DEF SetupAlone, Connect, DialFail, Publish, AwaitDone, AwaitPoll,
     PollAgain, PollStopped, TimedOut, Abandon, Goto, Move, Fail, Succeed, Leave
<1>4. QED
  BY <1>1, <1>2, <1>3

LEMMA SetupStep ==
  ASSUME LinkShape, [Next]_vars
  PROVE  SetupAlone'
<1> USE DEF LinkShape
<1>0. Setup \in Workers /\ Setup \notin Owners
  BY LinkAssumption DEF Workers, Owners
<1>1. ASSUME NEW w \in Owners, Connect(w) \/ Reconnect(w) PROVE SetupAlone'
  <2>1. w \in Workers /\ w # Setup
    BY <1>0 DEF Workers, Owners
  <2>2. wpc[w] # "idle" /\ wpc'[Setup] = wpc[Setup] /\ mine'[Setup] = mine[Setup]
    BY <1>0, <1>1, <2>1, AttemptMoves DEF PlacesOK
  <2>3. ASSUME mine[Setup] \in Clients PROVE mine[Setup] # NewClient \/ \A v \in Workers : ~DialOk(v)
    BY <1>0, <2>3 DEF DialOk, NewClient, Unused
  <2>4. mine[Setup] \in Clients /\ net[mine[Setup]] = "dead" => net'[mine[Setup]] = "dead"
    BY <2>3, NetMoves DEF NetStep, NetEdges
  <2>5. QED
    BY <2>2, <2>4, SetupLost
<1>2. CASE Connect(Setup)
  BY <1>2, SetupConnects
<1>3. ASSUME NEW t \in Threads, Backoff(t) PROVE SetupAlone'
  <2>1. wpc[t] # "idle" /\ wpc'[Setup] = wpc[Setup] /\ mine' = mine /\ net' = net
    BY <1>0, <1>3, LinkAssumption DEF Backoff, BackoffStopped, BackoffElapsed, CredOk, CredFail,
       CredRejected, Exit, Goto, Move, PlacesOK, Workers
  <2>2. QED
    BY <2>1, SetupLost DEF Owners
<1>4. ASSUME NEW p \in Refreshers, Refresh(p) \/ OrphanJobEnds(p) PROVE SetupAlone'
  <2>1. phase # "connecting"
    BY <1>4 DEF PhaseFits, Refresh, Move, StartRefresh, TokensOk, JobStart, TokensFail,
       TokensRejected, JobEnded, RestartSpawn, RestartSkip, OrphanJobEnds, FinishRefresh, Goto
  <2>2. phase' = phase /\ PhaseFits'
    BY <1>4, PhaseStep DEF Refresh, Move, StartRefresh, TokensOk, JobStart, TokensFail,
       TokensRejected, JobEnded, RestartSpawn, RestartSkip, OrphanJobEnds, FinishRefresh, flags
  <2>3. QED
    BY <2>1, <2>2 DEF PhaseFits, SetupAlone
<1>5. CASE SetupDone \/ SetupFailed
  BY <1>0, <1>5 DEF SetupDone, SetupFailed, Goto, SetupAlone, PlacesOK
<1>6. CASE Unload \/ Disconnect
  <2>1. phase # "connecting" /\ wpc[Setup] = "idle"
    BY <1>6 DEF PhaseFits, Unload, Disconnect, DiscStop, DiscJoin, DiscBye, DiscClear, DiscNone
  <2>2. wpc'[Setup] = "idle"
    BY <1>0, <1>6, <2>1 DEF Unload, Disconnect, DiscStop, DiscJoin, DiscBye, DiscClear,
       DiscNone, PlacesOK
  <2>3. QED
    BY <2>2 DEF SetupAlone
<1>7. ASSUME NEW c \in Clients, Network(c) PROVE SetupAlone'
  <2> USE DEF PlacesOK, SetupAlone
  <2>1. CASE DropClaimed(c)
    <3>1. wpc'[Setup] = wpc[Setup]
      BY <1>0, <2>1, LinkAssumption DEF DropClaimed, SpawnBackoff, Goto
    <3>2. QED
      BY <1>0, <2>1, <3>1, LinkAssumption DEF DropClaimed, MineFits
  <2>2. CASE ~DropClaimed(c)
    BY <1>0, <1>7, <2>2 DEF Network, Callback, OnConnect, LoseLink, OnDisconnectStale,
       OnDisconnect, DropOwned, MineFits
  <2>3. QED
    BY <2>1, <2>2
<1>8. CASE TokenAges \/ Finished \/ UNCHANGED vars
  BY <1>8 DEF TokenAges, Finished, vars, SetupAlone
<1>9. QED
  BY <1>1, <1>2, <1>3, <1>4, <1>5, <1>6, <1>7, <1>8 DEF Next, Workers, Owners

(* The shape of the link is an invariant of its own.                       *)
LEMMA ShapeStep ==
  ASSUME LinkShape, [Next]_vars
  PROVE  LinkShape'
<1>1. PlacesOK'
  BY PlacesType DEF LinkShape
<1>2. LockIsHeld'
  BY LockStep DEF LinkShape
<1>3. PhaseFits'
  BY PhaseStep DEF LinkShape
<1>4. MineFits'
  BY MineStep DEF LinkShape
<1>5. QED
  BY <1>1, <1>2, <1>3, <1>4, SetupStep DEF LinkShape

(* A worker that has yet to dial, or to start its client, is alone but for *)
(* a setup whose client is lost.                                           *)
LEMMA EarlyAlone ==
  ASSUME LinkShape, NEW w \in Workers, wpc[w] \in Early,
         NEW v \in Workers \ {w}, wpc[v] \in Connecting
  PROVE  wpc[v] \notin Early
BY DEF LinkShape, LockIsHeld, PhaseFits, MineFits, SetupAlone, PlacesOK, Early, PreDial,
       Workers, Owners

-----------------------------------------------------------------------------
(* Which client is live.                                                   *)

(* A step that brings no worker to the dial or to the start of a client,   *)
(* and leaves self._client alone.                                          *)
Quiet ==
  /\ client' = client
  /\ stop => stop'
  /\ dpc' = "clear" => dpc = "clear"
  /\ \A w \in Workers : wpc'[w] \in Early => wpc'[w] = wpc[w] /\ mine'[w] = mine[w]
  /\ \A w \in Workers : wpc[w] = "publish" => wpc'[w] = "publish"

(* Every other step, by name.                                              *)
Loud ==
  \/ \E w \in Workers : DialOk(w) \/ Publish(w) \/ Abandon(w)
  \/ \E w \in Owners : Enter(w) \/ TeardownNothing(w) \/ Teardown(w) \/ Hangup(w)
  \/ DiscBye \/ DiscClear

LEMMA QuietOrLoud ==
  ASSUME PlacesOK, [Next]_vars
  PROVE  Quiet \/ Loud
<1> USE DEF PlacesOK, Workers, flags, Quiet, Early, PreDial
<1>1. ASSUME NEW w \in Workers, Connect(w), ~DialOk(w), ~Publish(w), ~Abandon(w) PROVE Quiet
  <2> USE <1>1 DEF Connect, DialFail, Start, AwaitDone, AwaitPoll, PollAgain, PollStopped,
                   TimedOut, Move, Goto, Fail, Succeed, Leave
  <2>1. client' = client /\ stop' = stop /\ dpc' = dpc
    OBVIOUS
  <2>2. wpc[w] # "publish" /\ \E to \in WorkerStates \ Early : wpc' = [wpc EXCEPT ![w] = to]
    OBVIOUS
  <2>3. mine' = mine \/ mine' = [mine EXCEPT ![w] = NoClient]
    OBVIOUS
  <2>4. QED
    BY <2>1, <2>2, <2>3
<1>2. ASSUME NEW w \in Owners, EnterRefused(w) \/ HangupNone(w) PROVE Quiet
  BY <1>2 DEF EnterRefused, HangupNone, Fail, Succeed, Leave, Owners
<1>3. ASSUME NEW t \in Threads, Backoff(t) PROVE Quiet
  BY <1>3 DEF Backoff, BackoffStopped, BackoffElapsed, CredOk, CredFail, CredRejected, Exit,
              Goto, Move
<1>4. ASSUME NEW p \in Refreshers, Refresh(p) \/ OrphanJobEnds(p) PROVE Quiet
  <2>1. CASE RestartSpawn(p)
    BY <2>1 DEF RestartSpawn, SpawnBackoff, Goto
  <2>2. CASE ~RestartSpawn(p)
    BY <1>4, <2>2 DEF Refresh, Move, StartRefresh, TokensOk, JobStart, TokensFail,
       TokensRejected, JobEnded, RestartSkip, OrphanJobEnds, FinishRefresh, Goto
  <2>3. QED
    BY <2>1, <2>2
<1>5. CASE Unload
  BY <1>5 DEF Unload
<1>6. CASE SetupDone \/ SetupFailed
  BY <1>6 DEF SetupDone, SetupFailed, Goto
<1>7. CASE DiscStop \/ DiscJoin \/ DiscNone
  BY <1>7 DEF DiscStop, DiscJoin, DiscNone
<1>8. ASSUME NEW c \in Clients, Network(c) PROVE Quiet
  <2>1. CASE DropClaimed(c)
    BY <2>1 DEF DropClaimed, SpawnBackoff, Goto
  <2>2. CASE ~DropClaimed(c)
    BY <1>8, <2>2 DEF Network, Callback, OnConnect, LoseLink, OnDisconnectStale, OnDisconnect,
       DropOwned
  <2>3. QED
    BY <2>1, <2>2
<1>9. CASE TokenAges \/ Finished \/ UNCHANGED vars
  BY <1>9 DEF TokenAges, Finished, vars
<1> HIDE DEF Quiet
<1>10. CASE Disconnect
  BY <1>7, <1>10 DEF Disconnect, Loud
<1>11. CASE \E w \in Owners : Reconnect(w)
  BY <1>2, <1>11 DEF Reconnect, Loud
<1>12. CASE \E w \in Workers : Connect(w)
  BY <1>1, <1>12 DEF Loud
<1>13. QED
  BY <1>3, <1>4, <1>5, <1>6, <1>8, <1>9, <1>10, <1>11, <1>12 DEF Next, Owners

LEMMA LiveSteady ==
  ASSUME PlacesOK, LiveIsCurrent, Quiet, [Next]_vars
  PROVE  LiveIsCurrent'
<1>1. \A d \in Clients : net'[d] \in Live => net[d] \in Live
  <2> SUFFICES ASSUME NEW d \in Clients, net'[d] \in Live, net[d] \notin Live PROVE FALSE
    OBVIOUS
  <2>1. PICK w \in Workers : DialOk(w)
    BY LiveByDial
  <2>2. wpc'[w] = "publish" /\ wpc[w] = "dial"
    BY <2>1 DEF DialOk, Goto, PlacesOK
  <2>3. QED
    BY <2>2 DEF Quiet, Early
<1>2. QED
  BY <1>1 DEF LiveIsCurrent, OneLiveClient, Quiet, Early, PreDial

LEMMA LiveDial ==
  ASSUME LinkShape, LiveIsCurrent, NEW w \in Workers, DialOk(w)
  PROVE  LiveIsCurrent'
<1>1. NewClient \in Clients
  BY NewClientType DEF DialOk
<1>2. \A d \in Clients : net[d] \notin Live
  BY DEF LiveIsCurrent, DialOk, Goto
<1>3. wpc'[w] = "publish" /\ mine'[w] = NewClient
  BY <1>1 DEF DialOk, Goto, LinkShape, PlacesOK
<1>4. \A v \in Workers \ {w} : wpc'[v] = wpc[v] /\ wpc[v] \notin Early
  BY EarlyAlone DEF DialOk, Goto, Early, PreDial, LinkShape, PlacesOK
<1>5. \A d \in Clients : net'[d] \in Live => d = NewClient
  BY <1>1, <1>2 DEF DialOk, LinkShape, PlacesOK
<1> HIDE DEF NewClient
<1>6. QED
  BY <1>1, <1>3, <1>4, <1>5 DEF LiveIsCurrent, OneLiveClient, Early, PreDial

LEMMA LivePublish ==
  ASSUME LinkShape, LiveIsCurrent, NEW w \in Workers, Publish(w)
  PROVE  LiveIsCurrent'
<1>1. wpc'[w] = "start" /\ mine' = mine /\ net' = net /\ client' = mine[w]
  BY DEF Publish, Goto, LinkShape, PlacesOK
<1>2. \A d \in Clients : net'[d] \in Live => d = mine[w]
  BY <1>1 DEF LiveIsCurrent, Publish, Goto
<1>3. \A v \in Workers \ {w} : wpc'[v] = wpc[v] /\ wpc[v] \notin Early
  BY EarlyAlone DEF Publish, Goto, Early, PreDial, LinkShape, PlacesOK
<1>4. QED
  BY <1>1, <1>2, <1>3 DEF LiveIsCurrent, OneLiveClient, Early, PreDial

(* The client that connect() abandons is dead, whoever else is live.       *)
LEMMA AbandonNet ==
  ASSUME LinkShape, NEW w \in Workers, Abandon(w)
  PROVE  \A d \in Clients : net'[d] = IF d = mine[w] THEN "dead" ELSE net[d]
BY DEF Abandon, AfterLoopStop, LinkShape, PlacesOK, MineFits

LEMMA LiveAbandon ==
  ASSUME LinkShape, LiveIsCurrent, NEW w \in Workers, Abandon(w)
  PROVE  LiveIsCurrent'
<1> USE DEF Live, Early, PreDial
<1>1. \A d \in Clients : net'[d] \in Live => net[d] \in Live /\ d # mine[w]
  BY AbandonNet
<1>2. \A v \in Workers :
        wpc'[v] \in WorkerStates \ Early \/ (wpc'[v] = wpc[v] /\ mine'[v] = mine[v])
  BY DEF Abandon, Fail, Leave, LinkShape, PlacesOK
<1>3. \A v \in Workers : wpc[v] = "publish" => wpc'[v] = "publish"
  BY DEF Abandon, Fail, Leave, LinkShape, PlacesOK
<1>4. dpc' = dpc /\ stop' = stop /\ (client' = client \/ client = mine[w])
  BY DEF Abandon, flags
<1>5. OneLiveClient'
  BY <1>1 DEF LiveIsCurrent, OneLiveClient
<1>6. \A d \in Clients : net'[d] \in Live =>
        stop' \/ d = client' \/ \E v \in Workers : wpc'[v] = "publish" /\ mine'[v] = d
  BY <1>1, <1>2, <1>3, <1>4 DEF LiveIsCurrent
<1>7. \A v \in Workers : \A d \in Clients : net'[d] \in Live =>
        /\ wpc'[v] \in {"teardown", "hangup"} =>
             d = client' /\ v \notin Threads /\ dpc' # "clear"
        /\ wpc'[v] # "dial"
        /\ wpc'[v] \in {"publish", "start"} => d = mine'[v]
  BY <1>1, <1>2, <1>4 DEF LiveIsCurrent
<1>8. QED
  BY <1>5, <1>6, <1>7 DEF LiveIsCurrent

(* What a worker finds when it takes the lock: a live client is            *)
(* self._client, and to a backoff thread, which has read _connected as     *)
(* False, there is none.                                                   *)
LEMMA EnterFinds ==
  ASSUME LinkShape, LiveIsCurrent, FlagFollows, NEW w \in Owners, Enter(w),
         NEW d \in Clients, net[d] \in Live
  PROVE  d = client /\ w \notin Threads
<1>1. wpc[w] = "lock" /\ ~stop /\ lockHolder = NoOne
  BY DEF Enter, Goto, MustNotReconnect
<1>2. \A v \in Workers : wpc[v] \in Connecting => v = Setup
  BY <1>1, LinkAssumption DEF LinkShape, LockIsHeld, Workers, Owners
<1>3. wpc[Setup] \notin {"dial", "publish", "start"}
  BY <1>1, LinkAssumption DEF LinkShape, SetupAlone, PhaseFits, Owners
<1>4. d = client
  BY <1>1, <1>2, <1>3 DEF LiveIsCurrent
<1>5. ASSUME w \in Threads PROVE FALSE
  <2>1. ~connected
    BY <1>5 DEF Enter, MustNotReconnect
  <2>2. net[d] \in {"open", "run"}
    BY <1>1, <1>4, <2>1 DEF FlagFollows, Live
  <2>3. PICK v \in Workers : mine[v] = d
    BY <1>1, <2>2 DEF FlagFollows
  <2>4. v = Setup /\ wpc[Setup] \in Dialled
    BY <1>2, <2>3, LinkAssumption DEF LinkShape, MineFits
  <2>5. wpc[w] = "idle"
    BY <1>5, <2>2, <2>3, <2>4 DEF LinkShape, SetupAlone
  <2>6. QED
    BY <1>1, <2>5
<1>6. QED
  BY <1>4, <1>5

LEMMA LiveEnter ==
  ASSUME LinkShape, LiveIsCurrent, FlagFollows, NEW w \in Owners, Enter(w)
  PROVE  LiveIsCurrent'
<1>1. w \in Workers /\ wpc[w] = "lock" /\ ~stop /\ dpc # "clear"
  BY DEF Enter, Goto, MustNotReconnect, LinkShape, PhaseFits, Workers, Owners
<1>2. \A d \in Clients : net[d] \in Live => d = client /\ w \notin Threads
  BY EnterFinds
<1>3. wpc' = [wpc EXCEPT ![w] = "teardown"] /\ UNCHANGED <<net, client, stop, mine, dpc>>
  BY DEF Enter, Goto, flags
<1>4. wpc'[w] = "teardown" /\ \A v \in Workers \ {w} : wpc'[v] = wpc[v]
  BY <1>1, <1>3 DEF LinkShape, PlacesOK
<1>5. QED
  BY <1>1, <1>2, <1>3, <1>4 DEF LiveIsCurrent, OneLiveClient

LEMMA LiveTeardown ==
  ASSUME LinkShape, LiveIsCurrent, NEW w \in Owners,
         TeardownNothing(w) \/ Teardown(w) \/ Hangup(w)
  PROVE  LiveIsCurrent'
<1>1. w \in Workers /\ wpc[w] \in {"teardown", "hangup"}
  BY DEF TeardownNothing, Teardown, Hangup, Goto, Workers, Owners
<1>2. \A v \in Workers \ {w} : wpc'[v] = wpc[v] /\ wpc[v] \notin Early
  BY <1>1, EarlyAlone DEF TeardownNothing, Teardown, Hangup, Goto, Early, PreDial, LinkShape,
                          PlacesOK
<1>3. UNCHANGED <<client, stop, mine, dpc>>
  BY DEF TeardownNothing, Teardown, Hangup, flags
<1>4. \A d \in Clients : net'[d] \in Live => net[d] \in Live
  BY DEF TeardownNothing, Teardown, Hangup, AfterLoopStop, AfterDisconnect, Live, LinkShape,
         PlacesOK
<1>5. wpc'[w] = "hangup" \/ (wpc'[w] = "dial" /\ \A d \in Clients : net'[d] \notin Live)
  <2>1. CASE Teardown(w)
    BY <1>1, <2>1 DEF Teardown, Goto, LinkShape, PlacesOK
  <2>2. CASE TeardownNothing(w)
    BY <1>1, <2>2, LinkAssumption DEF TeardownNothing, Goto, LinkShape, PlacesOK, LiveIsCurrent
  <2>3. CASE Hangup(w)
    BY <1>1, <2>3 DEF Hangup, Goto, LinkShape, PlacesOK, LiveIsCurrent, AfterDisconnect,
                      Joinable, Live
  <2>4. QED
    BY <2>1, <2>2, <2>3
<1>6. QED
  BY <1>1, <1>2, <1>3, <1>4, <1>5 DEF LiveIsCurrent, OneLiveClient, Early, PreDial

LEMMA LiveDisconnect ==
  ASSUME LinkShape, LiveIsCurrent, DiscBye \/ DiscClear
  PROVE  LiveIsCurrent'
<1>1. stop /\ stop' /\ UNCHANGED <<wpc, mine>>
  BY DEF DiscBye, DiscClear, LinkShape, PhaseFits, flags
<1>2. \A d \in Clients : net'[d] \in Live => net[d] \in Live
  BY DEF DiscBye, DiscClear, LinkShape, PlacesOK, AfterDisconnect, Live
<1>3. \A v \in Workers, d \in Clients :
        wpc[v] \in {"teardown", "hangup"} => net'[d] \notin Live
  <2>1. CASE DiscBye
    BY <2>1, <1>2 DEF DiscBye, LiveIsCurrent, AfterDisconnect, Joinable, Live, LinkShape,
                      PlacesOK
  <2>2. CASE DiscClear
    BY <2>2, <1>2 DEF DiscClear, LiveIsCurrent
  <2>3. QED
    BY <2>1, <2>2
<1>4. QED
  BY <1>1, <1>2, <1>3 DEF LiveIsCurrent, OneLiveClient

LEMMA LiveStep ==
  ASSUME LinkShape, LiveIsCurrent, FlagFollows, [Next]_vars
  PROVE  LiveIsCurrent'
<1>1. CASE Quiet
  BY <1>1, LiveSteady DEF LinkShape
<1>2. CASE Loud
  BY <1>2, LiveDial, LivePublish, LiveAbandon, LiveEnter, LiveTeardown, LiveDisconnect DEF Loud
<1>3. QED
  BY <1>1, <1>2, QuietOrLoud DEF LinkShape

-----------------------------------------------------------------------------
(* What _connected says of the live client.                                *)

LEMMA FlagDial ==
  ASSUME LinkShape, FlagFollows, NEW w \in Workers, DialOk(w)
  PROVE  FlagFollows'
<1>1. NewClient \in Clients
  BY NewClientType DEF DialOk
<1>2. net[NewClient] = "dead"
  BY DEF DialOk, NewClient, Unused
<1> HIDE DEF NewClient
<1>3. /\ wpc[w] = "dial" /\ wpc' = [wpc EXCEPT ![w] = "publish"]
      /\ net' = [net EXCEPT ![NewClient] = "open"]
      /\ mine' = [mine EXCEPT ![w] = NewClient]
      /\ UNCHANGED <<client, stop, connected>>
  BY DEF DialOk, Goto, flags
<1>4. mine[w] = NoClient
  BY <1>3 DEF LinkShape, MineFits
<1>5. QED
  BY <1>1, <1>2, <1>3, <1>4, LinkAssumption DEF FlagFollows, LinkShape, PlacesOK

LEMMA FlagAbandon ==
  ASSUME LinkShape, FlagFollows, NEW w \in Workers, Abandon(w)
  PROVE  FlagFollows'
<1>1. \A v \in Workers \ {w} : wpc'[v] = wpc[v] /\ mine'[v] = mine[v]
  BY DEF Abandon, Fail, Leave, LinkShape, PlacesOK
<1>2. /\ wpc'[w] \in {"backoff", "exc"} /\ UNCHANGED <<stop, connected>>
      /\ client' \in {client, NoClient}
  BY DEF Abandon, Fail, Leave, LinkShape, PlacesOK, flags
<1>3. QED
  BY <1>1, <1>2, AbandonNet, LinkAssumption DEF FlagFollows

LEMMA FlagStep ==
  ASSUME LinkShape, LiveIsCurrent, FlagFollows, [Next]_vars
  PROVE  FlagFollows'
<1> USE LinkAssumption DEF LinkShape, PlacesOK, Workers, flags, FlagFollows
<1>1. ASSUME NEW w \in Workers, Connect(w) PROVE FlagFollows'
  <2>1. CASE DialOk(w)
    BY <2>1, FlagDial
  <2>2. CASE Publish(w)
    BY <2>2 DEF Publish, Goto, MineFits
  <2>3. CASE Start(w)
    BY <2>3 DEF Start, Goto
  <2>4. CASE AwaitDone(w) \/ DialFail(w)
    BY <2>4 DEF AwaitDone, DialFail, Fail, Succeed, Leave, MineFits
  <2>5. CASE AwaitPoll(w) \/ PollAgain(w) \/ PollStopped(w) \/ TimedOut(w)
    BY <2>5 DEF AwaitPoll, PollAgain, PollStopped, TimedOut, Move, Goto
  <2>6. CASE Abandon(w)
    BY <2>6, FlagAbandon
  <2>7. QED
    BY <1>1, <2>1, <2>2, <2>3, <2>4, <2>5, <2>6 DEF Connect
<1>2. ASSUME NEW w \in Threads \cup Refreshers, Reconnect(w) PROVE FlagFollows'
  <2>1. CASE EnterRefused(w) \/ HangupNone(w)
    BY <2>1 DEF EnterRefused, HangupNone, Fail, Succeed, Leave, MineFits
  <2>2. CASE Enter(w)
    BY <2>2 DEF Enter, Goto
  <2>3. CASE TeardownNothing(w)
    BY <2>3 DEF TeardownNothing, Goto
  <2>4. CASE Teardown(w)
    BY <2>4 DEF Teardown, Goto, AfterLoopStop
  <2>5. CASE Hangup(w)
    BY <2>5 DEF Hangup, Goto, AfterDisconnect, Joinable
  <2>6. QED
    BY <1>2, <2>1, <2>2, <2>3, <2>4, <2>5 DEF Reconnect
<1>3. ASSUME NEW t \in Threads, Backoff(t) PROVE FlagFollows'
  BY <1>3 DEF Backoff, BackoffStopped, BackoffElapsed, CredOk, CredFail, CredRejected, Exit,
              Goto, Move
<1>4. ASSUME NEW p \in Refreshers, Refresh(p) \/ OrphanJobEnds(p) PROVE FlagFollows'
  <2>1. CASE RestartSpawn(p)
    BY <2>1 DEF RestartSpawn, SpawnBackoff, Goto
  <2>2. CASE ~RestartSpawn(p)
    BY <1>4, <2>2 DEF Refresh, Move, StartRefresh, TokensOk, JobStart, TokensFail,
       TokensRejected, JobEnded, RestartSkip, OrphanJobEnds, FinishRefresh, Goto
  <2>3. QED
    BY <2>1, <2>2
<1>5. CASE SetupDone \/ SetupFailed
  BY <1>5 DEF SetupDone, SetupFailed, Goto
<1>6. CASE Unload
  BY <1>6 DEF Unload
<1>7. CASE Disconnect
  <2>1. CASE DiscStop \/ DiscClear \/ DiscNone
    BY <2>1 DEF DiscStop, DiscClear, DiscNone
  <2>2. CASE DiscJoin
    BY <2>2 DEF DiscJoin, AfterLoopStop
  <2>3. CASE DiscBye
    BY <2>3 DEF DiscBye, AfterDisconnect, PhaseFits
  <2>4. QED
    BY <1>7, <2>1, <2>2, <2>3 DEF Disconnect
<1>8. ASSUME NEW c \in Clients, Network(c) PROVE FlagFollows'
  <2>1. CASE OnConnect(c)
    BY <2>1 DEF OnConnect, LiveIsCurrent, OneLiveClient, Live, MineFits
  <2>2. CASE LoseLink(c)
    BY <2>2 DEF LoseLink
  <2>3. CASE OnDisconnectStale(c) \/ OnDisconnect(c) \/ DropOwned(c)
    BY <2>3 DEF OnDisconnectStale, OnDisconnect, DropOwned
  <2>4. CASE DropClaimed(c)
    <3>1. PICK t \in Threads : Goto(t, "idle", "backoff")
      BY <2>4 DEF DropClaimed, SpawnBackoff
    <3>2. QED
      BY <2>4, <3>1 DEF DropClaimed, Goto
  <2>5. QED
    BY <1>8, <2>1, <2>2, <2>3, <2>4 DEF Network, Callback
<1>9. CASE TokenAges \/ Finished \/ UNCHANGED vars
  BY <1>9 DEF TokenAges, Finished, vars
<1>10. QED
  BY <1>1, <1>2, <1>3, <1>4, <1>5, <1>6, <1>7, <1>8, <1>9 DEF Next

-----------------------------------------------------------------------------
(* Dials after the stop.                                                   *)

(* Only a dial counts.                                                     *)
LEMMA NoDialNoCount ==
  ASSUME [Next]_vars, \A w \in Workers : ~DialOk(w)
  PROVE  lateDials' = lateDials
<1>1. ASSUME NEW w \in Workers, Connect(w) PROVE lateDials' = lateDials
  BY <1>1 DEF Connect, Move, DialFail, Publish, Start, AwaitDone, AwaitPoll, PollAgain,
              PollStopped, TimedOut, Abandon
<1>2. ASSUME NEW w \in Threads \cup Refreshers, Reconnect(w) PROVE lateDials' = lateDials
  BY <1>2 DEF Reconnect, EnterRefused, Enter, TeardownNothing, Teardown, Hangup, HangupNone
<1>3. ASSUME NEW t \in Threads, Backoff(t) PROVE lateDials' = lateDials
  BY <1>3 DEF Backoff, Move, BackoffStopped, BackoffElapsed, CredOk, CredFail, CredRejected,
              Exit
<1>4. ASSUME NEW p \in Refreshers, Refresh(p) \/ OrphanJobEnds(p) PROVE lateDials' = lateDials
  BY <1>4 DEF Refresh, Move, StartRefresh, TokensOk, JobStart, TokensFail, TokensRejected,
              JobEnded, RestartSpawn, RestartSkip, OrphanJobEnds, FinishRefresh
<1>5. CASE SetupDone \/ SetupFailed \/ Unload \/ Disconnect
  BY <1>5 DEF SetupDone, SetupFailed, Unload, Disconnect, DiscStop, DiscJoin, DiscBye,
              DiscClear, DiscNone
<1>6. ASSUME NEW c \in Clients, Network(c) PROVE lateDials' = lateDials
  BY <1>6 DEF Network, Callback, OnConnect, LoseLink, OnDisconnectStale, OnDisconnect,
              DropClaimed, DropOwned
<1>7. CASE TokenAges \/ Finished \/ UNCHANGED vars
  BY <1>7 DEF TokenAges, Finished, vars
<1>8. QED
  BY <1>1, <1>2, <1>3, <1>4, <1>5, <1>6, <1>7 DEF Next

(* Once _stop is set nobody comes any nearer to a dial.                    *)
LEMMA StopBarsDials ==
  ASSUME PlacesOK, [Next]_vars, stop, \A w \in Workers : wpc[w] \notin PreDial
  PROVE  stop' /\ \A w \in Workers : wpc'[w] \notin PreDial
<1>1. CASE Quiet
  BY <1>1 DEF Quiet, Early
<1>2. CASE DiscBye \/ DiscClear
  BY <1>2 DEF DiscBye, DiscClear, flags
<1>3. ASSUME NEW w \in Workers, DialOk(w) \/ Publish(w) \/ Abandon(w)
      PROVE  stop' /\ \A v \in Workers : wpc'[v] \notin PreDial
  BY <1>3 DEF DialOk, Publish, Abandon, Goto, Fail, Leave, flags, PlacesOK, PreDial
<1>4. ASSUME NEW w \in Owners, Enter(w) \/ TeardownNothing(w) \/ Teardown(w) \/ Hangup(w)
      PROVE  FALSE
  BY <1>4 DEF Enter, MustNotReconnect, TeardownNothing, Teardown, Hangup, Goto, PreDial,
              Workers, Owners
<1>5. QED
  BY <1>1, <1>2, <1>3, <1>4, QuietOrLoud DEF Loud

LEMMA DialStep ==
  ASSUME LinkShape, DialsOnce, [Next]_vars
  PROVE  DialsOnce'
<1> USE DEF LinkShape
<1>1. ASSUME NEW w \in Workers, DialOk(w) PROVE DialsOnce'
  <2>1. /\ wpc[w] = "dial" /\ wpc' = [wpc EXCEPT ![w] = "publish"]
        /\ lateDials' = CountLate /\ stop' = stop
    BY <1>1 DEF DialOk, Goto, flags
  <2>2. lateDials = 0
    BY <2>1 DEF DialsOnce, PlacesOK, PreDial
  <2>3. \A v \in Workers \ {w} : wpc[v] \notin PreDial
    BY <2>1, EarlyAlone DEF Early, PreDial
  <2>4. \A v \in Workers : wpc'[v] \notin PreDial
    BY <2>1, <2>3 DEF PlacesOK, PreDial
  <2>5. QED
    BY <2>1, <2>2, <2>4 DEF DialsOnce, CountLate
<1>2. CASE \A w \in Workers : ~DialOk(w)
  BY <1>2, NoDialNoCount, StopBarsDials DEF DialsOnce
<1>3. QED
  BY <1>1, <1>2

-----------------------------------------------------------------------------
LEMMA InvInit ==
  ASSUME Init
  PROVE  LinkInv
<1> USE LinkAssumption DEF Init
<1>1. PlacesOK
  BY DEF PlacesOK
<1>2. LockIsHeld
  BY DEF LockIsHeld, Owners, Workers
<1>3. PhaseFits
  BY DEF PhaseFits, Workers
<1>4. MineFits
  BY DEF MineFits
<1>5. SetupAlone
  BY DEF SetupAlone, Workers
<1>6. LiveIsCurrent
  BY DEF LiveIsCurrent, OneLiveClient, Live
<1>7. FlagFollows
  BY DEF FlagFollows
<1>8. DialsOnce
  BY DEF DialsOnce
<1>9. QED
  BY <1>1, <1>2, <1>3, <1>4, <1>5, <1>6, <1>7, <1>8 DEF LinkInv, LinkShape

(* The inductive invariant of the link.                                    *)
THEOREM LinkInvariant == Spec => []LinkInv
<1>1. Init => LinkInv
  BY InvInit
<1>2. LinkInv /\ [Next]_vars => LinkInv'
  <2> SUFFICES ASSUME LinkInv, [Next]_vars PROVE LinkInv'
    OBVIOUS
  <2>1. LinkShape'
    BY ShapeStep DEF LinkInv
  <2>2. LiveIsCurrent'
    BY LiveStep DEF LinkInv
  <2>3. FlagFollows'
    BY FlagStep DEF LinkInv
  <2>4. DialsOnce'
    BY DialStep DEF LinkInv
  <2>5. QED
    BY <2>1, <2>2, <2>3, <2>4 DEF LinkInv
<1>3. QED
  BY <1>1, <1>2, PTL DEF Spec

(* There are never two live paho clients, whoever dials.                   *)
THEOREM NeverTwoLiveClients == Spec => []OneLiveClient
<1>1. LinkInv => OneLiveClient
  BY DEF LinkInv, LiveIsCurrent
<1>2. QED
  BY <1>1, LinkInvariant, PTL

(* disconnect() lets at most the one attempt under way dial a client.      *)
THEOREM StopAdmitsOneDial == Spec => []OneLateDial
<1>1. LinkInv => OneLateDial
  BY DEF LinkInv, DialsOnce, OneLateDial
<1>2. QED
  BY <1>1, LinkInvariant, PTL

(* The reactive loop never tears down a client that still serves.          *)
THEOREM TeardownFindsDeadLink == Spec => ReactiveSparesLiveLink
<1>1. LinkInv /\ [Next]_vars =>
        [\A t \in Threads :
           wpc[t] = "teardown" /\ wpc'[t] # "teardown" /\ client # NoClient
           => net[client] \notin Live]_vars
  BY DEF LinkInv, LinkShape, PlacesOK, LiveIsCurrent, Workers
<1>2. QED
  BY <1>1, LinkInvariant, PTL DEF Spec, ReactiveSparesLiveLink

-----------------------------------------------------------------------------
(* The link keeps its contract: which abstract step each step is.          *)

(* The abstract owner is the one owner there is, or nobody.                *)
LEMMA OwnerNamed ==
  ASSUME SingleOwner
  PROVE  /\ \A o \in Owners : Owns(o) => Owner = o
         /\ reconnecting => Owner \in Owners
         /\ ~reconnecting => Owner = NoOne
BY DEF SingleOwner, Owner

LEMMA OwnerNamedNext ==
  ASSUME SingleOwner'
  PROVE  /\ \A o \in Owners : Owns(o)' => Owner' = o
         /\ reconnecting' => Owner' \in Owners
         /\ ~reconnecting' => Owner' = NoOne
BY DEF SingleOwner, Owner

(* While the reconnect stays owned its owner stays the same.               *)
LEMMA OwnerStays ==
  ASSUME PlacesOK, [Next]_vars, reconnecting, reconnecting', NEW o \in Owners, Owns(o)
  PROVE  Owns(o)'
<1> USE DEF PlacesOK, Owns, Owners, Workers
<1>1. ASSUME NEW w \in Workers, Connect(w) \/ Reconnect(w) PROVE Owns(o)'
  BY <1>1, AttemptMoves
<1>2. ASSUME NEW t \in Threads, Backoff(t) PROVE Owns(o)'
  BY <1>2 DEF Backoff, BackoffStopped, BackoffElapsed, CredOk, CredFail, CredRejected, Exit,
              ReleaseReconnect, Goto, Move
<1>3. ASSUME NEW p \in Refreshers, Refresh(p) \/ OrphanJobEnds(p) PROVE Owns(o)'
  BY <1>3, LinkAssumption DEF Refresh, Move, Goto, StartRefresh, TokensOk, JobStart, TokensFail,
     TokensRejected, JobEnded, RestartSpawn, RestartSkip, OrphanJobEnds, FinishRefresh,
     ClaimReconnect, ReleaseReconnect
<1>4. CASE SetupDone \/ SetupFailed
  BY <1>4, LinkAssumption DEF SetupDone, SetupFailed, Goto
<1>5. CASE Unload
  BY <1>5, LinkAssumption DEF Unload, Cancelled
<1>6. CASE Disconnect \/ TokenAges \/ Finished \/ UNCHANGED vars
  BY <1>6 DEF Disconnect, DiscStop, DiscJoin, DiscBye, DiscClear, DiscNone, TokenAges,
              Finished, vars
<1>7. ASSUME NEW c \in Clients, Network(c) PROVE Owns(o)'
  BY <1>7 DEF Network, Callback, OnConnect, LoseLink, OnDisconnectStale, OnDisconnect,
              DropClaimed, DropOwned, ClaimReconnect
<1>8. QED
  BY <1>1, <1>2, <1>3, <1>4, <1>5, <1>6, <1>7 DEF Next

LEMMA OwnerKept ==
  ASSUME PlacesOK, SingleOwner, SingleOwner', [Next]_vars, reconnecting' = reconnecting
  PROVE  Owner' = Owner
<1>1. CASE reconnecting
  <2>1. PICK o \in Owners : Owns(o)
    BY <1>1 DEF SingleOwner
  <2>2. Owns(o)'
    BY <1>1, <2>1, OwnerStays
  <2>3. QED
    BY <2>1, <2>2, OwnerNamed, OwnerNamedNext
<1>2. CASE ~reconnecting
  BY <1>2, OwnerNamed, OwnerNamedNext
<1>3. QED
  BY <1>1, <1>2

(* A step of the contract, or a stutter of it.                             *)
ContractStep == [Contract!Next]_<<connected, Owner, Life>>

(* A step that claims or releases and does nothing else.                   *)
LEMMA OwnershipStep ==
  ASSUME PlacesOK, FlagsOK, FlagsOK', SingleOwner, SingleOwner', [Next]_vars,
         UNCHANGED <<connected, phase>>
  PROVE  ContractStep
<1>1. Life' = Life
  BY DEF Life
<1>2. CASE reconnecting' = reconnecting
  BY <1>1, <1>2, OwnerKept DEF ContractStep
<1>3. CASE ~reconnecting /\ reconnecting'
  BY <1>1, <1>3, OwnerNamed, OwnerNamedNext DEF ContractStep, Contract!Next, Contract!Claim
<1>4. CASE reconnecting /\ ~reconnecting'
  <2>1. Owner # NoOne
    BY <1>4, OwnerNamed, LinkAssumption DEF Owners, Workers
  <2>2. QED
    BY <1>1, <1>4, <2>1, OwnerNamedNext DEF ContractStep, Contract!Next, Contract!Release
<1>5. QED
  BY <1>2, <1>3, <1>4 DEF FlagsOK

(* A step that may clear _connected and does nothing else.                 *)
LEMMA DropStep ==
  ASSUME PlacesOK, FlagsOK, SingleOwner, SingleOwner', [Next]_vars,
         reconnecting' = reconnecting, Life' = Life, connected' \in {connected, FALSE}
  PROVE  ContractStep
<1>1. Owner' = Owner
  BY OwnerKept
<1>2. QED
  BY <1>1 DEF ContractStep, Contract!Next, Contract!Drop, FlagsOK

(* A CONNACK is handled: outside a setup and an unload there is an owner.  *)
LEMMA RestoreStep ==
  ASSUME LinkInv, FlagsOK, SingleOwner, SingleOwner', [Next]_vars,
         NEW c \in Clients, OnConnect(c)
  PROVE  ContractStep
<1> USE DEF LinkInv, LinkShape
<1>1. Owner' = Owner /\ Life' = Life /\ connected' = TRUE
  BY OwnerKept DEF OnConnect, Life
<1>2. ~connected
  BY DEF OnConnect, FlagFollows
<1>3. Owner # NoOne \/ Life # "serving"
  <2> SUFFICES ASSUME phase = "ready" PROVE Owner # NoOne
    BY DEF Life, PlacesOK
  <2>1. ~stop /\ wpc[Setup] = "idle"
    BY DEF PhaseFits
  <2>2. PICK w \in Workers : mine[w] = c
    BY <2>1 DEF OnConnect, FlagFollows
  <2>3. w \in Owners /\ wpc[w] # "idle"
    BY <2>1, <2>2, LinkAssumption DEF MineFits, Workers, Owners
  <2>4. Owns(w)
    BY <2>3 DEF Owns, Owners, PhaseFits
  <2>5. QED
    BY <2>3, <2>4, OwnerNamed, LinkAssumption DEF Owners, Workers
<1>4. QED
  BY <1>1, <1>2, <1>3 DEF ContractStep, Contract!Next, Contract!Restore

LEMMA PhaseSteps ==
  ASSUME LinkInv, FlagsOK, SingleOwner, SingleOwner', [Next]_vars,
         SetupDone \/ SetupFailed \/ Unload
  PROVE  ContractStep
<1> USE DEF LinkInv, LinkShape
<1>1. CASE SetupDone
  <2>1. phase = "connecting" /\ phase' = "ready" /\ Owner' = Owner
    BY <1>1, OwnerKept DEF SetupDone, Goto, PhaseFits
  <2>2. QED
    BY <1>1, <2>1 DEF ContractStep, Contract!Next, Contract!Serve, Life, SetupDone
<1>2. CASE SetupFailed
  <2>1. phase = "connecting" /\ phase' = "closing" /\ Owner' = Owner
    BY <1>2, OwnerKept DEF SetupFailed, Goto, PhaseFits
  <2>2. QED
    BY <1>2, <2>1 DEF ContractStep, Contract!Next, Contract!Close, Life, SetupFailed
<1>3. CASE Unload
  <2>1. phase = "ready" /\ phase' = "closing"
    BY <1>3 DEF Unload
  <2>2. Owner' \in {Owner, NoOne}
    BY <1>3, OwnerKept, OwnerNamedNext DEF Unload
  <2>3. QED
    BY <1>3, <2>1, <2>2 DEF ContractStep, Contract!Next, Contract!Close, Life, Unload
<1>4. QED
  BY <1>1, <1>2, <1>3

(* Every step of the link is a step or a stutter of the contract.          *)
LEMMA LinkStepsContract ==
  ASSUME LinkInv, FlagsOK, FlagsOK', SingleOwner, SingleOwner', [Next]_vars
  PROVE  ContractStep
<1> USE DEF LinkInv, LinkShape, flags
<1>1. ASSUME NEW w \in Workers, Connect(w) PROVE ContractStep
  <2>1. UNCHANGED <<connected, phase>>
    BY <1>1 DEF Connect, Move, DialOk, DialFail, Publish, Start, AwaitDone, AwaitPoll, PollAgain,
                PollStopped, TimedOut, Abandon
  <2>2. QED
    BY <2>1, OwnershipStep
<1>2. ASSUME NEW w \in Threads \cup Refreshers, Reconnect(w) PROVE ContractStep
  <2>1. UNCHANGED <<reconnecting, phase>> /\ connected' \in {connected, FALSE}
    BY <1>2 DEF Reconnect, EnterRefused, Enter, TeardownNothing, Teardown, Hangup, HangupNone
  <2>2. QED
    BY <2>1, DropStep DEF Life
<1>3. ASSUME NEW t \in Threads, Backoff(t) PROVE ContractStep
  <2>1. UNCHANGED <<connected, phase>>
    BY <1>3 DEF Backoff, Move, BackoffStopped, BackoffElapsed, CredOk, CredFail, CredRejected,
                Exit
  <2>2. QED
    BY <2>1, OwnershipStep
<1>4. ASSUME NEW p \in Refreshers, Refresh(p) \/ OrphanJobEnds(p) PROVE ContractStep
  <2>1. UNCHANGED <<connected, phase>>
    BY <1>4 DEF Refresh, Move, StartRefresh, TokensOk, JobStart, TokensFail, TokensRejected,
                JobEnded, RestartSpawn, RestartSkip, OrphanJobEnds, FinishRefresh
  <2>2. QED
    BY <2>1, OwnershipStep
<1>5. CASE SetupDone \/ SetupFailed \/ Unload
  BY <1>5, PhaseSteps
<1>6. CASE Disconnect
  <2>1. phase \notin {"connecting", "ready"}
    BY <1>6 DEF Disconnect, DiscStop, DiscJoin, DiscBye, DiscClear, DiscNone, PhaseFits
  <2>2. phase' \in {phase, "gone"} /\ reconnecting' = reconnecting
        /\ connected' \in {connected, FALSE}
    BY <1>6 DEF Disconnect, DiscStop, DiscJoin, DiscBye, DiscClear, DiscNone
  <2>3. Life' = Life
    BY <2>1, <2>2 DEF Life
  <2>4. QED
    BY <2>2, <2>3, DropStep
<1>7. ASSUME NEW c \in Clients, Network(c) PROVE ContractStep
  <2>1. CASE OnConnect(c)
    BY <2>1, RestoreStep
  <2>2. CASE LoseLink(c) \/ OnDisconnectStale(c) \/ DropClaimed(c) \/ DropOwned(c)
    <3>1. UNCHANGED <<connected, phase>>
      BY <2>2 DEF LoseLink, OnDisconnectStale, DropClaimed, DropOwned
    <3>2. QED
      BY <3>1, OwnershipStep
  <2>3. CASE OnDisconnect(c)
    BY <2>3, DropStep DEF OnDisconnect, Life
  <2>4. QED
    BY <1>7, <2>1, <2>2, <2>3 DEF Network, Callback
<1>8. CASE TokenAges \/ Finished \/ UNCHANGED vars
  <2>1. UNCHANGED <<connected, phase>>
    BY <1>8 DEF TokenAges, Finished, vars
  <2>2. QED
    BY <2>1, OwnershipStep
<1>9. QED
  BY <1>1, <1>2, <1>3, <1>4, <1>5, <1>6, <1>7, <1>8 DEF Next

(* The link implements the ownership contract.                             *)
THEOREM LinkImplementsContract == Spec => KeepsContract
<1>1. Init => Contract!Init
  BY LinkAssumption DEF Init, Contract!Init, Owner, Life, Owns, Owners, Workers
<1>2. LinkInv /\ TypeOK /\ TypeOK' /\ SingleOwner /\ SingleOwner' /\ [Next]_vars
        => [Contract!Next]_<<connected, Owner, Life>>
  BY LinkStepsContract DEF TypeOK, ContractStep
<1>3. QED
  BY <1>1, <1>2, LinkInvariant, TypeCorrect, OwnershipIsExclusive, PTL
     DEF Spec, KeepsContract, Contract!Spec
=============================================================================
