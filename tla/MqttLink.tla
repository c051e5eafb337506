------------------------------ MODULE MqttLink ------------------------------
(***************************************************************************)
(* The life of the MQTT link of one FUSION config entry (mqtt_api.py,      *)
(* coordinator.py, __init__.py): who owns a reconnect, which paho client   *)
(* is current, and what an unload does while a reconnect is under way.     *)
(*                                                                         *)
(* Concurrent parties:                                                     *)
(*   - the event loop: setup, push-driven refresh coroutines, the          *)
(*     heartbeat, unload;                                                  *)
(*   - executor threads: the first connect, the _do_reconnect job of a     *)
(*     refresh coroutine, disconnect();                                    *)
(*   - the threads running _reconnect_with_backoff;                        *)
(*   - the network thread of each paho client, which runs the callbacks.   *)
(* A worker is a thread that may run connect(). The job of a refresh       *)
(* coroutine carries the coroutine's name.                                 *)
(*                                                                         *)
(* A paho client is identified by a member of Clients that is recycled     *)
(* once nothing refers to it, so no bound is put on how often the link is  *)
(* rebuilt.                                                                *)
(***************************************************************************)
EXTENDS Naturals

CONSTANTS
  Clients,     \* identities of paho clients
  Threads,     \* identities of backoff threads
  Refreshers,  \* refresh coroutines: one per push task, one per heartbeat
  Tracked,     \* those started by a push, which an unload cancels
  Setup,       \* the executor thread of the first connect
  NoClient,    \* Python's None in self._client
  NoOne        \* nobody holds _reconnect_lock

Workers == Threads \cup Refreshers \cup {Setup}

ASSUME LinkAssumption ==
  /\ Threads \cap Refreshers = {}
  /\ Tracked \subseteq Refreshers
  /\ Setup \notin Threads \cup Refreshers
  /\ NoOne \notin Workers
  /\ NoClient \notin Clients

VARIABLES
  stop,          \* self._stop
  connected,     \* self._connected
  client,        \* self._client
  reconnecting,  \* self._reconnecting
  refreshing,    \* self._refreshing
  lockHolder,    \* who holds self._reconnect_lock
  aged,          \* the token of the link is older than 50 minutes
  rejected,      \* the account rejected the refresh token (reauth started)
  phase,         \* the config entry: connecting, ready, closing or gone
  net,           \* net[c]: the socket and network thread of client c
  wpc,           \* wpc[w]: where worker w is
  mine,          \* mine[w]: the local variable `client` of w's connect()
  cpc,           \* cpc[p]: where refresh coroutine p is
  dpc,           \* where the executor call of disconnect() is
  lateDials      \* history: clients dialled after stop was set, up to MaxLate

vars == <<stop, connected, client, reconnecting, refreshing, lockHolder, aged,
          rejected, phase, net, wpc, mine, cpc, dpc, lateDials>>

flags == <<stop, refreshing, aged, rejected, phase>>

(* The history counter saturates here; one more than the property allows.  *)
MaxLate == 2

(* "open": dialled, no network thread; "run": thread running, no CONNACK   *)
(* yet; "up": CONNACK accepted; "lost": the link broke or the CONNACK was  *)
(* a refusal, on_disconnect is about to run; "drop": on_disconnect has     *)
(* cleared _connected and is about to claim; "dead": no network thread.    *)
NetStates == {"open", "run", "up", "lost", "drop", "dead"}
Live == {"open", "run", "up"}

WorkerStates == {"idle", "queued", "backoff", "cred", "lock", "teardown",
                 "hangup", "dial", "publish", "start", "await", "poll",
                 "abandon", "exit", "ok", "exc"}

(* Between taking and releasing _reconnect_lock.                           *)
Connecting == {"teardown", "hangup", "dial", "publish", "start", "await",
               "poll", "abandon"}

Goto(w, from, to) == wpc[w] = from /\ wpc' = [wpc EXCEPT ![w] = to]

(* A step of w that changes nothing the other parties see.                 *)
Move(w, from, to) ==
  /\ Goto(w, from, to)
  /\ UNCHANGED <<flags, connected, client, reconnecting, lockHolder, net, mine,
                 cpc, dpc, lateDials>>

(* A client identity nobody refers to any more. Which one a new client     *)
(* gets makes no difference.                                               *)
Unused(c) == net[c] = "dead" /\ client # c /\ \A w \in Workers : mine[w] # c
NewClient == CHOOSE c \in Clients : Unused(c)

-----------------------------------------------------------------------------
(* Ownership of the reconnect.                                             *)

(* Spawning a thread on _reconnect_with_backoff once the claim is taken.   *)
SpawnBackoff == \E t \in Threads : Goto(t, "idle", "backoff")

(* Mutation: the claim that does not test the flag it sets.                *)
ClaimUnchecked == reconnecting' = TRUE

ClaimReconnect == ~reconnecting /\ reconnecting' = TRUE

ReleaseReconnect == reconnecting' = FALSE

-----------------------------------------------------------------------------
(* How a worker's connect attempt ends: a backoff thread loops on failure  *)
(* and runs its finally clause on success; a job or the setup thread hands *)
(* the outcome to the coroutine that awaits it.                            *)

Unlocked(w) == IF lockHolder = w THEN NoOne ELSE lockHolder

Leave(w, to) ==
  /\ wpc' = [wpc EXCEPT ![w] = to]
  /\ mine' = [mine EXCEPT ![w] = NoClient]
  /\ lockHolder' = Unlocked(w)

(* Mutation: the bounded retry, with a bound of one attempt.               *)
FailGivesUp(w) == Leave(w, IF w \in Threads THEN "exit" ELSE "exc")

Fail(w) == Leave(w, IF w \in Threads THEN "backoff" ELSE "exc")
Succeed(w) == Leave(w, IF w \in Threads THEN "exit" ELSE "ok")

(* loop_stop() joins the network thread: it waits for a callback under way.*)
Joinable(c) == net[c] \notin {"lost", "drop"}
AfterLoopStop(c) == IF net[c] = "open" THEN "open" ELSE "dead"

(* paho disconnect(): writes DISCONNECT and ends the session; a client     *)
(* whose link already broke is left to its own callback.                   *)
AfterDisconnect(c) == IF Joinable(c) THEN "dead" ELSE net[c]

-----------------------------------------------------------------------------
(* _do_reconnect and the locked section of _reconnect_with_backoff. A      *)
(* worker that finds _stop set, or a backoff thread that finds the link    *)
(* restored, returns without touching the client.                          *)

(* Mutations: one of the two tests under the lock is missing.              *)
OnlyStopped(w) == stop
OnlyRestored(w) == w \in Threads /\ connected

MustNotReconnect(w) == stop \/ (w \in Threads /\ connected)

EnterRefused(w) ==
  /\ wpc[w] = "lock" /\ lockHolder = NoOne
  /\ MustNotReconnect(w)
  /\ Succeed(w)
  /\ UNCHANGED <<flags, connected, client, reconnecting, net, cpc, dpc, lateDials>>

(* Mutation: the section without its lock.                                 *)
EnterUnlocked(w) ==
  /\ ~MustNotReconnect(w)
  /\ Goto(w, "lock", "teardown")
  /\ lockHolder' = w
  /\ UNCHANGED <<flags, connected, client, reconnecting, net, mine, cpc, dpc, lateDials>>

Enter(w) ==
  /\ lockHolder = NoOne
  /\ ~MustNotReconnect(w)
  /\ Goto(w, "lock", "teardown")
  /\ lockHolder' = w
  /\ UNCHANGED <<flags, connected, client, reconnecting, net, mine, cpc, dpc, lateDials>>

(* _teardown_client reads self._client anew on each line; the join in      *)
(* loop_stop() leaves time for another thread to set it to None.           *)
TeardownNothing(w) ==
  /\ client = NoClient
  /\ Goto(w, "teardown", "dial")
  /\ connected' = FALSE
  /\ UNCHANGED <<flags, client, reconnecting, lockHolder, net, mine, cpc, dpc, lateDials>>

Teardown(w) ==
  /\ client # NoClient /\ Joinable(client)
  /\ Goto(w, "teardown", "hangup")
  /\ net' = [net EXCEPT ![client] = AfterLoopStop(client)]
  /\ UNCHANGED <<flags, connected, client, reconnecting, lockHolder, mine, cpc, dpc, lateDials>>

Hangup(w) ==
  /\ client # NoClient
  /\ Goto(w, "hangup", "dial")
  /\ net' = [net EXCEPT ![client] = AfterDisconnect(client)]
  /\ connected' = FALSE
  /\ UNCHANGED <<flags, client, reconnecting, lockHolder, mine, cpc, dpc, lateDials>>

HangupNone(w) ==
  /\ wpc[w] = "hangup" /\ client = NoClient
  /\ Fail(w)
  /\ UNCHANGED <<flags, connected, client, reconnecting, net, cpc, dpc, lateDials>>

-----------------------------------------------------------------------------
(* connect(): dial, publish the client, start its thread, wait for CONNACK.*)

CountLate == IF stop /\ lateDials < MaxLate THEN lateDials + 1 ELSE lateDials

DialOk(w) ==
  /\ Goto(w, "dial", "publish")
  /\ \E c \in Clients : Unused(c)
  /\ mine' = [mine EXCEPT ![w] = NewClient]
  /\ net' = [net EXCEPT ![NewClient] = "open"]
  /\ lateDials' = CountLate
  /\ UNCHANGED <<flags, connected, client, reconnecting, lockHolder, cpc, dpc>>

DialFail(w) ==
  /\ wpc[w] = "dial"
  /\ Fail(w)
  /\ UNCHANGED <<flags, connected, client, reconnecting, net, cpc, dpc, lateDials>>

Publish(w) ==
  /\ Goto(w, "publish", "start")
  /\ client' = mine[w]
  /\ UNCHANGED <<flags, connected, reconnecting, lockHolder, net, mine, cpc, dpc, lateDials>>

(* A client that disconnect() closed in between has no socket to serve.    *)
Start(w) ==
  /\ Goto(w, "start", "await")
  /\ net' = [net EXCEPT ![mine[w]] = IF @ = "open" THEN "run" ELSE @]
  /\ UNCHANGED <<flags, connected, client, reconnecting, lockHolder, mine, cpc, dpc, lateDials>>

(* _wait_for_connection: test _connected, else wait 0.1 s for the stop.    *)
AwaitDone(w) ==
  /\ wpc[w] = "await" /\ connected
  /\ Succeed(w)
  /\ UNCHANGED <<flags, connected, client, reconnecting, net, cpc, dpc, lateDials>>

AwaitPoll(w) ==
  /\ ~connected
  /\ Move(w, "await", "poll")

PollAgain(w) ==
  /\ ~stop
  /\ Move(w, "poll", "await")

PollStopped(w) ==
  /\ stop
  /\ Move(w, "poll", "abandon")

(* The deadline passed and _connected was still False.                     *)
TimedOut(w) ==
  /\ ~connected
  /\ Move(w, "await", "abandon")

(* loop_stop(), forget the client, raise. The CONNACK may still be handled *)
(* while the decision waits for the join.                                  *)
Abandon(w) ==
  /\ wpc[w] = "abandon" /\ Joinable(mine[w])
  /\ net' = [net EXCEPT ![mine[w]] = AfterLoopStop(mine[w])]
  /\ client' = IF client = mine[w] THEN NoClient ELSE client
  /\ Fail(w)
  /\ UNCHANGED <<flags, connected, reconnecting, cpc, dpc, lateDials>>

Connect(w) ==
  \/ DialOk(w) \/ DialFail(w) \/ Publish(w) \/ Start(w)
  \/ AwaitDone(w) \/ AwaitPoll(w) \/ PollAgain(w) \/ PollStopped(w)
  \/ TimedOut(w) \/ Abandon(w)

Reconnect(w) ==
  \/ EnterRefused(w) \/ Enter(w)
  \/ TeardownNothing(w) \/ Teardown(w) \/ Hangup(w) \/ HangupNone(w)

-----------------------------------------------------------------------------
(* _reconnect_with_backoff, around the locked section.                     *)

BackoffStopped(t) ==
  /\ stop
  /\ Move(t, "backoff", "exit")

BackoffElapsed(t) ==
  /\ ~stop
  /\ Move(t, "backoff", "cred")

CredOk(t) == Move(t, "cred", "lock")

(* The cloud is unreachable, the ten second future timed out, ...          *)
CredFail(t) == Move(t, "cred", "backoff")

(* MqttCredentialsRejected: reauth has been requested, the loop gives up.  *)
CredRejected(t) ==
  /\ Goto(t, "cred", "exit")
  /\ rejected' = TRUE
  /\ UNCHANGED <<stop, refreshing, aged, phase, connected, client, reconnecting,
                 lockHolder, net, mine, cpc, dpc, lateDials>>

(* Mutation: no finally clause.                                            *)
ExitKeepsClaim(t) == Move(t, "exit", "idle")

(* finally: release_reconnect(), and the thread ends.                      *)
Exit(t) ==
  /\ Goto(t, "exit", "idle")
  /\ ReleaseReconnect
  /\ UNCHANGED <<flags, connected, client, lockHolder, net, mine, cpc, dpc, lateDials>>

Backoff(t) ==
  \/ BackoffStopped(t) \/ BackoffElapsed(t)
  \/ CredOk(t) \/ CredFail(t) \/ CredRejected(t) \/ Exit(t)

-----------------------------------------------------------------------------
(* _proactive_mqtt_refresh. From release_reconnect() in the finally clause *)
(* to start_reconnect() the coroutine does not await, so no other event    *)
(* loop action comes in between; the threads do.                           *)

LoopFree == \A p \in Refreshers : cpc[p] # "restart"

StartRefresh(p) ==
  /\ phase = "ready" /\ LoopFree
  /\ connected /\ aged
  /\ cpc[p] = "idle" /\ wpc[p] = "idle"
  /\ ClaimReconnect
  /\ cpc' = [cpc EXCEPT ![p] = "tokens"]
  /\ refreshing' = TRUE
  /\ UNCHANGED <<stop, aged, rejected, phase, connected, client, lockHolder, net,
                 wpc, mine, dpc, lateDials>>

(* Fresh tokens and a signature: hand _do_reconnect to the executor.       *)
TokensOk(p) ==
  /\ LoopFree
  /\ cpc[p] = "tokens" /\ cpc' = [cpc EXCEPT ![p] = "job"]
  /\ Goto(p, "idle", "queued")
  /\ UNCHANGED <<flags, connected, client, reconnecting, lockHolder, net, mine,
                 dpc, lateDials>>

JobStart(p) == Move(p, "queued", "lock")

(* The finally clause.                                                     *)
FinishRefresh(p, to) ==
  /\ LoopFree
  /\ ReleaseReconnect
  /\ refreshing' = FALSE
  /\ cpc' = [cpc EXCEPT ![p] = to]
  /\ UNCHANGED <<stop, aged, phase, connected, client, lockHolder, net, mine,
                 dpc, lateDials>>

TokensFail(p) ==
  /\ cpc[p] = "tokens"
  /\ FinishRefresh(p, "restart")
  /\ UNCHANGED <<rejected, wpc>>

TokensRejected(p) ==
  /\ cpc[p] = "tokens"
  /\ FinishRefresh(p, "idle")
  /\ rejected' = TRUE
  /\ UNCHANGED wpc

(* Mutation: the coroutine does not wait for its executor job.             *)
JobForgotten(p) ==
  /\ cpc[p] = "job"
  /\ FinishRefresh(p, "restart")
  /\ UNCHANGED <<rejected, wpc>>

JobEnded(p) ==
  /\ cpc[p] = "job" /\ wpc[p] \in {"ok", "exc"}
  /\ FinishRefresh(p, "restart")
  /\ wpc' = [wpc EXCEPT ![p] = "idle"]
  /\ UNCHANGED rejected

(* Mutation: a failed refresh restarts nothing.                            *)
RestartNever == FALSE

(* `if not connected: start_reconnect()`, with the checks of the latter.   *)
RestartNeeded == ~connected /\ ~stop /\ ~reconnecting

RestartSpawn(p) ==
  /\ cpc[p] = "restart" /\ cpc' = [cpc EXCEPT ![p] = "idle"]
  /\ RestartNeeded
  /\ ClaimReconnect
  /\ SpawnBackoff
  /\ UNCHANGED <<flags, connected, client, lockHolder, net, mine, dpc, lateDials>>

RestartSkip(p) ==
  /\ cpc[p] = "restart" /\ cpc' = [cpc EXCEPT ![p] = "idle"]
  /\ ~RestartNeeded
  /\ UNCHANGED <<flags, connected, client, reconnecting, lockHolder, net, wpc,
                 mine, dpc, lateDials>>

Refresh(p) ==
  \/ StartRefresh(p) \/ TokensOk(p) \/ JobStart(p) \/ TokensFail(p)
  \/ TokensRejected(p) \/ JobEnded(p) \/ RestartSpawn(p) \/ RestartSkip(p)

-----------------------------------------------------------------------------
(* Setup, unload and disconnect().                                         *)

SetupDone ==
  /\ Goto(Setup, "ok", "idle")
  /\ phase' = "ready"
  /\ UNCHANGED <<stop, refreshing, aged, rejected, connected, client, reconnecting,
                 lockHolder, net, mine, cpc, dpc, lateDials>>

(* ConfigEntryNotReady, after disconnect().                                *)
SetupFailed ==
  /\ Goto(Setup, "exc", "idle")
  /\ phase' = "closing" /\ dpc' = "stop"
  /\ UNCHANGED <<stop, refreshing, aged, rejected, connected, client, reconnecting,
                 lockHolder, net, mine, cpc, lateDials>>

(* async_unload_entry cancels the tracked coroutines, whose finally clause *)
(* runs, then has disconnect() run in the executor. A job that is still    *)
(* queued is withdrawn with its coroutine; a running one carries on.       *)
Cancelled == {p \in Tracked : cpc[p] \in {"tokens", "job"}}

Unload ==
  /\ phase = "ready" /\ LoopFree
  /\ phase' = "closing" /\ dpc' = "stop"
  /\ cpc' = [p \in Refreshers |-> IF p \in Cancelled THEN "idle" ELSE cpc[p]]
  /\ wpc' = [w \in Workers |->
               IF w \in Cancelled /\ wpc[w] = "queued" THEN "idle" ELSE wpc[w]]
  /\ reconnecting' = IF Cancelled = {} THEN reconnecting ELSE FALSE
  /\ refreshing' = IF Cancelled = {} THEN refreshing ELSE FALSE
  /\ UNCHANGED <<stop, aged, rejected, connected, client, lockHolder, net, mine, lateDials>>

(* The outcome of a job whose coroutine was cancelled is dropped.          *)
OrphanJobEnds(p) ==
  /\ cpc[p] = "idle" /\ wpc[p] \in {"ok", "exc"}
  /\ wpc' = [wpc EXCEPT ![p] = "idle"]
  /\ UNCHANGED <<flags, connected, client, reconnecting, lockHolder, net, mine,
                 cpc, dpc, lateDials>>

DiscStop ==
  /\ dpc = "stop" /\ dpc' = "join"
  /\ stop' = TRUE
  /\ UNCHANGED <<refreshing, aged, rejected, phase, connected, client, reconnecting,
                 lockHolder, net, wpc, mine, cpc, lateDials>>

DiscJoin ==
  /\ dpc = "join" /\ dpc' = "bye"
  /\ client # NoClient /\ Joinable(client)
  /\ net' = [net EXCEPT ![client] = AfterLoopStop(client)]
  /\ UNCHANGED <<flags, connected, client, reconnecting, lockHolder, wpc, mine, cpc, lateDials>>

DiscBye ==
  /\ dpc = "bye" /\ dpc' = "clear"
  /\ client # NoClient
  /\ net' = [net EXCEPT ![client] = AfterDisconnect(client)]
  /\ connected' = IF Joinable(client) THEN FALSE ELSE connected
  /\ UNCHANGED <<flags, client, reconnecting, lockHolder, wpc, mine, cpc, lateDials>>

DiscClear ==
  /\ dpc = "clear" /\ dpc' = "done"
  /\ client' = NoClient
  /\ connected' = FALSE
  /\ phase' = "gone"
  /\ UNCHANGED <<stop, refreshing, aged, rejected, reconnecting, lockHolder, net,
                 wpc, mine, cpc, lateDials>>

(* self._client is None: nothing to do, or (after the join) an             *)
(* AttributeError that the unload logs.                                    *)
DiscNone ==
  /\ dpc \in {"join", "bye"} /\ dpc' = "done"
  /\ client = NoClient
  /\ phase' = "gone"
  /\ UNCHANGED <<stop, refreshing, aged, rejected, connected, client, reconnecting,
                 lockHolder, net, wpc, mine, cpc, lateDials>>

Disconnect == DiscStop \/ DiscJoin \/ DiscBye \/ DiscClear \/ DiscNone

-----------------------------------------------------------------------------
(* The network threads and the broker.                                     *)

(* on_connect with reason code 0. It does not look at whose CONNACK it is. *)
OnConnect(c) ==
  /\ net[c] = "run"
  /\ net' = [net EXCEPT ![c] = "up"]
  /\ connected' = TRUE
  /\ aged' = FALSE
  /\ UNCHANGED <<stop, refreshing, rejected, phase, client, reconnecting, lockHolder,
                 wpc, mine, cpc, dpc, lateDials>>

LoseLink(c) ==
  /\ net[c] \in {"run", "up"}
  /\ net' = [net EXCEPT ![c] = "lost"]
  /\ UNCHANGED <<flags, connected, client, reconnecting, lockHolder, wpc, mine,
                 cpc, dpc, lateDials>>

(* on_disconnect with a nonzero reason code, up to the claim.              *)
OnDisconnectStale(c) ==
  /\ net[c] = "lost" /\ client # c
  /\ net' = [net EXCEPT ![c] = "dead"]
  /\ UNCHANGED <<flags, connected, client, reconnecting, lockHolder, wpc, mine,
                 cpc, dpc, lateDials>>

OnDisconnect(c) ==
  /\ net[c] = "lost" /\ client = c
  /\ net' = [net EXCEPT ![c] = "drop"]
  /\ connected' = FALSE
  /\ UNCHANGED <<flags, client, reconnecting, lockHolder, wpc, mine, cpc, dpc, lateDials>>

DropClaimed(c) ==
  /\ net[c] = "drop"
  /\ net' = [net EXCEPT ![c] = "dead"]
  /\ ClaimReconnect
  /\ SpawnBackoff
  /\ UNCHANGED <<flags, connected, client, lockHolder, mine, cpc, dpc, lateDials>>

DropOwned(c) ==
  /\ net[c] = "drop"
  /\ net' = [net EXCEPT ![c] = "dead"]
  /\ reconnecting
  /\ UNCHANGED <<flags, connected, client, reconnecting, lockHolder, wpc, mine,
                 cpc, dpc, lateDials>>

TokenAges ==
  /\ connected /\ ~aged
  /\ aged' = TRUE
  /\ UNCHANGED <<stop, refreshing, rejected, phase, connected, client, reconnecting,
                 lockHolder, net, wpc, mine, cpc, dpc, lateDials>>

Callback(c) ==
  OnDisconnectStale(c) \/ OnDisconnect(c) \/ DropClaimed(c) \/ DropOwned(c)

Network(c) == OnConnect(c) \/ LoseLink(c) \/ Callback(c)

-----------------------------------------------------------------------------
Init ==
  /\ stop = FALSE /\ connected = FALSE /\ client = NoClient
  /\ reconnecting = FALSE /\ refreshing = FALSE /\ lockHolder = NoOne
  /\ aged = FALSE /\ rejected = FALSE
  /\ phase = "connecting"
  /\ net = [c \in Clients |-> "dead"]
  /\ wpc = [w \in Workers |-> IF w = Setup THEN "dial" ELSE "idle"]
  /\ mine = [w \in Workers |-> NoClient]
  /\ cpc = [p \in Refreshers |-> "idle"]
  /\ dpc = "idle"
  /\ lateDials = 0

(* The entry is unloaded and every thread has ended.                       *)
Finished ==
  /\ phase = "gone"
  /\ \A w \in Workers : wpc[w] = "idle"
  /\ UNCHANGED vars

Next ==
  \/ \E w \in Workers : Connect(w)
  \/ \E w \in Threads \cup Refreshers : Reconnect(w)
  \/ \E t \in Threads : Backoff(t)
  \/ \E p \in Refreshers : Refresh(p) \/ OrphanJobEnds(p)
  \/ SetupDone \/ SetupFailed \/ Unload \/ Disconnect
  \/ \E c \in Clients : Network(c)
  \/ TokenAges
  \/ Finished

Spec == Init /\ [][Next]_vars

(* Threads and the event loop are scheduled: a party that can go on does.  *)
(* A connect that polls again and again reaches its deadline, hence strong *)
(* fairness there. Nothing obliges the link to break, the user to unload,  *)
(* or the cloud to reject the account.                                     *)
ThreadStep(t) == Backoff(t) \/ Reconnect(t) \/ Connect(t)
JobStep(p) == JobStart(p) \/ Reconnect(p) \/ Connect(p) \/ OrphanJobEnds(p)
CoroutineStep(p) ==
  \/ TokensOk(p) \/ TokensFail(p) \/ TokensRejected(p)
  \/ JobEnded(p) \/ RestartSpawn(p) \/ RestartSkip(p)

Scheduling ==
  /\ \A t \in Threads : WF_vars(ThreadStep(t)) /\ SF_vars(TimedOut(t))
  /\ \A p \in Refreshers :
       WF_vars(JobStep(p)) /\ SF_vars(TimedOut(p)) /\ WF_vars(CoroutineStep(p))
  /\ WF_vars(Connect(Setup) \/ SetupDone \/ SetupFailed)
  /\ WF_vars(Disconnect)
  /\ \A c \in Clients : WF_vars(Callback(c))

(* The outage ends: an attempt made again and again gets through, and its  *)
(* CONNACK comes before the attempt has timed out.                         *)
OnConnectInTime(c) ==
  OnConnect(c) /\ \E w \in Workers : mine[w] = c /\ wpc[w] \in {"await", "poll"}

Recovery ==
  /\ \A t \in Threads : SF_vars(CredOk(t)) /\ SF_vars(DialOk(t))
  /\ \A p \in Refreshers : SF_vars(TokensOk(p))
  /\ SF_vars(\E c \in Clients : OnConnectInTime(c))

(* Time passes, and the heartbeat looks at the age of the token.           *)
Heartbeat ==
  /\ WF_vars(TokenAges)
  /\ WF_vars(\E p \in Refreshers \ Tracked : StartRefresh(p))

FairSpec == Spec /\ Scheduling /\ Recovery /\ Heartbeat

-----------------------------------------------------------------------------
FlagsOK ==
  /\ stop \in BOOLEAN /\ connected \in BOOLEAN
  /\ reconnecting \in BOOLEAN /\ refreshing \in BOOLEAN
  /\ aged \in BOOLEAN /\ rejected \in BOOLEAN

PlacesOK ==
  /\ client \in Clients \cup {NoClient}
  /\ lockHolder \in Workers \cup {NoOne}
  /\ phase \in {"connecting", "ready", "closing", "gone"}
  /\ net \in [Clients -> NetStates]
  /\ wpc \in [Workers -> WorkerStates]
  /\ mine \in [Workers -> Clients \cup {NoClient}]
  /\ cpc \in [Refreshers -> {"idle", "tokens", "job", "restart"}]
  /\ dpc \in {"idle", "stop", "join", "bye", "clear", "done"}
  /\ lateDials \in 0..MaxLate

(* Every variable has its type.                                            *)
TypeOK == FlagsOK /\ PlacesOK

(* o owns the reconnect: a backoff thread from its spawning to its finally *)
(* clause, a refresh coroutine from its claim to its finally clause.       *)
Owns(o) ==
  \/ o \in Threads /\ wpc[o] # "idle"
  \/ o \in Refreshers /\ cpc[o] \in {"tokens", "job"}

Owners == Threads \cup Refreshers

(* Only one reconnect owns the client, and _reconnecting is set exactly    *)
(* while somebody does (the promise of claim_reconnect).                   *)
SingleOwner ==
  /\ \A o1, o2 \in Owners : Owns(o1) /\ Owns(o2) => o1 = o2
  /\ reconnecting <=> \E o \in Owners : Owns(o)

(* There are never two live paho clients, whoever dials: setup, a refresh  *)
(* job (orphaned ones too) or a backoff thread (the purpose of             *)
(* _reconnect_lock).                                                       *)
OneLiveClient ==
  \A c, d \in Clients : net[c] \in Live /\ net[d] \in Live => c = d

(* Setting _stop lets at most the one attempt under way dial a client.     *)
OneLateDial == lateDials <= 1

(* The reactive loop never tears down a client that still serves.          *)
ReactiveSparesLiveLink ==
  [][\A t \in Threads :
       wpc[t] = "teardown" /\ wpc'[t] # "teardown" /\ client # NoClient
       => net[client] \notin Live]_vars

(* disconnect() makes every reconnect end, and the claim with it.          *)
StopQuiesces ==
  stop ~> (~reconnecting /\ \A w \in Workers : wpc[w] = "idle")

(* A link that carries messages: its client is current, it was accepted,   *)
(* and nobody has decided to abandon it. Not the same as _connected.       *)
Serving ==
  \E c \in Clients :
    /\ client = c /\ net[c] = "up"
    /\ \A w \in Workers : ~(mine[w] = c /\ wpc[w] = "abandon")

(* A backoff loop ends in a link that serves, unless the entry is          *)
(* disconnected or the account rejected the token. Where a CONNACK handled *)
(* during the join of a timed-out attempt leaves _connected set without a  *)
(* client, the loop itself takes the link for restored and ends: then it   *)
(* is the heartbeat's refresh of the aged token that brings it back.       *)
RetryUntilUp ==
  \A t \in Threads :
    (wpc[t] \notin {"idle", "exit"} /\ ~connected)
      ~> (Serving \/ stop \/ rejected)

(* A link that breaks while a proactive refresh owns the reconnect (so     *)
(* on_disconnect starts no thread), or that the refresh itself took down,  *)
(* serves again all the same; after a late CONNACK, which makes the        *)
(* coroutine skip the restart, only by way of the next token refresh.      *)
RefreshRecovers ==
  \A p \in Refreshers :
    (Owns(p) /\ ~Serving) ~> (Serving \/ stop \/ rejected)

(* What the contract sees of the link.                                     *)
Owner ==
  IF \E o \in Owners : Owns(o) THEN CHOOSE o \in Owners : Owns(o) ELSE NoOne

Life ==
  CASE phase = "connecting" -> "starting"
    [] phase = "ready" -> "serving"
    [] OTHER -> "closing"

Contract == INSTANCE LinkContract WITH
  Nobody <- NoOne, up <- connected, owner <- Owner, life <- Life

(* The link keeps the ownership contract.                                  *)
KeepsContract == Contract!Spec

-----------------------------------------------------------------------------
(* What the code's own comments say and the code does not keep.            *)

Working ==
  \/ \E w \in Workers : wpc[w] # "idle"
  \/ \E p \in Refreshers : cpc[p] # "idle"
  \/ \E c \in Clients : net[c] \in {"open", "run", "up", "lost", "drop"}

(* "Loop until disconnect() sets _stop or the reconnect succeeds": a link  *)
(* that is down always has somebody working on it.                         *)
NeverSilentlyDead ==
  phase = "ready" /\ ~rejected /\ ~connected => Working

=============================================================================
