--------------------------- MODULE TokenRotation ---------------------------
(* The cloud refresh token of a FUSION config entry. It can be used once:   *)
(* the cloud answers a refresh with its successor and retires it. The token *)
(* lives in the entry, which survives a reload; the lock that serialises    *)
(* its users (_token_lock) lives in the coordinator, which does not. Its    *)
(* users are the cloud fetches and the proactive refresh (coordinator.py),  *)
(* the credential refresh of the backoff thread and, before there is a      *)
(* lock, setup itself (__init__.py).                                        *)
(*                                                                          *)
(* Left out: a cloud that does not rotate, hass.is_stopping (a thread that  *)
(* it turns away makes no attempt), and the link, of which only its owner   *)
(* is kept (MqttLink).                                                      *)
EXTENDS Naturals, Sequences

CONSTANTS
  Fetchers,    \* cloud fetches: names, catalogue, presets, drinks, firmware
  Proactive,   \* _proactive_mqtt_refresh
  Attempts,    \* _do_refresh coroutines of the backoff thread
  Tracked,     \* what unload cancels: not a fetch that a service call awaits
  Setup,       \* async_setup_entry
  Nobody,      \* of an exchange: its task was cancelled; of the link: no owner
  Backoff,     \* the backoff thread
  MaxLoads,    \* bound: how often the entry is set up
  MaxTokens    \* bound: how many tokens the cloud issues

ASSUME TokenAssumption ==
  /\ MaxLoads \in Nat \ {0} /\ MaxTokens \in Nat \ {0}
  /\ Fetchers \cap Attempts = {} /\ Tracked \subseteq Fetchers \cup {Proactive}
  /\ {Proactive, Setup, Nobody, Backoff} \cap (Fetchers \cup Attempts) = {}
  /\ Setup \notin {Proactive, Nobody, Backoff}
  /\ Nobody \notin {Proactive, Backoff} /\ Proactive # Backoff

Tasks == Fetchers \cup {Proactive} \cup Attempts
Loads == 1..MaxLoads
Tokens == 1..MaxTokens
CallStates == {"sent", "answered", "stored", "rejected", "unreachable"}
Calls == [load : Loads, by : Tasks \cup {Setup, Nobody}, token : Tokens,
          state : CallStates, reply : Tokens]
Phases ==
  {"tokens", "linking", "running", "closing", "unloaded", "retry", "failed"}

VARIABLES
  stored,      \* CONF_CLOUD_REFRESH_TOKEN of the entry
  minted,      \* how many tokens the cloud has issued
  alive,       \* those it still accepts
  load, phase, \* which setup of the entry this is, and how far it got
  queue,       \* queue[l]: the tasks that wait for _token_lock of load l
  calls,       \* refresh_tokens() calls that somebody still runs or awaits
  owner,       \* who owns the reconnect (claim_reconnect)
  awaiting,    \* the attempt its thread awaits in future.result(), if any
  lost,        \* since the last login the answer to a refresh was lost
  alongside    \* a refresh began beside one of a coordinator that was left

entry == <<load, phase>>
cloud == <<minted, alive, lost>>
link == <<owner, awaiting>>
vars == <<stored, cloud, entry, queue, calls, link, alongside>>

----------------------------------------------------------------------------
(* The exchange: refresh_tokens() and the write of the rotated token.       *)

Range(s) == {s[i] : i \in 1..Len(s)}
CallsOf(l, a) == {c \in calls : c.load = l /\ c.by = a}
(* A task holds the lock for as long as its call is there.                  *)
Locked(l) == \E a \in Tasks : CallsOf(l, a) # {}
UsesToken(l, a) == a \in Range(queue[l]) \/ CallsOf(l, a) # {}

(* Mutation: a credential refresh that does not take the lock.              *)
AttemptsPass(l, a) ==
  queue[l] # <<>> /\ Head(queue[l]) = a /\ (a \in Attempts \/ ~Locked(l))
Acquires(l, a) == queue[l] # <<>> /\ Head(queue[l]) = a /\ ~Locked(l)
Unfinished == {c \in calls : c.state \in {"sent", "answered"}}
LeftBehind(l) == {c \in Unfinished : c.load # l \/ c.by = Nobody}

Call(l, a, token, state, reply) ==
  [load |-> l, by |-> a, token |-> token, state |-> state, reply |-> reply]

(* The stored token goes out; nobody looks for refreshes of other loads.    *)
SendRefresh(l, a) ==
  /\ calls' = calls \cup {Call(l, a, stored, "sent", stored)}
  /\ alongside' = (alongside \/ LeftBehind(l) # {})

(* A call ends in state s; one that nobody awaits any more just goes.       *)
EndCall(c, s) ==
  (calls \ {c}) \cup
    {d \in {Call(c.load, c.by, c.token, s, c.reply)} : c.by # Nobody}

Rotate(c) ==
  /\ c.state = "sent" /\ c.token \in alive /\ minted < MaxTokens
  /\ minted' = minted + 1
  /\ alive' = (alive \ {c.token}) \cup {minted + 1}

CloudAnswers(c) ==
  /\ Rotate(c)
  /\ calls' = (calls \ {c}) \cup
                {Call(c.load, c.by, c.token, "answered", minted + 1)}
  /\ UNCHANGED lost

(* The cloud rotates, but a reset, a timeout or a body that is not JSON     *)
(* keeps the answer from us.                                                *)
AnswerLost(c) ==
  Rotate(c) /\ calls' = EndCall(c, "unreachable") /\ lost' = TRUE

CloudRejects(c) ==
  /\ c.state = "sent" /\ c.token \notin alive
  /\ calls' = EndCall(c, "rejected") /\ UNCHANGED cloud

CloudUnreachable(c) ==
  c.state = "sent" /\ calls' = EndCall(c, "unreachable") /\ UNCHANGED cloud

CloudStep(c) ==
  /\ CloudAnswers(c) \/ AnswerLost(c) \/ CloudRejects(c) \/ CloudUnreachable(c)
  /\ UNCHANGED <<stored, entry, queue, link, alongside>>

(* async_update_entry with the rotated token.                               *)
Persist(c) ==
  /\ c.state = "answered"
  /\ stored' = c.reply
  /\ calls' = EndCall(c, "stored")
  /\ UNCHANGED <<cloud, entry, queue, link, alongside>>

Exchange(c) == CloudStep(c) \/ Persist(c)

----------------------------------------------------------------------------
(* The users of the lock.                                                   *)

(* The coordinator gets pushes from before the link is up until it is gone. *)
Serving == phase \in {"linking", "running", "closing"}

StartTask(a) ==
  /\ Serving /\ ~UsesToken(load, a)
  /\ queue' = [queue EXCEPT ![load] = Append(@, a)]

StartFetch(a) ==
  /\ a \in Fetchers /\ StartTask(a)
  /\ UNCHANGED <<stored, cloud, entry, calls, link, alongside>>

StartProactive ==
  /\ owner = Nobody /\ owner' = Proactive /\ StartTask(Proactive)
  /\ UNCHANGED <<stored, cloud, entry, calls, awaiting, alongside>>

(* on_disconnect, or start_reconnect after a refresh that failed.           *)
StartBackoff ==
  /\ Serving /\ owner = Nobody /\ owner' = Backoff
  /\ UNCHANGED <<stored, cloud, entry, queue, calls, awaiting, alongside>>

(* _refresh_mqtt_credentials: a coroutine for the loop, a future to await.  *)
StartAttempt(a) ==
  /\ a \in Attempts /\ owner = Backoff /\ awaiting = Nobody
  /\ StartTask(a)
  /\ awaiting' = a
  /\ UNCHANGED <<stored, cloud, entry, calls, owner, alongside>>

(* future.result(timeout=10) gives up; the coroutine is not cancelled.      *)
AttemptTimesOut ==
  /\ awaiting \in Attempts /\ awaiting' = Nobody
  /\ UNCHANGED <<stored, cloud, entry, queue, calls, owner, alongside>>

(* The backoff thread restored the link and releases the reconnect.         *)
BackoffDone ==
  /\ owner = Backoff /\ awaiting = Nobody /\ owner' = Nobody
  /\ UNCHANGED <<stored, cloud, entry, queue, calls, awaiting, alongside>>

(* From the lock to the request the task does not yield.                    *)
Refresh(l, a) ==
  /\ a \in Tasks /\ Acquires(l, a)
  /\ queue' = [queue EXCEPT ![l] = Tail(@)]
  /\ SendRefresh(l, a)
  /\ UNCHANGED <<stored, cloud, entry, link>>

Ended(l, a, c) ==
  c \in CallsOf(l, a) /\ c.state \in {"stored", "rejected", "unreachable"}
(* get_mqtt_signature and get_mqtt_user_id may refuse a fresh access token. *)
Refused(c) == IF c.state = "stored" THEN BOOLEAN ELSE {c.state = "rejected"}

(* Mutation: a refresh that fails is tried again within the lock.           *)
LeaveOnSuccess(l, a, c) ==
  /\ Ended(l, a, c)
  /\ calls' = (calls \ {c}) \cup
       {d \in {Call(l, a, stored, "sent", stored)} : c.state # "stored"}
(* The task releases the lock with the result of its call.                  *)
Leave(l, a, c) == Ended(l, a, c) /\ calls' = calls \ {c}

(* A fetch tells nobody that the cloud turned the token down.               *)
EndFetch(l, a) ==
  /\ a \in Fetchers
  /\ \E c \in calls : Leave(l, a, c)
  /\ UNCHANGED <<stored, cloud, entry, queue, link, alongside>>

(* After the lock the proactive refresh rebuilds the link, successfully or  *)
(* not, and releases it.                                                    *)
EndProactive(l) ==
  /\ \E c \in calls : Leave(l, Proactive, c)
  /\ owner' = IF l = load THEN Nobody ELSE owner
  /\ UNCHANGED <<stored, cloud, entry, queue, awaiting, alongside>>

(* The thread hears of the attempt it awaits; one of a load left has ended. *)
Heard(l, a) == l = load /\ awaiting = a

(* MqttCredentialsRejected ends the backoff loop, anything else does not.   *)
EndAttempt(l, a) ==
  /\ a \in Attempts
  /\ \E c \in calls :
       /\ Leave(l, a, c)
       /\ \E refused \in Refused(c) :
            owner' = IF Heard(l, a) /\ refused THEN Nobody ELSE owner
  /\ awaiting' = IF Heard(l, a) THEN Nobody ELSE awaiting
  /\ UNCHANGED <<stored, cloud, entry, queue, alongside>>

EndTask(l, a) ==
  EndFetch(l, a) \/ (a = Proactive /\ EndProactive(l)) \/ EndAttempt(l, a)

----------------------------------------------------------------------------
(* The life of the entry.                                                   *)

Goto(p) == phase' = p /\ UNCHANGED load

(* Setup reads the token and uses it without a lock: there is none yet.     *)
BeginSetup ==
  /\ phase \in {"unloaded", "retry", "failed"} /\ load < MaxLoads
  /\ load' = load + 1 /\ phase' = "tokens"
  /\ owner' = Nobody /\ awaiting' = Nobody
  /\ SendRefresh(load + 1, Setup)
  /\ UNCHANGED <<stored, cloud, queue>>

(* Without the token, the user id or the signature there is no coordinator: *)
(* a rejection waits for the user, anything else for the retry timer.       *)
SetupTokens ==
  /\ phase = "tokens"
  /\ \E c \in calls :
       /\ Ended(load, Setup, c) /\ calls' = calls \ {c}
       /\ Goto("retry") \/ (c.state = "stored" /\ Goto("linking"))
                        \/ (TRUE \in Refused(c) /\ Goto("failed"))
       /\ c.state = "rejected" => phase' = "failed"
  /\ UNCHANGED <<stored, cloud, queue, link, alongside>>

(* connect(), the first refresh and the wait for the ports.                 *)
SetupDone ==
  /\ phase = "linking" /\ Goto("running")
  /\ UNCHANGED <<stored, cloud, queue, calls, link, alongside>>

(* disconnect() and ConfigEntryNotReady; tasks already started go on.       *)
SetupFails ==
  /\ phase = "linking" /\ Goto("retry")
  /\ UNCHANGED <<stored, cloud, queue, calls, link, alongside>>

(* cancel_background_tasks: a cancelled task lets the lock go; the exchange *)
(* it was awaiting is shielded and goes on by itself.                       *)
Abandoned(l) == {c \in calls : c.load = l /\ c.by \in Tracked}
(* Mutation: the exchange is cancelled with the task that awaits it.        *)
Unshielded(l) == calls \ Abandoned(l)
Shielded(l) ==
  (calls \ Abandoned(l)) \cup
    {Call(c.load, Nobody, c.token, c.state, c.reply) :
       c \in Abandoned(l) \cap Unfinished}

(* What is left of the lock's waiters q, which keep their order.            *)
Ahead(q, a, b) == \E i, j \in 1..Len(q) : i < j /\ q[i] = a /\ q[j] = b
Uncancelled(q) ==
  {s \in UNION {[1..n -> Range(q)] : n \in 0..Len(q)} :
     /\ Range(s) = Range(q) \ Tracked
     /\ \A i, j \in 1..Len(s) : i < j => Ahead(q, s[i], s[j])}

Unload ==
  /\ phase = "running" /\ Goto("closing")
  /\ calls' = Shielded(load)
  /\ \E q \in Uncancelled(queue[load]) : queue' = [queue EXCEPT ![load] = q]
  /\ owner' = IF owner = Proactive THEN Nobody ELSE owner
  /\ UNCHANGED <<stored, cloud, awaiting, alongside>>

(* disconnect() has returned: no push and no attempt will start a task.     *)
Unloaded ==
  /\ phase = "closing" /\ Goto("unloaded")
  /\ UNCHANGED <<stored, cloud, queue, calls, link, alongside>>

(* The user logs in again; the reauth flow stores the token of a new login *)
(* and asks for a reload, which is one of the unloads or setups above.      *)
Login ==
  /\ phase \in {"running", "failed"} /\ minted < MaxTokens
  /\ minted' = minted + 1 /\ alive' = alive \cup {minted + 1}
  /\ stored' = minted + 1 /\ lost' = FALSE
  /\ UNCHANGED <<entry, queue, calls, link, alongside>>

----------------------------------------------------------------------------
Init ==
  /\ stored = 1 /\ minted = 1 /\ alive = {1}
  /\ load = 1 /\ phase = "tokens"
  /\ queue = [l \in Loads |-> <<>>]
  /\ calls = {Call(1, Setup, 1, "sent", 1)}
  /\ owner = Nobody /\ awaiting = Nobody
  /\ lost = FALSE /\ alongside = FALSE

UserStep(l, a) == Refresh(l, a) \/ EndTask(l, a)
Life ==
  \/ BeginSetup \/ SetupTokens \/ SetupDone \/ SetupFails
  \/ Unload \/ Unloaded
Start ==
  \/ StartProactive \/ StartBackoff \/ AttemptTimesOut \/ BackoffDone
  \/ \E a \in Tasks : StartFetch(a) \/ StartAttempt(a)

(* The last load may end for good.                                          *)
Rest ==
  /\ load = MaxLoads /\ phase \in {"unloaded", "retry", "failed"}
  /\ UNCHANGED vars

Next ==
  \/ \E c \in calls : Exchange(c)
  \/ \E l \in Loads, a \in Tasks : UserStep(l, a)
  \/ Start \/ Life \/ Login \/ Rest

Spec == Init /\ [][Next]_vars

(* An exchange ends by REQUEST_TIMEOUT and the loop runs what is ready.     *)
Fairness ==
  \A l \in Loads, a \in Tasks :
    WF_vars(UserStep(l, a) \/ \E c \in CallsOf(l, a) : Exchange(c))

FairSpec == Spec /\ Fairness

----------------------------------------------------------------------------
TypeOK ==
  /\ stored \in Tokens /\ minted \in Tokens /\ alive \subseteq 1..minted
  /\ load \in Loads /\ phase \in Phases
  /\ queue \in [Loads -> Seq(Tasks)]
  /\ \A l \in Loads : ~\E a \in Tasks : Ahead(queue[l], a, a)
  /\ calls \subseteq Calls
  /\ owner \in {Nobody, Proactive, Backoff}
  /\ awaiting \in Attempts \cup {Nobody}
  /\ lost \in BOOLEAN /\ alongside \in BOOLEAN

(* Cancelling the background tasks never leaves the entry with a token that *)
(* the cloud has retired: if the stored token is dead, its successor is on  *)
(* its way to the entry, unless the network lost it (coordinator.py:1465).  *)
SuccessorKept ==
  \/ stored \in alive \/ lost
  \/ \E c \in calls :
       c.state = "answered" /\ c.token = stored /\ c.reply \in alive

(* The cloud turns a stored token down only when it is the user's turn:     *)
(* an answer was lost, or a refresh began beside one of a coordinator that  *)
(* was left. Within one coordinator the lock keeps a token from being used  *)
(* twice (__init__.py:186, coordinator.py:1362 and 1495).                   *)
RejectedOnlyWhenDead ==
  \A c \in calls : c.state = "rejected" /\ c.token = stored => lost \/ alongside

(* Whoever asks for the lock gets it and leaves it again, although attempts *)
(* that timed out queue before it and their exchanges fail.                 *)
(* (With the types: no task is in a queue twice.)                           *)
LockServed ==
  []TypeOK /\
  \A l \in Loads, a \in Tasks : UsesToken(l, a) ~> ~UsesToken(l, a)

=============================================================================
