# A TLA+ model of the Philips HomeID integration

This directory models `src/custom_components/philips_homeid`, a Home Assistant
integration for Philips kitchen appliances and air purifiers: what its threads,
coroutines and callbacks do to each other, checked with TLC on small instances
and, where it matters most, proved with TLAPS for every instance.
`PROJECT.json` ties every definition to the lines it models, every run to its
properties, and every hazard to the properties that would catch it.

## The system

An appliance reaches Home Assistant in one of two ways. A *FUSION* appliance is
driven over MQTT through the vendor's cloud (`mqtt_api.py`); a *local* one is
polled over HTTP (`local_api.py`). In both cases one `PhilipsHomeIDCoordinator`
(`coordinator.py`) holds the device state that the entities read, and
`__init__.py` builds and tears down the whole on setup, reload and unload.

| Component | State it keeps | Operations | Runs on |
|---|---|---|---|
| MQTT link (`mqtt_api.py`) | `_client`, `_connected`, `_stop`, `_reconnecting`, `_reconnect_lock`, connect time | connect, reconnect, backoff, disconnect, on_connect, on_disconnect | executor threads, backoff threads, one paho network thread per client |
| getPort queue (`mqtt_api.py`) | `_port_queue`, `_inflight_port`, `_inflight_cid`, busy counts, pump timer | enqueue, pump, reply, timer, cancel | paho thread, timer threads, executor threads |
| NCP writes (`mqtt_api.py`, `coordinator.py`) | `_pending_writes` by cid | send and wait, busy retry, timeout | executor threads, paho thread |
| Port discovery and state merge (`mqtt_api.py`) | discovered, replied and reported ports, device state | getAllPorts, merge, snapshot to the loop | paho thread, event loop |
| Coordinator (`coordinator.py`) | state, failures, countdown baseline, polling interval, token lock, tasks | push, heartbeat, poll, proactive refresh, commands | event loop |
| Cloud caches (`coordinator.py`) | recipe names, catalogue, presets, drinks, firmware jobs, running flags | fetch, inject, persist, refresh | event loop tasks |
| Setup and unload (`__init__.py`) | the entry's data, entity registry | connect, wait for ports, prune, unload | event loop, executor |
| Local API (`local_api.py`, `cloud_auth.py`) | session, credentials, `_no_response`, `_probe_transient`, type sentinels | request with authentication retry, full state, probe | event loop |
| Flows (`config_flow.py`) | OTP session, found devices | cloud login, OTP, reauth, discovery | event loop |
| Entities (`sensor.py`, `select.py`, ...) | current option, registered callbacks | create, create late, update | event loop |

They interact through shared attributes under three locks (`_lock`,
`_reconnecting_lock`, `_reconnect_lock`), one flag (`_reconnecting`), one event
(`_stop`), one asyncio lock (`_token_lock`), `call_soon_threadsafe` from the
paho thread to the event loop, executor jobs the other way, and the config
entry's data, which survives a reload while the objects do not.

What is hard is that six kinds of threads touch the link and that most
operations have a blocking step in the middle: a publish between two sections
of a lock, a `loop_stop()` that joins a thread which may be running a callback,
a coroutine cancelled while its executor job goes on, an answer that comes after
its deadline. What each component must guarantee:

- **Link**: one owner of the reconnect; one live client; after a disconnect
  nothing is left running; before it, the link always comes back.
- **Queue**: one read in flight; a port queued once; bounded busy retries; no
  stall between the lock sections or when an answer is lost; silence after a
  disconnect.
- **Writes and cooking**: an answer reaches its own caller; False means not
  applied; a command is not sent again once it is dealt with; a call that went
  through untroubled did what its name says; a cook paused for a change goes on.
- **Discovery**: a property that is known has its entities, and keeps them; a silent
  appliance is asked again.
- **Tokens**: a single-use refresh token is not used twice by one coordinator, and
  its successor is stored.
- **Caches**: a name that was found is kept; names are in the language of Home
  Assistant; nothing is given up because of a passing error; once the cloud
  answers, everything asked for comes.
- **Local poll**: an appliance is never taken for another kind; a poll comes back
  empty for a reason; the entities come back with the appliance.
- **Brew**: nothing of a brew is sent after a power off; every brew task ends.
- **Flows**: no entry takes another's place, and an appliance gets one where its MAC
  decides; its token is one of its own OAuth client; no session outlives its dialog; a
  code that was accepted is enough.

`PROJECT.json` lists the hazards line by line, those no property covers too.

## Modules

| Module | Models |
|---|---|
| `MqttLink` | the link: ownership, connect, reconnect, disconnect and the callbacks |
| `LinkContract` | the abstract promise of the ownership protocol; `MqttLink` implements it |
| `MqttLinkProofs` | theorems about `MqttLink`, the refinement among them |
| `PortQueue`, `MCPortQueue` | the serialised getPort reads, with two ports |
| `PortQueueProofs` | theorems about `PortQueue` |
| `NcpWrite` | one `setPort` and its answer: cids, busy retries, timeouts, two callers |
| `WriteContract` | what a caller of `_mqtt_command` may rely on; `NcpWrite` implements it |
| `NcpWriteProofs` | theorems about `NcpWrite`, the refinement among them |
| `FusionCook`, `MCFusionCook` | the cook commands, each a sequence of writes that keep `WriteContract` |
| `TokenRotation` | the single-use refresh token: its users, the token lock, setup, unload, login |
| `TokenRotationProofs` | theorems about `TokenRotation` |
| `PortDiscovery`, `MCPortDiscovery` | from the answers of the ports to the entities: merge, hand-over, setup's wait and pruning, late entities |
| `CoordinatorProofs` | theorems about `PortDiscovery` and `FusionCook`, whose names do not meet |
| `LocalAppliance` | a local appliance: probe, setup, poll, commands, brew, and the flags they share |
| `LocalApplianceProofs` | theorems about `LocalAppliance` |
| `CloudReplies` | what each method of the cloud client makes of every reply, as operators |
| `CloudCaches` | the fetches whose results the coordinator caches; extends `CloudReplies` |
| `CloudCachesProofs` | theorems about `CloudCaches` |
| `ConfigFlow`, `MCConfigFlow` | the dialogs that add an appliance or renew its login |
| `ConfigFlowProofs` | theorems about `ConfigFlow` |

The link, the queue and the writes share `_client` and `_connected`; `PortQueue`
and `NcpWrite` see of the link only whether it is up and whether `_stop` is set,
both free to change. `FusionCook` sees of the writes only `WriteContract`, which
it EXTENDS, and of the link only that a reconnect forgets the ports.
`TokenRotation` sees of the link only who owns the reconnect, `PortDiscovery`
whether it is up, and of the queue which ports are still to answer.
`CloudCaches` sees of the token only that a request may fail for want of one;
`LocalAppliance` and `ConfigFlow` share nothing with the rest but the entry, which
the one begins with and the other ends with.

### MqttLink

A *worker* is a thread that may run `connect()`: a backoff thread, the executor
job of a refresh coroutine, or setup's. `wpc[w]` is its place between the points
where other threads can act: waiting for the backoff delay, fetching credentials,
waiting for `_reconnect_lock`, the steps of `_teardown_client`, the dial, the
publication of `_client`, the start of the network thread, and the poll of
`_connected` and `_stop` in `_wait_for_connection`. `cpc[p]` is the place of a
refresh coroutine, which is not the place of its job: unload cancels the
coroutine while the job runs on, which `OrphanJobEnds` ends. `net[c]` is the
network thread of a client; `loop_stop()` joins it, so a join waits for the
callback under way (`Joinable`), and a callback can run during the join. A
client identity is recycled when nothing refers to it; the number of reconnects
is therefore unbounded in a finite state space. Only `lateDials`, a history
variable, is a counter; it saturates at `MaxLate`.

`_connected` is what the code believes of the link; `Serving` says that a client is
there, accepted and not about to be abandoned. The two differ when a CONNACK is
handled during the join of an attempt that has timed out: the flag stays set with
no client behind it. The backoff loop then leaves as if it had connected
(mqtt_api.py:1040) and a refresh coroutine skips the restart (coordinator.py:1408).
`RetryUntilUp` and `RefreshRecovers` are about `Serving`. They hold only because
the heartbeat refreshes the token again when it is 50 minutes old, which tears the
phantom down and dials; without `Heartbeat` among the fairness assumptions both are
violated, and so is what the docstrings at mqtt_api.py:1014 and coordinator.py:1403
say of the loop and of the restart alone.

`LinkContract` keeps the link's believed state, the owner and the life of the
entry: ownership passes through nobody, and while the entry serves, a link that
is down comes back only under an owner. `KeepsContract` checks the refinement.

### PortQueue

A pumper is a thread in `_pump_port_queue`; `pc[t]` separates its first lock
section, the publish and its second lock section. Requests are a set of port
and cid: answers may come in any order, late, busy, or not at all. Time is two facts: whether the
read in flight is older than `_PORT_INFLIGHT_TIMEOUT`, and whether a gap timer or
the safety timer is armed. A cid is recycled when nothing refers to it.
`asked` and `disturbed` are history variables. `QueueInv` is one invariant with four
named parts, since none of them says much without the others: `ReadOnce`,
`BusyBounded`, `OneReadAtATime` (only while nothing timed out) and `NeverStalled`.
A reconnect is one step, since between its cancel of the queue and the CONNACK
the pump does nothing. `Enqueued[n]` is the queue when the loop of
`_enqueue_port_reads` has gone over the first `n` ports that `getAllPorts` named; a
port that it names twice is queued once.

### NcpWrite and WriteContract

`at[c]` is the place of a service call in `send_port_command_and_wait`: before
the publish, in `event.wait`, or in the breather before a retry. `cid[c]` and
`heard[c]` are its entry in `_pending_writes`; `Deliver` is the paho thread
looking an answer up there. Commands and answers are sets, so they arrive in any
order, after the caller has gone, or not at all. `effect` is history: what the
appliance did with the open write; a command whose write has returned belongs to
nobody (`Disowned`) and may still be applied.

`WriteContract` keeps four things of this: the open write, its result, its
effect, and the commands adrift. False means not applied and never to be; True
means applied, refused or neither, and possibly adrift. The refinement maps
`adrift` to the commands on their way that belong to nobody.

### FusionCook

A call is at one of its steps (`at[c]`): ensuring that a control port is known,
reading the status, one of its writes, or one of its waits. Every write is
addressed when it begins, as `_resolve_ncp_port` does, to a port the appliance
has or not. The status a call reads is any status: pushes are late and can be
lost. The appliance is what the code says of it: it refuses a port it does not
have, refuses a request for the setting status while it cooks, and a Venus
ignores new values, the menu and standby while it cooks. `trouble` is history:
whether during the call a write was refused, or something outside the code's
power happened (a user at the appliance, an old status, a write without an
answer, a late command). What a call promises is checked when there was none;
that it resumes and returns is checked always.

### TokenRotation

`calls` holds the exchanges with the token endpoint: which coordinator (*load*)
began it, for which task, with which token, and how far it is. The lock of a
load is a queue of waiters and the call of the task that holds it: a task keeps
the lock from its request until it leaves with the result, so no variable says
who holds it. `stored` is the token in the entry; `alive` and `minted` are the
cloud's. Setup's own exchange (`by` is `Setup`) takes no lock.

Unload cancels the tasks of `Tracked`. A cancelled task lets the lock go at once
while its shielded exchange goes on; such a call belongs to `Nobody`, whose
answer is stored and then forgotten. A fetch that a service call awaits, the
coroutine of the backoff thread and the tasks of a setup that failed are not
cancelled. The backoff thread waits 10 s for its coroutine (`awaiting`); after
that the coroutine still stands in the queue, and the next attempt behind it.

`lost` and `alongside` are history: an answer to a refresh was lost after the
cloud had rotated the token, and a refresh began while one of a coordinator that
was left, or of a task that was cancelled, was under way. Both are the cases in
which the code cannot help a rejection; everything else must be ruled out by the
lock. A new login clears `lost` and not `alongside`, whose exchanges may still be
on their way.

Left out: a cloud that hands back the token it got, `hass.is_stopping`, and an
entry without a token, which no user of the lock sends.

### PortDiscovery

The paho thread takes `_lock` twice for an answer: first it counts the port as
reported, later it merges the properties. `hand` is what it carries from the one
to the other, and `inbox` the snapshots that `call_soon_threadsafe` has queued for
the event loop, where `state` is the coordinator's. Setup runs on the loop and
reads `discovered` and `reported` across the threads. `asked` stands for the
queue of `PortQueue`. A property is known or not; its value says nothing to
discovery. `Basics` is what a state has before any port answered (power,
connection), so that an empty set can stand for no state at all.

A platform is the set of properties it has entities for. Two of them may read the
same property: the set of seen properties is shared, what each has created is not.
The registry outlives a reload: it begins with an entry for each property of each
platform, among them one of a property the appliance does not have.

Left out: the values and the normalisation of names, answers that only say which
port is busy (they end setup's wait, which the deadline may end at any time),
entities that need several properties at once, and unload.

### LocalAppliance

A request is what becomes of it: data, no such port (`absent`), an answer that
cannot be used (`glitch`), 429, 401, or nothing. `_request` and
`_handle_response` write `quiet` (`_no_response`) and `transient`
(`_probe_transient`) before and after their await, whoever the caller is; `Began`
and `Ended` are these writes, and a 401 with a challenge writes them once more
(`Challenged`). `poll` is the read that `get_full_state` is at and what it has
found; `NextRead` is the order of its ports, `Ending` and `RuledOut` the verdict at
the end of a block. Between two blocks without an await the code reads `quiet` at
once, so those tests are part of the step that ends the read (`Advance`).

A service call is the sequence of its writes (`calls`); it goes on whatever they
bring. The brew task (`brew`) asks for the status, powers the machine on, asks again
every three seconds until it is ready or 90 s are over (`late`), and brews; a power
off cancels it. `Conclude` is `_async_update_data_local` and what setup does
after its first poll: the failure count, the stored port, the pruned entities.

`misled`, `disturbed`, `off` and `overruled` are history: a glitch was taken for a
fact, a request during this poll was not answered usefully, a power off was sent
after the brew was asked for, the brew made a request in spite of it. Setup's
probe keeps its two racing tasks (`probe`). The failure of a first poll does
not raise `ConfigEntryNotReady`, since one failure is below `_max_failures`;
`LocalAssumption` says so.

### CloudReplies and CloudCaches

`CloudReplies` is the pure part: seven replies, six outcomes, and for each method
how they combine along its chain of requests (`RecipeName`, `RootLinks`,
`HomeIdAppliances`, `Drinks`, ...). A result keeps the reply that decided it. No
outcome of `CloudCaches` is written by hand: `ResultsOf` enumerates what each method
makes of all replies, and `GivenUpOnlyOnAnswers` compares outcome and reply.

`CloudCaches` has the five fetches. Four have a running flag (`running`), a time
before which they do not ask again (`waiting`) and an answer with the language
it is in (`fetched`, `stamp`). Recipe names are looked up per recipe: `cache` is
`_recipe_name_cache` with the language of each name in place of its text, `kept` is
what the entry holds, `saving` the task that writes it five seconds later, `shown`
the recipe whose name is in the state. The button does its fetches one after the
other (`button`), unguarded by the running flag. The fetches share only the token
and the button, so a behaviour is about one of them. `switched`, `spoken` and `spoilt`
are history: the language changed while something was kept or under way; the
language the answer really is in; a passing error was taken for an answer. A reply
is in one of `Tongues`: once the language has changed under a running coordinator
it may be in the old one or in the new one, whatever it is stamped with. `settled` ends all interference, for the liveness property.

Bounds of the model, not of the code: two look-ups of one recipe count as one, and
so do two fetches started by pushes; between two moments without any name the
language changes once; the entry is not reloaded while the button's fetches run; the entry has a refresh
token.

### ConfigFlow

A dialog is at a form or awaits a reply (`at`); the other fields are the attributes
of the flow object on which a later step depends, `_cloud_tokens` and
`_airplus_tokens` (`cloud`, `airplus`) by the client whose tokens they hold: each
exchange replaces the first, an Air+ look-up that found something the second, and
`FusionEntry` takes the one or the other. The appliance is described by what the
registries tell of it, which decides the branches; `refused` is an account whose
HomeID client the IoT registry refuses for good (cloud_api.py:283). An entry from
the IoT registry has the registry's own id (config_flow.py:953), every other the
MAC if it is known. A renewal holds the id of its entry and ends with it; what it
asks the token endpoint for is the client the entry had before the exchange.

A dialog closed while it awaits a reply becomes a ghost: `async_remove` has run, the
step still returns, and Home Assistant drops its result. If the step has another
request to make in the same call (`Chained`), it opens a session again; such a
`stray` is closed by nobody. One at a time is a bound of the model. `Taken` is
`_abort_if_unique_id_configured` and `already_in_progress` of
`async_set_unique_id`; `Create` replaces an entry of the same id, as Home Assistant
does. The code is sent, accepted once and then spent, and its acceptance may be lost.

Left out: forms that reject what was typed, requests made for the log only, the
address that a discovery updates in an existing entry, the options dialog.

## Runs

| Run | Question | Bounds | Distinct states |
|---|---|---|---|
| `Link` | exclusive ownership, one live client, late dials, no teardown of a serving link, contract; disconnect quiesces; a link that was lost serves again | 3 clients, 1 backoff thread, a push refresh and a heartbeat refresh | 35,196 |
| `LinkSilentlyDead` | is a link that is down always worked on? No | 3 clients, 1 backoff thread, 1 refresh | |
| `PortQueue` | each port once, bounded retries, one read in flight, no stall; every read is sent or dropped; silence after disconnect | 2 ports, 2 pumpers, 2 cids, busy limit 2 | 450,083 |
| `NcpWrites` | own answers, nothing sent twice, one late send, return, contract | 2 callers, 1 command, 2 cids, retry limit 1 | 47,348 |
| `FusionCook` | keep warm heats keep warm, stop ends the cook, a change reaches it, resume, return | all six calls, 1 command adrift | 166,808 |
| `TokenRotation` | a retired token's successor is kept, a live token is not rejected, the lock is served | 2 loads, 3 tokens, 1 tracked and 2 untracked tasks | 74,494 |
| `PortDiscovery` | known properties have entities and stay known; a silent appliance is asked again | 2 ports, 3 properties and a stale one, 2 platforms, 2 snapshots under way | 464,700 |
| `PortDiscoveryPrune` | does pruning spare what a port of the appliance has? Not always | as PortDiscovery | |
| `LocalAppliance` | the appliance is not ruled out, a lost poll has a cause, entities come back, a power off is obeyed, a brew ends | 1 caller, 2 failures | 227,736 |
| `CloudCaches` | names are kept and in the right language, nothing is given up too early, everything comes | 2 recipes, one of them in the catalogue, 2 languages | 408,692 |
| `CatalogueLanguage` | is a catalogue that counts as fetched in the current language? Not always | as CloudCaches, the catalogue alone | |
| `ConfigFlow` | no entry replaced and one where the MAC decides, the token of its client, no session left, one code is enough | 2 dialogs, 8 kinds of appliance and account, 1 stray session | 895,894 |

**Bounds.** Three clients are the current one, the one being dialled and one
whose callback is still to run; a fourth would only be another stale one. One
backoff thread is enough because two are never at work at once: that is `SingleOwner`,
which the run checks among the thread and the refreshers and the theorem proves for
any number of threads. The two refreshers are the two call sites of
`_proactive_mqtt_refresh`, one cancelled by an unload and one not. Two ports are one in flight and one behind it; two
pumpers are one between its lock sections and another that acts meanwhile. The
busy limit is 3 in the code; 2 has a retry and a refusal to retry. Two writers
with two cids let one hear the other's answer if the code mixed them up; what
they write makes no difference to a write, so one command is enough; with a
retry limit of 1 (3 in the code) there is a retry and a refusal to retry. In
`FusionCook` another call is, to the first, somebody at the appliance, which
`Touched` covers: one call at a time. Two late commands (`MaxAdrift`) do nothing
that one late command and a user do not. Of the two ports of `PortDiscovery` one
has two properties, so that an event can tell one and not the other; the two
platforms share a property and each reads one of its own; two snapshots are one
behind the other. Two loads are a coordinator and the one
that replaces it; three tokens are the one set up with, its successor, and one
more for a login or a second rotation. One task of each kind is enough, since
tasks of a kind do the same; the fetch is one that no unload cancels, the
proactive refresh one that it does, and the theorems cover any other choice.

One caller beside the poll and the brew task makes three parties that write the two
flags; what a further caller writes, one caller writes again. With two failures (3
in the code) there is one that is forgiven and one that is not. Of two recipes
one gets its name from the catalogue and the other does not; a third would be
like one of them, since a behaviour compares at most the recipe asked for and the
one there is now. Two dialogs are enough for one to create what the other is about
to; the eight kinds of appliance have registries alone, two and three together, with and
without what makes an appliance local, without a MAC in its record, one that does not
tell its MAC to a probe, and two of an account that the IoT registry refuses. The theorems cover any number of callers, recipes,
languages, dialogs and kinds of appliance.

**Fairness.** Threads and the event loop are scheduled (weak fairness per
party). `_wait_for_connection` polls until its deadline, so its timeout is
strongly fair. `Recovery` says that an outage ends: of attempts made for ever one succeeds, with its
CONNACK before the attempt has timed out. `Heartbeat` says that time passes and that
the heartbeat, which is armed from setup to unload whether or not the link is up
(coordinator.py:126, 340), looks at the age of the token. `RetryUntilUp` and
`RefreshRecovers` are about nothing else; no other property needs the two.
For the queue, timers run out, time passes and a message is handled or lost.
A writer is strongly fair, since it may find no free cid for a while, which is a
bound of the model and not of the code. A cook call is weakly fair; that its
writes return is `WriteReturns` of `NcpWrite`. In `TokenRotation` every task with
its exchange is weakly fair: a request ends by `REQUEST_TIMEOUT` and the event
loop runs what is ready. Weak fairness is enough because asyncio's lock is
first-in first-out and a task at its head stays enabled. In `PortDiscovery` a push
restarts the timer of the heartbeat, so neither is fair alone: the loop handles one
or the other for ever (`WF` of their disjunction).
In `LocalAppliance` a request ends by its timeout, Home Assistant polls at every
interval and the brew task's time passes; that the appliance answers in the end is a
premise of `Recovers` and not of `BrewEnds`. In `CloudCaches` pushes keep coming (a
heartbeat asks for them), requests end, gates open, and interference stops at
`Settle`, which only the liveness property needs. In `ConfigFlow` requests end,
and a user who is asked for the code sends the form again; no one need choose an
appliance or close a dialog.
Never assumed: that an appliance answers, that a link holds, or that the user
unloads.

**Deadlock** is checked in every run. `Finished` is the only state where the link
or the queue rests for good: unloaded, with no thread left. Writes and calls may
always be made again. In `TokenRotation` the last load may rest (`Rest`) once it
is unloaded or its setup has failed. The last three modules never rest: a poll, a
push or a new dialog is always possible.

## What the violation runs show

- `LinkSilentlyDead`: the backoff loop releases the reconnect after `connect()`
  has returned. A drop in between finds the reconnect claimed, starts nothing,
  and no one works on the link any more.
- `PortDiscoveryPrune`: a push event carries what has changed, yet it counts its
  port as reported; when every port has been heard of, setup prunes the entities
  of properties not told so far. The same can happen between the two lock
  sections of an answer, which the property excuses.

- `CatalogueLanguage`: after a restart in another language the catalogue is not
  fetched yet when a looked-up name is written. The write stamps the entry with the
  new language and leaves the mark that the catalogue was fetched, set by the old one
  (coordinator.py:1519): should the fetch then fail, the catalogue passes for fetched
  and is not tried again. No live change of language is needed.

## Behaviours worth knowing

The models contain these behaviours of the code, and a property that would forbid
one excuses it. Some go against a comment or docstring, named with them; they have no
violation run of their own, but for the first of the caches.

The link, the writes and the tokens:

- `disconnect()` looks at `_client` without `_reconnect_lock`, so a reconnect past its
  test of `_stop` leaves a live client behind; `OneLateDial` says at most one.
- A CONNACK handled during the join of a timed-out attempt leaves `_connected` set
  without a client, and the next attempt returns, believing it (mqtt_api.py:1040); a
  refresh believes it as well (coordinator.py:1408). The link is down until the
  heartbeat finds the token 50 minutes old, against the docstrings at mqtt_api.py:1014
  and coordinator.py:1403, which promise the backoff loop.
- The late answer of a read that timed out frees the slot of the next read if it
  arrives before that read's cid is stored (`Ours` of `PortQueue`).
- A refused write whose answer is lost counts as sent, so keep warm starts on whatever
  program the appliance holds (`WarmAccepted` of `FusionCook`).
- With no control port known (after a reconnect, or for a Venus 2 that was asked in
  standby and woken by hand) a command goes to the static port name, which a Venus 2
  does not have (mqtt_api.py:588, 802, 812).
- A failed setup cancels no background task (`SetupFails`), and a cancelled task's
  shielded exchange goes on beside the setup of the reload, with the same single-use
  token (coordinator.py:1499, __init__.py:109; the docstring at coordinator.py:2054 says
  otherwise).

The local client:

- A 5xx, or an answer that does not decrypt, in the one poll that decides rules
  out the appliance's own kind until the restart (`misled`; local_api.py:362, 1141).
- An appliance that does not answer costs two (espresso) or three (purifier) timeouts
  per poll, the reads of one block, before `_device_unreachable` is asked; its docstring
  (local_api.py:1084) says that one unanswered read settles it.
- A first poll that reads only the firmware port prunes the entities of an
  appliance whose kind is still undecided.
- A status without an answer counts as a machine that is off: the brew task powers it
  on (coordinator.py:983).

The caches:

- Presets are taken for absent for the session when the discovery before them failed
  (`firstPresets`), which the docstring at coordinator.py:1698 rules out.
- A live change of language keeps old names, and the write five seconds later
  stamps them with the new language (coordinator.py:1519), so that the catalogue is
  taken for fresh; the catalogue of the new language adds only names that are missing
  (coordinator.py:1597). Names and presets in the old language stay, also after a
  restart; src/README.md:459 and the comment at coordinator.py:170 promise the current one.
  `NamesInLanguage` and `CalmCloudAnswers` excuse what follows such a change
  (`switched`).
- The name of a late look-up is put on whatever recipe is current, until the next
  push (coordinator.py:1552); a name taken from the cache is not announced as a new
  property, so its entity waits for the next push that brings one.
- A rejected token puts the recipe among those not asked again until a reload.
- A fetch that ends clears the running flag, and a look-up the pending recipe, of
  another one that is still under way.

The dialogs:

- The renewal of a login sends a spent code again when the exchange after it failed
  once (compare config_flow.py:566 and 575); a new dialog is needed. So it is when the
  acceptance of a code is lost.
- An entry from the IoT registry has the id of its record or, without one, its host
  (config_flow.py:953), never the `macAddress` that the record carries
  (cloud_api.py:219). The comment at config_flow.py:229 says as much of FUSION entries,
  which are compared by host instead; an entry from the IoT registry is not one. An appliance that was added from there can be added
  again from the network or from HomeID: `OneEntryPerDevice` allows two if the IoT
  registry has credentials for it.
- Records without a MAC, or an address whose probe is answered 401, can give a
  second entry to an appliance found both ways.
- The IoT registry's refusal of HomeID's client is for good (cloud_api.py:283). It ends
  the step (config_flow.py:729) before Air+ is asked. An account with Air+ appliances
  only, to which HomeID lists nothing, comes back to the form for the code however often
  it is sent, although the comments at config_flow.py:652 ("Query it every time") and
  757 ("runs on every cloud login") say that Air+ is asked. If the HomeID backend
  fails in the same login the refusal is passed over and Air+ is reached. `CodeIsEnough`
  excuses such accounts (`Findable`).
- A step that outlives its dialog and has another request to make opens a session
  after `async_remove` has closed it (`_get_session`, cloud_auth.py:161); nobody closes
  that one. `NoSessionLeft` excuses it (`stray`).
- The host of a discovered appliance goes to whichever cloud appliance is chosen,
  without the look-up by MAC of the comment at config_flow.py:857.
- An idle dialog of a discovery makes the user's own abort as already in progress.

The select of Rita recipes is corrected by the first update; a brew pressed before
that uses slot 0 (coordinator.py:151). It is not modelled.

## Proofs

`MqttLinkProofs` proves, for any sets of clients, threads and refreshers that
satisfy `LinkAssumption`:

- `TypeCorrect`: `Spec => []TypeOK`. The proof has one lemma per group of
  actions (`ConnectType`, ...), each about what the group writes.
- `OwnershipIsExclusive`: `Spec => []SingleOwner`. Its invariant is
  `SingleOwner` with the types of the places. Its two halves carry each other:
  a claim tests the flag, so it takes ownership only when there is no owner
  because the flag is set exactly while somebody owns; and a release clears the
  flag, which is right only because its caller is the one owner. Actions of the
  network and of `disconnect()` move no owner (`OwnersKept`), a claim is
  `OwnerTaken`, a release or a cancellation `OwnerGone`.
- `LinkInvariant`: `Spec => []LinkInv`, and from it `NeverTwoLiveClients` (`OneLiveClient`)
  and `StopAdmitsOneDial` (`OneLateDial`). That one client is live does not follow
  from the lock alone, since setup dials without it and a refresh coroutine can
  start a job after an unload. The invariant says of every worker what it
  may find: the lock is held exactly in the locked section (`LockIsHeld`), who may be
  at work in which phase of the entry (`PhaseFits`), which client is a worker's own
  (`MineFits`), that setup has the link for itself until its client is dead
  (`SetupAlone`), that the live client is the current one or about to be published
  and that nobody dials beside it (`LiveIsCurrent`), how `_connected` follows it
  (`FlagFollows`), and that whoever dials after the stop is the last (`DialsOnce`).
- `TeardownFindsDeadLink`: `Spec => ReactiveSparesLiveLink`. A backoff thread that is
  about to tear a client down finds no live one, by the third part of `LiveIsCurrent`.
- `LinkImplementsContract`: `Spec => KeepsContract`. `LinkContract`'s owner is `Owner` and
  its life `Life`. A claim is its Claim; the end of a thread or of a coroutine Release;
  a CONNACK Restore; a teardown, a hang-up, `_on_disconnect` and the steps of
  `disconnect()` Drop; setup's end and the unload Serve and Close; all else
  stutters. `FlagFollows` and `OwnershipIsExclusive` say that the link comes up only
  under an owner.

Assumed: only that the names of the parties are distinct.

`PortQueueProofs` proves, for any list of ports, any pumpers, cids and busy limit that
satisfy `QueueAssumption`:

- `QueueInOrder`: `Spec => []QueueInv`, from `PumpInvariant`: `Spec => []PumpInv`. To
  `ReadOnce` and `BusyBounded` the inductive invariant adds how many attempts a port
  has left (`AttemptsLeft`: a port that is queued or in flight has not used up its busy
  answers, which bounds how often it was asked). `OneReadAtATime` and
  `NeverStalled` hold because of two facts about the threads: in a session nothing has
  disturbed, a free slot means that no request is on its way and nobody is about to
  send one (`Undisturbed`), and of a queue that is not empty somebody, thread or
  timer, will take the next port (`QueueMoves`).
- The loop over the ports is a recursive function, and the induction theorems of the library are out
  of reach. `LeastNumber` takes their place: strict inclusion is well founded on
  finite sets, so a set of numbers has a least member, and the first pass of the
  loop that broke an invariant would be one (`LoopRuns`, `EnqueuedOnce`).

Assumed: the ports that are read are ports, the busy limit is positive, and `None` is
no port and no cid.

`NcpWriteProofs` proves, for any callers, commands, cids and retry limit that
satisfy `WriteAssumption`:

- `WriteInvariant`: `Spec => []WriteInv`. None of the properties is inductive: that
  a caller hears its own answer rests on its cid being its own (`OwnCids`), on a
  single command or answer carrying that cid (`CommandsOK`, `AnswersOK`), and on
  what that answer will say being true when it is heard (`Tells`). A command
  whose write has returned keeps its cid, so a fresh cid must differ from it too.
- `WriteTypes`, `OwnAnswers` and `NeverSentTwice` follow from it; `OneSendAfterStop`
  has an invariant of its own, that a write published after the stop is not
  about to be published.
- `ImplementsContract`: `Spec => Contract!ContractSpec`. A return with True is the
  only step that may leave a command adrift, since before a return with False the
  invariant says that no command of the caller is on its way.

Assumed: `None` is not one of the names, and the limit is a natural number.

`TokenRotationProofs` proves, for any fetches, attempts, tracked tasks, number of
loads and tokens that satisfy `TokenAssumption`:

- `SuccessorAlwaysKept`: `Spec => []SuccessorKept`. The inductive invariant adds
  that tokens are issued in order (`Issued`) and that the reply of an answer not
  yet stored is alive, in no other call and not stored (`AnswersFresh`): the step
  that retires the stored token creates such an answer, and only storing it, or
  losing it, removes it.
- `LiveTokenNeverRejected`: `Spec => []RejectedOnlyWhenDead`. It rests on the first
  and on two more conjuncts: waiters and calls are where the phase
  of the entry lets them be (`Placed`), and until a coordinator is left with an
  exchange under way at most one exchange is (`OneCall`). So a token goes out
  only when no other exchange can retire it, and by `SuccessorKept` it is then
  alive unless an answer was lost.
- `LockExcludes`: of the tasks of one coordinator one at a time has an exchange, and
  `TokenTypes`: `Spec => []TypeOK`, by which no task is in a queue twice. The
  inductive invariant (`LockInv`) adds that no task waits for a lock it holds, which is why
  a task that takes the lock leaves no second place of its own behind. It holds
  although an unload frees the lock of cancelled tasks at once: their exchanges
  belong to nobody from then on.

Assumed: the names are distinct, and both bounds are positive.

`CoordinatorProofs` proves of `PortDiscovery`, for any ports, properties, platforms and
inbox that satisfy `DiscoveryAssumption`:

- `KnownPropertiesStay`: `Spec => PropertiesStay`. The coordinator's state, the
  snapshots in the inbox and the merged state are each contained in the next
  (`Growing`); `Merge` and `Shadow` append the largest, `Receive` takes the first.
- `EveryPropertyIsShown`: `Spec => []EveryPropertyShown`. A new property is given to
  every platform that is set up; a seen one was in the state already (`TypeOK` says
  `seen \subseteq state`), so it has its entities by the invariant itself. That
  needs that no property leaves the state, hence the first.
- `DiscoveryTypes`: `Spec => []TypeOK`. That an entity keeps its registry entry
  when setup prunes rests on `EntitiesKnown`: an entity stands for a property that
  the coordinator knows.

Assumed: the kinds of the constants, and at least one snapshot in the inbox.

It proves of `FusionCook`, for any number of callers at once (the run has one) and
any set of calls:

- `KeepWarmIsWarm`, `StopEnds`, `ChangeInEffect`: `CookSpec` implies `WarmStartsWarm`,
  `StopEndsCook` and `ChangeReachesCook`. The inductive invariant (`CookInv`) has five
  facts per call. An open write is the one its step writes (`WritesItsStep`), and a write
  that returned says what the appliance did, unless somebody interfered or a write
  was refused (`AnswersMean`). The other three say how far the call has come:
  the keep warm program is in before keep warm waits for it
  (`WarmProgress`); a stop has paused a cooking Venus before it leaves the cook
  (`StopProgress`); a change has paused it before it sends the values, or had no
  port to send them to (`ChangeProgress`).
- A step of one call leaves the others where they are or marks them troubled (`Spared`),
  so each action is shown to keep the facts of its own call (`CallKept`, `LookKept`,
  `ProceedKept`, `EffectKept`, ...).

Assumed: the commands are those of the calls.

`LocalApplianceProofs` proves, for any callers and limit of failures above one:

- `OwnKindStays`: `Spec => []VerdictEarned`. A kind is ruled out when no read of its
  block found anything and `transient` is down. The own kind's reads answer with
  data, with a glitch (`misled`) or not usefully, which puts `transient` up; it
  stays up because only the start of a poll clears it. The last read of a block may
  be left out when `quiet` is up, and `quiet` may come from somebody else's request:
  that is why the inductive invariant (`LocalInv`) needs `QuietIsTransient`, that
  during a poll `quiet` implies `transient`.
- `PowerOffObeyed`: `Spec => []OffIsObeyed`. The power off leaves no brew task behind,
  and a new press forgets it.
- `LostPollIsExplained`: `Spec => LostPollHasCause`. The invariant (`PollNoted`) is that
  during a poll `quiet` implies `disturbed`: a poll begins with the flag down, and
  whoever puts it up has its request noted. A poll that ends early does so because of the
  flag; one that gets to its last read, the firmware, has no data only if that
  read failed.

Assumed: one failure alone does not take the entities down.

`CloudCachesProofs` proves, for any recipes, catalogue and languages:

- `NamesKept`: `Spec => []NamesReachEntry`. Every step that writes `cache` writes `kept` as
  well or has the task up, and the task is let go only when it has written. The
  button may clear both while the task is up, and the catalogue write beside it.
- `NamesSpeakTheLanguage`: `Spec => []NamesInLanguage`. It needs two facts of the
  button and the fetches (`ButtonAwaits`, `NamesOfCatalog`): a look-up belongs to a
  behaviour of the catalogue, and what the button awaits is under way. So a reload,
  which comes when the button rests, finds names of the stamp's language or clears them.
- `PassingErrorsPass`: `Spec => []GivenUpOnlyOnAnswers`. A result is `Honest` when it
  ends the asking only on a reply that is no bad moment of the cloud. One lemma per
  kind of method, up the chains of requests (`RepliesAreHonest`, `LinksAreHonest`,
  `FetchesAreHonest`, ...), shows it of all replies; `FetchesAreHonest` leaves out
  the presets of an unknown appliance, where it is false.
- That every outcome is one of `Results` is a like chain, on which the types rest.

Assumed: names of constants are distinct.

`ConfigFlowProofs` proves, for any dialogs and any kinds of appliance:

- `FlowInvariant`: `Spec => []FlowInv`. Every action replaces the record of one dialog,
  but for the end of an entry, which ends its renewals (`LeaveKeeps`). `GoodStep` says
  what a step must keep: a good record (`RecordOK`: who has found the appliance has
  claimed an id, that is the MAC if the MAC is told, and each of the two tokens is of
  the client it is kept for), sessions of that dialog only and only while it can close
  them (`SessionOK`), a claim that was free or its own (`ClaimOK`), and for a renewal
  that its entry is there and that it asks for a token of its client (`RenewalOK`).
  The end of a dialog may add an entry or replace one by its like (`GoodEntries`). The
  facts carry each other: no entry replaces another because the id it gets is claimed
  or free; claims hold because an id is tested against entries and dialogs when it is
  claimed; a renewal fits its entry because nobody replaces that.
- `SessionsEnd`: `Spec => []NoSessionLeft`. A conjunct of the invariant.
- `TokensFitClients`: `Spec => []TokenOfItsClient`. An entry takes `cloud` or `airplus`
  of its dialog's record, of which `RecordOK` says whose they are when a dialog is
  logged in; in a renewal `cloud` is of the client of the one entry with its id.
- `OneEntry`: `Spec => []OneEntryPerDevice`. If the MAC is told, ids of entries are the
  MAC's or, from the IoT registry, the record's, and ids are distinct: the map from
  entries to ids is an injection.

Assumed: the kinds of the constants, a `None` of its own, and that the IoT registry has
credentials only of what it lists.

## Only model-checked

Every invariant and every action property that a run checks is proved. What TLC
alone shows is liveness (`StopQuiesces`, `RetryUntilUp`, `RefreshRecovers`, `QueueServed`,
`StopSilences`, `WriteReturns`, `ResumeAttempted`, `CallsReturn`, the second half of
`LockServed`, `SilentIsAskedAgain`, `Recovers`, `BrewEnds`, `CalmCloudAnswers`,
`CodeIsEnough`): the prover has no reasoning about fairness and `ENABLED`. So are the
disagreements of the violation runs, which are behaviours TLC finds. That the operators
agree with the code of `cloud_api.py` is by their definitions.

## Not modelled

- Payloads, JSON shapes, topic names, log messages, translations; what paho and
  aiohttp do inside; the digest and the cipher of the local protocol.
- Rita machines: a command is one write (`NcpWrite`), and the selects compute
  their options from the latest state on one thread, without an await. The tables
  of profile slots and the protobuf decoder are functions of one input, which the
  repository's unit tests cover input by input.
- The options dialog, a single form without a request; the parsing of discovery
  payloads.
- `local_models.py`, `util.py`, `const.py`: data classes, tables and string
  conversions. Entity descriptions and read-only platforms compute from the state
  and change nothing. Diagnostics read it once.
- The polling interval and the countdown baseline: they choose when a step comes,
  which the models leave open.
- The cancellation of a service call, and exceptions that `publish` may raise while
  the client is torn down (the next heartbeat recovers the queue).
- The credential extractor, a tool for a phone that the integration does not call.

## Plan

1. Done: all modules above, with the theorems listed.
2. Proofs left: the safety that the liveness properties rest on, such as that a
   write that waits can always be released and that a queue with a waiter always
   has a holder of the lock that can leave.
3. Left to model: the cancellation of a service call in `FusionCook`, and the
   appliance that keeps cooking paused after it; two service calls at once on one
   appliance.
