----------------------------- MODULE ConfigFlow -----------------------------
(* The dialogs that add an appliance or renew its login (config_flow.py):   *)
(* found on the network, by its address, with credentials typed in or by a  *)
(* login to the cloud with a code sent by e-mail. Several may be open for   *)
(* one appliance; each can be closed at any time, also while one of its     *)
(* steps awaits a reply.                                                    *)
(*                                                                          *)
(* Left out: the texts of the forms and what they make of a wrong input,    *)
(* calls made for the log only, the address that is updated in an entry     *)
(* whose appliance is found again, the options dialog.                      *)
EXTENDS Naturals, FiniteSets

CONSTANTS
  Flows,        \* dialogs that may be open at a time
  Appliances,   \* the appliance is one of these
  None

(* Where an account lists an appliance; how its record there names it.      *)
Sources == {"homeid", "iot", "airplus"}
Appliance ==
  [listed : SUBSET Sources,  \* registries that have it
   mac : BOOLEAN,            \* its records carry the MAC, or an id with it
   secret : BOOLEAN,         \* clientId and clientSecret in the HomeID record
   external : BOOLEAN,       \* externalDeviceId in the HomeID record
   keys : BOOLEAN,           \* the IoT registry has its local credentials
   address : BOOLEAN,        \* ipAddress in the IoT record
   refused : BOOLEAN,        \* the IoT registry refuses HomeID's client
   told : BOOLEAN]           \* it tells a probe its cppId without a login

ASSUME ApplianceAssumption ==
  Appliances \subseteq {a \in Appliance : a.keys => "iot" \in a.listed}

Clients == {"homeid", "airplus"}
Ids == {"mac", "id", "host"}
Forms == {"menu", "host", "confirm", "secrets", "email", "otp", "devices"}
Awaits == {"probing", "testing", "sending", "verifying", "exchanging",
           "homeid", "iot", "airplus", "credentials", "checking", "thing"}
Kinds == {"user", "found", "reauth"}

ASSUME NoneAssumption == None \notin Ids \cup Clients \cup {"sent", "spent"}

Flow ==
  [kind : Kinds, at : Forms \cup Awaits \cup {"closed", "stray"},
   here : BOOLEAN,              \* _discovered_device is set
   api : BOOLEAN,               \* _cloud_api is set
   code : {None, "sent", "spent"},
   token : BOOLEAN,             \* _cloud_session_token
   cloud : Clients \cup {None},  \* whose token _cloud_tokens has, or a
                                \* renewal asks for
   airplus : Clients \cup {None},  \* whose token _airplus_tokens has
   broken : BOOLEAN,            \* homeid_failed
   shown : SUBSET Sources,      \* _cloud_devices
   uid : Ids \cup {None}]

Entry == [uid : Ids, fusion : BOOLEAN, host : BOOLEAN,
          client : Clients,           \* CONF_OAUTH_CLIENT, or its default
          minted : Clients \cup {None}]  \* who the refresh token is for

VARIABLES
  appliance,
  flow,       \* flow[f], of kind "user" and closed when there is none;
              \* a stray is over too, but has left a session behind
  ghosts,     \* flows that are gone while a step of theirs awaits a reply
  open,       \* flows whose cloud session is open
  entries,    \* the config entries of the appliance
  settled     \* from now on the cloud answers

vars == <<appliance, flow, ghosts, open, entries, settled>>

NoFlow == [kind |-> "user", at |-> "closed", here |-> FALSE, api |-> FALSE,
           code |-> None, token |-> FALSE, cloud |-> None, airplus |-> None,
           broken |-> FALSE, shown |-> {}, uid |-> None]

TypeOK ==
  /\ appliance \in Appliance /\ flow \in [Flows -> Flow]
  /\ ghosts \subseteq Flows /\ open \subseteq Flows
  /\ entries \subseteq Entry /\ settled \in BOOLEAN

----------------------------------------------------------------------------
(* Going from step to step.                                                 *)

At(f, place) == flow[f].at = place /\ f \notin ghosts
Awaiting(f) == flow[f].at \in Awaits
Live(f) == flow[f].at \notin {"closed", "stray"} /\ f \notin ghosts

Become(f, r) == flow' = [flow EXCEPT ![f] = r]
Go(f, place) == Become(f, [flow[f] EXCEPT !.at = place])
Stay == UNCHANGED <<appliance, ghosts, open, entries, settled>>

(* async_remove, as Home Assistant calls it when a flow ends: it closes the *)
(* session, which breaks a request that is under way.                       *)
(* Mutation: only the steps themselves close the session.                   *)
KeepsSessions(gone) == UNCHANGED open
ClosesSessions(gone) == open' = open \ gone
End(f) ==
  /\ Become(f, NoFlow) /\ ClosesSessions({f})
  /\ UNCHANGED <<appliance, ghosts, settled>>

(* Dialogs that are closed from outside. A step that awaits a reply finds   *)
(* its request broken and no cloud API; whatever it returns is dropped.     *)
Closed(f) == IF Awaiting(f) THEN [flow[f] EXCEPT !.api = FALSE] ELSE NoFlow
Leave(gone) ==
  /\ flow' = [f \in Flows |-> IF f \in gone THEN Closed(f) ELSE flow[f]]
  /\ ghosts' = ghosts \cup {f \in gone : Awaiting(f)}
  /\ ClosesSessions(gone)

----------------------------------------------------------------------------
(* One dialog at a time per unique id, and one entry. A renewal has the id  *)
(* of its entry.                                                            *)

Taken(f, u) ==
  \/ \E g \in Flows \ {f} : Live(g) /\ flow[g].uid = u
  \/ \E e \in entries : e.uid = u

(* Home Assistant replaces an entry that has the unique id.                 *)
Create(f, e) ==
  entries' = {x \in entries : x.uid # e.uid} \cup {e} /\ End(f)

Refuse(f) == End(f) /\ UNCHANGED entries

LocalEntry(u, minted) ==
  [uid |-> u, fusion |-> FALSE, host |-> TRUE, client |-> "homeid",
   minted |-> minted]

(* _fusion_entry_data: for each client the tokens that were kept for it.    *)
FusionEntry(r, u, host, client) ==
  [uid |-> u, fusion |-> TRUE, host |-> host, client |-> client,
   minted |-> IF client = "airplus" THEN r.airplus ELSE r.cloud]

----------------------------------------------------------------------------
(* How a dialog begins.                                                     *)

StartUser(f) ==
  /\ flow[f].at = "closed" /\ f \notin ghosts
  /\ Become(f, [NoFlow EXCEPT !.at = "menu"]) /\ Stay

(* Found by zeroconf or SSDP, which tell the MAC (cppId) and the address.   *)
StartFound(f) ==
  /\ flow[f].at = "closed" /\ f \notin ghosts
  /\ ~Taken(f, "mac") /\ ~\E e \in entries : e.fusion /\ e.host
  /\ Become(f, [NoFlow EXCEPT !.kind = "found", !.at = "confirm", !.here = TRUE,
                              !.uid = "mac"])
  /\ Stay

Renewals(e) == {f \in Flows : Live(f) /\ flow[f].kind = "reauth"
                                        /\ flow[f].uid = e.uid}
StartReauth(f) ==
  /\ flow[f].at = "closed" /\ f \notin ghosts
  /\ \E e \in entries :
       /\ Renewals(e) = {} /\ Stay
       /\ Become(f, [NoFlow EXCEPT !.kind = "reauth", !.at = "email",
                                   !.uid = e.uid])

Menu(f) == At(f, "menu") /\ \E p \in {"host", "email"} : Go(f, p) /\ Stay

SubmitHost(f) == At(f, "host") /\ Go(f, "probing") /\ Stay

(* An appliance that asks for a login first goes by its address.            *)
ProbedId == IF appliance.told THEN "mac" ELSE "host"
Probed(f) ==
  /\ At(f, "probing")
  /\ \/ Go(f, "host") /\ Stay
     \/ /\ ~Taken(f, ProbedId) /\ Stay
        /\ Become(f, [flow[f] EXCEPT !.at = "confirm", !.here = TRUE,
                                     !.uid = ProbedId])
     \/ Taken(f, ProbedId) /\ Refuse(f)

Confirm(f) == At(f, "confirm") /\ Go(f, "email") /\ Stay

(* Credentials typed in are tried on the appliance.                         *)
ChooseSecrets(f) == At(f, "email") /\ flow[f].here /\ Go(f, "secrets") /\ Stay
SubmitSecrets(f) == At(f, "secrets") /\ Go(f, "testing") /\ Stay
Tested(f) ==
  /\ At(f, "testing")
  /\ \/ Go(f, "secrets") /\ Stay
     \/ Create(f, LocalEntry(flow[f].uid, None))

----------------------------------------------------------------------------
(* The login.                                                               *)

SubmitEmail(f) ==
  /\ At(f, "email")
  /\ Become(f, [flow[f] EXCEPT !.at = "sending", !.api = TRUE])
  /\ open' = open \cup {f} /\ UNCHANGED <<appliance, ghosts, entries, settled>>

CodeSent(f) ==
  /\ At(f, "sending")
  /\ \/ Become(f, [flow[f] EXCEPT !.at = "otp", !.code = "sent"]) /\ Stay
     \/ /\ ~settled /\ ClosesSessions({f})
        /\ Become(f, [flow[f] EXCEPT !.at = "email", !.api = FALSE])
        /\ UNCHANGED <<appliance, ghosts, entries, settled>>

(* A verified code is spent: with the session token a retry goes on from    *)
(* there, except in a renewal, which has to verify again.                   *)
SubmitCode(f) ==
  /\ At(f, "otp") /\ flow[f].api
  /\ Go(f, IF flow[f].token /\ flow[f].kind # "reauth" THEN "exchanging"
           ELSE "verifying")
  /\ Stay

(* The right code is accepted once; a wrong or spent one is not. The answer *)
(* may be lost, and an account without registration does not get in. A      *)
(* renewal looks its entry up now, to ask for a token of that client.       *)
Verified(f) ==
  /\ At(f, "verifying")
  /\ \/ (~settled \/ flow[f].code = "spent") /\ Go(f, "otp") /\ Stay
     \/ /\ ~settled /\ flow[f].code = "sent" /\ Stay
        /\ Become(f, [flow[f] EXCEPT !.at = "otp", !.code = "spent"])
     \/ /\ flow[f].code = "sent" /\ flow[f].kind # "reauth" /\ Stay
        /\ Become(f, [flow[f] EXCEPT !.at = "exchanging", !.code = "spent",
                                     !.token = TRUE])
     \/ /\ flow[f].code = "sent" /\ flow[f].kind = "reauth" /\ Stay
        /\ \E e \in entries :
             /\ e.uid = flow[f].uid
             /\ Become(f, [flow[f] EXCEPT !.at = "exchanging",
                                          !.code = "spent", !.token = TRUE,
                                          !.cloud = e.client])

(* Back to the form after an error; the cloud API stays. Mutation: it is    *)
(* closed as in the e-mail step.                                            *)
AgainWithout(f) ==
  /\ Become(f, [flow[f] EXCEPT !.at = "otp", !.api = FALSE])
  /\ ClosesSessions({f}) /\ UNCHANGED <<appliance, ghosts, entries, settled>>
Again(f) == Go(f, "otp") /\ Stay

(* Where to look for appliances next; Air+ only if none is at hand.         *)
ToAirplus(f, r) ==
  IF r.here
  THEN [r EXCEPT !.at = IF r.shown = {} THEN "otp" ELSE "devices"]
  ELSE [r EXCEPT !.at = "airplus"]

(* Every exchange replaces _cloud_tokens; what is in _airplus_tokens stays. *)
Exchanged(f) ==
  /\ At(f, "exchanging")
  /\ \/ ~settled /\ Again(f)
     \/ /\ flow[f].kind # "reauth" /\ Stay
        /\ Become(f, [flow[f] EXCEPT !.at = "homeid", !.cloud = "homeid",
                                     !.broken = FALSE, !.shown = {}])
     \/ /\ flow[f].kind = "reauth" /\ End(f)
        /\ \E e \in entries :
             /\ e.uid = flow[f].uid
             /\ entries' = (entries \ {e})
                              \cup {[e EXCEPT !.minted = flow[f].cloud]}

(* get_appliances_via_homeid; a backend error still gives the others a go.  *)
HomeidListed(f) ==
  /\ At(f, "homeid")
  /\ \/ /\ "homeid" \in appliance.listed /\ Stay
        /\ Become(f, ToAirplus(f, [flow[f] EXCEPT !.shown = {"homeid"}]))
     \/ /\ ("homeid" \notin appliance.listed \/ ~settled) /\ Stay
        /\ \E b \in {FALSE, ~settled} :
             Become(f, [flow[f] EXCEPT !.at = "iot", !.broken = b])
     \/ ~settled /\ Again(f)

(* _discover_iot_devices: refused or unreachable ends the step, before Air+ *)
(* is asked, unless the HomeID backend had failed already. A refusal of     *)
(* HomeID's client by the IoT registry may be for good.                     *)
IotListed(f) ==
  /\ At(f, "iot")
  /\ \/ /\ "iot" \in appliance.listed /\ ~appliance.refused /\ Stay
        /\ Become(f, ToAirplus(f, [flow[f] EXCEPT !.shown = {"iot"}]))
     \/ /\ flow[f].broken
           \/ ("iot" \notin appliance.listed /\ ~appliance.refused)
        /\ Become(f, ToAirplus(f, flow[f])) /\ Stay
     \/ /\ ~settled \/ (appliance.refused /\ ~flow[f].broken)
        /\ Again(f)

(* The Air+ token is kept apart, if anything was found with it. Mutation:   *)
(* it takes the place of HomeID's.                                          *)
AirplusMixed(r) == [r EXCEPT !.cloud = "airplus", !.airplus = "airplus"]
AirplusKept(r) == [r EXCEPT !.airplus = "airplus"]

AirplusListed(f) ==
  /\ At(f, "airplus") /\ Stay
  /\ \/ /\ "airplus" \in appliance.listed
        /\ Become(f, [AirplusKept(flow[f]) EXCEPT
                        !.at = "devices", !.shown = @ \cup {"airplus"}])
     \/ /\ "airplus" \notin appliance.listed \/ ~settled
        /\ Go(f, IF flow[f].shown = {} THEN "otp" ELSE "devices")

----------------------------------------------------------------------------
(* The entry for the appliance that was chosen from the list.               *)

(* HomeID and Air+ records: by the MAC, if they carry it.                  *)
CloudId(other) == IF appliance.mac THEN "mac" ELSE other

(* _set_unique_id_or_abort, then on with the step that follows.             *)
Claim(f, u, place) ==
  \/ Taken(f, u) /\ Refuse(f)
  \/ ~Taken(f, u) /\ Stay /\ Become(f, [flow[f] EXCEPT !.uid = u, !.at = place])
ClaimAndCreate(f, u, e) ==
  \/ Taken(f, u) /\ Refuse(f)
  \/ ~Taken(f, u) /\ Create(f, e)

(* A relay entry takes the MAC of an appliance found on the network.        *)
KnowsMac(f) == flow[f].kind = "found" \/ (flow[f].here /\ appliance.told)
(* Mutation: the id of the record, whatever is known of the MAC.            *)
RelayRecordId(f) == "id"
RelayId(f) == CloudId(IF KnowsMac(f) THEN "mac" ELSE "id")
Relay(f) == Claim(f, RelayId(f), "thing")

LocalFromHomeid(f) ==
  ClaimAndCreate(f, CloudId("host"),
                 LocalEntry(CloudId("host"), flow[f].cloud))

ChooseHomeid(f) ==
  /\ At(f, "devices") /\ "homeid" \in flow[f].shown
  /\ \/ appliance.secret /\ flow[f].here /\ appliance.external
        /\ Go(f, "checking") /\ Stay
     \/ appliance.secret /\ flow[f].here /\ ~appliance.external
        /\ LocalFromHomeid(f)
     \/ appliance.external /\ ~(appliance.secret /\ flow[f].here) /\ Relay(f)

(* The appliance may have credentials but no server of its own.             *)
Checked(f) == At(f, "checking") /\ (LocalFromHomeid(f) \/ Relay(f))

(* The IoT registry has the thing name. Without one the list is shown       *)
(* again; without a reply the step ends in an error, with the list there.   *)
ThingNamed(f) ==
  /\ At(f, "thing")
  /\ \/ Go(f, "devices") /\ Stay
     \/ /\ "iot" \in appliance.listed /\ ~appliance.refused
        /\ Create(f, FusionEntry(flow[f], flow[f].uid, flow[f].here, "homeid"))

(* A record of the IoT registry goes by its own id, even if it has the MAC. *)
ChooseIot(f) ==
  At(f, "devices") /\ "iot" \in flow[f].shown /\ Go(f, "credentials") /\ Stay
Credentials(f) ==
  /\ At(f, "credentials")
  /\ \/ Go(f, "devices") /\ Stay
     \/ /\ appliance.keys /\ (appliance.address \/ flow[f].here)
        /\ ClaimAndCreate(f, "id", LocalEntry("id", flow[f].cloud))

AirplusId == CloudId("id")
ChooseAirplus(f) ==
  /\ At(f, "devices") /\ "airplus" \in flow[f].shown /\ flow[f].airplus # None
  /\ ClaimAndCreate(f, AirplusId,
                    FusionEntry(flow[f], AirplusId, FALSE, "airplus"))

----------------------------------------------------------------------------
(* The dialog is closed; its step may outlive it. One that has another      *)
(* request to make in the same call, when the reply to the last has just    *)
(* come, opens a session again (_get_session), which nobody closes (bound:  *)
(* one such session).                                                       *)
Dismiss(f) == Live(f) /\ Leave({f}) /\ UNCHANGED <<appliance, entries, settled>>

Chained == {"exchanging", "iot", "airplus"}
GhostEnds(f) ==
  /\ f \in ghosts /\ ghosts' = ghosts \ {f}
  /\ \/ Become(f, NoFlow) /\ UNCHANGED open
     \/ /\ flow[f].at \in Chained /\ \A g \in Flows : flow[g].at # "stray"
        /\ open' = open \cup {f}
        /\ Become(f, [NoFlow EXCEPT !.at = "stray"])
  /\ UNCHANGED <<appliance, entries, settled>>

(* The user deletes an entry; Home Assistant ends the renewals of it.       *)
Remove ==
  /\ \E e \in entries : entries' = entries \ {e} /\ Leave(Renewals(e))
  /\ UNCHANGED <<appliance, settled>>

Settle ==
  /\ ~settled /\ settled' = TRUE
  /\ UNCHANGED <<appliance, flow, ghosts, open, entries>>

Init ==
  /\ appliance \in Appliances /\ flow = [f \in Flows |-> NoFlow]
  /\ ghosts = {} /\ open = {} /\ entries = {} /\ settled = FALSE

Starts(f) == StartUser(f) \/ StartFound(f) \/ StartReauth(f)
Forward(f) ==
  \/ SubmitHost(f) \/ Confirm(f) \/ ChooseSecrets(f) \/ SubmitSecrets(f)
  \/ SubmitEmail(f) \/ Menu(f)
Choose(f) == ChooseHomeid(f) \/ ChooseIot(f) \/ ChooseAirplus(f)
Replies(f) ==
  \/ CodeSent(f) \/ Verified(f) \/ Exchanged(f) \/ HomeidListed(f)
  \/ IotListed(f) \/ AirplusListed(f)
LocalReplies(f) ==
  \/ Probed(f) \/ Tested(f) \/ Checked(f) \/ ThingNamed(f) \/ Credentials(f)
  \/ GhostEnds(f)

Next ==
  \/ \E f \in Flows : \/ Starts(f) \/ Forward(f) \/ SubmitCode(f) \/ Choose(f)
                      \/ Replies(f) \/ LocalReplies(f) \/ Dismiss(f)
  \/ Remove \/ Settle

Spec == Init /\ [][Next]_vars

(* Requests have a timeout (REQUEST_TIMEOUT); of the user it is assumed     *)
(* that a form that asks for the code is sent again.                        *)
Fairness == \A f \in Flows : WF_vars(Replies(f)) /\ WF_vars(SubmitCode(f))
FairSpec == Spec /\ Fairness

----------------------------------------------------------------------------
(* An id that a dialog has claimed is its own until the dialog is closed,   *)
(* so that the entry it creates replaces no other.                          *)
Claims == {f \in Flows : Live(f) /\ flow[f].kind # "reauth"
                                 /\ flow[f].uid # None}
ClaimsHold ==
  \A f \in Claims :
    /\ \A e \in entries : e.uid # flow[f].uid
    /\ \A g \in Claims : flow[g].uid = flow[f].uid => g = f

(* Whatever dialogs add the appliance at the same time or one after the     *)
(* other, from the network, HomeID or Air+: no entry takes the place of     *)
(* another, and an appliance whose MAC every record and the probe tell has  *)
(* one. An entry from the IoT registry goes by another id whatever is known *)
(* of the MAC, and makes a second one possible: that is excused (README).   *)
OneEntryPerDevice ==
  /\ TypeOK /\ ClaimsHold
  /\ appliance.mac /\ appliance.told =>
       Cardinality(entries) <= IF appliance.keys THEN 2 ELSE 1

(* The refresh token in an entry was minted for the OAuth client that the   *)
(* entry refreshes it with, whichever of the tokens of a login the entry    *)
(* takes, and whatever became of the entry while a renewal was on its way;  *)
(* an entry for the cloud relay always has one.                             *)
TokenOfItsClient ==
  \A e \in entries :
    /\ e.minted \in {e.client, None}
    /\ e.fusion => e.minted # None

(* A cloud session is open only as long as a dialog can still close it,     *)
(* whenever and in whatever step that is closed; except one that a step     *)
(* opened which had outlived its dialog, in the calls of Chained (README).  *)
NoSessionLeft ==
  \A f \in open : (Live(f) /\ flow[f].api) \/ flow[f].at = "stray"

(* A code that got us a session token is enough: whatever goes wrong after  *)
(* it, once the cloud works the list of appliances is reached without a new *)
(* code, if there is any that this login finds. An account whose appliances *)
(* HomeID does not list, and that the IoT registry refuses for good, is not *)
(* asked about at Air+ and finds none (README).                             *)
Findable(f) ==
  \/ "homeid" \in appliance.listed
  \/ "iot" \in appliance.listed /\ ~appliance.refused
  \/ "airplus" \in appliance.listed /\ ~appliance.refused /\ ~flow[f].here
CodeIsEnough ==
  \A f \in Flows :
    (settled /\ Live(f) /\ flow[f].token /\ flow[f].kind # "reauth" /\ Findable(f))
      ~> \/ ~Live(f)
         \/ flow[f].at \notin {"otp", "exchanging", "homeid", "iot", "airplus"}

=============================================================================
