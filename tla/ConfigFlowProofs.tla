-------------------------- MODULE ConfigFlowProofs --------------------------
(* Theorems about ConfigFlow, for any number of dialogs and any appliances: *)
(* an id that a dialog has claimed stays its own, so that no entry replaces *)
(* another; a stored token belongs to the client of its entry, also when    *)
(* the entry was renewed; a cloud session does not outlive its dialog.      *)
(*                                                                          *)
(* Every action of a dialog replaces its record by another; what a record,  *)
(* its claim, the sessions and the entries must fulfil is said once         *)
(* (RecordOK, ClaimOK, RenewalOK, SessionOK, EntriesOK) and shown for each  *)
(* action. Claims and entries depend on each other: a renewal finds its     *)
(* entry because nobody replaces it, and nobody does because ids are        *)
(* claimed.                                                                 *)
EXTENDS ConfigFlow, FiniteSetTheorems, TLAPS

ByMac == appliance.mac /\ appliance.told

(* Where a login is over, and where a renewal may be.                       *)
LoggedIn == {"homeid", "iot", "airplus", "devices", "checking",
             "credentials", "thing"}
Renewing == {"email", "sending", "otp", "verifying", "exchanging"}

(* A dialog that has found the appliance, or is about to create its entry,  *)
(* has claimed an id, the MAC if that is told; and each of its two tokens   *)
(* is of the client whose it is meant to be.                                *)
RecordOK(r) ==
  /\ r.here \/ r.at = "thing" => r.uid # None
  /\ r.at \in {"secrets", "testing"} => r.here
  /\ r.kind = "reauth" => ~r.here /\ r.uid # None /\ r.at \in Renewing
  /\ r.kind # "reauth" /\ r.at \in LoggedIn => r.cloud = "homeid"
  /\ r.airplus \in {"airplus", None}
  /\ ByMac /\ r.kind # "reauth" => r.uid \in {"mac", None}

EntryOK(e) ==
  /\ e \in Entry
  /\ e.minted \in {e.client, None}
  /\ e.fusion => e.minted # None
  /\ ByMac => e.uid = "mac" \/ (e.uid = "id" /\ appliance.keys)

EntriesOK(es) ==
  /\ \A e \in es : EntryOK(e)
  /\ \A d, e \in es : d.uid = e.uid => d = e

(* A renewal has its entry; while it asks for a token, one of its client.   *)
RenewalOK(r, es) ==
  r.kind = "reauth" =>
    \E e \in es : e.uid = r.uid /\ (r.at = "exchanging" => r.cloud = e.client)

FlowInv ==
  /\ appliance \in Appliance /\ settled \in BOOLEAN
  /\ flow \in [Flows -> Flow] /\ ghosts \subseteq Flows /\ open \subseteq Flows
  /\ \A f \in Flows : RecordOK(flow[f])
  /\ \A f \in Flows : Live(f) => RenewalOK(flow[f], entries)
  /\ \A f \in ghosts : flow[f].at \in Awaits
  /\ EntriesOK(entries)
  /\ ClaimsHold
  /\ NoSessionLeft

(* Of sessions and ghosts only those of this dialog change.                 *)
SessionOK(f, r) ==
  /\ ghosts' \subseteq Flows /\ ghosts' \ {f} = ghosts \ {f}
  /\ open' \subseteq open \cup {f}
  /\ f \in ghosts' => r.at \in Awaits
  /\ f \in open' =>
       \/ f \notin ghosts' /\ r.at \notin {"closed", "stray"} /\ r.api
       \/ r.at = "stray"

(* The id of record r is the one that f had, or was free.                   *)
ClaimOK(f, r) ==
  \/ f \in ghosts' \/ r.at \in {"closed", "stray"}
  \/ r.kind = "reauth" \/ r.uid = None
  \/ ~Taken(f, r.uid)
  \/ f \in Claims /\ r.uid = flow[f].uid

(* A step of dialog f to record r that keeps what must be kept.             *)
GoodStep(f, r) ==
  /\ r \in Flow /\ RecordOK(r) /\ Become(f, r) /\ SessionOK(f, r)
  /\ ClaimOK(f, r) /\ RenewalOK(r, entries)
  /\ UNCHANGED <<appliance, entries, settled>>

(* What a dialog may do to the entries when it ends: none is replaced by    *)
(* one of another client, and none gets an id that another dialog has.      *)
GoodEntries(f) ==
  /\ EntriesOK(entries')
  /\ \A e \in entries : \E d \in entries' : d.uid = e.uid /\ d.client = e.client
  /\ \A d \in entries' :
       \/ \E e \in entries : e.uid = d.uid
       \/ \A g \in Claims \ {f} : flow[g].uid # d.uid

----------------------------------------------------------------------------

LEMMA ClaimStaysFree ==
  ASSUME NEW f \in Flows, NEW r, FlowInv, ClaimOK(f, r),
         f \notin ghosts', r.at \notin {"closed", "stray"},
         r.kind # "reauth", r.uid # None
  PROVE  /\ \A e \in entries : e.uid # r.uid
         /\ \A g \in Claims \ {f} : flow[g].uid # r.uid
<1>1. CASE ~Taken(f, r.uid)
  BY <1>1 DEF Taken, Claims
<1>2. CASE f \in Claims /\ r.uid = flow[f].uid
  BY <1>2 DEF FlowInv, ClaimsHold
<1> QED
  BY <1>1, <1>2 DEF ClaimOK

LEMMA GoodStepKeeps ==
  ASSUME NEW f \in Flows, NEW r, FlowInv, GoodStep(f, r)
  PROVE  FlowInv'
<1>1. flow' = [flow EXCEPT ![f] = r] /\ r \in Flow
  BY DEF GoodStep, Become
<1>2. flow' \in [Flows -> Flow]
  BY <1>1 DEF FlowInv
<1>3. /\ flow'[f] = r
      /\ \A g \in Flows \ {f} : flow'[g] = flow[g]
  BY <1>1 DEF FlowInv
<1>4. \A g \in Flows : RecordOK(flow[g])'
  BY <1>3 DEF RecordOK, ByMac, GoodStep, FlowInv
<1>5. EntriesOK(entries)' /\ entries' = entries
  BY DEF EntriesOK, EntryOK, ByMac, GoodStep, FlowInv
<1>6. /\ NoSessionLeft'
      /\ \A g \in Flows \ {f} : Live(g)' => Live(g)
  BY <1>3 DEF NoSessionLeft, Live, SessionOK, GoodStep, FlowInv
<1>9. \A g \in ghosts' : flow'[g].at \in Awaits
  BY <1>3 DEF GoodStep, SessionOK, FlowInv
<1>7. ASSUME NEW g \in Flows, Live(g)'
      PROVE  RenewalOK(flow[g], entries)'
  BY <1>3, <1>5, <1>6, <1>7 DEF RenewalOK, GoodStep, FlowInv
<1>8. ClaimsHold'
  <2>1. /\ Claims' \ {f} \subseteq Claims \ {f}
        /\ \A g \in Claims' \ {f} : flow'[g] = flow[g]
    BY <1>3, <1>6 DEF Claims
  <2>2. f \in Claims' =>
          /\ \A e \in entries : e.uid # r.uid
          /\ \A g \in Claims \ {f} : flow[g].uid # r.uid
    BY <1>3, ClaimStaysFree DEF Claims, Live, GoodStep
  <2>3. /\ \A g \in Claims : \A e \in entries : e.uid # flow[g].uid
        /\ \A g, h \in Claims : flow[g].uid = flow[h].uid => g = h
    BY DEF FlowInv, ClaimsHold
  <2>4. ASSUME NEW g \in Claims'
        PROVE  \A e \in entries' : e.uid # flow'[g].uid
    BY <1>3, <1>5, <2>1, <2>2, <2>3, <2>4
  <2>5. ASSUME NEW g \in Claims', NEW h \in Claims',
               flow'[g].uid = flow'[h].uid
        PROVE  g = h
    BY <1>3, <2>1, <2>2, <2>3, <2>5
  <2> QED
    BY <2>4, <2>5 DEF ClaimsHold
<1> QED
  BY <1>2, <1>4, <1>5, <1>6, <1>7, <1>8, <1>9
     DEF FlowInv, GoodStep, SessionOK

(* Two ways to go on that most actions take; a dialog keeps its id.         *)
LEMMA BecomeKeeps ==
  ASSUME NEW f \in Flows, NEW r \in Flow, FlowInv, Become(f, r), Stay,
         RecordOK(r), r.at \notin {"closed", "stray"}, flow[f].api => r.api,
         Live(f), r.uid = flow[f].uid, r.kind = flow[f].kind,
         r.at = "exchanging" => RenewalOK(r, entries)
  PROVE  FlowInv'
<1>1. f \in open => f \notin ghosts /\ r.api
  BY DEF FlowInv, NoSessionLeft, Live
<1>2. ClaimOK(f, r)
  BY DEF ClaimOK, Claims
<1>3. RenewalOK(r, entries)
  BY DEF RenewalOK, FlowInv
<1>4. GoodStep(f, r)
  BY <1>1, <1>2, <1>3 DEF GoodStep, SessionOK, Stay, FlowInv, Live
<1> QED
  BY <1>4, GoodStepKeeps

LEMMA GoKeeps ==
  ASSUME NEW f \in Flows, NEW place \in Forms \cup Awaits, FlowInv,
         Go(f, place), Stay, Live(f), place \notin {"thing", "exchanging"},
         place \in {"secrets", "testing"} => flow[f].here,
         flow[f].kind = "reauth" => place \in Renewing,
         place \in LoggedIn => flow[f].at \in LoggedIn
  PROVE  FlowInv'
<1> DEFINE r == [flow[f] EXCEPT !.at = place]
<1>1. flow[f] \in Flow /\ RecordOK(flow[f])
  BY DEF FlowInv
<1>2. /\ r \in Flow /\ r.at = place
      /\ r.here = flow[f].here /\ r.uid = flow[f].uid /\ r.api = flow[f].api
      /\ r.kind = flow[f].kind /\ r.cloud = flow[f].cloud
      /\ r.airplus = flow[f].airplus
  BY <1>1 DEF Flow
<1>3. RecordOK(r)
  BY <1>1, <1>2 DEF RecordOK
<1>4. r.at \notin {"closed", "stray"}
  BY <1>2 DEF Forms, Awaits
<1>5. Become(f, r)
  BY DEF Go
<1> HIDE DEF r
<1> QED
  BY <1>2, <1>3, <1>4, <1>5, BecomeKeeps

LEMMA NoFlowOK ==
  NoFlow \in Flow /\ RecordOK(NoFlow) /\ NoFlow.kind = "user"
  BY DEF NoFlow, Flow, Kinds, RecordOK, LoggedIn

LEMMA EndKeeps ==
  ASSUME NEW f \in Flows, FlowInv, f \notin ghosts, End(f), GoodEntries(f)
  PROVE  FlowInv'
<1>1. /\ flow' \in [Flows -> Flow] /\ flow'[f] = NoFlow
      /\ \A g \in Flows \ {f} : flow'[g] = flow[g]
  BY NoFlowOK DEF End, Become, FlowInv
<1>2. open' = open \ {f} /\ UNCHANGED <<appliance, ghosts, settled>>
  BY DEF End, ClosesSessions
<1>3. NoFlow.at = "closed"
  BY DEF NoFlow
<1>4. \A g \in Flows : Live(g)' => g # f /\ Live(g)
  BY <1>1, <1>2, <1>3 DEF Live
<1>5. \A g \in Flows : RecordOK(flow[g])'
  BY <1>1, <1>2, NoFlowOK DEF RecordOK, ByMac, FlowInv
<1>6. ASSUME NEW g \in Flows, Live(g)'
      PROVE  RenewalOK(flow[g], entries)'
  <2>1. RenewalOK(flow[g], entries) /\ flow'[g] = flow[g]
    BY <1>1, <1>4, <1>6 DEF FlowInv
  <2>2. \A e \in entries : \E d \in entries' : d.uid = e.uid /\ d.client = e.client
    BY DEF GoodEntries
  <2> QED
    BY <2>1, <2>2 DEF RenewalOK
<1>7. ClaimsHold'
  <2>1. /\ Claims' \subseteq Claims \ {f}
        /\ \A g \in Claims' : flow'[g] = flow[g]
    BY <1>1, <1>4 DEF Claims
  <2>2. ASSUME NEW g \in Claims', NEW d \in entries'
        PROVE  d.uid # flow'[g].uid
    BY <2>1, <2>2 DEF GoodEntries, FlowInv, ClaimsHold
  <2>3. ASSUME NEW g \in Claims', NEW h \in Claims',
               flow'[g].uid = flow'[h].uid
        PROVE  g = h
    BY <2>1, <2>3 DEF FlowInv, ClaimsHold
  <2> QED
    BY <2>2, <2>3 DEF ClaimsHold
<1>8. NoSessionLeft'
  BY <1>1, <1>2 DEF NoSessionLeft, Live, FlowInv
<1>9. EntriesOK(entries)'
  BY <1>2 DEF GoodEntries, EntriesOK, EntryOK, ByMac
<1> QED
  BY <1>1, <1>2, <1>5, <1>6, <1>7, <1>8, <1>9 DEF FlowInv

LEMMA RefuseKeeps ==
  ASSUME NEW f \in Flows, FlowInv, f \notin ghosts, Refuse(f)
  PROVE  FlowInv'
<1>1. End(f) /\ entries' = entries
  BY DEF Refuse
<1>2. EntriesOK(entries')
  BY <1>1 DEF FlowInv
<1>3. GoodEntries(f)
  BY <1>1, <1>2 DEF GoodEntries
<1> QED
  BY <1>1, <1>3, EndKeeps

(* An entry whose id is claimed or free replaces no other.                  *)
LEMMA CreateKeeps ==
  ASSUME NEW f \in Flows, NEW e, FlowInv, f \notin ghosts, EntryOK(e),
         Create(f, e),
         ~Taken(f, e.uid) \/ (f \in Claims /\ flow[f].uid = e.uid)
  PROVE  FlowInv'
<1>1. entries' = {x \in entries : x.uid # e.uid} \cup {e} /\ End(f)
  BY DEF Create
<1>2. /\ \A x \in entries : x.uid # e.uid
      /\ \A g \in Claims \ {f} : flow[g].uid # e.uid
  <2>1. CASE ~Taken(f, e.uid)
    BY <2>1 DEF Taken, Claims
  <2>2. CASE f \in Claims /\ flow[f].uid = e.uid
    BY <2>2 DEF FlowInv, ClaimsHold
  <2> QED
    BY <2>1, <2>2
<1>3. entries' = entries \cup {e}
  BY <1>1, <1>2
<1>4. EntriesOK(entries')
  BY <1>2, <1>3 DEF EntriesOK, FlowInv
<1>5. GoodEntries(f)
  BY <1>2, <1>3, <1>4 DEF GoodEntries
<1> QED
  BY <1>1, <1>5, EndKeeps

(* The ids and the entries that the actions use.                            *)
LEMMA LocalEntryIsOK ==
  ASSUME NEW u \in Ids, NEW m \in {"homeid", None},
         ByMac => u = "mac" \/ (u = "id" /\ appliance.keys)
  PROVE  EntryOK(LocalEntry(u, m)) /\ LocalEntry(u, m).uid = u
  BY DEF EntryOK, Entry, LocalEntry, Clients

LEMMA FusionEntryIsOK ==
  ASSUME NEW u \in Ids, NEW h \in BOOLEAN, NEW c \in Clients, NEW r,
         ByMac => u = "mac",
         c = "homeid" => r.cloud = "homeid", c = "airplus" => r.airplus = "airplus"
  PROVE  EntryOK(FusionEntry(r, u, h, c)) /\ FusionEntry(r, u, h, c).uid = u
  BY NoneAssumption DEF EntryOK, Entry, FusionEntry, Clients

LEMMA CloudIdIsOK ==
  ASSUME NEW u \in Ids
  PROVE  CloudId(u) \in Ids /\ (ByMac => CloudId(u) = "mac")
  BY DEF CloudId, Ids, ByMac

LEMMA ClaimKeeps ==
  ASSUME NEW f \in Flows, NEW u \in Ids, FlowInv, Live(f),
         flow[f].at \in LoggedIn, ByMac => u = "mac", Claim(f, u, "thing")
  PROVE  FlowInv'
<1>1. CASE Refuse(f)
  BY <1>1, RefuseKeeps DEF Live
<1>2. CASE ~Taken(f, u) /\ Stay
           /\ Become(f, [flow[f] EXCEPT !.uid = u, !.at = "thing"])
  <2> DEFINE r == [flow[f] EXCEPT !.uid = u, !.at = "thing"]
  <2>1. flow[f] \in Flow /\ RecordOK(flow[f])
    BY DEF FlowInv
  <2>2. /\ r \in Flow /\ r.at = "thing" /\ r.uid = u /\ r.kind = flow[f].kind
        /\ r.here = flow[f].here /\ r.api = flow[f].api
        /\ r.cloud = flow[f].cloud /\ r.airplus = flow[f].airplus
    BY <2>1 DEF Flow, Awaits
  <2>3. flow[f].kind # "reauth"
    BY <2>1 DEF RecordOK, LoggedIn, Renewing
  <2>4. RecordOK(r)
    BY <2>1, <2>2, <2>3, NoneAssumption DEF RecordOK, LoggedIn
  <2>5. ClaimOK(f, r) /\ RenewalOK(r, entries)
    BY <1>2, <2>2, <2>3 DEF ClaimOK, RenewalOK
  <2>6. f \in open => f \notin ghosts /\ r.api
    BY <2>2 DEF FlowInv, NoSessionLeft, Live
  <2>7. Become(f, r)
    BY <1>2
  <2> HIDE DEF r
  <2>8. GoodStep(f, r)
    BY <1>2, <2>2, <2>4, <2>5, <2>6, <2>7
       DEF GoodStep, SessionOK, Stay, FlowInv, Live
  <2> QED
    BY <2>8, GoodStepKeeps
<1> QED
  BY <1>1, <1>2 DEF Claim

LEMMA ClaimAndCreateKeeps ==
  ASSUME NEW f \in Flows, NEW u, NEW e, FlowInv, f \notin ghosts, EntryOK(e),
         e.uid = u, ClaimAndCreate(f, u, e)
  PROVE  FlowInv'
  BY CreateKeeps, RefuseKeeps DEF ClaimAndCreate

(* Dialogs that are closed from outside, perhaps because their entry goes.  *)
LEMMA LeaveKeeps ==
  ASSUME NEW gone \in SUBSET Flows, FlowInv, Leave(gone),
         \A f \in gone : Live(f), UNCHANGED <<appliance, settled>>,
         entries' \subseteq entries,
         \A f \in Flows \ gone : Live(f) => RenewalOK(flow[f], entries')
  PROVE  FlowInv'
<1>1. /\ \A f \in Flows \ gone : flow'[f] = flow[f]
      /\ \A f \in gone : flow'[f] = Closed(f)
      /\ ghosts' = ghosts \cup {f \in gone : Awaiting(f)}
      /\ open' = open \ gone
  BY DEF Leave, ClosesSessions
<1>2. ASSUME NEW f \in gone
      PROVE  /\ Closed(f) \in Flow /\ RecordOK(Closed(f))
             /\ IF Awaiting(f) THEN Closed(f).at = flow[f].at
                ELSE Closed(f).at = "closed"
  <2>1. flow[f] \in Flow /\ RecordOK(flow[f])
    BY DEF FlowInv
  <2>2. CASE Awaiting(f)
    <3> DEFINE r == [flow[f] EXCEPT !.api = FALSE]
    <3>1. /\ r \in Flow /\ r.at = flow[f].at /\ r.kind = flow[f].kind
          /\ r.here = flow[f].here /\ r.uid = flow[f].uid
          /\ r.cloud = flow[f].cloud /\ r.airplus = flow[f].airplus
      BY <2>1 DEF Flow
    <3>2. RecordOK(r)
      BY <2>1, <3>1 DEF RecordOK
    <3> QED
      BY <2>2, <3>1, <3>2 DEF Closed
  <2>3. CASE ~Awaiting(f)
    BY <2>3, NoFlowOK DEF Closed, NoFlow
  <2> QED
    BY <2>2, <2>3
<1>3. flow' \in [Flows -> Flow]
  <2>1. flow' = [f \in Flows |-> IF f \in gone THEN Closed(f) ELSE flow[f]]
    BY DEF Leave
  <2> QED
    BY <1>2, <2>1 DEF FlowInv
<1>4. \A f \in Flows : Live(f)' => f \notin gone /\ Live(f)
  BY <1>1, <1>2 DEF Live
<1>5. \A f \in Flows : RecordOK(flow[f])'
  BY <1>1, <1>2 DEF RecordOK, ByMac, FlowInv
<1>6. \A f \in Flows : Live(f)' => RenewalOK(flow[f], entries)'
  BY <1>1, <1>4 DEF RenewalOK
<1>7. EntriesOK(entries)'
  BY DEF EntriesOK, EntryOK, ByMac, FlowInv
<1>8. ClaimsHold'
  <2>1. Claims' \subseteq Claims /\ \A g \in Claims' : flow'[g] = flow[g]
    BY <1>1, <1>4 DEF Claims
  <2> QED
    BY <2>1 DEF FlowInv, ClaimsHold
<1>9. NoSessionLeft'
  BY <1>1 DEF NoSessionLeft, Live, FlowInv
<1>10. \A f \in ghosts' : flow'[f].at \in Awaits
  <2>1. \A f \in gone : f \notin ghosts
    BY DEF Live
  <2> QED
    BY <1>1, <1>2, <2>1 DEF Awaiting, FlowInv
<1>11. ghosts' \subseteq Flows /\ open' \subseteq Flows
  BY <1>1 DEF FlowInv
<1> QED
  BY <1>3, <1>5, <1>6, <1>7, <1>8, <1>9, <1>10, <1>11 DEF FlowInv

----------------------------------------------------------------------------
(* The actions.                                                             *)

LEMMA StartKeeps ==
  ASSUME NEW f \in Flows, NEW r \in Flow, FlowInv, flow[f].at = "closed",
         f \notin ghosts, Become(f, r), Stay, RecordOK(r),
         r.uid = None \/ r.kind = "reauth" \/ ~Taken(f, r.uid),
         RenewalOK(r, entries)
  PROVE  FlowInv'
<1>1. f \notin open
  BY DEF FlowInv, NoSessionLeft, Live
<1>2. ClaimOK(f, r)
  BY DEF ClaimOK
<1>3. GoodStep(f, r)
  BY <1>1, <1>2 DEF GoodStep, SessionOK, Stay, FlowInv
<1> QED
  BY <1>3, GoodStepKeeps

LEMMA StartsKeep ==
  ASSUME NEW f \in Flows, FlowInv, Starts(f)
  PROVE  FlowInv'
<1>1. CASE StartUser(f)
  <2> DEFINE r == [NoFlow EXCEPT !.at = "menu"]
  <2>1. /\ r \in Flow /\ RecordOK(r) /\ r.uid = None
        /\ RenewalOK(r, entries)
    BY DEF NoFlow, Flow, Kinds, Forms, RecordOK, RenewalOK, LoggedIn
  <2> QED
    BY <1>1, <2>1, StartKeeps DEF StartUser
<1>2. CASE StartFound(f)
  <2> DEFINE r == [NoFlow EXCEPT !.kind = "found", !.at = "confirm",
                                 !.here = TRUE, !.uid = "mac"]
  <2>1. /\ r \in Flow /\ RecordOK(r) /\ r.uid = "mac"
        /\ RenewalOK(r, entries)
    BY NoneAssumption DEF NoFlow, Flow, Kinds, Forms, Ids, RecordOK, RenewalOK,
                          LoggedIn
  <2> QED
    BY <1>2, <2>1, StartKeeps DEF StartFound
<1>3. CASE StartReauth(f)
  <2>1. PICK e \in entries :
          Stay /\ Become(f, [NoFlow EXCEPT !.kind = "reauth", !.at = "email",
                                          !.uid = e.uid])
    BY <1>3 DEF StartReauth
  <2> DEFINE r == [NoFlow EXCEPT !.kind = "reauth", !.at = "email",
                                 !.uid = e.uid]
  <2>2. e.uid \in Ids
    BY DEF FlowInv, EntriesOK, EntryOK, Entry
  <2>3. /\ r \in Flow /\ r.kind = "reauth" /\ r.at = "email" /\ r.uid = e.uid
        /\ ~r.here /\ r.airplus = None
    BY <2>2 DEF NoFlow, Flow, Kinds, Forms
  <2>4. RecordOK(r) /\ RenewalOK(r, entries)
    BY <2>2, <2>3, NoneAssumption DEF RecordOK, RenewalOK, Renewing
  <2> QED
    BY <1>3, <2>1, <2>3, <2>4, StartKeeps DEF StartReauth
<1> QED
  BY <1>1, <1>2, <1>3 DEF Starts

(* Where a dialog is tells what its record holds.                           *)
LEMMA PlaceTells ==
  ASSUME NEW f \in Flows, NEW place, FlowInv, At(f, place),
         place \notin {"closed", "stray"}
  PROVE  /\ Live(f) /\ flow[f].at = place /\ f \notin ghosts
         /\ flow[f] \in Flow /\ RecordOK(flow[f])
         /\ place \notin Renewing => flow[f].kind # "reauth"
         /\ place \in LoggedIn =>
              flow[f].kind # "reauth" /\ flow[f].cloud = "homeid"
<1>1. /\ Live(f) /\ flow[f].at = place /\ f \notin ghosts
      /\ flow[f] \in Flow /\ RecordOK(flow[f])
  BY DEF At, Live, FlowInv
<1>2. place \in LoggedIn => place \notin Renewing
  BY DEF LoggedIn, Renewing
<1> QED
  BY <1>1, <1>2 DEF RecordOK

LEMMA ForwardKeeps ==
  ASSUME NEW f \in Flows, FlowInv, Forward(f)
  PROVE  FlowInv'
<1>1. CASE SubmitHost(f)
  <2>1. At(f, "host") /\ Go(f, "probing") /\ Stay
    BY <1>1 DEF SubmitHost
  <2> QED
    BY <2>1, GoKeeps, PlaceTells DEF Forms, Awaits, Renewing, LoggedIn
<1>2. CASE Confirm(f)
  <2>1. At(f, "confirm") /\ Go(f, "email") /\ Stay
    BY <1>2 DEF Confirm
  <2> QED
    BY <2>1, GoKeeps, PlaceTells DEF Forms, Awaits, Renewing, LoggedIn
<1>3. CASE ChooseSecrets(f)
  <2>1. At(f, "email") /\ flow[f].here /\ Go(f, "secrets") /\ Stay
    BY <1>3 DEF ChooseSecrets
  <2>2. flow[f].kind # "reauth"
    BY <2>1, PlaceTells DEF RecordOK
  <2> QED
    BY <2>1, <2>2, GoKeeps, PlaceTells DEF Forms, Awaits, LoggedIn
<1>4. CASE SubmitSecrets(f)
  <2>1. At(f, "secrets") /\ Go(f, "testing") /\ Stay
    BY <1>4 DEF SubmitSecrets
  <2>2. flow[f].here
    BY <2>1, PlaceTells DEF RecordOK
  <2> QED
    BY <2>1, <2>2, GoKeeps, PlaceTells DEF Forms, Awaits, Renewing, LoggedIn
<1>5. CASE SubmitEmail(f)
  <2> DEFINE r == [flow[f] EXCEPT !.at = "sending", !.api = TRUE]
  <2>1. /\ flow[f] \in Flow /\ RecordOK(flow[f]) /\ Live(f) /\ f \notin ghosts
        /\ flow[f].at = "email"
    BY <1>5, PlaceTells DEF SubmitEmail
  <2>2. /\ r \in Flow /\ r.at = "sending" /\ r.api /\ r.kind = flow[f].kind
        /\ r.here = flow[f].here /\ r.uid = flow[f].uid
        /\ r.airplus = flow[f].airplus
    BY <2>1 DEF Flow, Awaits
  <2>3. RecordOK(r)
    BY <2>1, <2>2 DEF RecordOK, LoggedIn, Renewing
  <2>4. Become(f, r) /\ open' = open \cup {f}
        /\ UNCHANGED <<appliance, ghosts, entries, settled>>
    BY <1>5 DEF SubmitEmail
  <2>5. ClaimOK(f, r) /\ RenewalOK(r, entries)
    BY <2>1, <2>2 DEF ClaimOK, Claims, RenewalOK, FlowInv
  <2> HIDE DEF r
  <2>6. GoodStep(f, r)
    BY <2>1, <2>2, <2>3, <2>4, <2>5 DEF GoodStep, SessionOK, FlowInv
  <2> QED
    BY <2>6, GoodStepKeeps
<1>6. CASE Menu(f)
  <2>1. PICK p \in {"host", "email"} : At(f, "menu") /\ Go(f, p) /\ Stay
    BY <1>6 DEF Menu
  <2> QED
    BY <2>1, GoKeeps, PlaceTells DEF Forms, Awaits, Renewing, LoggedIn
<1> QED
  BY <1>1, <1>2, <1>3, <1>4, <1>5, <1>6 DEF Forward

LEMMA SubmitCodeKeeps ==
  ASSUME NEW f \in Flows, FlowInv, SubmitCode(f)
  PROVE  FlowInv'
<1>1. /\ flow[f] \in Flow /\ RecordOK(flow[f]) /\ Live(f) /\ Stay
      /\ flow[f].at = "otp"
  BY PlaceTells DEF SubmitCode
<1>2. CASE Go(f, "verifying")
  BY <1>1, <1>2, GoKeeps DEF Awaits, Renewing, LoggedIn
<1>3. CASE flow[f].kind # "reauth" /\ Go(f, "exchanging")
  <2> DEFINE r == [flow[f] EXCEPT !.at = "exchanging"]
  <2>1. /\ r \in Flow /\ r.at = "exchanging" /\ r.api = flow[f].api
        /\ r.here = flow[f].here /\ r.uid = flow[f].uid
        /\ r.kind = flow[f].kind /\ r.airplus = flow[f].airplus
    BY <1>1 DEF Flow, Awaits
  <2>2. RecordOK(r) /\ RenewalOK(r, entries)
    BY <1>1, <1>3, <2>1 DEF RecordOK, LoggedIn, RenewalOK
  <2>3. Become(f, r)
    BY <1>3 DEF Go
  <2> HIDE DEF r
  <2> QED
    BY <1>1, <2>1, <2>2, <2>3, BecomeKeeps
<1> QED
  BY <1>2, <1>3 DEF SubmitCode

LEMMA CodeSentKeeps ==
  ASSUME NEW f \in Flows, FlowInv, CodeSent(f)
  PROVE  FlowInv'
<1>1. /\ flow[f] \in Flow /\ RecordOK(flow[f]) /\ Live(f) /\ f \notin ghosts
      /\ flow[f].at = "sending"
  BY PlaceTells DEF CodeSent
<1>2. CASE Become(f, [flow[f] EXCEPT !.at = "otp", !.code = "sent"]) /\ Stay
  <2> DEFINE r == [flow[f] EXCEPT !.at = "otp", !.code = "sent"]
  <2>1. /\ r \in Flow /\ r.at = "otp" /\ r.api = flow[f].api
        /\ r.here = flow[f].here /\ r.uid = flow[f].uid
        /\ r.kind = flow[f].kind /\ r.airplus = flow[f].airplus
    BY <1>1 DEF Flow, Forms
  <2>2. RecordOK(r)
    BY <1>1, <2>1 DEF RecordOK, LoggedIn, Renewing
  <2> HIDE DEF r
  <2> QED
    BY <1>1, <1>2, <2>1, <2>2, BecomeKeeps DEF r
<1>3. CASE /\ ClosesSessions({f})
           /\ Become(f, [flow[f] EXCEPT !.at = "email", !.api = FALSE])
           /\ UNCHANGED <<appliance, ghosts, entries, settled>>
  <2> DEFINE r == [flow[f] EXCEPT !.at = "email", !.api = FALSE]
  <2>1. /\ r \in Flow /\ r.at = "email" /\ r.kind = flow[f].kind
        /\ r.here = flow[f].here /\ r.uid = flow[f].uid
        /\ r.airplus = flow[f].airplus
    BY <1>1 DEF Flow, Forms
  <2>2. RecordOK(r)
    BY <1>1, <2>1 DEF RecordOK, LoggedIn, Renewing
  <2>3. ClaimOK(f, r) /\ RenewalOK(r, entries)
    BY <1>1, <2>1 DEF ClaimOK, Claims, RenewalOK, FlowInv
  <2>4. Become(f, r)
    BY <1>3
  <2> HIDE DEF r
  <2>5. GoodStep(f, r)
    BY <1>1, <1>3, <2>1, <2>2, <2>3, <2>4
       DEF GoodStep, SessionOK, ClosesSessions, FlowInv
  <2> QED
    BY <2>5, GoodStepKeeps
<1> QED
  BY <1>2, <1>3 DEF CodeSent

LEMMA VerifiedKeeps ==
  ASSUME NEW f \in Flows, FlowInv, Verified(f)
  PROVE  FlowInv'
<1>1. /\ flow[f] \in Flow /\ RecordOK(flow[f]) /\ Live(f)
      /\ flow[f].at = "verifying"
  BY PlaceTells DEF Verified
<1>2. CASE Go(f, "otp") /\ Stay
  BY <1>1, <1>2, GoKeeps DEF Forms, Renewing, LoggedIn
<1>3. CASE Become(f, [flow[f] EXCEPT !.at = "otp", !.code = "spent"]) /\ Stay
  <2> DEFINE r == [flow[f] EXCEPT !.at = "otp", !.code = "spent"]
  <2>1. /\ r \in Flow /\ r.at = "otp" /\ r.api = flow[f].api
        /\ r.here = flow[f].here /\ r.uid = flow[f].uid
        /\ r.kind = flow[f].kind /\ r.airplus = flow[f].airplus
    BY <1>1 DEF Flow, Forms
  <2>2. RecordOK(r)
    BY <1>1, <2>1 DEF RecordOK, LoggedIn, Renewing
  <2> HIDE DEF r
  <2> QED
    BY <1>1, <1>3, <2>1, <2>2, BecomeKeeps DEF r
<1>4. CASE /\ flow[f].kind # "reauth" /\ Stay
           /\ Become(f, [flow[f] EXCEPT !.at = "exchanging", !.code = "spent",
                                        !.token = TRUE])
  <2> DEFINE r == [flow[f] EXCEPT !.at = "exchanging", !.code = "spent",
                                  !.token = TRUE]
  <2>1. /\ r \in Flow /\ r.at = "exchanging" /\ r.api = flow[f].api
        /\ r.here = flow[f].here /\ r.uid = flow[f].uid
        /\ r.kind = flow[f].kind /\ r.airplus = flow[f].airplus
    BY <1>1 DEF Flow, Awaits
  <2>2. RecordOK(r) /\ RenewalOK(r, entries)
    BY <1>1, <1>4, <2>1 DEF RecordOK, RenewalOK, LoggedIn
  <2> HIDE DEF r
  <2> QED
    BY <1>1, <1>4, <2>1, <2>2, BecomeKeeps DEF r
<1>5. ASSUME NEW e \in entries, flow[f].kind = "reauth", Stay,
             e.uid = flow[f].uid,
             Become(f, [flow[f] EXCEPT !.at = "exchanging", !.code = "spent",
                                       !.token = TRUE, !.cloud = e.client])
      PROVE  FlowInv'
  <2> DEFINE r == [flow[f] EXCEPT !.at = "exchanging", !.code = "spent",
                                  !.token = TRUE, !.cloud = e.client]
  <2>1. e.client \in Clients
    BY DEF FlowInv, EntriesOK, EntryOK, Entry
  <2>2. /\ r \in Flow /\ r.at = "exchanging" /\ r.api = flow[f].api
        /\ r.here = flow[f].here /\ r.uid = flow[f].uid
        /\ r.kind = flow[f].kind /\ r.airplus = flow[f].airplus
        /\ r.cloud = e.client
    BY <1>1, <2>1 DEF Flow, Awaits
  <2>3. RecordOK(r) /\ RenewalOK(r, entries)
    BY <1>1, <1>5, <2>2 DEF RecordOK, RenewalOK, LoggedIn, Renewing
  <2>4. Become(f, r)
    BY <1>5
  <2> HIDE DEF r
  <2> QED
    BY <1>1, <1>5, <2>2, <2>3, <2>4, BecomeKeeps
<1> QED
  BY <1>2, <1>3, <1>4, <1>5 DEF Verified

(* A renewal finds its entry, and has asked for a token of its client.      *)
LEMMA ExchangedKeeps ==
  ASSUME NEW f \in Flows, FlowInv, Exchanged(f)
  PROVE  FlowInv'
<1>1. /\ flow[f] \in Flow /\ RecordOK(flow[f]) /\ Live(f) /\ f \notin ghosts
      /\ flow[f].at = "exchanging"
  BY PlaceTells DEF Exchanged
<1>2. CASE Again(f)
  BY <1>1, <1>2, GoKeeps DEF Again, Forms, Renewing, LoggedIn
<1>3. CASE /\ flow[f].kind # "reauth" /\ Stay
           /\ Become(f, [flow[f] EXCEPT !.at = "homeid", !.cloud = "homeid",
                                        !.broken = FALSE, !.shown = {}])
  <2> DEFINE r == [flow[f] EXCEPT !.at = "homeid", !.cloud = "homeid",
                                  !.broken = FALSE, !.shown = {}]
  <2>1. /\ r \in Flow /\ r.at = "homeid" /\ r.api = flow[f].api
        /\ r.here = flow[f].here /\ r.uid = flow[f].uid
        /\ r.kind = flow[f].kind /\ r.airplus = flow[f].airplus
        /\ r.cloud = "homeid"
    BY <1>1 DEF Flow, Awaits, Clients
  <2>2. RecordOK(r)
    BY <1>1, <1>3, <2>1 DEF RecordOK
  <2> HIDE DEF r
  <2> QED
    BY <1>1, <1>3, <2>1, <2>2, BecomeKeeps DEF r
<1>4. ASSUME NEW e \in entries, flow[f].kind = "reauth", End(f),
             e.uid = flow[f].uid,
             entries' = (entries \ {e})
                          \cup {[e EXCEPT !.minted = flow[f].cloud]}
      PROVE  FlowInv'
  <2> DEFINE d == [e EXCEPT !.minted = flow[f].cloud]
  <2>1. EntryOK(e)
    BY DEF FlowInv, EntriesOK
  <2>2. flow[f].cloud = e.client
    <3>1. PICK x \in entries : x.uid = flow[f].uid /\ flow[f].cloud = x.client
      BY <1>1, <1>4 DEF FlowInv, RenewalOK
    <3> QED
      BY <1>4, <3>1 DEF FlowInv, EntriesOK
  <2>3. /\ d \in Entry /\ d.minted = e.client /\ d.client = e.client
        /\ d.uid = e.uid /\ d.minted \in Clients
    BY <2>1, <2>2 DEF EntryOK, Entry
  <2>4. EntryOK(d)
    BY <2>1, <2>3, NoneAssumption DEF EntryOK
  <2>5. entries' = (entries \ {e}) \cup {d}
    BY <1>4
  <2> HIDE DEF d
  <2>6. EntriesOK(entries')
    BY <2>3, <2>4, <2>5 DEF EntriesOK, FlowInv
  <2>7. GoodEntries(f)
    BY <2>3, <2>5, <2>6 DEF GoodEntries
  <2> QED
    BY <1>1, <1>4, <2>7, EndKeeps
<1> QED
  BY <1>2, <1>3, <1>4 DEF Exchanged

(* Steps of a dialog that is logged in.                                     *)
LEMMA LoggedInKeeps ==
  ASSUME NEW f \in Flows, NEW r \in Flow, FlowInv, Live(f),
         flow[f].at \in LoggedIn, Become(f, r), Stay,
         r.at \in {"otp", "iot", "airplus", "devices"},
         r.kind = flow[f].kind, r.here = flow[f].here, r.api = flow[f].api,
         r.uid = flow[f].uid, r.cloud = flow[f].cloud,
         r.airplus \in {flow[f].airplus, "airplus"}
  PROVE  FlowInv'
<1>1. RecordOK(flow[f]) /\ flow[f].kind # "reauth"
  BY DEF FlowInv, RecordOK, LoggedIn, Renewing
<1>2. RecordOK(r)
  BY <1>1 DEF RecordOK, LoggedIn
<1> QED
  BY <1>2, BecomeKeeps

LEMMA ListedKeeps ==
  ASSUME NEW f \in Flows, FlowInv,
         HomeidListed(f) \/ IotListed(f) \/ AirplusListed(f)
  PROVE  FlowInv'
<1>1. flow[f] \in Flow /\ Live(f) /\ flow[f].at \in LoggedIn
  BY PlaceTells DEF HomeidListed, IotListed, AirplusListed, LoggedIn
<1>2. ASSUME NEW place \in {"otp", "devices", "airplus"},
             NEW s \in SUBSET Sources, Stay,
             Become(f, [flow[f] EXCEPT !.shown = s, !.at = place])
      PROVE  FlowInv'
  <2> DEFINE r == [flow[f] EXCEPT !.shown = s, !.at = place]
  <2>1. /\ r \in Flow /\ r.at = place /\ r.kind = flow[f].kind
        /\ r.here = flow[f].here /\ r.api = flow[f].api
        /\ r.uid = flow[f].uid /\ r.cloud = flow[f].cloud
        /\ r.airplus = flow[f].airplus
    BY <1>1 DEF Flow, Forms, Awaits
  <2> HIDE DEF r
  <2> QED
    BY <1>1, <1>2, <2>1, LoggedInKeeps DEF r
<1>3. ASSUME NEW s \in SUBSET Sources, Stay,
             Become(f, ToAirplus(f, [flow[f] EXCEPT !.shown = s]))
      PROVE  FlowInv'
  <2>1. \E place \in {"otp", "devices", "airplus"} :
          ToAirplus(f, [flow[f] EXCEPT !.shown = s])
            = [flow[f] EXCEPT !.shown = s, !.at = place]
    <3> DEFINE r == [flow[f] EXCEPT !.shown = s]
    <3>1. \A place : [r EXCEPT !.at = place]
                       = [flow[f] EXCEPT !.shown = s, !.at = place]
      BY <1>1 DEF Flow
    <3>2. \E place \in {"otp", "devices", "airplus"} :
            ToAirplus(f, r) = [r EXCEPT !.at = place]
      <4> HIDE DEF r
      <4> QED
        BY DEF ToAirplus
    <3> QED
      BY <3>1, <3>2
  <2> QED
    BY <1>2, <1>3, <2>1
<1>4. CASE Again(f)
  BY <1>1, <1>4, GoKeeps DEF Again, Forms, Renewing, LoggedIn
<1>5. ASSUME NEW b \in BOOLEAN, Stay,
             Become(f, [flow[f] EXCEPT !.at = "iot", !.broken = b])
      PROVE  FlowInv'
  <2> DEFINE r == [flow[f] EXCEPT !.at = "iot", !.broken = b]
  <2>1. /\ r \in Flow /\ r.at = "iot" /\ r.kind = flow[f].kind
        /\ r.here = flow[f].here /\ r.api = flow[f].api
        /\ r.uid = flow[f].uid /\ r.cloud = flow[f].cloud
        /\ r.airplus = flow[f].airplus
    BY <1>1 DEF Flow, Awaits
  <2> HIDE DEF r
  <2> QED
    BY <1>1, <1>5, <2>1, LoggedInKeeps DEF r
<1>6. CASE HomeidListed(f)
  <2>1. {"homeid"} \in SUBSET Sources
    BY DEF Sources
  <2>2. \A b \in {FALSE, ~settled} : b \in BOOLEAN
    BY DEF FlowInv
  <2> QED
    BY <1>3, <1>4, <1>5, <1>6, <2>1, <2>2 DEF HomeidListed
<1>7. CASE IotListed(f)
  <2>1. {"iot"} \in SUBSET Sources /\ flow[f].shown \in SUBSET Sources
    BY <1>1 DEF Sources, Flow
  <2>2. flow[f] = [flow[f] EXCEPT !.shown = flow[f].shown]
    BY <1>1 DEF Flow
  <2> QED
    BY <1>3, <1>4, <1>7, <2>1, <2>2 DEF IotListed
<1>8. CASE AirplusListed(f)
  <2>1. CASE Become(f, [AirplusKept(flow[f]) EXCEPT
                          !.at = "devices", !.shown = @ \cup {"airplus"}])
             /\ Stay
    <3> DEFINE r == [AirplusKept(flow[f]) EXCEPT
                       !.at = "devices", !.shown = @ \cup {"airplus"}]
    <3>1. /\ r \in Flow /\ r.at = "devices" /\ r.kind = flow[f].kind
          /\ r.here = flow[f].here /\ r.api = flow[f].api
          /\ r.uid = flow[f].uid /\ r.cloud = flow[f].cloud
          /\ r.airplus = "airplus"
      BY <1>1 DEF Flow, Forms, AirplusKept, Clients, Sources
    <3> HIDE DEF r
    <3> QED
      BY <1>1, <2>1, <3>1, LoggedInKeeps DEF r
  <2>2. CASE Go(f, IF flow[f].shown = {} THEN "otp" ELSE "devices") /\ Stay
    <3>1. PICK place \in {"otp", "devices"} : Go(f, place)
      BY <2>2
    <3>2. flow[f].kind # "reauth"
      BY <1>1 DEF FlowInv, RecordOK, LoggedIn, Renewing
    <3> QED
      BY <1>1, <2>2, <3>1, <3>2, GoKeeps DEF Forms
  <2> QED
    BY <1>8, <2>1, <2>2 DEF AirplusListed
<1> QED
  BY <1>6, <1>7, <1>8

LEMMA ProbedKeeps ==
  ASSUME NEW f \in Flows, FlowInv, Probed(f)
  PROVE  FlowInv'
<1>1. /\ flow[f] \in Flow /\ RecordOK(flow[f]) /\ Live(f) /\ f \notin ghosts
      /\ flow[f].at = "probing" /\ flow[f].kind # "reauth"
  BY PlaceTells DEF Probed, Renewing
<1>2. CASE Go(f, "host") /\ Stay
  BY <1>1, <1>2, GoKeeps DEF Forms, LoggedIn
<1>3. CASE /\ ~Taken(f, ProbedId) /\ Stay
           /\ Become(f, [flow[f] EXCEPT !.at = "confirm", !.here = TRUE,
                                        !.uid = ProbedId])
  <2> DEFINE r == [flow[f] EXCEPT !.at = "confirm", !.here = TRUE,
                                  !.uid = ProbedId]
  <2>1. ProbedId \in Ids /\ (ByMac => ProbedId = "mac")
    BY DEF ProbedId, Ids, ByMac
  <2>2. /\ r \in Flow /\ r.at = "confirm" /\ r.api = flow[f].api
        /\ r.here /\ r.uid = ProbedId /\ r.kind = flow[f].kind
        /\ r.airplus = flow[f].airplus
    BY <1>1, <2>1 DEF Flow, Forms
  <2>3. RecordOK(r)
    BY <1>1, <2>1, <2>2, NoneAssumption DEF RecordOK, LoggedIn
  <2>4. ClaimOK(f, r) /\ RenewalOK(r, entries)
    BY <1>1, <1>3, <2>2 DEF ClaimOK, RenewalOK
  <2>5. f \in open => r.api
    BY <1>1, <2>2 DEF FlowInv, NoSessionLeft
  <2> HIDE DEF r
  <2>6. GoodStep(f, r)
    BY <1>1, <1>3, <2>2, <2>3, <2>4, <2>5
       DEF GoodStep, SessionOK, Stay, FlowInv, r
  <2> QED
    BY <2>6, GoodStepKeeps
<1>4. CASE Refuse(f)
  BY <1>1, <1>4, RefuseKeeps
<1> QED
  BY <1>2, <1>3, <1>4 DEF Probed

(* A choice that makes an entry from HomeID's record, or goes to the relay. *)
LEMMA FromHomeidKeeps ==
  ASSUME NEW f \in Flows, FlowInv, Live(f), flow[f].at \in LoggedIn,
         LocalFromHomeid(f) \/ Relay(f)
  PROVE  FlowInv'
<1>1. flow[f].cloud = "homeid"
  BY DEF FlowInv, RecordOK, LoggedIn, Renewing
<1>2. CASE LocalFromHomeid(f)
  <2>1. CloudId("host") \in Ids /\ (ByMac => CloudId("host") = "mac")
    BY CloudIdIsOK DEF Ids
  <2>2. /\ EntryOK(LocalEntry(CloudId("host"), flow[f].cloud))
        /\ LocalEntry(CloudId("host"), flow[f].cloud).uid = CloudId("host")
    BY <1>1, <2>1, LocalEntryIsOK
  <2> QED
    BY <1>2, <2>2, ClaimAndCreateKeeps DEF LocalFromHomeid, Live
<1>3. CASE Relay(f)
  <2>1. RelayId(f) \in Ids /\ (ByMac => RelayId(f) = "mac")
    BY CloudIdIsOK DEF RelayId, Ids
  <2> QED
    BY <1>3, <2>1, ClaimKeeps DEF Relay
<1> QED
  BY <1>2, <1>3

LEMMA ChooseKeeps ==
  ASSUME NEW f \in Flows, FlowInv, Choose(f)
  PROVE  FlowInv'
<1>1. /\ flow[f] \in Flow /\ RecordOK(flow[f]) /\ Live(f) /\ f \notin ghosts
      /\ flow[f].at = "devices" /\ flow[f].kind # "reauth"
  <2>1. At(f, "devices")
    BY DEF Choose, ChooseHomeid, ChooseIot, ChooseAirplus
  <2> QED
    BY <2>1, PlaceTells DEF Renewing
<1>2. \A place \in {"checking", "credentials"} :
        Go(f, place) /\ Stay => FlowInv'
  BY <1>1, GoKeeps DEF Awaits, LoggedIn
<1>3. CASE ChooseHomeid(f)
  BY <1>1, <1>2, <1>3, FromHomeidKeeps DEF ChooseHomeid, LoggedIn
<1>4. CASE ChooseIot(f)
  BY <1>2, <1>4 DEF ChooseIot
<1>5. CASE ChooseAirplus(f)
  <2>1. AirplusId \in Ids /\ (ByMac => AirplusId = "mac")
    BY CloudIdIsOK DEF AirplusId, Ids
  <2>2. flow[f].airplus = "airplus"
    BY <1>1, <1>5 DEF ChooseAirplus, RecordOK
  <2>3. /\ EntryOK(FusionEntry(flow[f], AirplusId, FALSE, "airplus"))
        /\ FusionEntry(flow[f], AirplusId, FALSE, "airplus").uid = AirplusId
    BY <2>1, <2>2, FusionEntryIsOK DEF Clients
  <2> QED
    BY <1>1, <1>5, <2>3, ClaimAndCreateKeeps DEF ChooseAirplus
<1> QED
  BY <1>3, <1>4, <1>5 DEF Choose

LEMMA TestedKeeps ==
  ASSUME NEW f \in Flows, FlowInv, Tested(f)
  PROVE  FlowInv'
<1>1. /\ flow[f] \in Flow /\ RecordOK(flow[f]) /\ Live(f) /\ f \notin ghosts
      /\ flow[f].at = "testing" /\ flow[f].kind # "reauth"
  BY PlaceTells DEF Tested, Renewing
<1>2. flow[f].here /\ flow[f].uid # None
  BY <1>1 DEF RecordOK
<1>3. CASE Go(f, "secrets") /\ Stay
  BY <1>1, <1>2, <1>3, GoKeeps DEF Forms, LoggedIn
<1>4. CASE Create(f, LocalEntry(flow[f].uid, None))
  <2>1. flow[f].uid \in Ids /\ (ByMac => flow[f].uid = "mac")
    BY <1>1, <1>2 DEF RecordOK, Flow
  <2>2. /\ EntryOK(LocalEntry(flow[f].uid, None))
        /\ LocalEntry(flow[f].uid, None).uid = flow[f].uid
    BY <2>1, LocalEntryIsOK
  <2>3. f \in Claims
    BY <1>1, <1>2 DEF Claims
  <2> QED
    BY <1>1, <1>4, <2>2, <2>3, CreateKeeps
<1> QED
  BY <1>3, <1>4 DEF Tested

LEMMA ThingNamedKeeps ==
  ASSUME NEW f \in Flows, FlowInv, ThingNamed(f)
  PROVE  FlowInv'
<1>1. /\ flow[f] \in Flow /\ RecordOK(flow[f]) /\ Live(f) /\ f \notin ghosts
      /\ flow[f].at = "thing" /\ flow[f].kind # "reauth"
      /\ flow[f].cloud = "homeid"
  BY PlaceTells DEF ThingNamed, Renewing, LoggedIn
<1>2. CASE Go(f, "devices") /\ Stay
  BY <1>1, <1>2, GoKeeps DEF Forms, LoggedIn
<1>3. CASE Create(f, FusionEntry(flow[f], flow[f].uid, flow[f].here, "homeid"))
  <2>1. /\ flow[f].uid \in Ids /\ (ByMac => flow[f].uid = "mac")
        /\ flow[f].here \in BOOLEAN /\ flow[f].uid # None
    BY <1>1 DEF RecordOK, Flow
  <2>2. /\ EntryOK(FusionEntry(flow[f], flow[f].uid, flow[f].here, "homeid"))
        /\ FusionEntry(flow[f], flow[f].uid, flow[f].here, "homeid").uid
             = flow[f].uid
    BY <1>1, <2>1, FusionEntryIsOK DEF Clients
  <2>3. f \in Claims
    BY <1>1, <2>1 DEF Claims
  <2> QED
    BY <1>1, <1>3, <2>2, <2>3, CreateKeeps
<1> QED
  BY <1>2, <1>3 DEF ThingNamed

LEMMA CredentialsKeep ==
  ASSUME NEW f \in Flows, FlowInv, Credentials(f)
  PROVE  FlowInv'
<1>1. /\ flow[f] \in Flow /\ RecordOK(flow[f]) /\ Live(f) /\ f \notin ghosts
      /\ flow[f].at = "credentials" /\ flow[f].kind # "reauth"
      /\ flow[f].cloud = "homeid"
  BY PlaceTells DEF Credentials, Renewing, LoggedIn
<1>2. CASE Go(f, "devices") /\ Stay
  BY <1>1, <1>2, GoKeeps DEF Forms, LoggedIn
<1>3. CASE /\ appliance.keys
           /\ ClaimAndCreate(f, "id", LocalEntry("id", flow[f].cloud))
  BY <1>1, <1>3, ClaimAndCreateKeeps, LocalEntryIsOK DEF Ids
<1> QED
  BY <1>2, <1>3 DEF Credentials

(* What outlives its dialog ends, perhaps with a stray session.             *)
LEMMA GhostEndsKeeps ==
  ASSUME NEW f \in Flows, FlowInv, GhostEnds(f)
  PROVE  FlowInv'
<1>1. f \in ghosts /\ ghosts' = ghosts \ {f}
      /\ UNCHANGED <<appliance, entries, settled>>
  BY DEF GhostEnds
<1>2. f \in open => flow[f].at = "stray"
  BY <1>1 DEF FlowInv, NoSessionLeft, Live
<1>3. flow[f].at \in Awaits
  BY <1>1 DEF FlowInv
<1>4. f \notin open
  BY <1>2, <1>3 DEF Awaits
<1>5. CASE Become(f, NoFlow) /\ UNCHANGED open
  <2>1. ClaimOK(f, NoFlow) /\ RenewalOK(NoFlow, entries)
    BY NoFlowOK DEF ClaimOK, RenewalOK, NoFlow
  <2>2. SessionOK(f, NoFlow)
    BY <1>1, <1>4, <1>5 DEF SessionOK, FlowInv
  <2>3. GoodStep(f, NoFlow)
    BY <1>1, <1>5, <2>1, <2>2, NoFlowOK DEF GoodStep
  <2> QED
    BY <2>3, GoodStepKeeps
<1>6. CASE open' = open \cup {f} /\ Become(f, [NoFlow EXCEPT !.at = "stray"])
  <2> DEFINE r == [NoFlow EXCEPT !.at = "stray"]
  <2>1. r \in Flow /\ RecordOK(r) /\ r.at = "stray" /\ r.kind = "user"
    BY DEF NoFlow, Flow, Kinds, RecordOK, LoggedIn
  <2>2. Become(f, r)
    BY <1>6
  <2> HIDE DEF r
  <2>3. ClaimOK(f, r) /\ RenewalOK(r, entries)
    BY <2>1 DEF ClaimOK, RenewalOK
  <2>4. SessionOK(f, r)
    BY <1>1, <1>6, <2>1 DEF SessionOK, FlowInv
  <2>5. GoodStep(f, r)
    BY <1>1, <2>1, <2>2, <2>3, <2>4 DEF GoodStep
  <2> QED
    BY <2>5, GoodStepKeeps
<1> QED
  BY <1>5, <1>6 DEF GhostEnds

LEMMA LocalRepliesKeep ==
  ASSUME NEW f \in Flows, FlowInv, LocalReplies(f)
  PROVE  FlowInv'
<1>1. CASE Checked(f)
  <2>1. At(f, "checking") /\ (LocalFromHomeid(f) \/ Relay(f))
    BY <1>1 DEF Checked
  <2> QED
    BY <2>1, PlaceTells, FromHomeidKeeps DEF LoggedIn
<1> QED
  BY <1>1, ProbedKeeps, TestedKeeps, ThingNamedKeeps, CredentialsKeep,
     GhostEndsKeeps
     DEF LocalReplies

LEMMA DismissKeeps ==
  ASSUME NEW f \in Flows, FlowInv, Dismiss(f)
  PROVE  FlowInv'
<1>1. /\ Live(f) /\ Leave({f}) /\ UNCHANGED <<appliance, settled>>
      /\ entries' = entries
  BY DEF Dismiss
<1>2. \A g \in Flows \ {f} : Live(g) => RenewalOK(flow[g], entries')
  BY <1>1 DEF FlowInv
<1> QED
  BY <1>1, <1>2, LeaveKeeps

(* The renewals of the entry that goes end, and the others keep theirs.     *)
LEMMA RemoveKeeps ==
  ASSUME FlowInv, Remove
  PROVE  FlowInv'
<1>1. PICK e \in entries : entries' = entries \ {e} /\ Leave(Renewals(e))
  BY DEF Remove
<1>2. Renewals(e) \in SUBSET Flows /\ \A f \in Renewals(e) : Live(f)
  BY DEF Renewals
<1>3. ASSUME NEW f \in Flows \ Renewals(e), Live(f)
      PROVE  RenewalOK(flow[f], entries')
  <2>1. flow[f].kind = "reauth" => flow[f].uid # e.uid
    BY <1>3 DEF Renewals
  <2> QED
    BY <1>1, <1>3, <2>1 DEF FlowInv, RenewalOK
<1> QED
  BY <1>1, <1>2, <1>3, LeaveKeeps DEF Remove

----------------------------------------------------------------------------

LEMMA FlowInvInit == Init => FlowInv
<1> SUFFICES ASSUME Init PROVE FlowInv
  OBVIOUS
<1>1. \A f \in Flows : flow[f] = NoFlow /\ ~Live(f)
  BY DEF Init, Live, NoFlow
<1>2. flow \in [Flows -> Flow] /\ appliance \in Appliance
  BY NoFlowOK, ApplianceAssumption DEF Init
<1>3. Claims = {}
  BY <1>1 DEF Claims
<1> QED
  BY <1>1, <1>2, <1>3, NoFlowOK
     DEF Init, FlowInv, EntriesOK, NoSessionLeft, ClaimsHold

LEMMA FlowInvNext == FlowInv /\ [Next]_vars => FlowInv'
<1> SUFFICES ASSUME FlowInv, [Next]_vars PROVE FlowInv'
  OBVIOUS
<1>1. CASE Settle \/ UNCHANGED vars
  <2>1. /\ appliance' = appliance /\ flow' = flow /\ ghosts' = ghosts
        /\ open' = open /\ entries' = entries /\ settled' \in BOOLEAN
    BY <1>1 DEF Settle, vars, FlowInv
  <2> QED
    BY <2>1 DEF FlowInv, RecordOK, ByMac, EntriesOK, EntryOK, RenewalOK,
                ClaimsHold, Claims, NoSessionLeft, Live
<1>2. ASSUME NEW f \in Flows, Replies(f) PROVE FlowInv'
  BY <1>2, CodeSentKeeps, VerifiedKeeps, ExchangedKeeps, ListedKeeps
     DEF Replies
<1> QED
  BY <1>1, <1>2, StartsKeep, ForwardKeeps, SubmitCodeKeeps, ChooseKeeps,
     LocalRepliesKeep, DismissKeeps, RemoveKeeps
     DEF Next

(* What FlowInv says of every dialog, entry and session always holds: ids   *)
(* that are claimed are nobody else's, each live renewal has its entry and  *)
(* asks for a token of its client, no ghost holds a session.                *)
THEOREM FlowInvariant == Spec => []FlowInv
  BY FlowInvInit, FlowInvNext, PTL DEF Spec

(* Whenever a dialog is closed, also in the middle of a step, no session of *)
(* its login stays open, but one that the step opens afterwards.            *)
THEOREM SessionsEnd == Spec => []NoSessionLeft
<1>1. FlowInv => NoSessionLeft
  BY DEF FlowInv
<1> QED
  BY <1>1, FlowInvariant, PTL

(* Each entry's token is one of the OAuth client that will refresh it, from *)
(* whichever registry the entry comes and also after a renewal, which goes  *)
(* by what the entry was before the exchange.                               *)
THEOREM TokensFitClients == Spec => []TokenOfItsClient
<1>1. FlowInv => TokenOfItsClient
  BY DEF FlowInv, EntriesOK, EntryOK, TokenOfItsClient
<1> QED
  BY <1>1, FlowInvariant, PTL

(* However many dialogs add it at once, an appliance whose MAC the records  *)
(* and the probe tell has one entry, and a second one at most if the IoT    *)
(* registry, whose entries go by another id, has credentials for it.        *)
THEOREM OneEntry == Spec => []OneEntryPerDevice
<1>1. FlowInv => TypeOK /\ ClaimsHold
  BY DEF FlowInv, TypeOK, EntriesOK, EntryOK
<1>2. ASSUME FlowInv, ByMac
      PROVE  Cardinality(entries) <= IF appliance.keys THEN 2 ELSE 1
  <2> DEFINE uids == IF appliance.keys THEN {"mac", "id"} ELSE {"mac"}
             name == [e \in entries |-> e.uid]
  <2>1. \A e \in entries : e.uid \in uids
    BY <1>2 DEF FlowInv, EntriesOK, EntryOK
  <2>2. name \in Injection(entries, uids)
    <3>1. name \in [entries -> uids]
      BY <2>1
    <3>2. \A d, e \in entries : name[d] = name[e] => d = e
      BY <1>2 DEF FlowInv, EntriesOK
    <3> HIDE DEF name, uids
    <3> QED
      BY <3>1, <3>2 DEF Injection, IsInjective
  <2>3. /\ IsFiniteSet(uids)
        /\ Cardinality(uids) = IF appliance.keys THEN 2 ELSE 1
    <3>1. IsFiniteSet({"mac"}) /\ Cardinality({"mac"}) = 1
      BY FS_Singleton
    <3>2. IsFiniteSet({"mac", "id"}) /\ Cardinality({"mac", "id"}) = 2
      <4>1. {"mac", "id"} = {"mac"} \cup {"id"} /\ "id" \notin {"mac"}
        OBVIOUS
      <4> QED
        BY <3>1, <4>1, FS_AddElement
    <3> QED
      BY <3>1, <3>2
  <2> HIDE DEF name, uids
  <2>4. Cardinality(entries) <= Cardinality(uids)
    BY <2>2, <2>3, FS_Injection
  <2> QED
    BY <2>3, <2>4
<1>3. FlowInv => OneEntryPerDevice
  BY <1>1, <1>2 DEF OneEntryPerDevice, ByMac
<1> QED
  BY <1>3, FlowInvariant, PTL

=============================================================================
