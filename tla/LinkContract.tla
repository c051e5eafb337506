---------------------------- MODULE LinkContract ----------------------------
(***************************************************************************)
(* What the ownership protocol of the MQTT link promises: a reconnect has  *)
(* at most one owner, ownership passes through nobody, and while the entry *)
(* is serving, a link that is down comes back only by its owner's doing.   *)
(* Once the entry is closing, a cancelled owner may be dropped and an      *)
(* attempt it left behind may still complete.                              *)
(***************************************************************************)
CONSTANTS Owners, Nobody  \* Nobody is not one of the owners

VARIABLES
  up,     \* the link is believed to be up
  owner,  \* who owns the reconnect
  life    \* the config entry: starting, serving or closing

Init == up = FALSE /\ owner = Nobody /\ life = "starting"

Claim == owner = Nobody /\ owner' \in Owners /\ UNCHANGED <<up, life>>

Release == owner # Nobody /\ owner' = Nobody /\ UNCHANGED <<up, life>>

Restore ==
  /\ owner # Nobody \/ life # "serving"
  /\ ~up /\ up' = TRUE
  /\ UNCHANGED <<owner, life>>

Drop == up /\ up' = FALSE /\ UNCHANGED <<owner, life>>

Serve == life = "starting" /\ life' = "serving" /\ UNCHANGED <<up, owner>>

Close ==
  /\ life # "closing" /\ life' = "closing"
  /\ owner' \in {owner, Nobody}
  /\ UNCHANGED up

Next == Claim \/ Release \/ Restore \/ Drop \/ Serve \/ Close

Spec == Init /\ [][Next]_<<up, owner, life>>

=============================================================================
