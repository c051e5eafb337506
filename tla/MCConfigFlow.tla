---------------------------- MODULE MCConfigFlow ----------------------------
(* An instance of ConfigFlow: appliances of each registry and of several,   *)
(* with and without what makes them local, some without their MAC, some of  *)
(* an account that the IoT registry refuses.                                *)
EXTENDS ConfigFlow

Listed(sources, secret, external) ==
  [listed |-> sources, mac |-> TRUE, secret |-> secret, external |-> external,
   keys |-> FALSE, address |-> FALSE, refused |-> FALSE, told |-> TRUE]

Samples ==
  {Listed({"homeid", "iot", "airplus"}, FALSE, TRUE),
   Listed({"homeid", "iot"}, TRUE, TRUE),
   [Listed({"homeid", "iot"}, TRUE, FALSE) EXCEPT !.keys = TRUE,
                                                 !.address = TRUE],
   Listed({"airplus"}, FALSE, FALSE),
   [Listed({"iot"}, FALSE, TRUE) EXCEPT !.keys = TRUE, !.mac = FALSE],
   [Listed({"homeid", "iot"}, FALSE, TRUE) EXCEPT !.told = FALSE],
   [Listed({"homeid", "airplus"}, TRUE, FALSE) EXCEPT !.refused = TRUE],
   [Listed({"airplus"}, FALSE, FALSE) EXCEPT !.refused = TRUE]}

=============================================================================
