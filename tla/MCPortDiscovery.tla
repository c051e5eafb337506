-------------------------- MODULE MCPortDiscovery --------------------------
(* An air fryer with two ports: Status with two properties, Config with     *)
(* one. The registry has a fourth, from an appliance or a firmware before.  *)
EXTENDS PortDiscovery, TLC

CONSTANTS status, config, temp, phase, version, gone, sensor, switch

Appliance == (status :> {temp, phase}) @@ (config :> {version})
Entities == (sensor :> {temp, version, gone}) @@ (switch :> {temp, phase})

=============================================================================
