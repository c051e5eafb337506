---------------------------- MODULE MCFusionCook ----------------------------
(* FusionCook with the commands its calls make.                            *)
EXTENDS FusionCook

CookCommands == [act : Acts, addressed : BOOLEAN]

=============================================================================
