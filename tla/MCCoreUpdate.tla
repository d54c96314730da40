---------------------------- MODULE MCCoreUpdate ----------------------------
(* Two programs and two contents of config.json; see the cfg files. *)
EXTENDS CoreUpdate

=============================================================================
