------------------------------ MODULE MCReload ------------------------------
(* Two nodes, one of which comes and goes; see the cfg file. *)
EXTENDS Reload

CONSTANTS n1, n2

MCFiles == {{n1}, {n1, n2}}
=============================================================================
