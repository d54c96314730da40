------------------------- MODULE MCConfigTransaction -------------------------
(* config.json and one more file, each with two contents; see the cfg      *)
(* files.                                                                  *)
EXTENDS ConfigTransaction

=============================================================================
