---------------------------- MODULE MCXrayTraffic ----------------------------
(* XrayTraffic for TLC: one user, whose storage is replaced when he is     *)
(* granted again.                                                          *)
EXTENDS XrayTraffic
=============================================================================
