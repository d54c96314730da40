-------------------------- MODULE MCXrayRevocation --------------------------
(* XrayRevocation for TLC: one or two users, dispatches as model values. *)
EXTENDS XrayRevocation, TLC

ConnAndManagerSymmetry == Permutations(Conns) \cup Permutations(Managers)
=============================================================================
