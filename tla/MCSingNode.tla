----------------------------- MODULE MCSingNode -----------------------------
(* SingNode for TLC: every protocol, two users of whom one has a bad key.  *)
EXTENDS SingNode

MCProtocols == AllProtocols
=============================================================================
