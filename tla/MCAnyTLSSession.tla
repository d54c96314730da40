--------------------------- MODULE MCAnyTLSSession ---------------------------
(* AnyTLSSession for TLC: small numbers of sessions, streams and callers. *)
EXTENDS AnyTLSSession

MCSessions == {1}
MCVersions == {0, 2}
=============================================================================
