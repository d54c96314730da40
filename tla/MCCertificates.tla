--------------------------- MODULE MCCertificates ---------------------------
(* One node, on each of the cores *)
EXTENDS Certificates
CONSTANTS n1
MCKinds == [{n1} -> {"xray", "vless", "hy2"}]
=============================================================================
