------------------------- MODULE MCSocksTransaction -------------------------
(***************************************************************************)
(* Hy2: two Hysteria2 nodes share the main configuration file; a candidate *)
(* writes CONFIG_PATH and then the node's own file.  Mixed: a Hysteria2    *)
(* node, and an Xray node whose candidate writes OutboundConfigPath and    *)
(* RouteConfigPath but not the main file.                                  *)
(***************************************************************************)
EXTENDS SocksTransaction, TLC

CONSTANTS main, outbound, route, node, other, c1, c2, c3

Hy2   == {<<main, node>>, <<main, other>>}
Xray  == {<<outbound, route>>}
Mixed == {<<main, node>>, <<outbound, route>>}

ContentSymmetry == Permutations(Contents)
=============================================================================
