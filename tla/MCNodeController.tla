-------------------------- MODULE MCNodeController --------------------------
(* Two users and plans "basic", "family" of one speed and "fast" of        *)
(* another: a change of plan that compareUserList sees, and one it does not.*)
EXTENDS NodeController, TLC

CONSTANTS basic, family, fast, u1, n1

MCPlans == {basic, family, fast}
TwoSpeeds == basic :> 1 @@ family :> 1 @@ fast :> 2

(* Nothing tells one configuration from another, nor one user; a start     *)
(* with nobody on a plan of the common speed, or with both plans of that   *)
(* speed, is left out.  A name matters to a node that is not VLESS only.   *)
MCInit ==
  /\ Init
  /\ panelCfg = n1
  /\ panelList[u1] = basic
  /\ \A u \in Users : panelList[u] # family
  /\ vless => ~named

MCSpec == MCInit /\ [][Next]_vars /\ WF_vars(Proceed \/ Fails)
=============================================================================
