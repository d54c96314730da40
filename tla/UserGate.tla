------------------------------ MODULE UserGate ------------------------------
(***************************************************************************)
(* What a proxy core promises about the users of a node: a connection is   *)
(* served only for a user who is granted when it is let in, and taking a   *)
(* user back is complete only when none of its connections is served.      *)
(***************************************************************************)
CONSTANTS Users, Conns, NoUser

VARIABLES
  granted,   \* users a new connection may be served for
  leaving,   \* users being taken back: no longer granted, not yet cut off
  serving    \* the user each connection is served for, or NoUser

gateVars == <<granted, leaving, serving>>

Init ==
  /\ granted = {}
  /\ leaving = {}
  /\ serving = [c \in Conns |-> NoUser]

Grant(S) ==
  /\ granted' = granted \cup S
  /\ UNCHANGED <<leaving, serving>>

TakeBack(u) ==
  /\ u \in granted
  /\ granted' = granted \ {u}
  /\ leaving' = leaving \cup {u}
  /\ UNCHANGED serving

TakenBack(u) ==
  /\ \A c \in Conns : serving[c] # u
  /\ leaving' = leaving \ {u}
  /\ UNCHANGED <<granted, serving>>

Serve(c, u) ==
  /\ serving[c] = NoUser
  /\ u \in granted
  /\ serving' = [serving EXCEPT ![c] = u]
  /\ UNCHANGED <<granted, leaving>>

Drop(c) ==
  /\ serving' = [serving EXCEPT ![c] = NoUser]
  /\ UNCHANGED <<granted, leaving>>

Next ==
  \/ \E S \in SUBSET Users : Grant(S)
  \/ \E u \in Users : TakeBack(u) \/ (u \in leaving /\ TakenBack(u))
  \/ \E c \in Conns : Drop(c) \/ \E u \in Users : Serve(c, u)

Spec == Init /\ [][Next]_gateVars
=============================================================================
