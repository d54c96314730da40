--------------------------- MODULE SingNodeProofs ---------------------------
(***************************************************************************)
(* Proofs about SingNode: its type invariant, that a revoked user is cut,  *)
(* that the core's records agree between calls, and that the node          *)
(* implements UserGate.                                                    *)
(***************************************************************************)
EXTENDS SingNode, TLAPS

(* The administrator: where the call stands determines who is active. *)
AdminShape ==
  /\ op = "idle"   => todo = {} /\ active = managed
  /\ op = "add"    => active = managed \cup todo
  /\ op = "revoke" => active = managed \cup (todo \ {cur})
  /\ op = "remove" => todo \subseteq managed
                      /\ active = todo \ {cur}
  /\ op \in {"add", "revoke"} => todo \cap managed = {}
  /\ op \in {"idle", "add"} => cur = NoUser

Ranging ==
  /\ cur # NoUser => cur \in todo
  /\ \A c \in scan : cur # NoUser /\ Tracked(c) /\ user[c] = cur

(* Nothing is routed before the node is marked as managed. *)
MarkedFirst ==
  /\ up => managedNode
  /\ \A s \in Sessions : sess[s].phase # "none" => managedNode
  /\ \A c \in Conns : conn[c] # "idle" => managedNode

Tables ==
  /\ ~up => managed = {}
  /\ up /\ proto # "shadowsocks" => table = managed

NodeInv ==
  /\ TypeOK
  /\ AdminShape
  /\ Ranging
  /\ MarkedFirst
  /\ Tables
  /\ RevokedUserIsCut

-----------------------------------------------------------------------------
(* A table taken whole is the new set of users; a refused one leaves the   *)
(* old table, except for shadowsocks.                                      *)
LEMMA SetUsersResult ==
  ASSUME NEW p, NEW us \in SUBSET Users, NEW old \in SUBSET Users
  PROVE  LET r == SetUsers(p, us, old)
         IN  /\ r.ok \in BOOLEAN
             /\ r.table \subseteq Users
             /\ r.ok => r.table = us
             /\ ~r.ok /\ p # "shadowsocks" => r.table = old
BY DEF SetUsers, VlessUpdate, VmessUpdate, TrojanUpdate, AnytlsUpdate,
       HysteriaUpdate, Hysteria2Update, ShadowsocksUpdate,
       Shadowsocks2022Update, TuicUpdate, Accepted, RefusedWith

(* A handshake yields a user, or none. *)
LEMMA IdentifyResult ==
  ASSUME NEW p, NEW snap \in SUBSET Users, NEW r \in Requests
  PROVE  /\ Identify(p, snap, r).user \in Users \cup {NoUser}
BY DEF Identify, VlessIdentify, VmessIdentify, TrojanIdentify,
       ShadowsocksIdentify, Shadowsocks2022Identify, AnytlsIdentify,
       HysteriaIdentify, Hysteria2Identify, TuicIdentify, Requests, Known,
       Refused, Fallback

(* A stream reaches the inbound from an identified session only. *)
LEMMA OpensWhenOpen ==
  ASSUME NEW p, NEW phase
  PROVE  Opens(p, phase) <=> phase = "open"
BY DEF Opens, HysteriaOpens, Hysteria2Opens, TuicOpens

LEMMA InitInv == Init => NodeInv
<1> SUFFICES ASSUME Init PROVE NodeInv
  OBVIOUS
<1>1. NoSession \in [phase : {"none", "reading", "open"}, snap : SUBSET Users,
                     user : Users \cup {NoUser}]
  BY DEF NoSession
<1>2. TypeOK BY <1>1 DEF Init, TypeOK
<1>3. AdminShape /\ Ranging /\ Tables BY DEF Init, AdminShape, Ranging, Tables
<1>4. \A s \in Sessions : sess[s].phase = "none" BY DEF Init, NoSession
<1>5. MarkedFirst /\ RevokedUserIsCut
  BY <1>4 DEF Init, MarkedFirst, RevokedUserIsCut
<1> QED BY <1>2, <1>3, <1>5 DEF NodeInv

-----------------------------------------------------------------------------
(* Administration. *)

LEMMA AdminCall ==
  ASSUME NodeInv,
         \/ RegisterLimiter \/ DropLimiter \/ AddNode \/ DelNode
         \/ \E us \in SUBSET Users : AddUsers(us)
  PROVE  NodeInv'
<1> USE DEF NodeInv, TypeOK, AdminShape, Ranging, MarkedFirst, Tables,
            RevokedUserIsCut, Tracked
<1>1. CASE RegisterLimiter BY <1>1 DEF RegisterLimiter, adminVars, connVars
<1>2. CASE DropLimiter BY <1>2 DEF DropLimiter, adminVars, connVars
<1>3. CASE AddNode BY <1>3 DEF AddNode, adminVars, connVars
<1>4. CASE DelNode BY <1>4, HandshakeAssumption DEF DelNode, nodeVars, connVars
<1>5. ASSUME NEW us \in SUBSET Users, AddUsers(us) PROVE NodeInv'
  BY <1>5 DEF AddUsers, nodeVars, connVars
<1> QED BY <1>1, <1>2, <1>3, <1>4, <1>5

LEMMA AddReturns ==
  ASSUME NodeInv, AddAccepted \/ AddRefused
  PROVE  NodeInv'
<1> USE DEF NodeInv, TypeOK, AdminShape, Ranging, MarkedFirst, Tables,
            RevokedUserIsCut, Tracked
<1> DEFINE r == SetUsers(proto, managed \cup todo, table)
<1>1. /\ r.ok \in BOOLEAN
      /\ r.table \subseteq Users
      /\ r.ok => r.table = managed \cup todo
      /\ ~r.ok /\ proto # "shadowsocks" => r.table = table
  <2>1. managed \cup todo \in SUBSET Users OBVIOUS
  <2>2. table \in SUBSET Users OBVIOUS
  <2> HIDE DEF NodeInv
  <2> QED BY <2>1, <2>2, SetUsersResult
<1> HIDE DEF r
<1>2. CASE AddAccepted
  <2>1. /\ op = "add" /\ up /\ r.ok
        /\ table' = r.table
        /\ managed' = managed \cup todo
        /\ op' = "idle" /\ todo' = {}
        /\ UNCHANGED <<proto, limited, up, managedNode, active, cur, scan,
                       sess, connVars>>
    BY <1>2 DEF AddAccepted, r
  <2> QED BY <1>1, <2>1 DEF connVars
<1>3. CASE AddRefused
  <2>1. /\ op = "add" /\ ~(up /\ r.ok)
        /\ table' = IF up THEN r.table ELSE table
        /\ op' = "revoke"
        /\ UNCHANGED <<proto, limited, up, managedNode, managed, active, todo,
                       cur, scan, sess, connVars>>
    BY <1>3 DEF AddRefused, r
  <2> QED BY <1>1, <2>1, HandshakeAssumption DEF connVars
<1> QED BY <1>2, <1>3

LEMMA DelUsersStep ==
  ASSUME NodeInv, NEW us \in SUBSET Users, DelUsers(us)
  PROVE  NodeInv'
<1> USE DEF NodeInv, TypeOK, AdminShape, Ranging, MarkedFirst, Tables,
            RevokedUserIsCut, Tracked
<1> DEFINE r == SetUsers(proto, managed \ us, table)
<1>1. r.ok => r.table = managed \ us
  BY SetUsersResult
<1> HIDE DEF r
<1>2. /\ op = "idle" /\ up /\ us \subseteq managed /\ r.ok
      /\ table' = r.table
      /\ managed' = managed \ us
      /\ op' = "revoke" /\ todo' = us
      /\ UNCHANGED <<proto, limited, up, managedNode, active, cur, scan, sess,
                     connVars>>
  BY DEF DelUsers, r
<1>3. cur \notin us
  BY <1>2, HandshakeAssumption
<1> QED BY <1>1, <1>2, <1>3 DEF connVars

LEMMA RevokeStep ==
  ASSUME NodeInv,
         \/ Revoked \/ RevokeReturns \/ RemoveInbound
         \/ \E u \in Users : Forbid(u)
         \/ \E c \in Conns : CloseTracked(c)
  PROVE  NodeInv'
<1> USE HandshakeAssumption
    DEF NodeInv, TypeOK, AdminShape, Ranging, MarkedFirst, Tables,
        RevokedUserIsCut, Tracked
<1>1. CASE Revoked BY <1>1 DEF Revoked, nodeVars, connVars
<1>2. CASE RevokeReturns BY <1>2 DEF RevokeReturns, nodeVars, connVars
<1>3. CASE RemoveInbound BY <1>3 DEF RemoveInbound, connVars, NoSession
<1>4. ASSUME NEW u \in Users, Forbid(u) PROVE NodeInv'
  BY <1>4 DEF Forbid, nodeVars, connVars
<1>5. ASSUME NEW c \in Conns, CloseTracked(c) PROVE NodeInv'
  BY <1>5 DEF CloseTracked, nodeVars
<1> QED BY <1>1, <1>2, <1>3, <1>4, <1>5

-----------------------------------------------------------------------------
(* Sessions and the tracker. *)

LEMMA SessionStep ==
  ASSUME NodeInv, NEW s \in Sessions,
         \/ Accept(s) \/ SessionEnds(s)
         \/ \E who \in Outcomes(s) : Handshake(s, who)
  PROVE  NodeInv'
<1> USE DEF NodeInv, TypeOK, AdminShape, Ranging, MarkedFirst, Tables,
            RevokedUserIsCut, Tracked, nodeVars, adminVars, connVars
<1>1. CASE Accept(s) BY <1>1 DEF Accept
<1>2. CASE SessionEnds(s) BY <1>2 DEF SessionEnds, NoSession
<1>3. ASSUME NEW who \in Outcomes(s), Handshake(s, who) PROVE NodeInv'
  <2>1. who.user \in Users \cup {NoUser}
    <3>1. Snapshot(s) \subseteq Users BY DEF Snapshot
    <3> QED BY <3>1, IdentifyResult DEF Outcomes
  <2>2. sess[s].phase = "reading" BY <1>3 DEF Handshake
  <2>3. sess' \in [Sessions -> [phase : {"none", "reading", "open"},
                       snap : SUBSET Users, user : Users \cup {NoUser}]]
    BY <1>3, <2>1 DEF Handshake, NoSession
  <2> QED BY <1>3, <2>2, <2>3 DEF Handshake
<1> QED BY <1>1, <1>2, <1>3

LEMMA TrackerStep ==
  ASSUME NodeInv, NEW c \in Conns,
         \/ \E s \in Sessions : Route(s, c)
         \/ Tracker(c) \/ Reject(c) \/ End(c)
  PROVE  NodeInv'
<1> USE DEF NodeInv, TypeOK, AdminShape, Ranging, MarkedFirst, Tables,
            RevokedUserIsCut, Tracked, nodeVars, adminVars, Allowed
<1>1. ASSUME NEW s \in Sessions, Route(s, c) PROVE NodeInv'
  BY <1>1, OpensWhenOpen DEF Route
<1>2. CASE NoLimiter(c) BY <1>2 DEF NoLimiter
<1>3. CASE PassLimits(c) BY <1>3 DEF PassLimits
<1>4. CASE Store(c) BY <1>4 DEF Store
<1>5. CASE Recheck(c) BY <1>5 DEF Recheck
<1>6. CASE Gone(c) BY <1>6 DEF Gone
<1> QED BY <1>1, <1>2, <1>3, <1>4, <1>5, <1>6
        DEF Tracker, RecheckFails, Reject, End

LEMMA StepInv == NodeInv /\ [Next]_vars => NodeInv'
<1> SUFFICES ASSUME NodeInv, [Next]_vars PROVE NodeInv'
  OBVIOUS
<1>1. CASE UNCHANGED vars
  BY <1>1 DEF vars, nodeVars, adminVars, connVars, NodeInv, TypeOK, AdminShape,
              Ranging, MarkedFirst, Tables, RevokedUserIsCut, Tracked
<1>2. CASE Next
  <2>1. scan \subseteq Conns BY DEF NodeInv, TypeOK
  <2> QED BY <1>2, <2>1, AdminCall, AddReturns, DelUsersStep, RevokeStep,
             SessionStep, TrackerStep DEF Next, AdminRuns
<1> QED BY <1>1, <1>2

LEMMA Invariance == Spec => []NodeInv
<1> QED BY InitInv, StepInv, PTL DEF Spec

-----------------------------------------------------------------------------
(* Every variable of the node keeps its type. *)
THEOREM TypeCorrect == Spec => []TypeOK
<1>1. NodeInv => TypeOK BY DEF NodeInv
<1> QED BY Invariance, <1>1, PTL

(* DelUsers and DelNode do not return while a tracked connection of their  *)
(* users is carried.                                                       *)
THEOREM RevokedCut == Spec => []RevokedUserIsCut
<1>1. NodeInv => RevokedUserIsCut BY DEF NodeInv
<1> QED BY Invariance, <1>1, PTL

(* Between calls, activeUsers, managedUsers and the inbound's table agree. *)
THEOREM RecordsAgreement == Spec => []RecordsAgree
<1>1. NodeInv => RecordsAgree BY DEF NodeInv, AdminShape, Tables, RecordsAgree
<1> QED BY Invariance, <1>1, PTL

-----------------------------------------------------------------------------
(* The node implements UserGate. *)

serving == [c \in Conns |-> IF conn[c] = "live" THEN user[c] ELSE NoUser]

LEMMA GateInit == Init => Gate!Init
BY DEF Init, Gate!Init

(* A step that changes neither who is active, nor the Range that is going  *)
(* on, nor what is live, is invisible.                                     *)
LEMMA GateStutter ==
  ASSUME active' = active, cur' = cur, serving' = serving
  PROVE  UNCHANGED Gate!gateVars
BY DEF Gate!gateVars, serving

LEMMA GateDrop ==
  ASSUME NEW c \in Conns, active' = active, cur' = cur,
         conn' = [conn EXCEPT ![c] = "idle"],
         user' = [user EXCEPT ![c] = NoUser], NodeInv
  PROVE  Gate!Next
<1>1. serving' = [serving EXCEPT ![c] = NoUser]
  BY DEF serving, NodeInv, TypeOK
<1>2. Gate!Drop(c)
  BY <1>1 DEF Gate!Drop, serving
<1> QED BY <1>2 DEF Gate!Next

LEMMA GateStep == NodeInv /\ [Next]_vars => [Gate!Next]_(Gate!gateVars)
<1> SUFFICES ASSUME NodeInv, [Next]_vars
             PROVE  [Gate!Next]_(Gate!gateVars)
  OBVIOUS
<1> USE DEF NodeInv
<1>1. CASE UNCHANGED vars
  BY <1>1, GateStutter DEF vars, adminVars, connVars, serving
<1>2. CASE RegisterLimiter \/ DropLimiter \/ AddNode \/ DelNode
           \/ AddAccepted \/ AddRefused \/ RevokeReturns \/ RemoveInbound
  BY <1>2, GateStutter
     DEF RegisterLimiter, DropLimiter, AddNode, DelNode, AddAccepted,
         AddRefused, RevokeReturns, RemoveInbound, adminVars, connVars, serving
<1>3. ASSUME NEW us \in SUBSET Users, AddUsers(us)
      PROVE  [Gate!Next]_(Gate!gateVars)
  <2>1. Gate!Grant(managed \cup us)
    BY <1>3 DEF AddUsers, connVars, Gate!Grant
  <2>2. managed \cup us \in SUBSET Users BY DEF TypeOK
  <2> QED BY <2>1, <2>2 DEF Gate!Next
<1>4. ASSUME NEW us \in SUBSET Users, DelUsers(us)
      PROVE  [Gate!Next]_(Gate!gateVars)
  BY <1>4, GateStutter DEF DelUsers, connVars, serving
<1>5. ASSUME NEW u \in Users, Forbid(u) PROVE [Gate!Next]_(Gate!gateVars)
  <2>1. u \in active
    BY <1>5, HandshakeAssumption DEF Forbid, AdminShape, TypeOK
  <2>2. cur = NoUser /\ cur' = u /\ u # NoUser
    BY <1>5, HandshakeAssumption DEF Forbid
  <2>3. Gate!TakeBack(u)
    BY <1>5, <2>1, <2>2 DEF Forbid, connVars, Gate!TakeBack
  <2> QED BY <2>3 DEF Gate!Next
<1>6. CASE Revoked
  <2>1. cur \in Users /\ cur # NoUser /\ cur' = NoUser /\ scan = {}
        /\ UNCHANGED <<active, conn, user>>
    BY <1>6 DEF Revoked, connVars, TypeOK
  <2>2. cur \notin active
    BY <2>1 DEF AdminShape, Ranging, TypeOK
  <2>3. \A c \in Conns : (IF conn[c] = "live" THEN user[c] ELSE NoUser) # cur
    BY <2>1, <2>2 DEF RevokedUserIsCut
  <2>4. Gate!TakenBack(cur)
    BY <2>1, <2>3 DEF Gate!TakenBack
  <2> QED BY <2>1, <2>4 DEF Gate!Next
<1>7. ASSUME NEW c \in Conns, CloseTracked(c)
      PROVE  [Gate!Next]_(Gate!gateVars)
  BY <1>7, GateDrop DEF CloseTracked
<1>8. ASSUME NEW s \in Sessions,
             \/ Accept(s) \/ SessionEnds(s)
             \/ \E who \in Outcomes(s) : Handshake(s, who)
      PROVE  [Gate!Next]_(Gate!gateVars)
  BY <1>8, GateStutter
     DEF Accept, SessionEnds, Handshake, adminVars, connVars, serving
<1>9. ASSUME NEW c \in Conns,
             \/ \E s \in Sessions : Route(s, c)
             \/ NoLimiter(c) \/ PassLimits(c) \/ Store(c)
      PROVE  [Gate!Next]_(Gate!gateVars)
  <2>1. serving' = serving
    BY <1>9 DEF Route, NoLimiter, PassLimits, Store, serving, TypeOK
  <2>2. active' = active /\ cur' = cur
    BY <1>9 DEF Route, NoLimiter, PassLimits, Store, adminVars
  <2> QED BY <2>1, <2>2, GateStutter
<1>10. ASSUME NEW c \in Conns, Recheck(c) PROVE [Gate!Next]_(Gate!gateVars)
  <2>1. user[c] \in active
    BY <1>10 DEF Recheck, Allowed, MarkedFirst
  <2>2. PICK u \in Users : u = user[c] BY <2>1 DEF TypeOK
  <2>3. Gate!Serve(c, u)
    <3>1. serving' = [serving EXCEPT ![c] = u]
      BY <1>10, <2>2 DEF Recheck, serving, TypeOK
    <3>2. serving[c] = NoUser BY <1>10 DEF Recheck, serving
    <3>3. UNCHANGED <<active, cur>> BY <1>10 DEF Recheck, adminVars
    <3> QED BY <2>1, <2>2, <3>1, <3>2, <3>3 DEF Gate!Serve, serving
  <2> QED BY <2>3 DEF Gate!Next
<1>11. ASSUME NEW c \in Conns, Gone(c) PROVE [Gate!Next]_(Gate!gateVars)
  BY <1>11, GateDrop DEF Gone
<1>12. scan \subseteq Conns BY DEF TypeOK
<1> QED
  BY <1>1, <1>2, <1>3, <1>4, <1>5, <1>6, <1>7, <1>8, <1>9, <1>10, <1>11, <1>12
     DEF Next, AdminRuns, Tracker, RecheckFails, Reject, End

(* A node of the sing-box core does what UserGate promises: it serves a    *)
(* connection only for a granted user, and a revocation ends only when no  *)
(* tracked connection of the user is left.                                 *)
THEOREM ImplementsGate == Spec => GateSpec
<1>1. Init => Gate!Init BY GateInit
<1>2. NodeInv /\ [Next]_vars => [Gate!Next]_(Gate!gateVars) BY GateStep
<1> QED BY <1>1, <1>2, Invariance, PTL DEF Spec, GateSpec, Gate!Spec
=============================================================================
