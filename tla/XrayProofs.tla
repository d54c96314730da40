----------------------------- MODULE XrayProofs -----------------------------
(***************************************************************************)
(* Proofs about the Xray core, for any sets of users, dispatches and link  *)
(* managers.  First module XrayRevocation: type correctness,               *)
(* RevokedConnClosed and ClosedManagerIsRemoved.  Then what module         *)
(* XrayTraffic says of the users' bytes: they are neither lost nor         *)
(* reported twice.                                                         *)
(***************************************************************************)
EXTENDS XrayTraffic, TLAPS

(* mapLock's holder: which users it may still find allowed, and that an    *)
(* AddUsers works only on users that are not.                              *)
AdminOrder ==
  /\ op \in {"install", "commit", "store"} => mode = "add"
  /\ op \in {"pick", "forbid", "load", "take", "close"} => mode # "add"
  /\ op \in {"idle", "install", "commit", "store"} => allowed \subseteq installed
  /\ op \in {"pick", "load", "take", "close"} =>
       allowed \subseteq IF mode = "del" THEN installed ELSE todo
  /\ op = "forbid" =>
       allowed \subseteq (IF mode = "del" THEN installed ELSE todo) \cup {cur}
  /\ op \in {"load", "take", "close"} => cur \notin allowed
  /\ op \in {"install", "commit", "store"} =>
       done \subseteq installed /\ done \cap allowed = {}
  /\ op = "store" => cur \in done

(* CloseAll marks the manager closed and leaves it no link; the links are  *)
(* with whoever swapped them out.                                          *)
ManagerOrder ==
  /\ \A m \in Managers : closed[m] => members[m] = {}
  /\ op # "close" => taken[Admin] = {}
  /\ \A c \in Conns : conn[c] # "closing" => taken[c] = {}
  /\ \A c \in Conns : conn[c] = "closing" => closed[mgr[c]]

(* A registered connection with an open socket is in its manager or being  *)
(* closed.                                                                 *)
Registered ==
  \A c \in Conns :
    conn[c] \in {"linked", "live"} /\ c \in open =>
      c \in members[mgr[c]] \/ \E k \in Closers : c \in taken[k]

(* As long as the user stays allowed, LinkManagers leads to the manager.   *)
Reachable ==
  \A c \in Conns :
    conn[c] \in {"held", "linked", "live"} /\ ~crossed[c] /\ user[c] \in allowed =>
      links[user[c]] = mgr[c] \/ closed[mgr[c]]

(* Once it is not, mapLock's holder has the manager, or closed it.         *)
Revoked ==
  \A c \in Conns :
    conn[c] = "live" /\ ~crossed[c] /\ user[c] \notin allowed =>
      \/ closed[mgr[c]]
      \/ op = "load" /\ cur = user[c] /\ links[user[c]] = mgr[c]
      \/ op = "take" /\ cur = user[c] /\ held = mgr[c]

IInv == TypeOK /\ AdminOrder /\ ManagerOrder /\ Registered /\ Reachable /\ Revoked

(* A manager serves one user. *)
OneUserPerManager ==
  /\ \A u, v \in Users : links[u] = links[v] /\ links[u] # NoManager => u = v
  /\ \A u \in Users, c \in Conns : Holds(c) /\ links[u] = mgr[c] => u = user[c]
  /\ \A u \in Users :
       op \in {"take", "close"} /\ links[u] = held => u = cur /\ mode = "del"

RInv == IInv /\ OneUserPerManager /\ ClosedManagerIsRemoved

-----------------------------------------------------------------------------
(* Proofs. *)

LEMMA TypeStep == TypeOK /\ [Next]_vars => TypeOK'
<1> SUFFICES ASSUME TypeOK, [Next]_vars PROVE TypeOK'
  OBVIOUS
<1> USE ConstantsAssumption DEF TypeOK, connVars, adminVars, mgrVars, ConnPhases, AdminPhases, Closers, Holds
<1> QED
  <2>1. ASSUME NEW c \in Conns, Open(c) PROVE TypeOK'
    BY <2>1 DEF Open
  <2>2. ASSUME NEW c \in Conns, Reject(c) PROVE TypeOK'
    BY <2>2 DEF Reject, Gone
  <2>3. ASSUME NEW c \in Conns, LoadManager(c) PROVE TypeOK'
    BY <2>3 DEF LoadManager
  <2>4. ASSUME NEW c \in Conns, StoreManager(c) PROVE TypeOK'
    BY <2>4 DEF StoreManager, Referenced
  <2>5. ASSUME NEW c \in Conns, AddLink(c) PROVE TypeOK'
    BY <2>5 DEF AddLink
  <2>6. ASSUME NEW c \in Conns, Recheck(c) PROVE TypeOK'
    BY <2>6 DEF Recheck
  <2>7. ASSUME NEW c \in Conns, RecheckFails(c) PROVE TypeOK'
    BY <2>7 DEF RecheckFails
  <2>8. ASSUME NEW c \in Conns, DeniedCloseAll(c) PROVE TypeOK'
    BY <2>8 DEF DeniedCloseAll, TakeLinks
  <2>9. ASSUME NEW c \in Conns, CompareAndDelete(c) PROVE TypeOK'
    BY <2>9 DEF CompareAndDelete, Gone
  <2>10. ASSUME NEW c \in Conns, End(c) PROVE TypeOK'
    BY <2>10 DEF End, Gone
  <2>11. ASSUME NEW k \in Closers, NEW c \in Conns, CloseLink(k, c) PROVE TypeOK'
    BY <2>11 DEF CloseLink
  <2>12. ASSUME AddNode PROVE TypeOK'
    BY <2>12 DEF AddNode
  <2>13. ASSUME DelNode PROVE TypeOK'
    BY <2>13 DEF DelNode
  <2>14. ASSUME NEW S \in SUBSET Users, AddUsers(S) PROVE TypeOK'
    BY <2>14 DEF AddUsers
  <2>15. ASSUME NEW S \in SUBSET Users, DelUsers(S) PROVE TypeOK'
    BY <2>15 DEF DelUsers
  <2>16. ASSUME NEW u \in Users, Install(u) PROVE TypeOK'
    BY <2>16 DEF Install
  <2>17. ASSUME NEW u \in Users, ForgetManager(u) PROVE TypeOK'
    BY <2>17 DEF ForgetManager
  <2>18. ASSUME NEW u \in Users, RemoveUser(u) PROVE TypeOK'
    BY <2>18 DEF RemoveUser
  <2>19. ASSUME InstallFails PROVE TypeOK'
    BY <2>19 DEF InstallFails
  <2>20. ASSUME Installed PROVE TypeOK'
    BY <2>20 DEF Installed
  <2>21. ASSUME Allow PROVE TypeOK'
    BY <2>21 DEF Allow
  <2>22. ASSUME AddUsersReturns PROVE TypeOK'
    BY <2>22 DEF AddUsersReturns
  <2>23. ASSUME RemoveUserFails PROVE TypeOK'
    BY <2>23 DEF RemoveUserFails
  <2>24. ASSUME Forbid PROVE TypeOK'
    BY <2>24 DEF Forbid
  <2>25. ASSUME LoadForClose PROVE TypeOK'
    BY <2>25 DEF LoadForClose
  <2>26. ASSUME AdminCloseAll PROVE TypeOK'
    BY <2>26 DEF AdminCloseAll, TakeLinks
  <2>27. ASSUME DeleteManager PROVE TypeOK'
    BY <2>27 DEF DeleteManager
  <2>28. ASSUME DelReturns PROVE TypeOK'
    BY <2>28 DEF DelReturns
  <2>29. ASSUME UNCHANGED vars PROVE TypeOK'
    BY <2>29 DEF vars
  <2> QED
    BY <2>1, <2>2, <2>3, <2>4, <2>5, <2>6, <2>7, <2>8, <2>9, <2>10, <2>11, <2>12, <2>13, <2>14, <2>15, <2>16, <2>17, <2>18, <2>19, <2>20, <2>21, <2>22, <2>23, <2>24, <2>25, <2>26, <2>27, <2>28, <2>29 DEF Next, ConnStep, AdminCall, AdminStep

(* Every variable keeps to the values the code can store in it. *)
THEOREM TypeCorrect == Spec => []TypeOK
<1>1. Init => TypeOK
  BY ConstantsAssumption DEF Init, TypeOK, ConnPhases, AdminPhases, Closers, Holds
<1> QED
  BY <1>1, TypeStep, PTL DEF Spec

LEMMA AdminOrderStep == IInv /\ [Next]_vars => AdminOrder'
<1> SUFFICES ASSUME IInv, [Next]_vars PROVE AdminOrder'
  OBVIOUS
<1> USE ConstantsAssumption DEF TypeOK, connVars, adminVars, mgrVars, Closers, Holds, IInv, AdminOrder
<1> QED
  <2>1. ASSUME NEW c \in Conns, Open(c) PROVE AdminOrder'
    BY <2>1 DEF Open
  <2>2. ASSUME NEW c \in Conns, Reject(c) PROVE AdminOrder'
    BY <2>2 DEF Reject, Gone
  <2>3. ASSUME NEW c \in Conns, LoadManager(c) PROVE AdminOrder'
    BY <2>3 DEF LoadManager
  <2>4. ASSUME NEW c \in Conns, StoreManager(c) PROVE AdminOrder'
    BY <2>4 DEF StoreManager, Referenced
  <2>5. ASSUME NEW c \in Conns, AddLink(c) PROVE AdminOrder'
    BY <2>5 DEF AddLink
  <2>6. ASSUME NEW c \in Conns, Recheck(c) PROVE AdminOrder'
    BY <2>6 DEF Recheck
  <2>7. ASSUME NEW c \in Conns, RecheckFails(c) PROVE AdminOrder'
    BY <2>7 DEF RecheckFails
  <2>8. ASSUME NEW c \in Conns, DeniedCloseAll(c) PROVE AdminOrder'
    BY <2>8 DEF DeniedCloseAll, TakeLinks
  <2>9. ASSUME NEW c \in Conns, CompareAndDelete(c) PROVE AdminOrder'
    BY <2>9 DEF CompareAndDelete, Gone
  <2>10. ASSUME NEW c \in Conns, End(c) PROVE AdminOrder'
    BY <2>10 DEF End, Gone
  <2>11. ASSUME NEW k \in Closers, NEW c \in Conns, CloseLink(k, c) PROVE AdminOrder'
    BY <2>11 DEF CloseLink
  <2>12. ASSUME AddNode PROVE AdminOrder'
    BY <2>12 DEF AddNode
  <2>13. ASSUME DelNode PROVE AdminOrder'
    BY <2>13 DEF DelNode
  <2>14. ASSUME NEW S \in SUBSET Users, AddUsers(S) PROVE AdminOrder'
    BY <2>14 DEF AddUsers
  <2>15. ASSUME NEW S \in SUBSET Users, DelUsers(S) PROVE AdminOrder'
    BY <2>15 DEF DelUsers
  <2>16. ASSUME NEW u \in Users, Install(u) PROVE AdminOrder'
    BY <2>16 DEF Install
  <2>17. ASSUME NEW u \in Users, ForgetManager(u) PROVE AdminOrder'
    BY <2>17 DEF ForgetManager
  <2>18. ASSUME NEW u \in Users, RemoveUser(u) PROVE AdminOrder'
    BY <2>18 DEF RemoveUser
  <2>19. ASSUME InstallFails PROVE AdminOrder'
    BY <2>19 DEF InstallFails
  <2>20. ASSUME Installed PROVE AdminOrder'
    BY <2>20 DEF Installed
  <2>21. ASSUME Allow PROVE AdminOrder'
    BY <2>21 DEF Allow
  <2>22. ASSUME AddUsersReturns PROVE AdminOrder'
    BY <2>22 DEF AddUsersReturns
  <2>23. ASSUME RemoveUserFails PROVE AdminOrder'
    BY <2>23 DEF RemoveUserFails
  <2>24. ASSUME Forbid PROVE AdminOrder'
    BY <2>24 DEF Forbid
  <2>25. ASSUME LoadForClose PROVE AdminOrder'
    BY <2>25 DEF LoadForClose
  <2>26. ASSUME AdminCloseAll PROVE AdminOrder'
    BY <2>26 DEF AdminCloseAll, TakeLinks
  <2>27. ASSUME DeleteManager PROVE AdminOrder'
    BY <2>27 DEF DeleteManager
  <2>28. ASSUME DelReturns PROVE AdminOrder'
    BY <2>28 DEF DelReturns
  <2>29. ASSUME UNCHANGED vars PROVE AdminOrder'
    BY <2>29 DEF vars
  <2> QED
    BY <2>1, <2>2, <2>3, <2>4, <2>5, <2>6, <2>7, <2>8, <2>9, <2>10, <2>11, <2>12, <2>13, <2>14, <2>15, <2>16, <2>17, <2>18, <2>19, <2>20, <2>21, <2>22, <2>23, <2>24, <2>25, <2>26, <2>27, <2>28, <2>29 DEF Next, ConnStep, AdminCall, AdminStep

LEMMA ManagerOrderStep == IInv /\ [Next]_vars => ManagerOrder'
<1> SUFFICES ASSUME IInv, [Next]_vars PROVE ManagerOrder'
  OBVIOUS
<1> USE ConstantsAssumption DEF TypeOK, connVars, adminVars, mgrVars, Closers, Holds, IInv, ManagerOrder
<1> QED
  <2>1. ASSUME NEW c \in Conns, Open(c) PROVE ManagerOrder'
    BY <2>1 DEF Open
  <2>2. ASSUME NEW c \in Conns, Reject(c) PROVE ManagerOrder'
    BY <2>2 DEF Reject, Gone
  <2>3. ASSUME NEW c \in Conns, LoadManager(c) PROVE ManagerOrder'
    BY <2>3 DEF LoadManager
  <2>4. ASSUME NEW c \in Conns, StoreManager(c) PROVE ManagerOrder'
    BY <2>4 DEF StoreManager, Referenced
  <2>5. ASSUME NEW c \in Conns, AddLink(c) PROVE ManagerOrder'
    BY <2>5 DEF AddLink
  <2>6. ASSUME NEW c \in Conns, Recheck(c) PROVE ManagerOrder'
    BY <2>6 DEF Recheck
  <2>7. ASSUME NEW c \in Conns, RecheckFails(c) PROVE ManagerOrder'
    BY <2>7 DEF RecheckFails
  <2>8. ASSUME NEW c \in Conns, DeniedCloseAll(c) PROVE ManagerOrder'
    BY <2>8 DEF DeniedCloseAll, TakeLinks
  <2>9. ASSUME NEW c \in Conns, CompareAndDelete(c) PROVE ManagerOrder'
    BY <2>9 DEF CompareAndDelete, Gone
  <2>10. ASSUME NEW c \in Conns, End(c) PROVE ManagerOrder'
    BY <2>10 DEF End, Gone
  <2>11. ASSUME NEW k \in Closers, NEW c \in Conns, CloseLink(k, c) PROVE ManagerOrder'
    BY <2>11 DEF CloseLink
  <2>12. ASSUME AddNode PROVE ManagerOrder'
    BY <2>12 DEF AddNode
  <2>13. ASSUME DelNode PROVE ManagerOrder'
    BY <2>13 DEF DelNode
  <2>14. ASSUME NEW S \in SUBSET Users, AddUsers(S) PROVE ManagerOrder'
    BY <2>14 DEF AddUsers
  <2>15. ASSUME NEW S \in SUBSET Users, DelUsers(S) PROVE ManagerOrder'
    BY <2>15 DEF DelUsers
  <2>16. ASSUME NEW u \in Users, Install(u) PROVE ManagerOrder'
    BY <2>16 DEF Install
  <2>17. ASSUME NEW u \in Users, ForgetManager(u) PROVE ManagerOrder'
    BY <2>17 DEF ForgetManager
  <2>18. ASSUME NEW u \in Users, RemoveUser(u) PROVE ManagerOrder'
    BY <2>18 DEF RemoveUser
  <2>19. ASSUME InstallFails PROVE ManagerOrder'
    BY <2>19 DEF InstallFails
  <2>20. ASSUME Installed PROVE ManagerOrder'
    BY <2>20 DEF Installed
  <2>21. ASSUME Allow PROVE ManagerOrder'
    BY <2>21 DEF Allow
  <2>22. ASSUME AddUsersReturns PROVE ManagerOrder'
    BY <2>22 DEF AddUsersReturns
  <2>23. ASSUME RemoveUserFails PROVE ManagerOrder'
    BY <2>23 DEF RemoveUserFails
  <2>24. ASSUME Forbid PROVE ManagerOrder'
    BY <2>24 DEF Forbid
  <2>25. ASSUME LoadForClose PROVE ManagerOrder'
    BY <2>25 DEF LoadForClose
  <2>26. ASSUME AdminCloseAll PROVE ManagerOrder'
    BY <2>26 DEF AdminCloseAll, TakeLinks
  <2>27. ASSUME DeleteManager PROVE ManagerOrder'
    BY <2>27 DEF DeleteManager
  <2>28. ASSUME DelReturns PROVE ManagerOrder'
    BY <2>28 DEF DelReturns
  <2>29. ASSUME UNCHANGED vars PROVE ManagerOrder'
    BY <2>29 DEF vars
  <2> QED
    BY <2>1, <2>2, <2>3, <2>4, <2>5, <2>6, <2>7, <2>8, <2>9, <2>10, <2>11, <2>12, <2>13, <2>14, <2>15, <2>16, <2>17, <2>18, <2>19, <2>20, <2>21, <2>22, <2>23, <2>24, <2>25, <2>26, <2>27, <2>28, <2>29 DEF Next, ConnStep, AdminCall, AdminStep

LEMMA RegisteredStep == IInv /\ [Next]_vars => Registered'
<1> SUFFICES ASSUME IInv, [Next]_vars PROVE Registered'
  OBVIOUS
<1> USE ConstantsAssumption DEF TypeOK, connVars, adminVars, mgrVars, Closers, Holds, IInv, ManagerOrder, Registered
<1> QED
  <2>1. ASSUME NEW c \in Conns, Open(c) PROVE Registered'
    BY <2>1 DEF Open
  <2>2. ASSUME NEW c \in Conns, Reject(c) PROVE Registered'
    BY <2>2 DEF Reject, Gone
  <2>3. ASSUME NEW c \in Conns, LoadManager(c) PROVE Registered'
    BY <2>3 DEF LoadManager
  <2>4. ASSUME NEW c \in Conns, StoreManager(c) PROVE Registered'
    BY <2>4 DEF StoreManager, Referenced
  <2>5. ASSUME NEW c \in Conns, AddLink(c) PROVE Registered'
    BY <2>5 DEF AddLink
  <2>6. ASSUME NEW c \in Conns, Recheck(c) PROVE Registered'
    BY <2>6 DEF Recheck
  <2>7. ASSUME NEW c \in Conns, RecheckFails(c) PROVE Registered'
    BY <2>7 DEF RecheckFails
  <2>8. ASSUME NEW c \in Conns, DeniedCloseAll(c) PROVE Registered'
    BY <2>8 DEF DeniedCloseAll, TakeLinks
  <2>9. ASSUME NEW c \in Conns, CompareAndDelete(c) PROVE Registered'
    BY <2>9 DEF CompareAndDelete, Gone
  <2>10. ASSUME NEW c \in Conns, End(c) PROVE Registered'
    BY <2>10 DEF End, Gone
  <2>11. ASSUME NEW k \in Closers, NEW c \in Conns, CloseLink(k, c) PROVE Registered'
    BY <2>11 DEF CloseLink
  <2>12. ASSUME AddNode PROVE Registered'
    BY <2>12 DEF AddNode
  <2>13. ASSUME DelNode PROVE Registered'
    BY <2>13 DEF DelNode
  <2>14. ASSUME NEW S \in SUBSET Users, AddUsers(S) PROVE Registered'
    BY <2>14 DEF AddUsers
  <2>15. ASSUME NEW S \in SUBSET Users, DelUsers(S) PROVE Registered'
    BY <2>15 DEF DelUsers
  <2>16. ASSUME NEW u \in Users, Install(u) PROVE Registered'
    BY <2>16 DEF Install
  <2>17. ASSUME NEW u \in Users, ForgetManager(u) PROVE Registered'
    BY <2>17 DEF ForgetManager
  <2>18. ASSUME NEW u \in Users, RemoveUser(u) PROVE Registered'
    BY <2>18 DEF RemoveUser
  <2>19. ASSUME InstallFails PROVE Registered'
    BY <2>19 DEF InstallFails
  <2>20. ASSUME Installed PROVE Registered'
    BY <2>20 DEF Installed
  <2>21. ASSUME Allow PROVE Registered'
    BY <2>21 DEF Allow
  <2>22. ASSUME AddUsersReturns PROVE Registered'
    BY <2>22 DEF AddUsersReturns
  <2>23. ASSUME RemoveUserFails PROVE Registered'
    BY <2>23 DEF RemoveUserFails
  <2>24. ASSUME Forbid PROVE Registered'
    BY <2>24 DEF Forbid
  <2>25. ASSUME LoadForClose PROVE Registered'
    BY <2>25 DEF LoadForClose
  <2>26. ASSUME AdminCloseAll PROVE Registered'
    BY <2>26 DEF AdminCloseAll, TakeLinks
  <2>27. ASSUME DeleteManager PROVE Registered'
    BY <2>27 DEF DeleteManager
  <2>28. ASSUME DelReturns PROVE Registered'
    BY <2>28 DEF DelReturns
  <2>29. ASSUME UNCHANGED vars PROVE Registered'
    BY <2>29 DEF vars
  <2> QED
    BY <2>1, <2>2, <2>3, <2>4, <2>5, <2>6, <2>7, <2>8, <2>9, <2>10, <2>11, <2>12, <2>13, <2>14, <2>15, <2>16, <2>17, <2>18, <2>19, <2>20, <2>21, <2>22, <2>23, <2>24, <2>25, <2>26, <2>27, <2>28, <2>29 DEF Next, ConnStep, AdminCall, AdminStep

LEMMA ReachableStep == IInv /\ [Next]_vars => Reachable'
<1> SUFFICES ASSUME IInv, [Next]_vars PROVE Reachable'
  OBVIOUS
<1> USE ConstantsAssumption DEF TypeOK, connVars, adminVars, mgrVars, Closers, Holds, IInv, AdminOrder, ManagerOrder, Reachable, Revoked
<1> QED
  <2>1. ASSUME NEW c \in Conns, Open(c) PROVE Reachable'
    BY <2>1 DEF Open
  <2>2. ASSUME NEW c \in Conns, Reject(c) PROVE Reachable'
    BY <2>2 DEF Reject, Gone
  <2>3. ASSUME NEW c \in Conns, LoadManager(c) PROVE Reachable'
    BY <2>3 DEF LoadManager
  <2>4. ASSUME NEW c \in Conns, StoreManager(c) PROVE Reachable'
    BY <2>4 DEF StoreManager, Referenced
  <2>5. ASSUME NEW c \in Conns, AddLink(c) PROVE Reachable'
    BY <2>5 DEF AddLink
  <2>6. ASSUME NEW c \in Conns, Recheck(c) PROVE Reachable'
    BY <2>6 DEF Recheck
  <2>7. ASSUME NEW c \in Conns, RecheckFails(c) PROVE Reachable'
    BY <2>7 DEF RecheckFails
  <2>8. ASSUME NEW c \in Conns, DeniedCloseAll(c) PROVE Reachable'
    BY <2>8 DEF DeniedCloseAll, TakeLinks
  <2>9. ASSUME NEW c \in Conns, CompareAndDelete(c) PROVE Reachable'
    BY <2>9 DEF CompareAndDelete, Gone
  <2>10. ASSUME NEW c \in Conns, End(c) PROVE Reachable'
    BY <2>10 DEF End, Gone
  <2>11. ASSUME NEW k \in Closers, NEW c \in Conns, CloseLink(k, c) PROVE Reachable'
    BY <2>11 DEF CloseLink
  <2>12. ASSUME AddNode PROVE Reachable'
    BY <2>12 DEF AddNode
  <2>13. ASSUME DelNode PROVE Reachable'
    BY <2>13 DEF DelNode
  <2>14. ASSUME NEW S \in SUBSET Users, AddUsers(S) PROVE Reachable'
    BY <2>14 DEF AddUsers
  <2>15. ASSUME NEW S \in SUBSET Users, DelUsers(S) PROVE Reachable'
    BY <2>15 DEF DelUsers
  <2>16. ASSUME NEW u \in Users, Install(u) PROVE Reachable'
    BY <2>16 DEF Install
  <2>17. ASSUME NEW u \in Users, ForgetManager(u) PROVE Reachable'
    BY <2>17 DEF ForgetManager
  <2>18. ASSUME NEW u \in Users, RemoveUser(u) PROVE Reachable'
    BY <2>18 DEF RemoveUser
  <2>19. ASSUME InstallFails PROVE Reachable'
    BY <2>19 DEF InstallFails
  <2>20. ASSUME Installed PROVE Reachable'
    BY <2>20 DEF Installed
  <2>21. ASSUME Allow PROVE Reachable'
    BY <2>21 DEF Allow
  <2>22. ASSUME AddUsersReturns PROVE Reachable'
    BY <2>22 DEF AddUsersReturns
  <2>23. ASSUME RemoveUserFails PROVE Reachable'
    BY <2>23 DEF RemoveUserFails
  <2>24. ASSUME Forbid PROVE Reachable'
    BY <2>24 DEF Forbid
  <2>25. ASSUME LoadForClose PROVE Reachable'
    BY <2>25 DEF LoadForClose
  <2>26. ASSUME AdminCloseAll PROVE Reachable'
    BY <2>26 DEF AdminCloseAll, TakeLinks
  <2>27. ASSUME DeleteManager PROVE Reachable'
    BY <2>27 DEF DeleteManager
  <2>28. ASSUME DelReturns PROVE Reachable'
    BY <2>28 DEF DelReturns
  <2>29. ASSUME UNCHANGED vars PROVE Reachable'
    BY <2>29 DEF vars
  <2> QED
    BY <2>1, <2>2, <2>3, <2>4, <2>5, <2>6, <2>7, <2>8, <2>9, <2>10, <2>11, <2>12, <2>13, <2>14, <2>15, <2>16, <2>17, <2>18, <2>19, <2>20, <2>21, <2>22, <2>23, <2>24, <2>25, <2>26, <2>27, <2>28, <2>29 DEF Next, ConnStep, AdminCall, AdminStep

LEMMA RevokedStep == IInv /\ [Next]_vars => Revoked'
<1> SUFFICES ASSUME IInv, [Next]_vars PROVE Revoked'
  OBVIOUS
<1> USE ConstantsAssumption DEF TypeOK, connVars, adminVars, mgrVars, Closers, Holds, IInv, AdminOrder, ManagerOrder, Reachable, Revoked
<1> QED
  <2>1. ASSUME NEW c \in Conns, Open(c) PROVE Revoked'
    BY <2>1 DEF Open
  <2>2. ASSUME NEW c \in Conns, Reject(c) PROVE Revoked'
    BY <2>2 DEF Reject, Gone
  <2>3. ASSUME NEW c \in Conns, LoadManager(c) PROVE Revoked'
    BY <2>3 DEF LoadManager
  <2>4. ASSUME NEW c \in Conns, StoreManager(c) PROVE Revoked'
    BY <2>4 DEF StoreManager, Referenced
  <2>5. ASSUME NEW c \in Conns, AddLink(c) PROVE Revoked'
    BY <2>5 DEF AddLink
  <2>6. ASSUME NEW c \in Conns, Recheck(c) PROVE Revoked'
    BY <2>6 DEF Recheck
  <2>7. ASSUME NEW c \in Conns, RecheckFails(c) PROVE Revoked'
    BY <2>7 DEF RecheckFails
  <2>8. ASSUME NEW c \in Conns, DeniedCloseAll(c) PROVE Revoked'
    BY <2>8 DEF DeniedCloseAll, TakeLinks
  <2>9. ASSUME NEW c \in Conns, CompareAndDelete(c) PROVE Revoked'
    BY <2>9 DEF CompareAndDelete, Gone
  <2>10. ASSUME NEW c \in Conns, End(c) PROVE Revoked'
    BY <2>10 DEF End, Gone
  <2>11. ASSUME NEW k \in Closers, NEW c \in Conns, CloseLink(k, c) PROVE Revoked'
    BY <2>11 DEF CloseLink
  <2>12. ASSUME AddNode PROVE Revoked'
    BY <2>12 DEF AddNode
  <2>13. ASSUME DelNode PROVE Revoked'
    BY <2>13 DEF DelNode
  <2>14. ASSUME NEW S \in SUBSET Users, AddUsers(S) PROVE Revoked'
    BY <2>14 DEF AddUsers
  <2>15. ASSUME NEW S \in SUBSET Users, DelUsers(S) PROVE Revoked'
    BY <2>15 DEF DelUsers
  <2>16. ASSUME NEW u \in Users, Install(u) PROVE Revoked'
    BY <2>16 DEF Install
  <2>17. ASSUME NEW u \in Users, ForgetManager(u) PROVE Revoked'
    BY <2>17 DEF ForgetManager
  <2>18. ASSUME NEW u \in Users, RemoveUser(u) PROVE Revoked'
    BY <2>18 DEF RemoveUser
  <2>19. ASSUME InstallFails PROVE Revoked'
    BY <2>19 DEF InstallFails
  <2>20. ASSUME Installed PROVE Revoked'
    BY <2>20 DEF Installed
  <2>21. ASSUME Allow PROVE Revoked'
    BY <2>21 DEF Allow
  <2>22. ASSUME AddUsersReturns PROVE Revoked'
    BY <2>22 DEF AddUsersReturns
  <2>23. ASSUME RemoveUserFails PROVE Revoked'
    BY <2>23 DEF RemoveUserFails
  <2>24. ASSUME Forbid PROVE Revoked'
    BY <2>24 DEF Forbid
  <2>25. ASSUME LoadForClose PROVE Revoked'
    BY <2>25 DEF LoadForClose
  <2>26. ASSUME AdminCloseAll PROVE Revoked'
    BY <2>26 DEF AdminCloseAll, TakeLinks
  <2>27. ASSUME DeleteManager PROVE Revoked'
    BY <2>27 DEF DeleteManager
  <2>28. ASSUME DelReturns PROVE Revoked'
    BY <2>28 DEF DelReturns
  <2>29. ASSUME UNCHANGED vars PROVE Revoked'
    BY <2>29 DEF vars
  <2> QED
    BY <2>1, <2>2, <2>3, <2>4, <2>5, <2>6, <2>7, <2>8, <2>9, <2>10, <2>11, <2>12, <2>13, <2>14, <2>15, <2>16, <2>17, <2>18, <2>19, <2>20, <2>21, <2>22, <2>23, <2>24, <2>25, <2>26, <2>27, <2>28, <2>29 DEF Next, ConnStep, AdminCall, AdminStep

LEMMA OneUserStep == RInv /\ [Next]_vars => OneUserPerManager'
<1> SUFFICES ASSUME RInv, [Next]_vars PROVE OneUserPerManager'
  OBVIOUS
<1> USE ConstantsAssumption DEF TypeOK, connVars, adminVars, mgrVars, Closers, Holds, RInv, IInv, AdminOrder, ManagerOrder, OneUserPerManager
<1> QED
  <2>1. ASSUME NEW c \in Conns, Open(c) PROVE OneUserPerManager'
    BY <2>1 DEF Open
  <2>2. ASSUME NEW c \in Conns, Reject(c) PROVE OneUserPerManager'
    BY <2>2 DEF Reject, Gone
  <2>3. ASSUME NEW c \in Conns, LoadManager(c) PROVE OneUserPerManager'
    BY <2>3 DEF LoadManager
  <2>4. ASSUME NEW c \in Conns, StoreManager(c) PROVE OneUserPerManager'
    BY <2>4 DEF StoreManager, Referenced
  <2>5. ASSUME NEW c \in Conns, AddLink(c) PROVE OneUserPerManager'
    BY <2>5 DEF AddLink
  <2>6. ASSUME NEW c \in Conns, Recheck(c) PROVE OneUserPerManager'
    BY <2>6 DEF Recheck
  <2>7. ASSUME NEW c \in Conns, RecheckFails(c) PROVE OneUserPerManager'
    BY <2>7 DEF RecheckFails
  <2>8. ASSUME NEW c \in Conns, DeniedCloseAll(c) PROVE OneUserPerManager'
    BY <2>8 DEF DeniedCloseAll, TakeLinks
  <2>9. ASSUME NEW c \in Conns, CompareAndDelete(c) PROVE OneUserPerManager'
    BY <2>9 DEF CompareAndDelete, Gone
  <2>10. ASSUME NEW c \in Conns, End(c) PROVE OneUserPerManager'
    BY <2>10 DEF End, Gone
  <2>11. ASSUME NEW k \in Closers, NEW c \in Conns, CloseLink(k, c) PROVE OneUserPerManager'
    BY <2>11 DEF CloseLink
  <2>12. ASSUME AddNode PROVE OneUserPerManager'
    BY <2>12 DEF AddNode
  <2>13. ASSUME DelNode PROVE OneUserPerManager'
    BY <2>13 DEF DelNode
  <2>14. ASSUME NEW S \in SUBSET Users, AddUsers(S) PROVE OneUserPerManager'
    BY <2>14 DEF AddUsers
  <2>15. ASSUME NEW S \in SUBSET Users, DelUsers(S) PROVE OneUserPerManager'
    BY <2>15 DEF DelUsers
  <2>16. ASSUME NEW u \in Users, Install(u) PROVE OneUserPerManager'
    BY <2>16 DEF Install
  <2>17. ASSUME NEW u \in Users, ForgetManager(u) PROVE OneUserPerManager'
    BY <2>17 DEF ForgetManager
  <2>18. ASSUME NEW u \in Users, RemoveUser(u) PROVE OneUserPerManager'
    BY <2>18 DEF RemoveUser
  <2>19. ASSUME InstallFails PROVE OneUserPerManager'
    BY <2>19 DEF InstallFails
  <2>20. ASSUME Installed PROVE OneUserPerManager'
    BY <2>20 DEF Installed
  <2>21. ASSUME Allow PROVE OneUserPerManager'
    BY <2>21 DEF Allow
  <2>22. ASSUME AddUsersReturns PROVE OneUserPerManager'
    BY <2>22 DEF AddUsersReturns
  <2>23. ASSUME RemoveUserFails PROVE OneUserPerManager'
    BY <2>23 DEF RemoveUserFails
  <2>24. ASSUME Forbid PROVE OneUserPerManager'
    BY <2>24 DEF Forbid
  <2>25. ASSUME LoadForClose PROVE OneUserPerManager'
    BY <2>25 DEF LoadForClose
  <2>26. ASSUME AdminCloseAll PROVE OneUserPerManager'
    BY <2>26 DEF AdminCloseAll, TakeLinks
  <2>27. ASSUME DeleteManager PROVE OneUserPerManager'
    BY <2>27 DEF DeleteManager
  <2>28. ASSUME DelReturns PROVE OneUserPerManager'
    BY <2>28 DEF DelReturns
  <2>29. ASSUME UNCHANGED vars PROVE OneUserPerManager'
    BY <2>29 DEF vars
  <2> QED
    BY <2>1, <2>2, <2>3, <2>4, <2>5, <2>6, <2>7, <2>8, <2>9, <2>10, <2>11, <2>12, <2>13, <2>14, <2>15, <2>16, <2>17, <2>18, <2>19, <2>20, <2>21, <2>22, <2>23, <2>24, <2>25, <2>26, <2>27, <2>28, <2>29 DEF Next, ConnStep, AdminCall, AdminStep

LEMMA RemovedStep == RInv /\ [Next]_vars => ClosedManagerIsRemoved'
<1> SUFFICES ASSUME RInv, [Next]_vars PROVE ClosedManagerIsRemoved'
  OBVIOUS
<1> USE ConstantsAssumption DEF TypeOK, connVars, adminVars, mgrVars, Closers, Holds, RInv, IInv, AdminOrder, ManagerOrder, OneUserPerManager, ClosedManagerIsRemoved
<1> QED
  <2>1. ASSUME NEW c \in Conns, Open(c) PROVE ClosedManagerIsRemoved'
    BY <2>1 DEF Open
  <2>2. ASSUME NEW c \in Conns, Reject(c) PROVE ClosedManagerIsRemoved'
    BY <2>2 DEF Reject, Gone
  <2>3. ASSUME NEW c \in Conns, LoadManager(c) PROVE ClosedManagerIsRemoved'
    BY <2>3 DEF LoadManager
  <2>4. ASSUME NEW c \in Conns, StoreManager(c) PROVE ClosedManagerIsRemoved'
    BY <2>4 DEF StoreManager, Referenced
  <2>5. ASSUME NEW c \in Conns, AddLink(c) PROVE ClosedManagerIsRemoved'
    BY <2>5 DEF AddLink
  <2>6. ASSUME NEW c \in Conns, Recheck(c) PROVE ClosedManagerIsRemoved'
    BY <2>6 DEF Recheck
  <2>7. ASSUME NEW c \in Conns, RecheckFails(c) PROVE ClosedManagerIsRemoved'
    BY <2>7 DEF RecheckFails
  <2>8. ASSUME NEW c \in Conns, DeniedCloseAll(c) PROVE ClosedManagerIsRemoved'
    BY <2>8 DEF DeniedCloseAll, TakeLinks
  <2>9. ASSUME NEW c \in Conns, CompareAndDelete(c) PROVE ClosedManagerIsRemoved'
    BY <2>9 DEF CompareAndDelete, Gone
  <2>10. ASSUME NEW c \in Conns, End(c) PROVE ClosedManagerIsRemoved'
    BY <2>10 DEF End, Gone
  <2>11. ASSUME NEW k \in Closers, NEW c \in Conns, CloseLink(k, c) PROVE ClosedManagerIsRemoved'
    BY <2>11 DEF CloseLink
  <2>12. ASSUME AddNode PROVE ClosedManagerIsRemoved'
    BY <2>12 DEF AddNode
  <2>13. ASSUME DelNode PROVE ClosedManagerIsRemoved'
    BY <2>13 DEF DelNode
  <2>14. ASSUME NEW S \in SUBSET Users, AddUsers(S) PROVE ClosedManagerIsRemoved'
    BY <2>14 DEF AddUsers
  <2>15. ASSUME NEW S \in SUBSET Users, DelUsers(S) PROVE ClosedManagerIsRemoved'
    BY <2>15 DEF DelUsers
  <2>16. ASSUME NEW u \in Users, Install(u) PROVE ClosedManagerIsRemoved'
    BY <2>16 DEF Install
  <2>17. ASSUME NEW u \in Users, ForgetManager(u) PROVE ClosedManagerIsRemoved'
    BY <2>17 DEF ForgetManager
  <2>18. ASSUME NEW u \in Users, RemoveUser(u) PROVE ClosedManagerIsRemoved'
    BY <2>18 DEF RemoveUser
  <2>19. ASSUME InstallFails PROVE ClosedManagerIsRemoved'
    BY <2>19 DEF InstallFails
  <2>20. ASSUME Installed PROVE ClosedManagerIsRemoved'
    BY <2>20 DEF Installed
  <2>21. ASSUME Allow PROVE ClosedManagerIsRemoved'
    BY <2>21 DEF Allow
  <2>22. ASSUME AddUsersReturns PROVE ClosedManagerIsRemoved'
    BY <2>22 DEF AddUsersReturns
  <2>23. ASSUME RemoveUserFails PROVE ClosedManagerIsRemoved'
    BY <2>23 DEF RemoveUserFails
  <2>24. ASSUME Forbid PROVE ClosedManagerIsRemoved'
    BY <2>24 DEF Forbid
  <2>25. ASSUME LoadForClose PROVE ClosedManagerIsRemoved'
    BY <2>25 DEF LoadForClose
  <2>26. ASSUME AdminCloseAll PROVE ClosedManagerIsRemoved'
    BY <2>26 DEF AdminCloseAll, TakeLinks
  <2>27. ASSUME DeleteManager PROVE ClosedManagerIsRemoved'
    BY <2>27 DEF DeleteManager
  <2>28. ASSUME DelReturns PROVE ClosedManagerIsRemoved'
    BY <2>28 DEF DelReturns
  <2>29. ASSUME UNCHANGED vars PROVE ClosedManagerIsRemoved'
    BY <2>29 DEF vars
  <2> QED
    BY <2>1, <2>2, <2>3, <2>4, <2>5, <2>6, <2>7, <2>8, <2>9, <2>10, <2>11, <2>12, <2>13, <2>14, <2>15, <2>16, <2>17, <2>18, <2>19, <2>20, <2>21, <2>22, <2>23, <2>24, <2>25, <2>26, <2>27, <2>28, <2>29 DEF Next, ConnStep, AdminCall, AdminStep

LEMMA InvStep == IInv /\ [Next]_vars => IInv'
BY TypeStep, AdminOrderStep, ManagerOrderStep, RegisteredStep, ReachableStep, RevokedStep DEF IInv

LEMMA InvInit == Init => IInv
BY ConstantsAssumption
DEF Init, IInv, TypeOK, ConnPhases, AdminPhases, Closers, Holds,
    AdminOrder, ManagerOrder, Registered, Reachable, Revoked

(* A connection whose user DelUsers or DelNode is done with is closed, or   *)
(* in the hands of a CloseAll: Revoked makes its manager closed, a closed   *)
(* manager has no link left, and an open connection is registered.          *)
THEOREM RevocationClosesConnections == Spec => []RevokedConnClosed
<1>1. IInv => RevokedConnClosed
  <2> SUFFICES ASSUME IInv, NEW c \in Conns, Live(c), user[c] \notin allowed, ~crossed[c]
               PROVE  BeingClosed(c)
    BY DEF RevokedConnClosed
  <2>1. CASE op \in {"load", "take"} /\ cur = user[c]
    BY <2>1 DEF BeingClosed
  <2>2. CASE closed[mgr[c]]
    <3>1. mgr[c] \in Managers
      BY DEF IInv, TypeOK, Holds, Live
    <3>2. members[mgr[c]] = {}
      BY <2>2, <3>1 DEF IInv, ManagerOrder
    <3> QED
      BY <3>2 DEF IInv, Registered, Live, BeingClosed
  <2> QED
    BY <2>1, <2>2 DEF IInv, Revoked, Live
<1> QED
  BY <1>1, InvInit, InvStep, PTL DEF Spec

LEMMA RInvStep == RInv /\ [Next]_vars => RInv'
BY InvStep, OneUserStep, RemovedStep DEF RInv

(* No closed manager stays in LinkManagers, where it would turn away every  *)
(* later connection of an allowed user.                                     *)
THEOREM ClosedManagersLeave == Spec => []ClosedManagerIsRemoved
<1>1. Init => RInv
  BY InvInit, ConstantsAssumption
  DEF Init, RInv, OneUserPerManager, ClosedManagerIsRemoved, Holds
<1>2. RInv => ClosedManagerIsRemoved
  BY DEF RInv
<1> QED
  BY <1>1, <1>2, RInvStep, PTL DEF Spec


-----------------------------------------------------------------------------
(* XrayTraffic *)


-----------------------------------------------------------------------------
(* The inductive invariant. *)

Deletion == {"forbid", "load", "take", "close"}
Retiring == mode = "retire" /\ op \in Deletion \cup {"pick"}

(* The user whose deletion is under way, from AllowedUsers.Delete on. *)
Leaving(u) ==
  \/ op \in {"load", "take", "close"} /\ cur = u
  \/ settling = u
  \/ dropping = u

(* A storage in the table belongs to one user, and so do its dispatches. *)
OneOwner ==
  /\ \A u, v \in Users : entry[u] # NoStorage /\ entry[u] = entry[v] => u = v
  /\ \A c \in Conns, u \in Users :
       cnt[c] # NoStorage /\ cnt[c] = entry[u] => user[c] = u

(* What a dispatch holds, and since when. *)
Holdings ==
  \A c \in Conns :
    /\ conn[c] = "idle" => table[c] = "none"
    /\ table[c] = "none" => cnt[c] = NoStorage
    /\ table[c] = "dropped" => severed[c]

(* A dispatch that is not severed counts where GetUserTrafficSlice reads. *)
CountsInTable ==
  \A c \in Conns :
    cnt[c] # NoStorage /\ ~severed[c] => cnt[c] = entry[user[c]]

(* Nobody opens a dispatch of a user who is leaving, and those he has are  *)
(* severed.                                                                *)
LeaversAreSevered ==
  /\ \A u \in Users : Leaving(u) => u \notin installed /\ u \notin allowed
  /\ op = "forbid" => cur \notin installed
  /\ op \in Deletion \cup {"pick"} => mode # "add"
  /\ Retiring => installed = {}
  /\ \A c \in Conns :
       conn[c] # "idle" /\ Leaving(user[c]) => severed[c]

(* uidMap has the users allowed and those about to be so, or to leave it.  *)
UidsAreKnown ==
  /\ allowed \subseteq uids
  /\ \A u \in uids :
       \/ u \in allowed
       \/ op \in {"store", "load", "take", "close"} /\ cur = u
       \/ settling = u
  /\ op = "store" => cur \in uids
  /\ dropping # NoUser => settling = NoUser /\ dropping \notin uids
  /\ Retiring =>
       \A u \in uids : u \in todo \/ (op \in Deletion /\ cur = u) \/ settling = u

(* The counters of a user without UID are empty, unless they go anyway. *)
Emptied(u) == u \in uids \/ dropping = u \/ Retiring

StrangersAreEmpty ==
  /\ \A u \in Users : ~Emptied(u) => InCounter(u) = 0
  /\ \A c \in Conns :
       conn[c] = "live" =>
         /\ ~severed[c] => user[c] \in uids
         /\ cnt[c] = entry[user[c]] => Emptied(user[c])

(* All that is due for a user without UID has left his counters. *)
StrangersAreSettled ==
  \A u \in Users \ uids :
    due[u] + again[u] <= retired[u] + pending[u] + billed[u]

TrafficInv ==
  /\ TrafficTypeOK
  /\ OneOwner
  /\ Holdings
  /\ CountsInTable
  /\ LeaversAreSevered
  /\ UidsAreKnown
  /\ StrangersAreEmpty
  /\ StrangersAreSettled
  /\ NothingLost
  /\ NothingTwice

-----------------------------------------------------------------------------
(* Proofs. *)

(* Every step here is a step of XrayRevocation or leaves it alone. *)
LEMMA BaseTypeStep == TypeOK /\ [TrafficNext]_allVars => TypeOK'
<1> SUFFICES ASSUME TypeOK, [TrafficNext]_allVars PROVE [Next]_vars
  BY TypeStep
<1>1. ASSUME Connections PROVE [Next]_vars
  BY <1>1 DEF Connections, Dispatch, TrafficCounter, GetCounter, Count, Next, ConnStep
<1>2. ASSUME AdminCalled \/ Administration PROVE [Next]_vars
  BY <1>2 DEF AdminCalled, Administration, Added, Revoke, LinksClosed, Deleting,
     Retain, DropCounter, Returned, Next, AdminStep
<1>3. ASSUME Flush \/ ReportFails \/ Report PROVE [Next]_vars
  BY <1>3 DEF Flush, ReportFails, Report
<1> QED
  BY <1>1, <1>2, <1>3 DEF TrafficNext, allVars

(* A step of a dispatch that leaves traffic and administration alone:      *)
(* others stay, and this one begins, goes on, or is admitted.              *)
Undisturbed(c) == conn'[c] = conn[c] /\ user'[c] = user[c]

Begins(c) ==
  /\ conn[c] = "idle"
  /\ conn'[c] = "auth"
  /\ up
  /\ user'[c] \in installed

GoesOn(c) ==
  /\ conn[c] # "idle"
  /\ conn'[c] \notin {"idle", "live"}
  /\ user'[c] = user[c]

Admitted(c) ==
  /\ conn[c] = "linked"
  /\ conn'[c] = "live"
  /\ user'[c] = user[c]
  /\ user[c] \in allowed
  /\ cnt[c] # NoStorage

LEMMA QuietStep ==
  ASSUME TrafficInv, TypeOK',
         UNCHANGED <<trafficVars, installed, allowed, adminVars>>,
         \A c \in Conns : Undisturbed(c) \/ Begins(c) \/ GoesOn(c) \/ Admitted(c)
  PROVE  TrafficInv'
<1> USE DEF TrafficInv, trafficVars, storeVars, linkVars, ledgerVars, countVars,
            adminVars
<1>1. TrafficTypeOK'
  BY DEF TrafficTypeOK, Unsettled, Ledger, Undisturbed, Begins, GoesOn, Admitted
<1>2. OneOwner'
  BY TrafficAssumption
  DEF OneOwner, Holdings, TrafficTypeOK, TypeOK, Undisturbed, Begins, GoesOn, Admitted
<1>3. Holdings'
  BY DEF Holdings, Undisturbed, Begins, GoesOn, Admitted
<1>4. CountsInTable'
  BY DEF CountsInTable, Holdings, Undisturbed, Begins, GoesOn, Admitted
<1>5. LeaversAreSevered'
  BY DEF LeaversAreSevered, Leaving, Retiring, Deletion, Undisturbed, Begins,
         GoesOn, Admitted, TrafficTypeOK, TypeOK
<1>6. UidsAreKnown'
  BY DEF UidsAreKnown, Retiring, Deletion
<1>7. StrangersAreEmpty'
  BY DEF StrangersAreEmpty, Emptied, Retiring, Deletion, InCounter, UidsAreKnown,
         Undisturbed, Begins, GoesOn, Admitted
<1>8. StrangersAreSettled'
  BY DEF StrangersAreSettled
<1>9. NothingLost' /\ NothingTwice'
  BY DEF NothingLost, NothingTwice, Owed, InCounter
<1> QED
  BY <1>1, <1>2, <1>3, <1>4, <1>5, <1>6, <1>7, <1>8, <1>9

LEMMA DispatchStep ==
  ASSUME TrafficInv, TypeOK', NEW c \in Conns, Dispatch(c)
  PROVE  TrafficInv'
<1>1. CASE (Reject(c) \/ CompareAndDelete(c) \/ End(c)) /\ Released(c)
  <2> USE <1>1 DEF TrafficInv, Released, storeVars, ledgerVars, countVars
  <2>0. /\ conn' = [conn EXCEPT ![c] = "idle"]
        /\ user' = [user EXCEPT ![c] = NoUser]
        /\ UNCHANGED <<installed, allowed, adminVars>>
    BY DEF Reject, CompareAndDelete, End, Gone, adminVars
  <2> USE <2>0 DEF adminVars
  <2>1. TrafficTypeOK'
    BY DEF TrafficTypeOK, TypeOK, Unsettled, Ledger
  <2>2. OneOwner'
    BY DEF OneOwner, TrafficTypeOK, TypeOK
  <2>3. Holdings'
    BY DEF Holdings, TrafficTypeOK, TypeOK
  <2>4. CountsInTable'
    BY DEF CountsInTable, TrafficTypeOK, TypeOK
  <2>5. LeaversAreSevered'
    BY DEF LeaversAreSevered, Leaving, Retiring, Deletion, TrafficTypeOK, TypeOK
  <2>6. UidsAreKnown'
    BY DEF UidsAreKnown, Retiring, Deletion
  <2>7. StrangersAreEmpty'
    BY DEF StrangersAreEmpty, Emptied, Retiring, Deletion, InCounter,
           TrafficTypeOK, TypeOK
  <2>8. StrangersAreSettled'
    BY DEF StrangersAreSettled
  <2>9. NothingLost' /\ NothingTwice'
    BY DEF NothingLost, NothingTwice, Owed, InCounter
  <2> QED
    BY <2>1, <2>2, <2>3, <2>4, <2>5, <2>6, <2>7, <2>8, <2>9
<1>2. CASE Open(c) /\ UNCHANGED trafficVars
  <2>1. \A d \in Conns : Undisturbed(d) \/ Begins(d)
    BY <1>2 DEF Open, Undisturbed, Begins, TrafficInv, TrafficTypeOK, TypeOK
  <2> QED
    BY <1>2, <2>1, QuietStep DEF Open
<1>3. CASE /\ LoadManager(c) \/ StoreManager(c) \/ DeniedCloseAll(c)
               \/ AddLink(c) \/ RecheckFails(c)
           /\ UNCHANGED trafficVars
  <2>1. \A d \in Conns : Undisturbed(d) \/ GoesOn(d)
    BY <1>3 DEF LoadManager, StoreManager, DeniedCloseAll, AddLink, RecheckFails,
                Undisturbed, GoesOn, TrafficInv, TrafficTypeOK, TypeOK
  <2>2. UNCHANGED <<installed, allowed, adminVars>>
    BY <1>3 DEF LoadManager, StoreManager, DeniedCloseAll, AddLink, RecheckFails
  <2> QED
    BY <1>3, <2>1, <2>2, QuietStep
<1>4. CASE Recheck(c) /\ cnt[c] # NoStorage /\ UNCHANGED trafficVars
  <2>1. \A d \in Conns : Undisturbed(d) \/ Admitted(d)
    BY <1>4 DEF Recheck, Undisturbed, Admitted, TrafficInv, TrafficTypeOK, TypeOK
  <2> QED
    BY <1>4, <2>1, QuietStep DEF Recheck
<1> QED
  BY <1>1, <1>2, <1>3, <1>4 DEF Dispatch

LEMMA CloseLinkStep ==
  ASSUME TrafficInv, TypeOK', NEW k \in Closers, NEW c \in Conns,
         CloseLink(k, c), UNCHANGED trafficVars
  PROVE  TrafficInv'
<1>1. \A d \in Conns : Undisturbed(d)
  BY DEF CloseLink, Undisturbed
<1> QED
  BY <1>1, QuietStep DEF CloseLink

LEMMA TrafficCounterStep ==
  ASSUME TrafficInv, TypeOK', NEW c \in Conns, TrafficCounter(c)
  PROVE  TrafficInv'
<1> USE DEF TrafficInv, TrafficCounter, vars, connVars, adminVars, storeVars, ledgerVars, countVars
<1>1. TrafficTypeOK'
  BY DEF TrafficTypeOK, TypeOK, Unsettled, Ledger
<1>2. OneOwner'
  BY DEF OneOwner, TrafficTypeOK, TypeOK
<1>3. Holdings'
  BY DEF Holdings, TrafficTypeOK, TypeOK
<1>4. CountsInTable'
  BY DEF CountsInTable, TrafficTypeOK, TypeOK
<1>5. LeaversAreSevered'
  BY DEF LeaversAreSevered, Leaving, Retiring, Deletion
<1>6. UidsAreKnown'
  BY DEF UidsAreKnown, Retiring, Deletion
<1>7. StrangersAreEmpty'
  BY DEF StrangersAreEmpty, Emptied, Retiring, Deletion, InCounter
<1>8. StrangersAreSettled'
  BY DEF StrangersAreSettled
<1>9. NothingLost' /\ NothingTwice'
  BY DEF NothingLost, NothingTwice, Owed, InCounter
<1> QED
  BY <1>1, <1>2, <1>3, <1>4, <1>5, <1>6, <1>7, <1>8, <1>9

(* A dispatch that takes its counters is not live yet, and new counters    *)
(* are empty and nobody else's.                                            *)
LEMMA GetCounterStep ==
  ASSUME TrafficInv, TypeOK', NEW c \in Conns, GetCounter(c)
  PROVE  TrafficInv'
<1> USE DEF TrafficInv, GetCounter, vars, connVars, adminVars, ledgerVars, countVars
<1>0. /\ user[c] \in Users
      /\ conn[c] \notin {"idle", "live"}
  BY TrafficAssumption DEF Holdings, TrafficTypeOK, TypeOK
<1>1. TrafficTypeOK'
  BY <1>0, SMTT(30) DEF TrafficTypeOK, TypeOK, Unsettled, Ledger
<1>2. OneOwner'
  BY <1>0, TrafficAssumption DEF OneOwner, TrafficTypeOK, TypeOK, Fresh
<1>3. Holdings'
  BY DEF Holdings, TrafficTypeOK, TypeOK
<1>4. CountsInTable'
  BY <1>0, TrafficAssumption DEF CountsInTable, Holdings, TrafficTypeOK, TypeOK, Fresh
<1>5. LeaversAreSevered'
  BY DEF LeaversAreSevered, Leaving, Retiring, Deletion
<1>6. UidsAreKnown'
  BY DEF UidsAreKnown, Retiring, Deletion
<1>7. \A u \in Users : InCounter(u)' = InCounter(u)
  BY <1>0, TrafficAssumption DEF InCounter, TrafficTypeOK, TypeOK, Fresh
<1>8. StrangersAreEmpty'
  <2>1. \A u \in Users : Emptied(u)' = Emptied(u)
    BY DEF Emptied, Retiring, Deletion
  <2>2. ASSUME NEW d \in Conns, conn[d] = "live", cnt'[d] = entry'[user[d]]
        PROVE  cnt[d] = entry[user[d]]
    BY <1>0, <2>2, TrafficAssumption DEF TrafficTypeOK, TypeOK, Fresh
  <2>3. \A d \in Conns : conn[d] = "live" => user[d] \in Users
    BY DEF TrafficTypeOK, TypeOK
  <2> QED
    BY <1>7, <2>1, <2>2, <2>3 DEF StrangersAreEmpty
<1>9. StrangersAreSettled'
  BY DEF StrangersAreSettled
<1>10. NothingLost' /\ NothingTwice'
  BY <1>7 DEF NothingLost, NothingTwice, Owed
<1> QED
  BY <1>1, <1>2, <1>3, <1>4, <1>5, <1>6, <1>8, <1>9, <1>10

(* A dispatch that is not severed counts in the table, for a user with UID;*)
(* any other may count there too, but for nobody else's account.           *)
LEMMA CountStep ==
  ASSUME TrafficInv, TypeOK', NEW c \in Conns, Count(c)
  PROVE  TrafficInv'
<1> USE DEF TrafficInv, Count, vars, connVars, adminVars, linkVars, ledgerVars
<1>0. /\ user[c] \in Users
      /\ cnt[c] \in Storages
  BY TrafficAssumption DEF TrafficTypeOK, TypeOK
<1>1. TrafficTypeOK'
  BY <1>0 DEF TrafficTypeOK, TypeOK, Unsettled, Ledger
<1>2. OneOwner' /\ Holdings' /\ CountsInTable'
  BY DEF OneOwner, Holdings, CountsInTable
<1>3. LeaversAreSevered'
  BY DEF LeaversAreSevered, Leaving, Retiring, Deletion
<1>4. UidsAreKnown'
  BY DEF UidsAreKnown, Retiring, Deletion
<1>5. \A u \in Users :
        InCounter(u)' = IF cnt[c] = entry[u] THEN InCounter(u) + 1 ELSE InCounter(u)
  BY <1>0, TrafficAssumption DEF InCounter, TrafficTypeOK, TypeOK
<1>6. \A u \in Users : cnt[c] = entry[u] => u = user[c]
  BY <1>0, TrafficAssumption DEF OneOwner
<1>7. StrangersAreEmpty'
  BY <1>0, <1>5, <1>6 DEF StrangersAreEmpty, Emptied, Retiring, Deletion
<1>8. StrangersAreSettled'
  BY <1>0 DEF StrangersAreSettled, StrangersAreEmpty, TrafficTypeOK, Ledger
<1>9. NothingLost'
  <2> SUFFICES ASSUME NEW u \in Users
               PROVE  (due[u] + again[u] <= Owed(u) + billed[u])'
    BY DEF NothingLost
  <2>1. {InCounter(u), retired[u], pending[u], billed[u], due[u], again[u]} \subseteq Nat
    BY DEF TrafficTypeOK, Ledger, InCounter
  <2>2. CASE u # user[c]
    BY <1>0, <1>5, <2>1, <2>2 DEF NothingLost, Owed, TrafficTypeOK, Ledger
  <2>3. CASE u = user[c]
    BY <1>0, <1>5, <2>1, <2>3 DEF NothingLost, Owed, TrafficTypeOK, Ledger, CountsInTable
  <2> QED
    BY <2>2, <2>3
<1>10. NothingTwice'
  <2> SUFFICES ASSUME NEW u \in Users
               PROVE  (Owed(u) + billed[u] <= counted[u] + again[u])'
    BY DEF NothingTwice
  <2>1. {InCounter(u), retired[u], pending[u], billed[u], counted[u], again[u]} \subseteq Nat
    BY DEF TrafficTypeOK, Ledger, InCounter
  <2> QED
    BY <1>0, <1>5, <1>6, <2>1 DEF NothingTwice, Owed, TrafficTypeOK, Ledger
<1> QED
  BY <1>1, <1>2, <1>3, <1>4, <1>7, <1>8, <1>9, <1>10

(* Administrative steps that leave traffic and dispatches alone: what they  *)
(* say of the users who are leaving has to be shown, the rest carries over. *)
LEMMA AdminQuietStep ==
  ASSUME TrafficInv, TypeOK',
         UNCHANGED <<trafficVars, conn, user>>,
         Unsettled => op' = "pick",
         sending => op' = "idle",
         Retiring => Retiring',
         LeaversAreSevered', UidsAreKnown'
  PROVE  TrafficInv'
<1> USE DEF TrafficInv, trafficVars, storeVars, linkVars, ledgerVars, countVars
<1>1. TrafficTypeOK'
  BY DEF TrafficTypeOK, Unsettled, Ledger
<1>2. OneOwner' /\ Holdings' /\ CountsInTable'
  BY DEF OneOwner, Holdings, CountsInTable
<1>3. StrangersAreEmpty'
  BY DEF StrangersAreEmpty, Emptied, InCounter
<1>4. StrangersAreSettled' /\ NothingLost' /\ NothingTwice'
  BY DEF StrangersAreSettled, NothingLost, NothingTwice, Owed, InCounter
<1> QED
  BY <1>1, <1>2, <1>3, <1>4

LEMMA AdminCalledStep ==
  ASSUME TrafficInv, TypeOK', AdminCalled
  PROVE  TrafficInv'
<1> USE DEF TrafficInv
<1>1. /\ op = "idle"
      /\ ~Unsettled
      /\ op' \in {"idle", "install", "pick"}
      /\ installed' \subseteq installed
      /\ op' = "pick" => mode' # "add"
      /\ op' = "pick" /\ mode' = "retire" => todo' = allowed /\ installed' = {}
      /\ UNCHANGED <<trafficVars, conn, user, allowed>>
  BY DEF AdminCalled, AdminCall, AddNode, DelNode, AddUsers, DelUsers, adminVars,
         connVars, TrafficTypeOK
<1>2. LeaversAreSevered'
  BY <1>1, ConstantsAssumption
  DEF LeaversAreSevered, Leaving, Retiring, Deletion, Unsettled, trafficVars, linkVars
<1>3. UidsAreKnown'
  BY <1>1, ConstantsAssumption
  DEF UidsAreKnown, Retiring, Deletion, Unsettled, trafficVars, storeVars,
      TrafficTypeOK
<1>4. ~sending
  BY DEF AdminCalled
<1> QED
  BY <1>1, <1>2, <1>3, <1>4, AdminQuietStep DEF Retiring, Deletion

LEMMA AddedStep ==
  ASSUME TrafficInv, TypeOK', Added
  PROVE  TrafficInv'
<1> USE DEF TrafficInv
<1>1. CASE /\ InstallFails \/ Installed \/ AddUsersReturns \/ (\E u \in Users : Install(u))
           /\ UNCHANGED trafficVars
  <2>1. /\ op \in {"install", "commit"}
        /\ op' \in {"install", "commit", "idle"}
        /\ ~Unsettled /\ ~sending
        /\ UNCHANGED <<trafficVars, conn, user, allowed>>
    BY <1>1 DEF InstallFails, Installed, AddUsersReturns, Install, connVars, TrafficTypeOK
  <2>2. LeaversAreSevered'
    BY <2>1, ConstantsAssumption
    DEF LeaversAreSevered, Leaving, Retiring, Deletion, Unsettled, trafficVars,
        linkVars, TrafficTypeOK, TypeOK
  <2>3. UidsAreKnown'
    BY <2>1 DEF UidsAreKnown, Retiring, Deletion, trafficVars, storeVars
  <2> QED
    BY <2>1, <2>2, <2>3, AdminQuietStep DEF Retiring, Deletion
<1>2. CASE Allow /\ UNCHANGED trafficVars
  <2>1. ~Unsettled /\ ~sending
    BY <1>2 DEF Allow, TrafficTypeOK
  <2>2. LeaversAreSevered'
    BY <1>2, <2>1, ConstantsAssumption
    DEF Allow, LeaversAreSevered, Leaving, Retiring, Deletion, Unsettled,
        trafficVars, linkVars, TrafficTypeOK
  <2>3. UidsAreKnown'
    BY <1>2, <2>1 DEF Allow, UidsAreKnown, Retiring, Deletion, trafficVars, storeVars
  <2> QED
    BY <1>2, <2>1, <2>2, <2>3, AdminQuietStep DEF Allow, Retiring, Deletion
<1>3. ASSUME NEW u \in Users, ForgetManager(u), uids' = uids \cup {u},
             UNCHANGED <<entry, bytes, linkVars, settling, dropping, ledgerVars,
                         countVars>>
      PROVE  TrafficInv'
  <2> USE <1>3 DEF ForgetManager, linkVars, ledgerVars, countVars, connVars
  <2>0. ~Unsettled /\ ~sending
    BY DEF TrafficTypeOK
  <2>1. TrafficTypeOK'
    BY <2>0 DEF TrafficTypeOK, Unsettled, Ledger
  <2>2. OneOwner' /\ Holdings' /\ CountsInTable'
    BY DEF OneOwner, Holdings, CountsInTable
  <2>3. LeaversAreSevered'
    BY <2>0 DEF LeaversAreSevered, Leaving, Retiring, Deletion, Unsettled, TrafficTypeOK
  <2>4. UidsAreKnown'
    BY <2>0 DEF UidsAreKnown, Retiring, Deletion, Unsettled
  <2>5. StrangersAreEmpty'
    BY DEF StrangersAreEmpty, Emptied, Retiring, Deletion, InCounter
  <2>6. StrangersAreSettled' /\ NothingLost' /\ NothingTwice'
    BY DEF StrangersAreSettled, NothingLost, NothingTwice, Owed, InCounter
  <2> QED
    BY <2>1, <2>2, <2>3, <2>4, <2>5, <2>6
<1> QED
  BY <1>1, <1>2, <1>3 DEF Added

(* AllowedUsers.Delete severs the user's dispatches. *)
LEMMA RevokeStep ==
  ASSUME TrafficInv, TypeOK', Revoke
  PROVE  TrafficInv'
<1> USE DEF TrafficInv, Revoke, Forbid, connVars, storeVars, ledgerVars, countVars
<1>0. ~Unsettled /\ ~sending
  BY DEF TrafficTypeOK
<1>1. TrafficTypeOK'
  BY <1>0 DEF TrafficTypeOK, Unsettled, Ledger
<1>2. OneOwner' /\ Holdings' /\ CountsInTable'
  BY DEF OneOwner, Holdings, CountsInTable
<1>3. LeaversAreSevered'
  BY <1>0 DEF LeaversAreSevered, Leaving, Retiring, Deletion, Unsettled,
              TrafficTypeOK, TypeOK
<1>4. UidsAreKnown'
  BY <1>0 DEF UidsAreKnown, Retiring, Deletion
<1>5. StrangersAreEmpty'
  BY DEF StrangersAreEmpty, Emptied, Retiring, Deletion, InCounter, TrafficTypeOK, TypeOK
<1>6. StrangersAreSettled' /\ NothingLost' /\ NothingTwice'
  BY DEF StrangersAreSettled, NothingLost, NothingTwice, Owed, InCounter
<1> QED
  BY <1>1, <1>2, <1>3, <1>4, <1>5, <1>6

LEMMA LinksClosedStep ==
  ASSUME TrafficInv, TypeOK', LinksClosed
  PROVE  TrafficInv'
<1> USE DEF TrafficInv, LinksClosed, connVars, storeVars, linkVars, ledgerVars, countVars
<1>0. /\ op \in {"load", "close"}
      /\ op' \in {"pick", "take"}
      /\ cur \in Users
      /\ op' = "take" => cur' = cur /\ settling' = NoUser
      /\ op' = "pick" => settling' = cur
      /\ settling = NoUser /\ dropping = NoUser
      /\ ~sending
      /\ UNCHANGED <<installed, allowed, conn, user, mode, todo>>
  BY DEF LoadForClose, DeleteManager, TrafficTypeOK, TypeOK, Unsettled
<1>1. TrafficTypeOK'
  BY <1>0 DEF TrafficTypeOK, Unsettled, Ledger
<1>2. OneOwner' /\ Holdings' /\ CountsInTable'
  BY <1>0 DEF OneOwner, Holdings, CountsInTable
<1>3. LeaversAreSevered'
  BY <1>0, ConstantsAssumption DEF LeaversAreSevered, Leaving, Retiring, Deletion,
     TrafficTypeOK, TypeOK
<1>4. UidsAreKnown'
  BY <1>0, ConstantsAssumption DEF UidsAreKnown, Retiring, Deletion, TrafficTypeOK
<1>5. StrangersAreEmpty'
  BY <1>0 DEF StrangersAreEmpty, Emptied, Retiring, Deletion, InCounter
<1>6. StrangersAreSettled' /\ NothingLost' /\ NothingTwice'
  BY DEF StrangersAreSettled, NothingLost, NothingTwice, Owed, InCounter
<1> QED
  BY <1>1, <1>2, <1>3, <1>4, <1>5, <1>6

LEMMA DeletingStep ==
  ASSUME TrafficInv, TypeOK', Deleting
  PROVE  TrafficInv'
<1> USE DEF TrafficInv
<1>1. CASE /\ ~Unsettled
           /\ RemoveUserFails \/ \E u \in Users : RemoveUser(u)
           /\ UNCHANGED trafficVars
  <2>0. /\ op = "pick"
        /\ ~sending
        /\ UNCHANGED <<trafficVars, conn, user, allowed, mode>>
        /\ installed' \subseteq installed
        /\ \/ op' = "idle" /\ mode = "del"
           \/ /\ op' = "forbid"
              /\ cur' \in todo
              /\ mode = "del" => cur' \notin installed'
              /\ todo' = todo \ {cur'}
    BY <1>1 DEF RemoveUserFails, RemoveUser, connVars, TrafficTypeOK, TypeOK
  <2>1. Retiring => Retiring'
    BY <2>0 DEF Retiring, Deletion
  <2>2. mode # "del" /\ op' = "forbid" => installed' = {}
    BY <1>1, <2>0 DEF LeaversAreSevered, Retiring, Deletion, RemoveUserFails, RemoveUser, TypeOK,
       TrafficTypeOK
  <2>3. LeaversAreSevered'
    BY <1>1, <2>0, <2>2, ConstantsAssumption
    DEF LeaversAreSevered, Leaving, Retiring, Deletion, Unsettled, trafficVars, linkVars
  <2>4. UidsAreKnown'
    BY <1>1, <2>0 DEF UidsAreKnown, Retiring, Deletion, trafficVars, storeVars, Unsettled
  <2> QED
    BY <1>1, <2>0, <2>1, <2>3, <2>4, AdminQuietStep
<1>2. CASE AdminCloseAll /\ UNCHANGED trafficVars
  <2>0. /\ op = "take" /\ op' = "close"
        /\ ~Unsettled /\ ~sending
        /\ UNCHANGED <<trafficVars, conn, user, installed, allowed, mode, todo, cur>>
    BY <1>2 DEF AdminCloseAll, connVars, TrafficTypeOK
  <2>1. LeaversAreSevered' /\ UidsAreKnown'
    BY <2>0 DEF LeaversAreSevered, UidsAreKnown, Leaving, Retiring, Deletion,
                trafficVars, linkVars, storeVars
  <2> QED
    BY <2>0, <2>1, AdminQuietStep DEF Retiring, Deletion
<1> QED
  BY <1>1, <1>2 DEF Deleting

(* retainUserTraffic: what the user's counters hold is what can be owed    *)
(* for him, and nobody of his counts for the table any more.               *)
LEMMA RetainStep ==
  ASSUME TrafficInv, TypeOK', Retain
  PROVE  TrafficInv'
<1> USE DEF TrafficInv, Retain, vars, connVars, adminVars, linkVars, countVars
<1>0. /\ settling \in Users
      /\ op = "pick" /\ mode \in {"del", "retire"}
      /\ ~sending
  BY DEF TrafficTypeOK, TypeOK, Unsettled, LeaversAreSevered
<1>1. TrafficTypeOK'
  BY <1>0 DEF TrafficTypeOK, Unsettled, Ledger, Uid
<1>2. OneOwner' /\ Holdings' /\ CountsInTable'
  BY DEF OneOwner, Holdings, CountsInTable
<1>3. LeaversAreSevered'
  BY <1>0, ConstantsAssumption
  DEF LeaversAreSevered, Leaving, Retiring, Deletion, TrafficTypeOK, TypeOK
<1>4. UidsAreKnown'
  BY <1>0 DEF UidsAreKnown, Retiring, Deletion, LeaversAreSevered, Leaving
<1>5. \A u \in Users :
        InCounter(u)' = IF u = settling THEN 0 ELSE InCounter(u)
  BY <1>0, TrafficAssumption DEF InCounter, TrafficTypeOK, OneOwner
<1>6. StrangersAreEmpty'
  <2>1. \A u \in Users : u # settling /\ Emptied(u) => Emptied(u)'
    BY <1>0, ConstantsAssumption DEF Emptied, Retiring, Deletion, UidsAreKnown
  <2>2. \A u \in Users : ~Emptied(u)' => InCounter(u)' = 0
    BY <1>5, <2>1 DEF StrangersAreEmpty
  <2>3. \A u \in Users : u = settling => Emptied(u)'
    BY <1>0 DEF Emptied, Retiring, Deletion
  <2>4. \A c \in Conns : conn[c] = "live" =>
          /\ user[c] \in Users
          /\ user[c] = settling => severed[c]
    BY DEF LeaversAreSevered, Leaving, TrafficTypeOK, TypeOK
  <2> QED
    BY <2>1, <2>2, <2>3, <2>4 DEF StrangersAreEmpty
<1>7. \A u \in Users :
        retired'[u] = IF u = settling /\ u \in uids
                        THEN retired[u] + InCounter(u) ELSE retired[u]
  BY <1>0, ConstantsAssumption DEF Uid, InCounter, TrafficTypeOK, Ledger
<1>8. \A u \in Users :
        {InCounter(u), retired[u], pending[u], billed[u], due[u], again[u]} \subseteq Nat
  BY DEF TrafficTypeOK, Ledger, InCounter
<1>9. StrangersAreSettled'
  BY <1>0, <1>7, <1>8 DEF StrangersAreSettled, NothingLost, Owed, TrafficTypeOK
<1>10. NothingLost'
  BY <1>0, <1>5, <1>7, <1>8 DEF StrangersAreSettled, NothingLost, Owed
<1>11. NothingTwice'
  BY <1>0, <1>5, <1>7, <1>8 DEF NothingTwice, Owed, TrafficTypeOK, Ledger
<1> QED
  BY <1>1, <1>2, <1>3, <1>4, <1>6, <1>9, <1>10, <1>11

LEMMA DropCounterStep ==
  ASSUME TrafficInv, TypeOK', DropCounter
  PROVE  TrafficInv'
<1> USE DEF TrafficInv, DropCounter, vars, connVars, adminVars, linkVars,
            ledgerVars, countVars
<1>0. /\ dropping \in Users
      /\ op = "pick" /\ ~sending
      /\ dropping \notin allowed
  BY DEF TrafficTypeOK, TypeOK, Unsettled, LeaversAreSevered, Leaving
<1>1. TrafficTypeOK'
  BY <1>0 DEF TrafficTypeOK, Unsettled, Ledger
<1>2. OneOwner' /\ Holdings'
  BY DEF OneOwner, Holdings, TrafficTypeOK
<1>3. CountsInTable'
  BY <1>0 DEF CountsInTable, Holdings, LeaversAreSevered, Leaving, TrafficTypeOK
<1>4. LeaversAreSevered'
  BY <1>0, ConstantsAssumption
  DEF LeaversAreSevered, Leaving, Retiring, Deletion, TrafficTypeOK, TypeOK
<1>5. UidsAreKnown'
  BY DEF UidsAreKnown, Retiring, Deletion
<1>6. \A u \in Users :
        InCounter(u)' = IF u = dropping THEN 0 ELSE InCounter(u)
  BY <1>0, TrafficAssumption DEF InCounter, TrafficTypeOK
<1>7. StrangersAreEmpty'
  BY <1>0, <1>6, TrafficAssumption, ConstantsAssumption
  DEF StrangersAreEmpty, Emptied, Retiring, Deletion, TrafficTypeOK, TypeOK
<1>8. \A u \in Users :
        {InCounter(u), retired[u], pending[u], billed[u], due[u], again[u]} \subseteq Nat
  BY DEF TrafficTypeOK, Ledger, InCounter
<1>9. StrangersAreSettled'
  BY DEF StrangersAreSettled
<1>10. NothingLost'
  BY <1>0, <1>6, <1>8, ConstantsAssumption
  DEF StrangersAreSettled, NothingLost, Owed, UidsAreKnown
<1>11. NothingTwice'
  BY <1>0, <1>6, <1>8 DEF NothingTwice, Owed, TrafficTypeOK, Ledger
<1> QED
  BY <1>1, <1>2, <1>3, <1>4, <1>5, <1>7, <1>9, <1>10, <1>11

(* retireNodeUsers drops the whole table once every user has left uidMap.  *)
LEMMA ReturnedStep ==
  ASSUME TrafficInv, TypeOK', Returned
  PROVE  TrafficInv'
<1> USE DEF TrafficInv, Returned, DelReturns, connVars, mgrVars, ledgerVars, countVars
<1>0. /\ op = "pick" /\ op' = "idle"
      /\ settling = NoUser /\ dropping = NoUser
      /\ ~sending
      /\ UNCHANGED <<installed, allowed, conn, user, mode, todo>>
  BY DEF TrafficTypeOK, Unsettled
<1>1. TrafficTypeOK'
  <2>0. /\ entry \in [Users -> Storages \cup {NoStorage}]
        /\ table \in [Conns -> {"none", "current", "dropped"}]
        /\ severed \in [Conns -> BOOLEAN]
    BY DEF TrafficTypeOK
  <2>1. entry' \in [Users -> Storages \cup {NoStorage}]
    BY <2>0
  <2>2. table' \in [Conns -> {"none", "current", "dropped"}]
    BY <2>0
  <2>3. severed' \in [Conns -> BOOLEAN]
    BY <2>0
  <2> QED
    BY <1>0, <2>1, <2>2, <2>3 DEF TrafficTypeOK, Unsettled
<1>2. LeaversAreSevered'
  BY <1>0, ConstantsAssumption
  DEF LeaversAreSevered, Leaving, Retiring, Deletion, TrafficTypeOK, TypeOK
<1>3. UidsAreKnown'
  BY <1>0 DEF UidsAreKnown, Retiring, Deletion
<1>4. StrangersAreSettled'
  BY DEF StrangersAreSettled
<1>5. CASE mode # "retire"
  <2>1. OneOwner' /\ Holdings' /\ CountsInTable'
    BY <1>0, <1>5 DEF OneOwner, Holdings, CountsInTable
  <2>2. StrangersAreEmpty'
    BY <1>0, <1>5 DEF StrangersAreEmpty, Emptied, Retiring, Deletion, InCounter
  <2>3. NothingLost' /\ NothingTwice'
    BY <1>0, <1>5 DEF NothingLost, NothingTwice, Owed, InCounter
  <2> QED
    BY <1>1, <1>2, <1>3, <1>4, <2>1, <2>2, <2>3
<1>6. CASE mode = "retire"
  <2>0. uids = {}
    BY <1>0, <1>6, ConstantsAssumption
    DEF UidsAreKnown, Retiring, Deletion, TrafficTypeOK
  <2>1. \A u \in Users : InCounter(u)' = 0
    BY <1>6 DEF InCounter
  <2>2. OneOwner'
    BY <1>0, <1>6 DEF OneOwner
  <2>3. /\ table' = [c \in Conns |->
                       IF table[c] = "current" THEN "dropped" ELSE table[c]]
        /\ severed' = [c \in Conns |-> severed[c] \/ conn[c] # "idle"]
        /\ conn' = conn /\ cnt' = cnt
        /\ \A c \in Conns :
             /\ severed[c] \in BOOLEAN
             /\ table[c] \in {"none", "current", "dropped"}
    BY <1>0, <1>6 DEF TrafficTypeOK
  <2>8. Holdings'
    BY <2>3 DEF Holdings
  <2>9. CountsInTable'
    BY <2>3 DEF Holdings, CountsInTable
  <2>4. StrangersAreEmpty'
    BY <1>0, <1>6, <2>1, TrafficAssumption
    DEF StrangersAreEmpty, TrafficTypeOK, TypeOK
  <2>5. \A u \in Users :
          {InCounter(u), retired[u], pending[u], billed[u], due[u], again[u],
           counted[u]} \subseteq Nat
    BY DEF TrafficTypeOK, Ledger, InCounter
  <2>6. NothingLost'
    BY <2>0, <2>1, <2>5 DEF NothingLost, Owed, StrangersAreSettled
  <2>7. NothingTwice'
    BY <2>1, <2>5 DEF NothingTwice, Owed
  <2> QED
    BY <1>1, <1>2, <1>3, <1>4, <2>2, <2>8, <2>9, <2>4, <2>6, <2>7
<1> QED
  BY <1>5, <1>6

(* A flush moves what it resets to pending; between two calls only users   *)
(* with UID have anything to move.                                         *)
LEMMA FlushStep ==
  ASSUME TrafficInv, TypeOK', Flush
  PROVE  TrafficInv'
<1> USE DEF TrafficInv, Flush, vars, connVars, adminVars, linkVars, countVars
<1>0. /\ settling = NoUser /\ dropping = NoUser
      /\ ~Retiring
      /\ MinTraffic \in Nat
  BY TrafficAssumption DEF Unsettled, Retiring, Deletion
<1>1. \A u \in Users \cup {NoUser} :
        /\ Slice[u] \in Nat
        /\ pending'[u] = pending[u] + (retired[u] + Slice[u])
        /\ retired'[u] = 0
        /\ {retired[u], pending[u], billed[u], due[u], again[u], counted[u]} \subseteq Nat
  BY DEF Slice, Sliced, Plus, Zero, TrafficTypeOK, Ledger
<1>2. pending' \in Ledger /\ retired' \in Ledger
  <2>1. DOMAIN pending = Users \cup {NoUser}
    BY DEF TrafficTypeOK, Ledger
  <2>2. pending' = [u \in Users \cup {NoUser} |-> pending'[u]]
    BY <2>1 DEF Plus
  <2>3. retired' = [u \in Users \cup {NoUser} |-> 0]
    BY DEF Zero
  <2> QED
    BY <1>1, <2>2, <2>3 DEF Ledger
<1>3. Sliced \subseteq uids /\ entry' = entry
  <2>1. \A u \in Sliced : InCounter(u) > 0
    BY <1>0 DEF Sliced, Minimum, InCounter, TrafficTypeOK
  <2>2. Sliced \subseteq uids
    BY <1>0, <2>1, ConstantsAssumption DEF StrangersAreEmpty, Emptied, Sliced
  <2> QED
    BY <2>2 DEF TrafficTypeOK
<1>4. bytes' \in [Storages -> Nat]
  BY DEF TrafficTypeOK
<1>5. TrafficTypeOK'
  BY <1>0, <1>2, <1>3, <1>4 DEF TrafficTypeOK, Unsettled
<1>6. OneOwner' /\ Holdings' /\ CountsInTable'
  BY <1>3 DEF OneOwner, Holdings, CountsInTable
<1>7. LeaversAreSevered' /\ UidsAreKnown'
  BY DEF LeaversAreSevered, Leaving, UidsAreKnown, Retiring, Deletion
<1>8. \A u \in Users :
        /\ InCounter(u) \in Nat
        /\ InCounter(u)' + Slice[u] = InCounter(u)
  BY <1>3 DEF InCounter, Slice, Sliced, OneOwner, TrafficTypeOK
<1>9. StrangersAreEmpty'
  <2>1. \A u \in Users : Emptied(u)' = Emptied(u)
    BY DEF Emptied, Retiring, Deletion
  <2>2. \A u \in Users : InCounter(u) = 0 => InCounter(u)' = 0
    BY <1>3 DEF InCounter, TrafficTypeOK
  <2> QED
    BY <1>3, <2>1, <2>2 DEF StrangersAreEmpty, TrafficTypeOK, TypeOK
<1>10. StrangersAreSettled'
  BY <1>1 DEF StrangersAreSettled
<1>11. \A u \in Users : Owed(u)' = Owed(u)
  <2> SUFFICES ASSUME NEW u \in Users PROVE Owed(u)' = Owed(u)
    OBVIOUS
  <2>1. InCounter(u)' \in Nat
    BY <1>3, <1>4 DEF InCounter, TrafficTypeOK
  <2> QED
    BY <1>1, <1>8, <2>1 DEF Owed
<1>12. NothingLost' /\ NothingTwice'
  BY <1>11 DEF NothingLost, NothingTwice
<1> QED
  BY <1>5, <1>6, <1>7, <1>9, <1>10, <1>12

(* A report that is acknowledged moves pending to the panel; one that      *)
(* fails leaves it, and what was booked all the same is booked again.      *)
LEMMA ReportStep ==
  ASSUME TrafficInv, TypeOK', Report \/ ReportFails
  PROVE  TrafficInv'
<1> USE DEF TrafficInv, Report, ReportFails, vars, connVars, adminVars, storeVars,
            linkVars, countVars
<1>1. \A u \in Users \cup {NoUser} :
        {retired[u], pending[u], billed[u], due[u], again[u], counted[u]} \subseteq Nat
  BY DEF TrafficTypeOK, Ledger
<1>2. \A u \in Users \cup {NoUser} :
        \/ pending'[u] = 0 /\ billed'[u] = billed[u] + pending[u] /\ again'[u] = again[u]
        \/ pending'[u] = pending[u] /\ billed'[u] = billed[u] /\ again'[u] = again[u]
        \/ /\ pending'[u] = pending[u]
           /\ billed'[u] = billed[u] + pending[u]
           /\ again'[u] = again[u] + pending[u]
  BY DEF Plus, Zero, TrafficTypeOK, Ledger
<1>3. {pending', billed', again'} \subseteq Ledger
  BY <1>1 DEF Plus, Zero, TrafficTypeOK, Ledger
<1>4. faults' \in 0..MaxFaults
  BY TrafficAssumption DEF TrafficTypeOK
<1>5. TrafficTypeOK'
  BY <1>3, <1>4 DEF TrafficTypeOK, Unsettled
<1>6. OneOwner' /\ Holdings' /\ CountsInTable'
  BY DEF OneOwner, Holdings, CountsInTable
<1>7. LeaversAreSevered' /\ UidsAreKnown'
  BY DEF LeaversAreSevered, Leaving, UidsAreKnown, Retiring, Deletion
<1>8. StrangersAreEmpty'
  BY DEF StrangersAreEmpty, Emptied, Retiring, Deletion, InCounter
<1>9. StrangersAreSettled'
  BY <1>1, <1>2 DEF StrangersAreSettled
<1>10. \A u \in Users : InCounter(u) \in Nat /\ InCounter(u)' = InCounter(u)
  BY DEF InCounter, TrafficTypeOK
<1>11. NothingLost'
  BY <1>1, <1>2, <1>10 DEF NothingLost, Owed
<1>12. NothingTwice'
  BY <1>1, <1>2, <1>10 DEF NothingTwice, Owed
<1> QED
  BY <1>5, <1>6, <1>7, <1>8, <1>9, <1>11, <1>12

LEMMA TrafficInvInit == TrafficInit => TrafficInv
<1> SUFFICES ASSUME TrafficInit PROVE TrafficInv
  OBVIOUS
<1> USE DEF TrafficInit, Init
<1>0. TypeOK
  BY ConstantsAssumption DEF TypeOK, ConnPhases, AdminPhases, Closers, Holds
<1>1. TrafficTypeOK
  <2>1. Zero \in Ledger
    BY DEF Zero, Ledger
  <2>2. faults \in 0..MaxFaults
    BY TrafficAssumption
  <2>3. /\ entry \in [Users -> Storages \cup {NoStorage}]
        /\ bytes \in [Storages -> Nat]
        /\ cnt \in [Conns -> Storages \cup {NoStorage}]
        /\ table \in [Conns -> {"none", "current", "dropped"}]
        /\ severed \in [Conns -> BOOLEAN]
    OBVIOUS
  <2> QED
    BY <1>0, <2>1, <2>2, <2>3 DEF TrafficTypeOK, Unsettled
<1>2. OneOwner /\ Holdings /\ CountsInTable
  BY DEF OneOwner, Holdings, CountsInTable
<1>3. LeaversAreSevered
  BY ConstantsAssumption DEF LeaversAreSevered, Leaving, Retiring, Deletion
<1>4. UidsAreKnown
  BY DEF UidsAreKnown, Retiring, Deletion
<1>5. StrangersAreEmpty
  BY DEF StrangersAreEmpty, InCounter
<1>6. StrangersAreSettled /\ NothingLost /\ NothingTwice
  BY DEF StrangersAreSettled, NothingLost, NothingTwice, Owed, InCounter, Zero
<1> QED
  BY <1>1, <1>2, <1>3, <1>4, <1>5, <1>6 DEF TrafficInv

LEMMA TrafficInvStep == TrafficInv /\ [TrafficNext]_allVars => TrafficInv'
<1> SUFFICES ASSUME TrafficInv, [TrafficNext]_allVars PROVE TrafficInv'
  OBVIOUS
<1>0. TypeOK'
  BY BaseTypeStep DEF TrafficInv, TrafficTypeOK
<1>1. CASE Connections
  <2>1. ASSUME NEW c \in Conns, Dispatch(c) PROVE TrafficInv'
    BY <1>0, <2>1, DispatchStep
  <2>2. ASSUME NEW c \in Conns, TrafficCounter(c) PROVE TrafficInv'
    BY <1>0, <2>2, TrafficCounterStep
  <2>3. ASSUME NEW c \in Conns, GetCounter(c) PROVE TrafficInv'
    BY <1>0, <2>3, GetCounterStep
  <2>4. ASSUME NEW c \in Conns, Count(c) PROVE TrafficInv'
    BY <1>0, <2>4, CountStep
  <2>5. ASSUME NEW k \in Closers, NEW c \in Conns, CloseLink(k, c),
               UNCHANGED trafficVars
        PROVE  TrafficInv'
    BY <1>0, <2>5, CloseLinkStep
  <2> QED
    BY <1>1, <2>1, <2>2, <2>3, <2>4, <2>5 DEF Connections
<1>2. CASE AdminCalled
  BY <1>0, <1>2, AdminCalledStep
<1>3. CASE Administration
  BY <1>0, <1>3, AddedStep, RevokeStep, LinksClosedStep, DeletingStep, RetainStep,
     DropCounterStep, ReturnedStep DEF Administration
<1>4. CASE Flush
  BY <1>0, <1>4, FlushStep
<1>5. CASE Report \/ ReportFails
  BY <1>0, <1>5, ReportStep
<1>6. CASE UNCHANGED allVars
  <2>1. \A c \in Conns : Undisturbed(c)
    BY <1>6 DEF allVars, vars, connVars, Undisturbed
  <2> QED
    BY <1>0, <1>6, <2>1, QuietStep DEF allVars, vars
<1> QED
  BY <1>1, <1>2, <1>3, <1>4, <1>5, <1>6 DEF TrafficNext

LEMMA TrafficInvariant == TrafficSpec => []TrafficInv
<1> QED
  BY TrafficInvInit, TrafficInvStep, PTL DEF TrafficSpec

(* Every variable of the traffic model keeps its type, a connection counts *)
(* only in counters it has, and only the holder of mapLock settles.        *)
THEOREM TrafficTypeCorrect == TrafficSpec => []TrafficTypeOK
<1>1. TrafficInv => TrafficTypeOK
  BY DEF TrafficInv
<1> QED
  BY <1>1, TrafficInvariant, PTL

(* What a user's connections counted before he was revoked is in his       *)
(* counters, retained, pending or with the panel, whatever the order of    *)
(* dispatches, deletions, reloads and failing reports (DelUsers,           *)
(* retireNodeUsers, GetUserTrafficSlice and flushUserTraffic).             *)
THEOREM NoTrafficIsLost == TrafficSpec => []NothingLost
<1>1. TrafficInv => NothingLost
  BY DEF TrafficInv
<1> QED
  BY <1>1, TrafficInvariant, PTL

(* Nothing is owed to the panel or booked by it that was not counted, but  *)
(* for reports whose reply was lost.                                       *)
THEOREM NoTrafficIsRepeated == TrafficSpec => []NothingTwice
<1>1. TrafficInv => NothingTwice
  BY DEF TrafficInv
<1> QED
  BY <1>1, TrafficInvariant, PTL
=============================================================================
