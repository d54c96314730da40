------------------------ MODULE NodeControllerProofs ------------------------
(***************************************************************************)
(* Proofs about NodeController for any users, plans, configurations and    *)
(* bounds: type correctness, ServedUsersAreLimited, FailedReloadKeepsOld.  *)
(***************************************************************************)
EXTENDS NodeController, TLAPS

(* Where Start and a tick are when. *)
Stages ==
  /\ Starting =>
       /\ pc \in {"down", "fetched", "apply", "limit", "add", "install"}
       /\ job = "boot"
       /\ served = {}
       /\ listAck = NoList
       /\ pc # "down" => newN # NoConfig
       /\ pc = "apply" => newU # NoList
  /\ ~Starting =>
       /\ pc # "down"
       /\ info # NoConfig
       /\ pc \in {"limit", "add", "install"} => job # "boot"
  /\ job = "legacy" => ~vless
  /\ job \in {"vless", "restore"} => vless
  /\ pc \in {"delete", "again", "limit", "add", "install", "undo"} =>
       newN # NoConfig /\ job # "users"
  /\ pc = "delete" => job \in {"vless", "legacy"}
  /\ pc \in {"again", "undo"} => job = "vless"
  /\ pc = "limit" => job # "restore"
  /\ pc \in {"delUsers", "addUsers", "update"} => job = "users" /\ newU # NoList
  /\ pc \in {"add", "install"} \/ (~Starting /\ pc # "closing") => limiter # NoList
  /\ job = "vless" /\ pc \in {"delete", "again", "limit", "add", "install", "undo"}
       => oldLimiter # NoList

(* A new node is installed where no user of an old one is left. *)
CleanInstall ==
  /\ pc \in {"limit", "install", "undo"} => served = {}
  /\ pc = "add" /\ job # "restore" => served = {}
  /\ pc = "install" => node # NoConfig
  /\ pc = "update" /\ served # {} => node # NoConfig

(* A limiter with an entry of the right speed for every user of a list. *)
Covers(m, l) ==
  /\ m # NoList
  /\ \A u \in Users :
       l[u] # Absent => m[u] # Absent /\ SpeedOf[m[u]] = SpeedOf[l[u]]

(* The registered limiter covers the list in force, but while a reload has *)
(* only one of them replaced; oldLimiter then covers it.                   *)
ListIsLimited ==
  /\ /\ ~Starting
     /\ pc # "closing"
     /\ ~(job = "legacy" /\ pc \in {"delete", "limit"})
     /\ ~(job = "vless" /\ pc \in {"add", "install", "undo"})
     => Covers(limiter, list)
  /\ job = "vless" /\ pc \in {"delete", "again", "limit", "add", "install", "undo"}
       => Covers(oldLimiter, list)
  /\ pc \in {"add", "install"} /\ job # "restore" => Covers(limiter, TargetList)
  /\ job = "legacy" /\ pc \in {"delete", "limit", "add", "install"}
       => newU \in {NoList, list}

(* The core's users, all along the update of the users. *)
ServedIsLimited ==
  /\ pc \notin {"update", "closing"} => \A u \in served : Limits(u)
  /\ pc = "addUsers" => served \cap Only(list, newU) = {}
  /\ pc = "update" =>
       \A u \in served :
         u \in Only(newU, list) \/ (Limits(u) /\ u \notin Only(list, newU))

(* A named node of another protocol keeps its limiter whatever the list.   *)
Limited == vless \/ ~named => ListIsLimited /\ ServedIsLimited

(* The core has no users but those of the list in force. *)
ServedIsListed ==
  /\ pc \notin {"addUsers", "update", "closing"} /\ ~(job = "legacy" /\ pc = "delete")
       => served \subseteq In(list)
  /\ pc = "addUsers" => served \subseteq In(list) \ Only(list, newU)
  /\ pc = "update" => served \subseteq In(newU)

IInv == TypeOK /\ Stages /\ CleanInstall /\ Limited /\ ServedIsListed

(* What the tick fetched is what it would accept. *)
Fetched == IF newU = NoList THEN list ELSE newU

Acceptance ==
  /\ ~Starting => info = cfgAck /\ list = listAck
  /\ pc \notin {"down", "idle", "fetched", "closing"} => pendingAck = Fetched

(* The old node runs with its users until it is deleted, and again once it *)
(* is restored; a user update takes out the deleted before it adds.        *)
Serving ==
  /\ pc \in {"idle", "fetched", "apply", "delete", "delUsers"}
       /\ ~Starting /\ ~restoreFailed =>
         /\ node = info
         /\ served \subseteq In(list)
         /\ ~torn => served = In(list)
  /\ pc = "addUsers" /\ ~restoreFailed =>
       /\ node = info
       /\ served \subseteq In(list) \ Only(list, newU)
       /\ ~torn => served = In(list) \ Only(list, newU)
  /\ pc = "update" /\ ~restoreFailed =>
       /\ node = info
       /\ served \subseteq In(newU)
       /\ ~torn => served = In(newU)
  /\ pc = "install" => node = Target

Kept == vless => Acceptance /\ Serving

KInv == IInv /\ Kept

(* Whatever the controller holds, the panel has said. *)
FromPanel ==
  /\ panelCfg \in seenCfgs
  /\ panelList \in seenLists
  /\ cfgAck \in seenCfgs \cup {NoConfig}
  /\ newN \in seenCfgs \cup {NoConfig}
  /\ listAck \in seenLists \cup {NoList}
  /\ newU \in seenLists \cup {NoList}
  /\ list \in seenLists \cup {Nobody}

(* An answer that is not accepted differs from the accepted one for good,  *)
(* since the panel does not return; and what is accepted is installed.     *)
Outdated ==
  /\ newN # NoConfig => cfgAck # panelCfg
  /\ newU # NoList => listAck # panelList
  /\ pc \notin {"down", "idle", "fetched", "closing"} =>
       pendingAck = IF newU = NoList THEN listAck ELSE newU
  /\ listAck = panelList => list = listAck
  /\ cfgAck = panelCfg => node = cfgAck
  /\ pc = "install" => node = Target

(* A listed user who is not served, or whom the update in hand takes out,  *)
(* is one whom the panel has taken out or given another speed meanwhile.   *)
MissingAreChanged ==
  /\ newU # NoList /\ pc \in {"apply", "delUsers", "addUsers"} =>
       Only(list, newU) \subseteq Only(list, panelList)
  /\ cfgAck = panelCfg /\ pc \notin {"addUsers", "update"} =>
       In(list) \ served \subseteq Only(list, panelList)
  /\ cfgAck = panelCfg /\ pc = "addUsers" =>
       In(list) \ (served \cup Only(list, newU)) \subseteq Only(list, panelList)
  /\ cfgAck = panelCfg /\ pc = "update" =>
       In(newU) \ served \subseteq Only(newU, panelList)

AInv == IInv /\ FromPanel /\ Outdated /\ MissingAreChanged

-----------------------------------------------------------------------------
(* Proofs. *)

LEMMA ListFacts == Nobody \in Lists /\ NoList \notin Lists
BY ConstantsAssumption DEF Nobody, Lists

LEMMA FaultCounts == faults \in 0 .. MaxFaults /\ Fault => faults' \in 0 .. MaxFaults
BY ConstantsAssumption DEF Fault

(* UpdateUser turns user limits into user limits. *)
LEMMA UpdatedType ==
  ASSUME NEW l \in Lists, list \in Lists, newU \in Lists
  PROVE  Updated(l) \in Lists
BY DEF Updated, Lists, Only, In

LEMMA TypeStep == TypeOK /\ Stages /\ CleanInstall /\ [Next]_vars => TypeOK'
<1> SUFFICES ASSUME TypeOK /\ Stages /\ CleanInstall, [Next]_vars PROVE TypeOK'
  OBVIOUS
<1> USE ConstantsAssumption, ListFacts, FaultCounts
    DEF TypeOK, Stages, CleanInstall, Starting, Target, TargetList, In, Points, Jobs,
        optVars, panelVars, coreVars, limVars, ctlVars, newVars, ackVars, histVars
<1> QED
  <2>1. ASSUME NEW n \in Configs, PanelNode(n) PROVE TypeOK'
    BY <2>1 DEF PanelNode
  <2>2. ASSUME NEW l \in Lists, PanelUsers(l) PROVE TypeOK'
    BY <2>2 DEF PanelUsers
  <2>3. ASSUME FetchNode PROVE TypeOK'
    BY <2>3 DEF FetchNode
  <2>4. ASSUME FetchUsers PROVE TypeOK'
    BY <2>4 DEF FetchUsers
  <2>5. ASSUME BeginStart PROVE TypeOK'
    BY <2>5 DEF BeginStart
  <2>6. ASSUME NoUsersAtStart PROVE TypeOK'
    BY <2>6 DEF NoUsersAtStart, Exit
  <2>7. ASSUME BeginVLESS PROVE TypeOK'
    BY <2>7 DEF BeginVLESS
  <2>8. ASSUME BeginLegacy PROVE TypeOK'
    BY <2>8 DEF BeginLegacy
  <2>9. ASSUME NothingNew PROVE TypeOK'
    BY <2>9 DEF NothingNew, Return
  <2>10. ASSUME BeginUsers PROVE TypeOK'
    BY <2>10 DEF BeginUsers
  <2>11. ASSUME DelNode PROVE TypeOK'
    BY <2>11 DEF DelNode
  <2>12. ASSUME DelNodeAgain PROVE TypeOK'
    BY <2>12, ZenonT(60) DEF DelNodeAgain
  <2>13. ASSUME AddLimiter PROVE TypeOK'
    BY <2>13 DEF AddLimiter
  <2>14. ASSUME AddNode PROVE TypeOK'
    BY <2>14 DEF AddNode
  <2>15. ASSUME AddUsers PROVE TypeOK'
    BY <2>15 DEF AddUsers, Return
  <2>16. ASSUME Restored PROVE TypeOK'
    BY <2>16 DEF Restored, Return
  <2>17. ASSUME Undo PROVE TypeOK'
    BY <2>17, ZenonT(60) DEF Undo
  <2>18. ASSUME DelUsers PROVE TypeOK'
    BY <2>18 DEF DelUsers
  <2>19. ASSUME AddNewUsers PROVE TypeOK'
    BY <2>19 DEF AddNewUsers, Only
  <2>20. ASSUME UpdateUser PROVE TypeOK'
    BY <2>20, UpdatedType DEF UpdateUser, Return
  <2>21. ASSUME Closed PROVE TypeOK'
    BY <2>21 DEF Closed, Exit
  <2>22. ASSUME FetchFails PROVE TypeOK'
    BY <2>22 DEF FetchFails, Exit, Return
  <2>23. ASSUME VLESSRejected PROVE TypeOK'
    BY <2>23 DEF VLESSRejected, Return
  <2>24. ASSUME DelNodeFails PROVE TypeOK'
    BY <2>24 DEF DelNodeFails, Exit
  <2>25. ASSUME PrepareFails PROVE TypeOK'
    BY <2>25 DEF PrepareFails, Exit, Return
  <2>26. ASSUME AddNodeFails PROVE TypeOK'
    <3> USE DEF AddNodeFails, Exit, Return
    <3>1. CASE job = "vless"
      BY <2>26, <3>1
    <3>2. CASE job = "restore"
      BY <2>26, <3>2
    <3>3. CASE job \notin {"vless", "restore"}
      BY <2>26, <3>3
    <3> QED
      BY <3>1, <3>2, <3>3
  <2>27. ASSUME AddUsersFails PROVE TypeOK'
    BY <2>27 DEF AddUsersFails, Exit, Return
  <2>28. ASSUME DelUsersFails PROVE TypeOK'
    BY <2>28 DEF DelUsersFails, Return
  <2>29. ASSUME AddNewUsersFails PROVE TypeOK'
    BY <2>29 DEF AddNewUsersFails, Return
  <2>30. ASSUME Close PROVE TypeOK'
    BY <2>30 DEF Close
  <2>31. ASSUME Crash PROVE TypeOK'
    BY <2>31 DEF Crash, Exit
  <2>32. ASSUME UNCHANGED vars PROVE TypeOK'
    BY <2>32 DEF vars
  <2> QED
    BY <2>1, <2>2, <2>3, <2>4, <2>5, <2>6, <2>7, <2>8, <2>9, <2>10, <2>11,
       <2>12, <2>13, <2>14, <2>15, <2>16, <2>17, <2>18, <2>19, <2>20, <2>21,
       <2>22, <2>23, <2>24, <2>25, <2>26, <2>27, <2>28, <2>29, <2>30, <2>31,
       <2>32
    DEF Next, Panel, Proceed, Fails

LEMMA StagesStep == TypeOK /\ Stages /\ CleanInstall /\ [Next]_vars => Stages'
<1> SUFFICES ASSUME TypeOK /\ Stages /\ CleanInstall, [Next]_vars PROVE Stages'
  OBVIOUS
<1> USE ConstantsAssumption, ListFacts
    DEF TypeOK, Stages, CleanInstall, Starting, Target, TargetList, In, Points, Jobs,
        optVars, panelVars, coreVars, limVars, ctlVars, newVars, ackVars, histVars
<1> QED
  <2>1. ASSUME NEW n \in Configs, PanelNode(n) PROVE Stages'
    BY <2>1 DEF PanelNode
  <2>2. ASSUME NEW l \in Lists, PanelUsers(l) PROVE Stages'
    BY <2>2 DEF PanelUsers
  <2>3. ASSUME FetchNode PROVE Stages'
    BY <2>3 DEF FetchNode
  <2>4. ASSUME FetchUsers PROVE Stages'
    BY <2>4 DEF FetchUsers
  <2>5. ASSUME BeginStart PROVE Stages'
    BY <2>5 DEF BeginStart
  <2>6. ASSUME NoUsersAtStart PROVE Stages'
    BY <2>6 DEF NoUsersAtStart, Exit
  <2>7. ASSUME BeginVLESS PROVE Stages'
    BY <2>7 DEF BeginVLESS
  <2>8. ASSUME BeginLegacy PROVE Stages'
    BY <2>8 DEF BeginLegacy
  <2>9. ASSUME NothingNew PROVE Stages'
    BY <2>9 DEF NothingNew, Return
  <2>10. ASSUME BeginUsers PROVE Stages'
    BY <2>10 DEF BeginUsers
  <2>11. ASSUME DelNode PROVE Stages'
    BY <2>11 DEF DelNode
  <2>12. ASSUME DelNodeAgain PROVE Stages'
    BY <2>12 DEF DelNodeAgain, Fault
  <2>13. ASSUME AddLimiter PROVE Stages'
    BY <2>13 DEF AddLimiter
  <2>14. ASSUME AddNode PROVE Stages'
    BY <2>14 DEF AddNode
  <2>15. ASSUME AddUsers PROVE Stages'
    BY <2>15 DEF AddUsers, Return
  <2>16. ASSUME Restored PROVE Stages'
    BY <2>16 DEF Restored, Return
  <2>17. ASSUME Undo PROVE Stages'
    BY <2>17 DEF Undo, Fault
  <2>18. ASSUME DelUsers PROVE Stages'
    BY <2>18 DEF DelUsers
  <2>19. ASSUME AddNewUsers PROVE Stages'
    BY <2>19 DEF AddNewUsers
  <2>20. ASSUME UpdateUser PROVE Stages'
    BY <2>20, UpdatedType DEF UpdateUser, Return
  <2>21. ASSUME Closed PROVE Stages'
    BY <2>21 DEF Closed, Exit
  <2>22. ASSUME FetchFails PROVE Stages'
    BY <2>22 DEF FetchFails, Fault, Exit, Return
  <2>23. ASSUME VLESSRejected PROVE Stages'
    BY <2>23 DEF VLESSRejected, Fault, Return
  <2>24. ASSUME DelNodeFails PROVE Stages'
    BY <2>24 DEF DelNodeFails, Fault, Exit
  <2>25. ASSUME PrepareFails PROVE Stages'
    BY <2>25 DEF PrepareFails, Fault, Exit, Return
  <2>26. ASSUME AddNodeFails PROVE Stages'
    BY <2>26 DEF AddNodeFails, Fault, Exit, Return
  <2>27. ASSUME AddUsersFails PROVE Stages'
    BY <2>27 DEF AddUsersFails, Fault, Exit, Return
  <2>28. ASSUME DelUsersFails PROVE Stages'
    BY <2>28 DEF DelUsersFails, Fault, Return
  <2>29. ASSUME AddNewUsersFails PROVE Stages'
    BY <2>29 DEF AddNewUsersFails, Fault, Return
  <2>30. ASSUME Close PROVE Stages'
    BY <2>30 DEF Close, Fault
  <2>31. ASSUME Crash PROVE Stages'
    BY <2>31 DEF Crash, Fault, Exit
  <2>32. ASSUME UNCHANGED vars PROVE Stages'
    BY <2>32 DEF vars
  <2> QED
    BY <2>1, <2>2, <2>3, <2>4, <2>5, <2>6, <2>7, <2>8, <2>9, <2>10, <2>11,
       <2>12, <2>13, <2>14, <2>15, <2>16, <2>17, <2>18, <2>19, <2>20, <2>21,
       <2>22, <2>23, <2>24, <2>25, <2>26, <2>27, <2>28, <2>29, <2>30, <2>31,
       <2>32
    DEF Next, Panel, Proceed, Fails

LEMMA CleanInstallStep == TypeOK /\ Stages /\ CleanInstall /\ [Next]_vars => CleanInstall'
<1> SUFFICES ASSUME TypeOK /\ Stages /\ CleanInstall, [Next]_vars PROVE CleanInstall'
  OBVIOUS
<1> USE ConstantsAssumption
    DEF TypeOK, Stages, CleanInstall, Starting, Target, TargetList, In, Only, Points, Jobs,
        optVars, panelVars, coreVars, limVars, ctlVars, newVars, ackVars, histVars
<1> QED
  <2>1. ASSUME NEW n \in Configs, PanelNode(n) PROVE CleanInstall'
    BY <2>1 DEF PanelNode
  <2>2. ASSUME NEW l \in Lists, PanelUsers(l) PROVE CleanInstall'
    BY <2>2 DEF PanelUsers
  <2>3. ASSUME FetchNode PROVE CleanInstall'
    BY <2>3 DEF FetchNode
  <2>4. ASSUME FetchUsers PROVE CleanInstall'
    BY <2>4 DEF FetchUsers
  <2>5. ASSUME BeginStart PROVE CleanInstall'
    BY <2>5 DEF BeginStart
  <2>6. ASSUME NoUsersAtStart PROVE CleanInstall'
    BY <2>6 DEF NoUsersAtStart, Exit
  <2>7. ASSUME BeginVLESS PROVE CleanInstall'
    BY <2>7 DEF BeginVLESS
  <2>8. ASSUME BeginLegacy PROVE CleanInstall'
    BY <2>8 DEF BeginLegacy
  <2>9. ASSUME NothingNew PROVE CleanInstall'
    BY <2>9 DEF NothingNew, Return
  <2>10. ASSUME BeginUsers PROVE CleanInstall'
    BY <2>10 DEF BeginUsers
  <2>11. ASSUME DelNode PROVE CleanInstall'
    BY <2>11 DEF DelNode
  <2>12. ASSUME DelNodeAgain PROVE CleanInstall'
    BY <2>12 DEF DelNodeAgain, Fault
  <2>13. ASSUME AddLimiter PROVE CleanInstall'
    BY <2>13 DEF AddLimiter
  <2>14. ASSUME AddNode PROVE CleanInstall'
    BY <2>14 DEF AddNode
  <2>15. ASSUME AddUsers PROVE CleanInstall'
    BY <2>15 DEF AddUsers, Return
  <2>16. ASSUME Restored PROVE CleanInstall'
    BY <2>16 DEF Restored, Return
  <2>17. ASSUME Undo PROVE CleanInstall'
    BY <2>17 DEF Undo, Fault
  <2>18. ASSUME DelUsers PROVE CleanInstall'
    BY <2>18 DEF DelUsers
  <2>19. ASSUME AddNewUsers PROVE CleanInstall'
    BY <2>19 DEF AddNewUsers
  <2>20. ASSUME UpdateUser PROVE CleanInstall'
    BY <2>20 DEF UpdateUser, Return
  <2>21. ASSUME Closed PROVE CleanInstall'
    BY <2>21 DEF Closed, Exit
  <2>22. ASSUME FetchFails PROVE CleanInstall'
    BY <2>22 DEF FetchFails, Fault, Exit, Return
  <2>23. ASSUME VLESSRejected PROVE CleanInstall'
    BY <2>23 DEF VLESSRejected, Fault, Return
  <2>24. ASSUME DelNodeFails PROVE CleanInstall'
    BY <2>24 DEF DelNodeFails, Fault, Exit
  <2>25. ASSUME PrepareFails PROVE CleanInstall'
    BY <2>25 DEF PrepareFails, Fault, Exit, Return
  <2>26. ASSUME AddNodeFails PROVE CleanInstall'
    BY <2>26 DEF AddNodeFails, Fault, Exit, Return
  <2>27. ASSUME AddUsersFails PROVE CleanInstall'
    BY <2>27 DEF AddUsersFails, Fault, Exit, Return
  <2>28. ASSUME DelUsersFails PROVE CleanInstall'
    BY <2>28 DEF DelUsersFails, Fault, Return
  <2>29. ASSUME AddNewUsersFails PROVE CleanInstall'
    BY <2>29 DEF AddNewUsersFails, Fault, Return
  <2>30. ASSUME Close PROVE CleanInstall'
    BY <2>30 DEF Close, Fault
  <2>31. ASSUME Crash PROVE CleanInstall'
    BY <2>31 DEF Crash, Fault, Exit
  <2>32. ASSUME UNCHANGED vars PROVE CleanInstall'
    BY <2>32 DEF vars
  <2> QED
    BY <2>1, <2>2, <2>3, <2>4, <2>5, <2>6, <2>7, <2>8, <2>9, <2>10, <2>11,
       <2>12, <2>13, <2>14, <2>15, <2>16, <2>17, <2>18, <2>19, <2>20, <2>21,
       <2>22, <2>23, <2>24, <2>25, <2>26, <2>27, <2>28, <2>29, <2>30, <2>31,
       <2>32
    DEF Next, Panel, Proceed, Fails

LEMMA LimitedStep == TypeOK /\ Stages /\ CleanInstall /\ Limited /\ [Next]_vars => Limited'
<1> SUFFICES ASSUME TypeOK /\ Stages /\ CleanInstall /\ Limited, [Next]_vars PROVE Limited'
  OBVIOUS
<1> USE ConstantsAssumption
    DEF TypeOK, Stages, CleanInstall, Starting, Target, TargetList, In, Only, Updated, Lists, Points, Jobs,
        Limited, ListIsLimited, ServedIsLimited, Covers, Limits,
        optVars, panelVars, coreVars, limVars, ctlVars, newVars, ackVars, histVars
<1> QED
  <2>1. ASSUME NEW n \in Configs, PanelNode(n) PROVE Limited'
    BY <2>1 DEF PanelNode
  <2>2. ASSUME NEW l \in Lists, PanelUsers(l) PROVE Limited'
    BY <2>2 DEF PanelUsers
  <2>3. ASSUME FetchNode PROVE Limited'
    BY <2>3 DEF FetchNode
  <2>4. ASSUME FetchUsers PROVE Limited'
    BY <2>4 DEF FetchUsers
  <2>5. ASSUME BeginStart PROVE Limited'
    BY <2>5 DEF BeginStart
  <2>6. ASSUME NoUsersAtStart PROVE Limited'
    BY <2>6 DEF NoUsersAtStart, Exit
  <2>7. ASSUME BeginVLESS PROVE Limited'
    BY <2>7 DEF BeginVLESS
  <2>8. ASSUME BeginLegacy PROVE Limited'
    BY <2>8 DEF BeginLegacy
  <2>9. ASSUME NothingNew PROVE Limited'
    BY <2>9 DEF NothingNew, Return
  <2>10. ASSUME BeginUsers PROVE Limited'
    BY <2>10 DEF BeginUsers
  <2>11. ASSUME DelNode PROVE Limited'
    BY <2>11 DEF DelNode
  <2>12. ASSUME DelNodeAgain PROVE Limited'
    BY <2>12 DEF DelNodeAgain, Fault
  <2>13. ASSUME AddLimiter PROVE Limited'
    BY <2>13 DEF AddLimiter
  <2>14. ASSUME AddNode PROVE Limited'
    BY <2>14 DEF AddNode
  <2>15. ASSUME AddUsers PROVE Limited'
    BY <2>15 DEF AddUsers, Return
  <2>16. ASSUME Restored PROVE Limited'
    BY <2>16 DEF Restored, Return
  <2>17. ASSUME Undo PROVE Limited'
    BY <2>17 DEF Undo, Fault
  <2>18. ASSUME DelUsers PROVE Limited'
    BY <2>18 DEF DelUsers
  <2>19. ASSUME AddNewUsers PROVE Limited'
    BY <2>19 DEF AddNewUsers
  <2>20. ASSUME UpdateUser PROVE Limited'
    BY <2>20 DEF UpdateUser, Return
  <2>21. ASSUME Closed PROVE Limited'
    BY <2>21 DEF Closed, Exit
  <2>22. ASSUME FetchFails PROVE Limited'
    BY <2>22 DEF FetchFails, Fault, Exit, Return
  <2>23. ASSUME VLESSRejected PROVE Limited'
    BY <2>23 DEF VLESSRejected, Fault, Return
  <2>24. ASSUME DelNodeFails PROVE Limited'
    BY <2>24 DEF DelNodeFails, Fault, Exit
  <2>25. ASSUME PrepareFails PROVE Limited'
    BY <2>25 DEF PrepareFails, Fault, Exit, Return
  <2>26. ASSUME AddNodeFails PROVE Limited'
    BY <2>26 DEF AddNodeFails, Fault, Exit, Return
  <2>27. ASSUME AddUsersFails PROVE Limited'
    BY <2>27 DEF AddUsersFails, Fault, Exit, Return
  <2>28. ASSUME DelUsersFails PROVE Limited'
    BY <2>28 DEF DelUsersFails, Fault, Return
  <2>29. ASSUME AddNewUsersFails PROVE Limited'
    BY <2>29 DEF AddNewUsersFails, Fault, Return
  <2>30. ASSUME Close PROVE Limited'
    BY <2>30 DEF Close, Fault
  <2>31. ASSUME Crash PROVE Limited'
    BY <2>31 DEF Crash, Fault, Exit
  <2>32. ASSUME UNCHANGED vars PROVE Limited'
    BY <2>32 DEF vars
  <2> QED
    BY <2>1, <2>2, <2>3, <2>4, <2>5, <2>6, <2>7, <2>8, <2>9, <2>10, <2>11,
       <2>12, <2>13, <2>14, <2>15, <2>16, <2>17, <2>18, <2>19, <2>20, <2>21,
       <2>22, <2>23, <2>24, <2>25, <2>26, <2>27, <2>28, <2>29, <2>30, <2>31,
       <2>32
    DEF Next, Panel, Proceed, Fails

LEMMA ListedStep == TypeOK /\ Stages /\ CleanInstall /\ ServedIsListed /\ [Next]_vars => ServedIsListed'
<1> SUFFICES ASSUME TypeOK /\ Stages /\ CleanInstall /\ ServedIsListed, [Next]_vars PROVE ServedIsListed'
  OBVIOUS
<1> USE ConstantsAssumption
    DEF TypeOK, Stages, CleanInstall, Starting, Target, TargetList, In, Only, Lists, Points, Jobs,
        ServedIsListed,
        optVars, panelVars, coreVars, limVars, ctlVars, newVars, ackVars, histVars
<1> QED
  <2>1. ASSUME NEW n \in Configs, PanelNode(n) PROVE ServedIsListed'
    BY <2>1 DEF PanelNode
  <2>2. ASSUME NEW l \in Lists, PanelUsers(l) PROVE ServedIsListed'
    BY <2>2 DEF PanelUsers
  <2>3. ASSUME FetchNode PROVE ServedIsListed'
    BY <2>3 DEF FetchNode
  <2>4. ASSUME FetchUsers PROVE ServedIsListed'
    BY <2>4 DEF FetchUsers
  <2>5. ASSUME BeginStart PROVE ServedIsListed'
    BY <2>5 DEF BeginStart
  <2>6. ASSUME NoUsersAtStart PROVE ServedIsListed'
    BY <2>6 DEF NoUsersAtStart, Exit
  <2>7. ASSUME BeginVLESS PROVE ServedIsListed'
    BY <2>7 DEF BeginVLESS
  <2>8. ASSUME BeginLegacy PROVE ServedIsListed'
    BY <2>8 DEF BeginLegacy
  <2>9. ASSUME NothingNew PROVE ServedIsListed'
    BY <2>9 DEF NothingNew, Return
  <2>10. ASSUME BeginUsers PROVE ServedIsListed'
    BY <2>10 DEF BeginUsers
  <2>11. ASSUME DelNode PROVE ServedIsListed'
    BY <2>11 DEF DelNode
  <2>12. ASSUME DelNodeAgain PROVE ServedIsListed'
    BY <2>12 DEF DelNodeAgain, Fault
  <2>13. ASSUME AddLimiter PROVE ServedIsListed'
    BY <2>13 DEF AddLimiter
  <2>14. ASSUME AddNode PROVE ServedIsListed'
    BY <2>14 DEF AddNode
  <2>15. ASSUME AddUsers PROVE ServedIsListed'
    BY <2>15 DEF AddUsers, Return
  <2>16. ASSUME Restored PROVE ServedIsListed'
    BY <2>16 DEF Restored, Return
  <2>17. ASSUME Undo PROVE ServedIsListed'
    BY <2>17 DEF Undo, Fault
  <2>18. ASSUME DelUsers PROVE ServedIsListed'
    BY <2>18 DEF DelUsers
  <2>19. ASSUME AddNewUsers PROVE ServedIsListed'
    BY <2>19 DEF AddNewUsers
  <2>20. ASSUME UpdateUser PROVE ServedIsListed'
    BY <2>20 DEF UpdateUser, Return
  <2>21. ASSUME Closed PROVE ServedIsListed'
    BY <2>21 DEF Closed, Exit
  <2>22. ASSUME FetchFails PROVE ServedIsListed'
    BY <2>22 DEF FetchFails, Fault, Exit, Return
  <2>23. ASSUME VLESSRejected PROVE ServedIsListed'
    BY <2>23 DEF VLESSRejected, Fault, Return
  <2>24. ASSUME DelNodeFails PROVE ServedIsListed'
    BY <2>24 DEF DelNodeFails, Fault, Exit
  <2>25. ASSUME PrepareFails PROVE ServedIsListed'
    BY <2>25 DEF PrepareFails, Fault, Exit, Return
  <2>26. ASSUME AddNodeFails PROVE ServedIsListed'
    BY <2>26 DEF AddNodeFails, Fault, Exit, Return
  <2>27. ASSUME AddUsersFails PROVE ServedIsListed'
    BY <2>27 DEF AddUsersFails, Fault, Exit, Return
  <2>28. ASSUME DelUsersFails PROVE ServedIsListed'
    BY <2>28 DEF DelUsersFails, Fault, Return
  <2>29. ASSUME AddNewUsersFails PROVE ServedIsListed'
    BY <2>29 DEF AddNewUsersFails, Fault, Return
  <2>30. ASSUME Close PROVE ServedIsListed'
    BY <2>30 DEF Close, Fault
  <2>31. ASSUME Crash PROVE ServedIsListed'
    BY <2>31 DEF Crash, Fault, Exit
  <2>32. ASSUME UNCHANGED vars PROVE ServedIsListed'
    BY <2>32 DEF vars
  <2> QED
    BY <2>1, <2>2, <2>3, <2>4, <2>5, <2>6, <2>7, <2>8, <2>9, <2>10, <2>11,
       <2>12, <2>13, <2>14, <2>15, <2>16, <2>17, <2>18, <2>19, <2>20, <2>21,
       <2>22, <2>23, <2>24, <2>25, <2>26, <2>27, <2>28, <2>29, <2>30, <2>31,
       <2>32
    DEF Next, Panel, Proceed, Fails

LEMMA InvStep == IInv /\ [Next]_vars => IInv'
BY TypeStep, StagesStep, CleanInstallStep, LimitedStep, ListedStep DEF IInv

LEMMA InvInit == Init => IInv
<1> SUFFICES ASSUME Init PROVE IInv
  OBVIOUS
<1>1. TypeOK
  <2>1. changes \in 0 .. MaxChanges /\ faults \in 0 .. MaxFaults
    BY ConstantsAssumption DEF Init
  <2>2. seenCfgs \in SUBSET Configs /\ seenLists \in SUBSET Lists
    BY DEF Init
  <2>3. list \in Lists /\ panelList \in Lists
    BY ListFacts DEF Init
  <2> QED
    BY <2>1, <2>2, <2>3 DEF Init, TypeOK, Points, Jobs
<1>2. Stages /\ CleanInstall
  BY ConstantsAssumption DEF Init, Stages, CleanInstall, Starting
<1>3. Limited
  BY ConstantsAssumption
  DEF Init, Limited, ListIsLimited, ServedIsLimited, Starting, Covers, Limits
<1>4. ServedIsListed
  BY DEF Init, ServedIsListed
<1> QED
  BY <1>1, <1>2, <1>3, <1>4 DEF IInv

(* Every reachable state is one of the controller's, and no user is served *)
(* without a node.                                                         *)
THEOREM TypeCorrect == Spec => []TypeOK
<1>1. IInv => TypeOK
  BY DEF IInv
<1> QED
  BY <1>1, InvInit, InvStep, PTL DEF Spec

(* Whatever fails in Start or in a tick, and whatever the panel answers,   *)
(* the core never authenticates a user without a limiter entry.            *)
THEOREM NobodyIsServedUnlimited == Spec => []ServedUsersAreLimited
<1>1. IInv => ServedUsersAreLimited
  BY DEF IInv, Limited, ServedIsLimited, ServedUsersAreLimited
<1> QED
  BY <1>1, InvInit, InvStep, PTL DEF Spec

(* Between two ticks a user is served at the speed of the list in force,   *)
(* whichever updates and reloads succeeded or failed before.               *)
THEOREM NobodyIsServedTooFast == Spec => []SpeedIsEnforced
<1>1. IInv => SpeedIsEnforced
  BY DEF IInv, TypeOK, Stages, Starting, Limited, ListIsLimited, ServedIsListed,
         Covers, In, SpeedIsEnforced
<1> QED
  BY <1>1, InvInit, InvStep, PTL DEF Spec

LEMMA KeptStep == IInv /\ Kept /\ [Next]_vars => Kept'
<1> SUFFICES ASSUME IInv /\ Kept, [Next]_vars PROVE Kept'
  OBVIOUS
<1> USE ConstantsAssumption, ListFacts
    DEF IInv, TypeOK, Stages, CleanInstall, Starting, Target, TargetList, Fetched, In, Only,
        Points, Jobs, Kept, Acceptance, Serving,
        optVars, panelVars, coreVars, limVars, ctlVars, newVars, ackVars, histVars
<1> QED
  <2>1. ASSUME NEW n \in Configs, PanelNode(n) PROVE Kept'
    BY <2>1 DEF PanelNode
  <2>2. ASSUME NEW l \in Lists, PanelUsers(l) PROVE Kept'
    BY <2>2 DEF PanelUsers
  <2>3. ASSUME FetchNode PROVE Kept'
    BY <2>3 DEF FetchNode
  <2>4. ASSUME FetchUsers PROVE Kept'
    BY <2>4 DEF FetchUsers
  <2>5. ASSUME BeginStart PROVE Kept'
    BY <2>5 DEF BeginStart
  <2>6. ASSUME NoUsersAtStart PROVE Kept'
    BY <2>6 DEF NoUsersAtStart, Exit
  <2>7. ASSUME BeginVLESS PROVE Kept'
    BY <2>7 DEF BeginVLESS
  <2>8. ASSUME BeginLegacy PROVE Kept'
    BY <2>8 DEF BeginLegacy
  <2>9. ASSUME NothingNew PROVE Kept'
    BY <2>9 DEF NothingNew, Return
  <2>10. ASSUME BeginUsers PROVE Kept'
    BY <2>10 DEF BeginUsers
  <2>11. ASSUME DelNode PROVE Kept'
    BY <2>11 DEF DelNode
  <2>12. ASSUME DelNodeAgain PROVE Kept'
    BY <2>12 DEF DelNodeAgain, Fault
  <2>13. ASSUME AddLimiter PROVE Kept'
    BY <2>13 DEF AddLimiter
  <2>14. ASSUME AddNode PROVE Kept'
    BY <2>14 DEF AddNode
  <2>15. ASSUME AddUsers PROVE Kept'
    BY <2>15 DEF AddUsers, Return
  <2>16. ASSUME Restored PROVE Kept'
    BY <2>16 DEF Restored, Return
  <2>17. ASSUME Undo PROVE Kept'
    BY <2>17 DEF Undo, Fault
  <2>18. ASSUME DelUsers PROVE Kept'
    BY <2>18 DEF DelUsers
  <2>19. ASSUME AddNewUsers PROVE Kept'
    BY <2>19 DEF AddNewUsers
  <2>20. ASSUME UpdateUser PROVE Kept'
    BY <2>20 DEF UpdateUser, Return
  <2>21. ASSUME Closed PROVE Kept'
    BY <2>21 DEF Closed, Exit
  <2>22. ASSUME FetchFails PROVE Kept'
    BY <2>22 DEF FetchFails, Fault, Exit, Return
  <2>23. ASSUME VLESSRejected PROVE Kept'
    BY <2>23 DEF VLESSRejected, Fault, Return
  <2>24. ASSUME DelNodeFails PROVE Kept'
    BY <2>24 DEF DelNodeFails, Fault, Exit
  <2>25. ASSUME PrepareFails PROVE Kept'
    BY <2>25 DEF PrepareFails, Fault, Exit, Return
  <2>26. ASSUME AddNodeFails PROVE Kept'
    BY <2>26 DEF AddNodeFails, Fault, Exit, Return
  <2>27. ASSUME AddUsersFails PROVE Kept'
    BY <2>27 DEF AddUsersFails, Fault, Exit, Return
  <2>28. ASSUME DelUsersFails PROVE Kept'
    BY <2>28 DEF DelUsersFails, Fault, Return
  <2>29. ASSUME AddNewUsersFails PROVE Kept'
    BY <2>29 DEF AddNewUsersFails, Fault, Return
  <2>30. ASSUME Close PROVE Kept'
    BY <2>30 DEF Close, Fault
  <2>31. ASSUME Crash PROVE Kept'
    BY <2>31 DEF Crash, Fault, Exit
  <2>32. ASSUME UNCHANGED vars PROVE Kept'
    BY <2>32 DEF vars
  <2> QED
    BY <2>1, <2>2, <2>3, <2>4, <2>5, <2>6, <2>7, <2>8, <2>9, <2>10, <2>11,
       <2>12, <2>13, <2>14, <2>15, <2>16, <2>17, <2>18, <2>19, <2>20, <2>21,
       <2>22, <2>23, <2>24, <2>25, <2>26, <2>27, <2>28, <2>29, <2>30, <2>31,
       <2>32
    DEF Next, Panel, Proceed, Fails

LEMMA KInvStep == KInv /\ [Next]_vars => KInv'
BY InvStep, KeptStep DEF KInv

(* A VLESS reload that fails leaves the accepted node and its users as     *)
(* they were, unless the restoration failed and said so.                   *)
THEOREM FailedReloadIsHarmless == Spec => []FailedReloadKeepsOld
<1>1. Init => KInv
  BY InvInit, ConstantsAssumption
  DEF Init, KInv, Kept, Acceptance, Serving, Starting, Fetched
<1>2. KInv => FailedReloadKeepsOld
  BY DEF KInv, IInv, Stages, Kept, Acceptance, Serving, FailedReloadKeepsOld, Starting
<1> QED
  BY <1>1, <1>2, KInvStep, PTL DEF Spec

(* A panel that does not return leaves a changed user changed. *)
LEMMA StaysChanged ==
  ASSUME NEW l \in Lists, NEW k \in seenLists \cup {Nobody}, ~Returns(l)
  PROVE  Only(k, panelList) \subseteq Only(k, l)
BY ConstantsAssumption DEF Returns, Only, In, Nobody, Lists

LEMMA FromPanelStep ==
  ASSUME ~MayRevert, IInv, FromPanel, Outdated, [Next]_vars
  PROVE  FromPanel'
<1> USE ConstantsAssumption
    DEF IInv, TypeOK, Stages, CleanInstall, Starting, Target, TargetList, FromPanel, Outdated,
        optVars, panelVars, coreVars, limVars, ctlVars, newVars, ackVars, histVars
<1> QED
  <2>1. ASSUME NEW n \in Configs, PanelNode(n) PROVE FromPanel'
    BY <2>1 DEF PanelNode
  <2>2. ASSUME NEW l \in Lists, PanelUsers(l) PROVE FromPanel'
    BY <2>2 DEF PanelUsers
  <2>3. ASSUME FetchNode PROVE FromPanel'
    BY <2>3 DEF FetchNode
  <2>4. ASSUME FetchUsers PROVE FromPanel'
    BY <2>4 DEF FetchUsers
  <2>5. ASSUME BeginStart PROVE FromPanel'
    BY <2>5 DEF BeginStart
  <2>6. ASSUME NoUsersAtStart PROVE FromPanel'
    BY <2>6 DEF NoUsersAtStart, Exit
  <2>7. ASSUME BeginVLESS PROVE FromPanel'
    BY <2>7 DEF BeginVLESS
  <2>8. ASSUME BeginLegacy PROVE FromPanel'
    BY <2>8 DEF BeginLegacy
  <2>9. ASSUME NothingNew PROVE FromPanel'
    BY <2>9 DEF NothingNew, Return
  <2>10. ASSUME BeginUsers PROVE FromPanel'
    BY <2>10 DEF BeginUsers
  <2>11. ASSUME DelNode PROVE FromPanel'
    BY <2>11 DEF DelNode
  <2>12. ASSUME DelNodeAgain PROVE FromPanel'
    BY <2>12 DEF DelNodeAgain, Fault
  <2>13. ASSUME AddLimiter PROVE FromPanel'
    BY <2>13 DEF AddLimiter
  <2>14. ASSUME AddNode PROVE FromPanel'
    BY <2>14 DEF AddNode
  <2>15. ASSUME AddUsers PROVE FromPanel'
    BY <2>15 DEF AddUsers, Return
  <2>16. ASSUME Restored PROVE FromPanel'
    BY <2>16 DEF Restored, Return
  <2>17. ASSUME Undo PROVE FromPanel'
    BY <2>17 DEF Undo, Fault
  <2>18. ASSUME DelUsers PROVE FromPanel'
    BY <2>18 DEF DelUsers
  <2>19. ASSUME AddNewUsers PROVE FromPanel'
    BY <2>19 DEF AddNewUsers
  <2>20. ASSUME UpdateUser PROVE FromPanel'
    BY <2>20 DEF UpdateUser, Return
  <2>21. ASSUME Closed PROVE FromPanel'
    BY <2>21 DEF Closed, Exit
  <2>22. ASSUME FetchFails PROVE FromPanel'
    BY <2>22 DEF FetchFails, Fault, Exit, Return
  <2>23. ASSUME VLESSRejected PROVE FromPanel'
    BY <2>23 DEF VLESSRejected, Fault, Return
  <2>24. ASSUME DelNodeFails PROVE FromPanel'
    BY <2>24 DEF DelNodeFails, Fault, Exit
  <2>25. ASSUME PrepareFails PROVE FromPanel'
    BY <2>25 DEF PrepareFails, Fault, Exit, Return
  <2>26. ASSUME AddNodeFails PROVE FromPanel'
    BY <2>26 DEF AddNodeFails, Fault, Exit, Return
  <2>27. ASSUME AddUsersFails PROVE FromPanel'
    BY <2>27 DEF AddUsersFails, Fault, Exit, Return
  <2>28. ASSUME DelUsersFails PROVE FromPanel'
    BY <2>28 DEF DelUsersFails, Fault, Return
  <2>29. ASSUME AddNewUsersFails PROVE FromPanel'
    BY <2>29 DEF AddNewUsersFails, Fault, Return
  <2>30. ASSUME Close PROVE FromPanel'
    BY <2>30 DEF Close, Fault
  <2>31. ASSUME Crash PROVE FromPanel'
    BY <2>31 DEF Crash, Fault, Exit
  <2>32. ASSUME UNCHANGED vars PROVE FromPanel'
    BY <2>32 DEF vars
  <2> QED
    BY <2>1, <2>2, <2>3, <2>4, <2>5, <2>6, <2>7, <2>8, <2>9, <2>10, <2>11,
       <2>12, <2>13, <2>14, <2>15, <2>16, <2>17, <2>18, <2>19, <2>20, <2>21,
       <2>22, <2>23, <2>24, <2>25, <2>26, <2>27, <2>28, <2>29, <2>30, <2>31,
       <2>32
    DEF Next, Panel, Proceed, Fails

LEMMA OutdatedStep ==
  ASSUME ~MayRevert, IInv, FromPanel, Outdated, [Next]_vars
  PROVE  Outdated'
<1> USE ConstantsAssumption, ListFacts
    DEF IInv, TypeOK, Stages, CleanInstall, Starting, Target, TargetList, FromPanel, Outdated, Returns,
        optVars, panelVars, coreVars, limVars, ctlVars, newVars, ackVars, histVars
<1> QED
  <2>1. ASSUME NEW n \in Configs, PanelNode(n) PROVE Outdated'
    BY <2>1 DEF PanelNode
  <2>2. ASSUME NEW l \in Lists, PanelUsers(l) PROVE Outdated'
    BY <2>2 DEF PanelUsers
  <2>3. ASSUME FetchNode PROVE Outdated'
    BY <2>3 DEF FetchNode
  <2>4. ASSUME FetchUsers PROVE Outdated'
    BY <2>4 DEF FetchUsers
  <2>5. ASSUME BeginStart PROVE Outdated'
    BY <2>5 DEF BeginStart
  <2>6. ASSUME NoUsersAtStart PROVE Outdated'
    BY <2>6 DEF NoUsersAtStart, Exit
  <2>7. ASSUME BeginVLESS PROVE Outdated'
    BY <2>7 DEF BeginVLESS
  <2>8. ASSUME BeginLegacy PROVE Outdated'
    BY <2>8 DEF BeginLegacy
  <2>9. ASSUME NothingNew PROVE Outdated'
    BY <2>9 DEF NothingNew, Return
  <2>10. ASSUME BeginUsers PROVE Outdated'
    BY <2>10 DEF BeginUsers
  <2>11. ASSUME DelNode PROVE Outdated'
    BY <2>11 DEF DelNode
  <2>12. ASSUME DelNodeAgain PROVE Outdated'
    BY <2>12 DEF DelNodeAgain, Fault
  <2>13. ASSUME AddLimiter PROVE Outdated'
    BY <2>13 DEF AddLimiter
  <2>14. ASSUME AddNode PROVE Outdated'
    BY <2>14 DEF AddNode
  <2>15. ASSUME AddUsers PROVE Outdated'
    BY <2>15 DEF AddUsers, Return
  <2>16. ASSUME Restored PROVE Outdated'
    BY <2>16 DEF Restored, Return
  <2>17. ASSUME Undo PROVE Outdated'
    BY <2>17 DEF Undo, Fault
  <2>18. ASSUME DelUsers PROVE Outdated'
    BY <2>18 DEF DelUsers
  <2>19. ASSUME AddNewUsers PROVE Outdated'
    BY <2>19 DEF AddNewUsers
  <2>20. ASSUME UpdateUser PROVE Outdated'
    BY <2>20 DEF UpdateUser, Return
  <2>21. ASSUME Closed PROVE Outdated'
    BY <2>21 DEF Closed, Exit
  <2>22. ASSUME FetchFails PROVE Outdated'
    BY <2>22 DEF FetchFails, Fault, Exit, Return
  <2>23. ASSUME VLESSRejected PROVE Outdated'
    BY <2>23 DEF VLESSRejected, Fault, Return
  <2>24. ASSUME DelNodeFails PROVE Outdated'
    BY <2>24 DEF DelNodeFails, Fault, Exit
  <2>25. ASSUME PrepareFails PROVE Outdated'
    BY <2>25 DEF PrepareFails, Fault, Exit, Return
  <2>26. ASSUME AddNodeFails PROVE Outdated'
    BY <2>26 DEF AddNodeFails, Fault, Exit, Return
  <2>27. ASSUME AddUsersFails PROVE Outdated'
    BY <2>27 DEF AddUsersFails, Fault, Exit, Return
  <2>28. ASSUME DelUsersFails PROVE Outdated'
    BY <2>28 DEF DelUsersFails, Fault, Return
  <2>29. ASSUME AddNewUsersFails PROVE Outdated'
    BY <2>29 DEF AddNewUsersFails, Fault, Return
  <2>30. ASSUME Close PROVE Outdated'
    BY <2>30 DEF Close, Fault
  <2>31. ASSUME Crash PROVE Outdated'
    BY <2>31 DEF Crash, Fault, Exit
  <2>32. ASSUME UNCHANGED vars PROVE Outdated'
    BY <2>32 DEF vars
  <2> QED
    BY <2>1, <2>2, <2>3, <2>4, <2>5, <2>6, <2>7, <2>8, <2>9, <2>10, <2>11,
       <2>12, <2>13, <2>14, <2>15, <2>16, <2>17, <2>18, <2>19, <2>20, <2>21,
       <2>22, <2>23, <2>24, <2>25, <2>26, <2>27, <2>28, <2>29, <2>30, <2>31,
       <2>32
    DEF Next, Panel, Proceed, Fails

LEMMA MissingStep ==
  ASSUME ~MayRevert, IInv, FromPanel, Outdated, MissingAreChanged, [Next]_vars
  PROVE  MissingAreChanged'
<1> USE ConstantsAssumption, ListFacts
    DEF IInv, TypeOK, Stages, CleanInstall, Starting, Target, TargetList, ServedIsListed, FromPanel, Outdated, MissingAreChanged, In, Only, Lists,
        optVars, panelVars, coreVars, limVars, ctlVars, newVars, ackVars, histVars
<1> QED
  <2>1. ASSUME NEW n \in Configs, PanelNode(n) PROVE MissingAreChanged'
    BY <2>1 DEF PanelNode
  <2>2. ASSUME NEW l \in Lists, PanelUsers(l) PROVE MissingAreChanged'
    <3>1. /\ panelList' = l
          /\ UNCHANGED <<pc, cfgAck, newU, list, served, panelCfg>>
      BY <2>2 DEF PanelUsers
    <3>2. \A k \in seenLists \cup {Nobody} : Only(k, panelList) \subseteq Only(k, panelList')
      BY <2>2, <3>1, StaysChanged DEF PanelUsers
    <3>3. Only(list, panelList) \subseteq Only(list, panelList')
      BY <3>2 DEF FromPanel
    <3>4. newU # NoList => Only(newU, panelList) \subseteq Only(newU, panelList')
      BY <3>2 DEF FromPanel
    <3>5. pc = "update" => newU # NoList
      BY DEF IInv, Stages
    <3> HIDE DEF Only, In, IInv
    <3>6. /\ Only(list, newU)' = Only(list, newU)
          /\ In(list)' = In(list)
          /\ In(newU)' = In(newU)
          /\ Only(list, panelList)' = Only(list, panelList')
          /\ Only(newU, panelList)' = Only(newU, panelList')
      BY <3>1 DEF Only, In
    <3> QED
      BY <3>1, <3>3, <3>4, <3>5, <3>6 DEF MissingAreChanged
  <2>3. ASSUME FetchNode PROVE MissingAreChanged'
    BY <2>3 DEF FetchNode
  <2>4. ASSUME FetchUsers PROVE MissingAreChanged'
    BY <2>4 DEF FetchUsers
  <2>5. ASSUME BeginStart PROVE MissingAreChanged'
    BY <2>5 DEF BeginStart
  <2>6. ASSUME NoUsersAtStart PROVE MissingAreChanged'
    BY <2>6 DEF NoUsersAtStart, Exit
  <2>7. ASSUME BeginVLESS PROVE MissingAreChanged'
    BY <2>7 DEF BeginVLESS
  <2>8. ASSUME BeginLegacy PROVE MissingAreChanged'
    BY <2>8 DEF BeginLegacy
  <2>9. ASSUME NothingNew PROVE MissingAreChanged'
    BY <2>9 DEF NothingNew, Return
  <2>10. ASSUME BeginUsers PROVE MissingAreChanged'
    BY <2>10 DEF BeginUsers
  <2>11. ASSUME DelNode PROVE MissingAreChanged'
    BY <2>11 DEF DelNode
  <2>12. ASSUME DelNodeAgain PROVE MissingAreChanged'
    BY <2>12 DEF DelNodeAgain, Fault
  <2>13. ASSUME AddLimiter PROVE MissingAreChanged'
    BY <2>13 DEF AddLimiter
  <2>14. ASSUME AddNode PROVE MissingAreChanged'
    BY <2>14 DEF AddNode
  <2>15. ASSUME AddUsers PROVE MissingAreChanged'
    BY <2>15 DEF AddUsers, Return
  <2>16. ASSUME Restored PROVE MissingAreChanged'
    BY <2>16 DEF Restored, Return
  <2>17. ASSUME Undo PROVE MissingAreChanged'
    BY <2>17 DEF Undo, Fault
  <2>18. ASSUME DelUsers PROVE MissingAreChanged'
    BY <2>18 DEF DelUsers
  <2>19. ASSUME AddNewUsers PROVE MissingAreChanged'
    BY <2>19 DEF AddNewUsers
  <2>20. ASSUME UpdateUser PROVE MissingAreChanged'
    BY <2>20 DEF UpdateUser, Return
  <2>21. ASSUME Closed PROVE MissingAreChanged'
    BY <2>21 DEF Closed, Exit
  <2>22. ASSUME FetchFails PROVE MissingAreChanged'
    BY <2>22 DEF FetchFails, Fault, Exit, Return
  <2>23. ASSUME VLESSRejected PROVE MissingAreChanged'
    BY <2>23 DEF VLESSRejected, Fault, Return
  <2>24. ASSUME DelNodeFails PROVE MissingAreChanged'
    BY <2>24 DEF DelNodeFails, Fault, Exit
  <2>25. ASSUME PrepareFails PROVE MissingAreChanged'
    BY <2>25 DEF PrepareFails, Fault, Exit, Return
  <2>26. ASSUME AddNodeFails PROVE MissingAreChanged'
    BY <2>26 DEF AddNodeFails, Fault, Exit, Return
  <2>27. ASSUME AddUsersFails PROVE MissingAreChanged'
    BY <2>27 DEF AddUsersFails, Fault, Exit, Return
  <2>28. ASSUME DelUsersFails PROVE MissingAreChanged'
    BY <2>28 DEF DelUsersFails, Fault, Return
  <2>29. ASSUME AddNewUsersFails PROVE MissingAreChanged'
    BY <2>29 DEF AddNewUsersFails, Fault, Return
  <2>30. ASSUME Close PROVE MissingAreChanged'
    BY <2>30 DEF Close, Fault
  <2>31. ASSUME Crash PROVE MissingAreChanged'
    BY <2>31 DEF Crash, Fault, Exit
  <2>32. ASSUME UNCHANGED vars PROVE MissingAreChanged'
    BY <2>32 DEF vars
  <2> QED
    BY <2>1, <2>2, <2>3, <2>4, <2>5, <2>6, <2>7, <2>8, <2>9, <2>10, <2>11,
       <2>12, <2>13, <2>14, <2>15, <2>16, <2>17, <2>18, <2>19, <2>20, <2>21,
       <2>22, <2>23, <2>24, <2>25, <2>26, <2>27, <2>28, <2>29, <2>30, <2>31,
       <2>32
    DEF Next, Panel, Proceed, Fails

LEMMA AInvStep == ASSUME ~MayRevert, AInv, [Next]_vars PROVE AInv'
BY InvStep, FromPanelStep, OutdatedStep, MissingStep DEF AInv

(* As long as the panel never returns to what it has said before, an       *)
(* answer counts as accepted only when its node and its users are served.  *)
THEOREM AcceptedAnswersAreServed ==
  ASSUME ~MayRevert
  PROVE  Spec => []AcceptedIsServed
<1>1. Init => AInv
  <2> SUFFICES ASSUME Init PROVE AInv
    OBVIOUS
  <2>1. FromPanel
    BY DEF Init, FromPanel
  <2>2. Outdated
    BY ConstantsAssumption, ListFacts DEF Init, Outdated
  <2>3. MissingAreChanged
    BY DEF Init, MissingAreChanged, Only, In, Nobody
  <2> QED
    BY <2>1, <2>2, <2>3, InvInit DEF AInv
<1>2. AInv => AcceptedIsServed
  BY ConstantsAssumption
  DEF AInv, IInv, TypeOK, ServedIsListed, Outdated, MissingAreChanged,
      AcceptedIsServed, Only, In
<1>3. AInv /\ [Next]_vars => AInv'
  BY AInvStep
<1> QED
  BY <1>1, <1>2, <1>3, PTL DEF Spec

=============================================================================
