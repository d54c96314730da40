--------------------------- MODULE NodeController ---------------------------
(***************************************************************************)
(* One node.Controller of V2bX between the panel and a core: Start, the    *)
(* nodeInfoMonitor tick with its three branches (replaceVLESSNode, the     *)
(* reload of other protocols, the user update) and Close, with the panel   *)
(* client's acceptance of what was applied, the limiter registry and the   *)
(* Selector's table of nodes.                                              *)
(*                                                                         *)
(* stateMu makes a tick one thread; the panel changes between any two of   *)
(* its steps, and every call to the panel or the core may fail.            *)
(***************************************************************************)
EXTENDS Naturals, FiniteSets

CONSTANTS
  Users,       \* UUIDs
  Plans,       \* what the panel may set for a user
  SpeedOf,     \* the SpeedLimit of a plan: all that compareUserList compares
  Configs,     \* bodies of the panel's node response
  Absent,      \* the plan of a user who is not listed
  NoConfig,    \* nil, or no node
  NoList,      \* a nil user list
  MaxChanges,  \* bound: changes the panel makes
  MaxFaults,   \* bound: failing calls, reloads and process exits from outside
  MayRevert    \* the panel may return to an earlier configuration or user

ASSUME ConstantsAssumption ==
  /\ Absent \notin Plans
  /\ NoConfig \notin Configs
  /\ NoList \notin [Users -> Plans \cup {Absent}]
  /\ MaxChanges \in Nat
  /\ MaxFaults \in Nat
  /\ MayRevert \in BOOLEAN

Lists == [Users -> Plans \cup {Absent}]
Nobody == [u \in Users |-> Absent]
In(l) == {u \in Users : l[u] # Absent}

(* Mutation: users are told apart by UUID alone. *)
OnlyByUuid(l, k) == {u \in In(l) : k[u] = Absent}

(* compareUserList: users of l who are not in k with the same speed. *)
Only(l, k) ==
  {u \in In(l) : k[u] = Absent \/ SpeedOf[k[u]] # SpeedOf[l[u]]}

VARIABLES
  vless,       \* NodeType is "vless"
  named,       \* Options.Name is set
  selector,    \* the core is a Selector over several cores
  panelCfg, panelList,  \* what the panel would answer now
  seenCfgs, seenLists,  \* what it has answered before
  changes, faults,
  pc, job,     \* where the controller stands, and for which caller
  node,        \* the node the core runs
  known,       \* Selector.nodes holds the tag
  served,      \* users the core authenticates
  limiter,     \* the registered Limiter's UserLimitInfo
  oldLimiter,  \* replaceVLESSNode's oldLimiter
  info, list,  \* Controller.info, Controller.userList
  newN, newU,  \* the tick's local variables
  cfgAck, listAck,  \* responseBodyHash with nodeEtag; userEtag
  pendingAck,  \* pendingUserEtag
  restoreFailed,  \* history: the last reload lost the old node too
  torn         \* history: a user update stopped halfway since the last install

optVars   == <<vless, named, selector>>
panelVars == <<panelCfg, panelList, seenCfgs, seenLists, changes>>
coreVars  == <<node, known, served>>
limVars   == <<limiter, oldLimiter>>
ctlVars   == <<info, list>>
newVars   == <<newN, newU>>
ackVars   == <<cfgAck, listAck>>
histVars  == <<restoreFailed, torn>>
vars == <<optVars, panelVars, faults, pc, job, coreVars, limVars, ctlVars,
          newVars, ackVars, pendingAck, histVars>>

Points == {"down", "idle", "fetched", "apply", "delete", "again", "limit",
           "add", "install", "undo", "delUsers", "addUsers", "update", "closing"}
Jobs == {"boot", "vless", "restore", "legacy", "users"}

(* The client has accepted nothing yet: this is Start and not a tick. *)
Starting == cfgAck = NoConfig

(* Mutation: the restoration installs the candidate again. *)
TargetCandidate == newN

(* The list a node is installed with, and the node. *)
Target == IF job = "restore" THEN info ELSE newN
TargetList == IF job = "restore" \/ newU = NoList THEN list ELSE newU

Fault == faults < MaxFaults /\ faults' = faults + 1

Init ==
  /\ vless \in BOOLEAN /\ named \in BOOLEAN /\ selector \in BOOLEAN
  /\ panelCfg \in Configs
  /\ panelList \in Lists
  /\ In(panelList) # {}
  /\ seenCfgs = {panelCfg}
  /\ seenLists = {panelList}
  /\ changes = 0
  /\ faults = 0
  /\ pc = "down"
  /\ job = "boot"
  /\ node = NoConfig
  /\ known = FALSE
  /\ served = {}
  /\ limiter = NoList
  /\ oldLimiter = NoList
  /\ info = NoConfig
  /\ list = Nobody
  /\ newN = NoConfig
  /\ newU = NoList
  /\ cfgAck = NoConfig
  /\ listAck = NoList
  /\ pendingAck = NoList
  /\ restoreFailed = FALSE
  /\ torn = FALSE

-----------------------------------------------------------------------------
(* The panel: its operator edits the node and the users. *)

PanelNode(n) ==
  /\ changes < MaxChanges
  /\ n # panelCfg
  /\ MayRevert \/ n \notin seenCfgs
  /\ panelCfg' = n
  /\ seenCfgs' = IF MayRevert THEN seenCfgs ELSE seenCfgs \cup {n}
  /\ changes' = changes + 1
  /\ UNCHANGED <<optVars, panelList, seenLists, faults, pc, job, coreVars,
                 limVars, ctlVars, newVars, ackVars, pendingAck, histVars>>

(* A list seen before, or a user back at a speed that he had before. *)
Returns(l) ==
  \/ l \in seenLists
  \/ \E s \in seenLists : Only(l, panelList) \cap (In(l) \ Only(l, s)) # {}

PanelUsers(l) ==
  /\ changes < MaxChanges
  /\ l # panelList
  /\ MayRevert \/ ~Returns(l)
  /\ panelList' = l
  /\ seenLists' = IF MayRevert THEN seenLists ELSE seenLists \cup {l}
  /\ changes' = changes + 1
  /\ UNCHANGED <<optVars, panelCfg, seenCfgs, faults, pc, job, coreVars,
                 limVars, ctlVars, newVars, ackVars, pendingAck, histVars>>

-----------------------------------------------------------------------------
(* Fetching, shared by Start and the tick. *)

(* GetNodeInfo: nil when ETag or body hash is the accepted one. *)
FetchNode ==
  /\ pc \in {"down", "idle"}
  /\ newN' = IF panelCfg = cfgAck THEN NoConfig ELSE panelCfg
  /\ newU' = NoList
  /\ pc' = "fetched"
  /\ UNCHANGED <<optVars, panelVars, faults, job, coreVars, limVars, ctlVars,
                 ackVars, pendingAck, histVars>>

(* Mutation: the ETag of a list counts before the list is applied. *)
FetchUsersAccepts ==
  /\ pc = "fetched"
  /\ newU' = IF panelList = listAck THEN NoList ELSE panelList
  /\ pendingAck' = panelList
  /\ listAck' = panelList
  /\ pc' = "apply"
  /\ UNCHANGED <<optVars, panelVars, faults, job, coreVars, limVars, ctlVars,
                 newN, cfgAck, histVars>>

(* GetUserList: nil on 304; the list's ETag is pending in both cases.      *)
(* GetUserAlive follows and returns no error.                              *)
FetchUsers ==
  /\ pc = "fetched"
  /\ newU' = IF panelList = listAck THEN NoList ELSE panelList
  /\ pendingAck' = panelList
  /\ pc' = "apply"
  /\ UNCHANGED <<optVars, panelVars, faults, job, coreVars, limVars, ctlVars,
                 newN, ackVars, histVars>>

(* The tick is over; its local variables are gone. *)
Return ==
  /\ pc' = "idle"
  /\ newN' = NoConfig
  /\ newU' = NoList
  /\ oldLimiter' = NoList

(* The process ends: Start failed, a Panic, or a signal.  systemd starts   *)
(* it again with an empty core and a new panel client.                     *)
Exit ==
  /\ pc' = "down"
  /\ job' = "boot"
  /\ node' = NoConfig
  /\ known' = FALSE
  /\ served' = {}
  /\ limiter' = NoList
  /\ oldLimiter' = NoList
  /\ info' = NoConfig
  /\ list' = Nobody
  /\ newN' = NoConfig
  /\ newU' = NoList
  /\ cfgAck' = NoConfig
  /\ listAck' = NoList
  /\ pendingAck' = NoList
  /\ restoreFailed' = FALSE
  /\ torn' = FALSE

FetchFails ==
  /\ pc = "fetched"
  /\ Fault
  /\ IF Starting
       THEN Exit
       ELSE /\ Return
            /\ UNCHANGED <<job, coreVars, limiter, ctlVars, ackVars,
                           pendingAck, histVars>>
  /\ UNCHANGED <<optVars, panelVars>>

-----------------------------------------------------------------------------
(* What the fetched answer leads to. *)

BeginStart ==
  /\ pc = "apply"
  /\ Starting
  /\ In(newU) # {}
  /\ pc' = "limit"
  /\ job' = "boot"
  /\ UNCHANGED <<optVars, panelVars, faults, coreVars, limVars, ctlVars,
                 newVars, ackVars, pendingAck, histVars>>

(* "not have any user": Start returns the error. *)
NoUsersAtStart ==
  /\ pc = "apply"
  /\ Starting
  /\ In(newU) = {}
  /\ Exit
  /\ UNCHANGED <<optVars, panelVars, faults>>

(* replaceVLESSNode up to DelNode: validation, trial rules, flush and      *)
(* snapshot succeed.  A Selector without the tag cannot flush.             *)
BeginVLESS ==
  /\ pc = "apply"
  /\ ~Starting
  /\ newN # NoConfig
  /\ vless
  /\ selector => known
  /\ oldLimiter' = limiter
  /\ pc' = "delete"
  /\ job' = "vless"
  /\ UNCHANGED <<optVars, panelVars, faults, coreVars, limiter, ctlVars,
                 newVars, ackVars, pendingAck, histVars>>

VLESSRejected ==
  /\ pc = "apply"
  /\ ~Starting
  /\ newN # NoConfig
  /\ vless
  /\ \/ Fault
     \/ selector /\ ~known /\ UNCHANGED faults
  /\ Return
  /\ UNCHANGED <<optVars, panelVars, job, coreVars, limiter, ctlVars, ackVars,
                 pendingAck, histVars>>

(* Another protocol: c.info and c.userList change before anything else. *)
BeginLegacy ==
  /\ pc = "apply"
  /\ ~Starting
  /\ newN # NoConfig
  /\ ~vless
  /\ info' = newN
  /\ list' = TargetList
  /\ pc' = "delete"
  /\ job' = "legacy"
  /\ UNCHANGED <<optVars, panelVars, faults, coreVars, limVars, newVars,
                 ackVars, pendingAck, histVars>>

NothingNew ==
  /\ pc = "apply"
  /\ ~Starting
  /\ newN = NoConfig
  /\ newU = NoList
  /\ Return
  /\ UNCHANGED <<optVars, panelVars, faults, job, coreVars, limiter, ctlVars,
                 ackVars, pendingAck, histVars>>

BeginUsers ==
  /\ pc = "apply"
  /\ ~Starting
  /\ newN = NoConfig
  /\ newU # NoList
  /\ pc' = "delUsers"
  /\ job' = "users"
  /\ UNCHANGED <<optVars, panelVars, faults, coreVars, limVars, ctlVars,
                 newVars, ackVars, pendingAck, histVars>>

-----------------------------------------------------------------------------
(* Replacing the node. *)

(* The Selector and sing-box refuse to delete a node they do not have;     *)
(* Xray alone has nothing to do.                                           *)
DelNode ==
  /\ pc = "delete"
  /\ selector => known
  /\ node' = NoConfig
  /\ known' = FALSE
  /\ served' = {}
  /\ pc' = "limit"
  /\ UNCHANGED <<optVars, panelVars, faults, job, limVars, ctlVars, newVars,
                 ackVars, pendingAck, histVars>>

(* DelNode fails and leaves the node, the bare listener, or nothing; the   *)
(* first deletion of VLESS is repeated, another protocol's is a Panic.     *)
DelNodeFails ==
  /\ pc = "delete"
  /\ \/ Fault
     \/ selector /\ ~known /\ UNCHANGED faults
  /\ IF job = "vless"
       THEN /\ node' \in {node, NoConfig}
            /\ served' \in {served, {}}
            /\ node' = NoConfig => served' = {}
            /\ pc' = "again"
            /\ UNCHANGED <<job, known, limVars, ctlVars, newVars, ackVars,
                           pendingAck, histVars>>
       ELSE Exit
  /\ UNCHANGED <<optVars, panelVars>>

(* `_ = DelNode` before the old node is installed again. *)
DelNodeAgain ==
  /\ pc = "again"
  /\ \/ /\ node' = NoConfig
        /\ known' = FALSE
        /\ served' = {}
        /\ UNCHANGED faults
     \/ Fault /\ UNCHANGED coreVars
  /\ pc' = "add"
  /\ job' = "restore"
  /\ UNCHANGED <<optVars, panelVars, limVars, ctlVars, newVars, ackVars,
                 pendingAck, histVars>>

(* limiter.AddLimiter, which a named node's reload leaves out, and         *)
(* UpdateRule.                                                             *)
AddLimiter ==
  /\ pc = "limit"
  /\ limiter' = IF job = "legacy" /\ named THEN limiter ELSE TargetList
  /\ pc' = "add"
  /\ UNCHANGED <<optVars, panelVars, faults, job, coreVars, oldLimiter,
                 ctlVars, newVars, ackVars, pendingAck, histVars>>

(* UpdateRule or requestCert fails: Start ends; a reload returns without   *)
(* the node it deleted.  (replaceVLESSNode has tried the rules before.)    *)
PrepareFails ==
  /\ pc = "add"
  /\ job \in {"boot", "legacy"}
  /\ Fault
  /\ IF job = "boot"
       THEN Exit
       ELSE /\ Return
            /\ UNCHANGED <<job, coreVars, limiter, ctlVars, ackVars,
                           pendingAck, histVars>>
  /\ UNCHANGED <<optVars, panelVars>>

AddNode ==
  /\ pc = "add"
  /\ node = NoConfig
  /\ node' = Target
  /\ known' = TRUE
  /\ pc' = "install"
  /\ UNCHANGED <<optVars, panelVars, faults, job, served, limVars, ctlVars,
                 newVars, ackVars, pendingAck, histVars>>

(* The core fails, or still has a node of this tag: VLESS undoes the       *)
(* candidate, the restoration gives up, Start ends, a reload panics.       *)
AddNodeFails ==
  /\ pc = "add"
  /\ \/ Fault
     \/ node # NoConfig /\ UNCHANGED faults
  /\ CASE job = "vless" ->
            /\ pc' = "undo"
            /\ UNCHANGED <<job, coreVars, limVars, ctlVars, newVars, ackVars,
                           pendingAck, histVars>>
       [] job = "restore" ->
            /\ Return
            /\ restoreFailed' = TRUE
            /\ UNCHANGED <<job, coreVars, limiter, ctlVars, ackVars,
                           pendingAck, torn>>
       [] OTHER -> Exit
  /\ UNCHANGED <<optVars, panelVars>>

(* AddUsers on the new node, and acceptance by the panel client. *)
AddUsers ==
  /\ pc = "install"
  /\ job # "restore"
  /\ served' = In(TargetList)
  /\ info' = newN
  /\ list' = TargetList
  /\ cfgAck' = newN
  /\ listAck' = pendingAck
  /\ Return
  /\ restoreFailed' = FALSE
  /\ torn' = FALSE
  /\ UNCHANGED <<optVars, panelVars, faults, job, node, known, limiter,
                 pendingAck>>

(* Mutation: the failed candidate is accepted all the same. *)
RestoredAccepts ==
  /\ pc = "install"
  /\ job = "restore"
  /\ served' = In(list)
  /\ cfgAck' = newN
  /\ Return
  /\ restoreFailed' = FALSE
  /\ torn' = FALSE
  /\ UNCHANGED <<optVars, panelVars, faults, job, node, known, limiter,
                 ctlVars, listAck, pendingAck>>

(* AddUsers on the restored node: the candidate stays unaccepted. *)
Restored ==
  /\ pc = "install"
  /\ job = "restore"
  /\ served' = In(list)
  /\ Return
  /\ restoreFailed' = FALSE
  /\ torn' = FALSE
  /\ UNCHANGED <<optVars, panelVars, faults, job, node, known, limiter,
                 ctlVars, ackVars, pendingAck>>

AddUsersFails ==
  /\ pc = "install"
  /\ Fault
  /\ CASE job = "vless" ->
            /\ pc' = "undo"
            /\ UNCHANGED <<job, coreVars, limVars, ctlVars, newVars, ackVars,
                           pendingAck, histVars>>
       [] job = "boot" -> Exit
       [] OTHER ->
            /\ Return
            /\ restoreFailed' = (job = "restore")
            /\ UNCHANGED <<job, coreVars, limiter, ctlVars, ackVars,
                           pendingAck, torn>>
  /\ UNCHANGED <<optVars, panelVars>>

(* Mutation: the candidate's limiter stays registered. *)
UndoKeepsLimiter ==
  /\ pc = "undo"
  /\ \/ /\ node' = NoConfig
        /\ known' = FALSE
        /\ served' = {}
        /\ UNCHANGED faults
     \/ Fault /\ UNCHANGED coreVars
  /\ pc' = "add"
  /\ job' = "restore"
  /\ UNCHANGED <<optVars, panelVars, limVars, ctlVars, newVars, ackVars,
                 pendingAck, histVars>>

(* The candidate failed: `_ = DelNode`, RestoreLimiter. *)
Undo ==
  /\ pc = "undo"
  /\ \/ /\ node' = NoConfig
        /\ known' = FALSE
        /\ served' = {}
        /\ UNCHANGED faults
     \/ Fault /\ UNCHANGED coreVars
  /\ limiter' = oldLimiter
  /\ pc' = "add"
  /\ job' = "restore"
  /\ UNCHANGED <<optVars, panelVars, oldLimiter, ctlVars, newVars, ackVars,
                 pendingAck, histVars>>

-----------------------------------------------------------------------------
(* Updating the users of an unchanged node. *)

DelUsers ==
  /\ pc = "delUsers"
  /\ Only(list, newU) = {} \/ node # NoConfig
  /\ served' = served \ Only(list, newU)
  /\ pc' = "addUsers"
  /\ UNCHANGED <<optVars, panelVars, faults, job, node, known, limVars,
                 ctlVars, newVars, ackVars, pendingAck, histVars>>

(* The core stops at some user of the list, or has no such node. *)
DelUsersFails ==
  /\ pc = "delUsers"
  /\ Only(list, newU) # {}
  /\ \/ /\ Fault
        /\ \E S \in SUBSET Only(list, newU) \ {Only(list, newU)} :
             served' = served \ S
        /\ torn' = TRUE
     \/ node = NoConfig /\ UNCHANGED <<faults, served, torn>>
  /\ Return
  /\ UNCHANGED <<optVars, panelVars, job, node, known, limiter, ctlVars,
                 ackVars, pendingAck, restoreFailed>>

(* Xray refuses a user it already has. *)
AddNewUsers ==
  /\ pc = "addUsers"
  /\ Only(newU, list) = {} \/ node # NoConfig
  /\ Only(newU, list) \cap served = {}
  /\ served' = served \cup Only(newU, list)
  /\ pc' = "update"
  /\ UNCHANGED <<optVars, panelVars, faults, job, node, known, limVars,
                 ctlVars, newVars, ackVars, pendingAck, histVars>>

(* All of the call's users are rolled back; the deleted ones stay deleted. *)
AddNewUsersFails ==
  /\ pc = "addUsers"
  /\ Only(newU, list) # {}
  /\ \/ Fault
     \/ node = NoConfig /\ UNCHANGED faults
     \/ Only(newU, list) \cap served # {} /\ UNCHANGED faults
  /\ torn' = TRUE
  /\ Return
  /\ UNCHANGED <<optVars, panelVars, job, coreVars, limiter, ctlVars, ackVars,
                 pendingAck, restoreFailed>>

(* limiter.UpdateUser: deleted users first, then the added ones. *)
Updated(l) ==
  [u \in Users |->
     IF u \in Only(newU, list) THEN newU[u]
     ELSE IF u \in Only(list, newU) THEN Absent
     ELSE l[u]]

UpdateUser ==
  /\ pc = "update"
  /\ limiter' = Updated(limiter)
  /\ list' = newU
  /\ listAck' = pendingAck
  /\ Return
  /\ UNCHANGED <<optVars, panelVars, faults, job, coreVars, info, cfgAck,
                 pendingAck, histVars>>

-----------------------------------------------------------------------------
(* Close, in the order of the code, on a reload of the configuration file; *)
(* and the end of the process from outside.                                *)

Close ==
  /\ pc = "idle"
  /\ Fault
  /\ limiter' = NoList
  /\ pc' = "closing"
  /\ UNCHANGED <<optVars, panelVars, job, coreVars, oldLimiter, ctlVars,
                 newVars, ackVars, pendingAck, histVars>>

(* DelNode; an error is a panic in Node.Close.  Node.Start comes next. *)
Closed ==
  /\ pc = "closing"
  /\ Exit
  /\ UNCHANGED <<optVars, panelVars, faults>>

Crash ==
  /\ pc # "down"
  /\ Fault
  /\ Exit
  /\ UNCHANGED <<optVars, panelVars>>

-----------------------------------------------------------------------------
Panel ==
  \/ \E n \in Configs : PanelNode(n)
  \/ \E l \in Lists : PanelUsers(l)

(* What the controller does next when no call fails from outside. *)
Proceed ==
  \/ FetchNode \/ FetchUsers \/ BeginStart \/ NoUsersAtStart \/ BeginVLESS
  \/ BeginLegacy \/ NothingNew \/ BeginUsers \/ DelNode \/ DelNodeAgain
  \/ AddLimiter \/ AddNode \/ AddUsers \/ Restored \/ Undo \/ DelUsers
  \/ AddNewUsers \/ UpdateUser \/ Closed

Fails ==
  \/ FetchFails \/ VLESSRejected \/ DelNodeFails \/ PrepareFails
  \/ AddNodeFails \/ AddUsersFails \/ DelUsersFails \/ AddNewUsersFails

Next == Panel \/ Proceed \/ Fails \/ Close \/ Crash

(* task.Task runs the tick again and again, systemd the process; a call    *)
(* returns.                                                                *)
Spec == Init /\ [][Next]_vars
FairSpec == Spec /\ WF_vars(Proceed \/ Fails)

-----------------------------------------------------------------------------
TypeOK ==
  /\ <<vless, named, selector>> \in BOOLEAN \X BOOLEAN \X BOOLEAN
  /\ panelCfg \in Configs
  /\ panelList \in Lists
  /\ seenCfgs \in SUBSET Configs
  /\ seenLists \in SUBSET Lists
  /\ changes \in 0 .. MaxChanges
  /\ faults \in 0 .. MaxFaults
  /\ pc \in Points
  /\ job \in Jobs
  /\ node \in Configs \cup {NoConfig}
  /\ known \in BOOLEAN
  /\ served \in SUBSET Users
  /\ limiter \in Lists \cup {NoList}
  /\ oldLimiter \in Lists \cup {NoList}
  /\ info \in Configs \cup {NoConfig}
  /\ list \in Lists
  /\ newN \in Configs \cup {NoConfig}
  /\ newU \in Lists \cup {NoList}
  /\ cfgAck \in Configs \cup {NoConfig}
  /\ listAck \in Lists \cup {NoList}
  /\ pendingAck \in Lists \cup {NoList}
  /\ restoreFailed \in BOOLEAN
  /\ torn \in BOOLEAN
  /\ served # {} => node # NoConfig

Limits(u) == limiter # NoList /\ limiter[u] # Absent

(* A user whom the core authenticates has an entry in the node's Limiter,  *)
(* without which CheckLimit rejects the connection.  The exceptions are    *)
(* the steps between the core's and the limiter's user update, Close, and  *)
(* a named node that is not VLESS (node/task.go, limiter/limiter.go).      *)
ServedUsersAreLimited ==
  (pc \notin {"update", "closing"} /\ (vless \/ ~named))
    => \A u \in served : Limits(u)

(* The same for every node between two ticks, as "Update limiter" in       *)
(* nodeInfoMonitor says.                                                   *)
ReloadUpdatesLimiter ==
  pc = "idle" => \A u \in served : Limits(u)

(* Between two ticks a user is held to the speed of the list that is       *)
(* served (compareUserList with Limiter.UpdateUser).                       *)
SpeedIsEnforced ==
  pc = "idle" /\ (vless \/ ~named)
    => \A u \in served : list[u] # Absent /\ SpeedOf[limiter[u]] = SpeedOf[list[u]]

(* A VLESS reload that failed has left the accepted node with its users    *)
(* running, unless its own restoration failed as well.                     *)
FailedReloadKeepsOld ==
  pc = "idle" /\ vless /\ ~restoreFailed =>
    /\ node = info
    /\ info = cfgAck
    /\ list = listAck
    /\ served \subseteq In(list)
    /\ ~torn => served = In(list)

(* When the client would answer "nothing new", the node and the users of   *)
(* the panel are the ones served: an answer is accepted only once applied. *)
AcceptedIsServed ==
  pc = "idle" /\ cfgAck = panelCfg /\ listAck = panelList
    => node = panelCfg /\ served = In(panelList)

(* The tag is gone from the Selector's table, so that no VLESS candidate   *)
(* passes flushUserTraffic again.                                          *)
Stranded == vless /\ selector /\ ~known

(* When panel and calls settle, the panel's node and users are served --   *)
(* but for a start without users and a stranded node.                      *)
Converges ==
  /\ []<>(pc = "idle" \/ In(panelList) = {})
  /\ <>[](pc = "idle" /\ In(panelList) # {} /\ ~Stranded
            => node = panelCfg /\ served = In(panelList))

(* A node lost in a failed reload is installed again in a later round.     *)
LostNodeIsRetried ==
  (pc = "idle" /\ vless /\ node = NoConfig) ~> (node # NoConfig)
=============================================================================
