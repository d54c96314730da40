--------------------------- MODULE XrayRevocation ---------------------------
(***************************************************************************)
(* The Xray core of V2bX: user administration (core/xray/user.go, node.go) *)
(* against connections being dispatched (app/dispatcher/default.go,        *)
(* linkmanager.go), for the users of one node.                             *)
(*                                                                         *)
(* AddUsers, DelUsers and DelNode hold users.mapLock; a dispatch holds no  *)
(* lock: it reads and writes the sync.Maps AllowedUsers and LinkManagers   *)
(* one operation at a time.  One action here is one such operation.        *)
(***************************************************************************)
EXTENDS Naturals, FiniteSets

CONSTANTS
  Users,      \* emails ("tag|uuid") the panel may list for the node
  Conns,      \* dispatches that may exist at one time
  Managers,   \* LinkManager objects; an unreferenced one is reused (GC)
  NoUser,
  NoManager,
  Admin       \* the goroutine that holds mapLock

ASSUME ConstantsAssumption ==
  /\ NoUser \notin Users
  /\ NoManager \notin Managers
  /\ Admin \notin Conns

VARIABLES
  up,         \* the inbound handler of the node is registered
  installed,  \* users in the inbound's own user table (external: Xray)
  allowed,    \* DefaultDispatcher.AllowedUsers
  links,      \* DefaultDispatcher.LinkManagers
  closed,     \* LinkManager.closed
  members,    \* LinkManager.links
  open,       \* connections whose socket nobody has closed
  conn,       \* where each dispatch stands
  user,       \* the user a dispatch authenticated as
  mgr,        \* the LinkManager a dispatch holds (lm)
  crossed,    \* history: the user was granted while the dispatch held lm
  taken,      \* links a CloseAll has swapped out and not yet closed
  op, mode,   \* where the holder of mapLock stands, and in which method
  todo, done, \* users still to process; users installed by this AddUsers
  cur, held   \* its loop variable `user`/`email` and the loaded manager

connVars  == <<open, conn, user, mgr, crossed>>
adminVars == <<op, mode, todo, done, cur, held>>
mgrVars   == <<closed, members>>
vars == <<up, installed, allowed, links, mgrVars, connVars, taken, adminVars>>

Closers == Conns \cup {Admin}

ConnPhases == {"idle", "auth", "held", "linked", "live", "denied", "closing"}
AdminPhases == {"idle", "install", "commit", "store",
                "pick", "forbid", "load", "take", "close"}

(***************************************************************************)
(* A dispatch between LoadOrStore and the end of the connection keeps a    *)
(* pointer to its manager.                                                 *)
(***************************************************************************)
Holds(c) == conn[c] \notin {"idle", "auth"}

Referenced(m) ==
  \/ \E u \in Users : links[u] = m
  \/ \E c \in Conns : Holds(c) /\ mgr[c] = m
  \/ held = m

Init ==
  /\ up = FALSE
  /\ installed = {}
  /\ allowed = {}
  /\ links = [u \in Users |-> NoManager]
  /\ closed = [m \in Managers |-> FALSE]
  /\ members = [m \in Managers |-> {}]
  /\ open = {}
  /\ conn = [c \in Conns |-> "idle"]
  /\ user = [c \in Conns |-> NoUser]
  /\ mgr = [c \in Conns |-> NoManager]
  /\ crossed = [c \in Conns |-> FALSE]
  /\ taken = [k \in Closers |-> {}]
  /\ op = "idle"
  /\ mode = "add"
  /\ todo = {}
  /\ done = {}
  /\ cur = NoUser
  /\ held = NoManager

-----------------------------------------------------------------------------
(* LinkManager.CloseAll: mark and swap under mu, then close link by link. *)

TakeLinks(k, m) ==
  /\ closed' = [closed EXCEPT ![m] = TRUE]
  /\ taken' = [taken EXCEPT ![k] = members[m]]
  /\ members' = [members EXCEPT ![m] = {}]

CloseLink(k, c) ==
  /\ c \in taken[k]
  /\ open' = open \ {c}
  /\ taken' = [taken EXCEPT ![k] = @ \ {c}]
  /\ UNCHANGED <<up, installed, allowed, links, mgrVars, conn, user, mgr,
                 crossed, adminVars>>

-----------------------------------------------------------------------------
(* Dispatch: getLink and DispatchLink. *)

(* The dispatch or the connection is over; its record is free again. *)
Gone(c) ==
  /\ conn' = [conn EXCEPT ![c] = "idle"]
  /\ user' = [user EXCEPT ![c] = NoUser]
  /\ mgr' = [mgr EXCEPT ![c] = NoManager]
  /\ crossed' = [crossed EXCEPT ![c] = FALSE]
  /\ open' = open \ {c}

(* The inbound authenticates a user it knows and calls the dispatcher. *)
Open(c) ==
  /\ up
  /\ conn[c] = "idle"
  /\ \A k \in Closers : c \notin taken[k]
  /\ \E u \in installed : user' = [user EXCEPT ![c] = u]
  /\ conn' = [conn EXCEPT ![c] = "auth"]
  /\ open' = open \cup {c}
  /\ UNCHANGED <<up, installed, allowed, links, mgrVars, mgr, crossed, taken,
                 adminVars>>

(* GetLimiter fails or CheckLimit rejects: both pipe ends are closed. *)
Reject(c) ==
  /\ conn[c] = "auth"
  /\ Gone(c)
  /\ UNCHANGED <<up, installed, allowed, links, mgrVars, taken, adminVars>>

(* linkManager(email): LinkManagers.LoadOrStore. *)
LoadManager(c) ==
  /\ conn[c] = "auth"
  /\ links[user[c]] # NoManager
  /\ mgr' = [mgr EXCEPT ![c] = links[user[c]]]
  /\ conn' = [conn EXCEPT ![c] = "held"]
  /\ UNCHANGED <<up, installed, allowed, links, mgrVars, open, user, crossed,
                 taken, adminVars>>

StoreManager(c) ==
  /\ conn[c] = "auth"
  /\ links[user[c]] = NoManager
  /\ \E m \in Managers :
       /\ ~Referenced(m)
       /\ links' = [links EXCEPT ![user[c]] = m]
       /\ closed' = [closed EXCEPT ![m] = FALSE]
       /\ members' = [members EXCEPT ![m] = {}]
       /\ mgr' = [mgr EXCEPT ![c] = m]
  /\ conn' = [conn EXCEPT ![c] = "held"]
  /\ UNCHANGED <<up, installed, allowed, open, user, crossed, taken, adminVars>>

(* AddLink: a closed manager closes the connection instead of adding it. *)
AddLink(c) ==
  /\ conn[c] = "held"
  /\ IF closed[mgr[c]]
       THEN open' = open \ {c} /\ UNCHANGED members
       ELSE members' = [members EXCEPT ![mgr[c]] = @ \cup {c}] /\ UNCHANGED open
  /\ conn' = [conn EXCEPT ![c] = "linked"]
  /\ UNCHANGED <<up, installed, allowed, links, closed, user, mgr, crossed,
                 taken, adminVars>>

(* Mutation: the dispatch goes on without a second look at AllowedUsers. *)
RecheckUnchecked(c) ==
  /\ conn[c] = "linked"
  /\ conn' = [conn EXCEPT ![c] = "live"]
  /\ UNCHANGED <<up, installed, allowed, links, mgrVars, open, user, mgr,
                 crossed, taken, adminVars>>

(* AllowedUsers.Load after the link is registered: the connection goes on. *)
Recheck(c) ==
  /\ conn[c] = "linked"
  /\ user[c] \in allowed
  /\ conn' = [conn EXCEPT ![c] = "live"]
  /\ UNCHANGED <<up, installed, allowed, links, mgrVars, open, user, mgr,
                 crossed, taken, adminVars>>

RecheckFails(c) ==
  /\ conn[c] = "linked"
  /\ user[c] \notin allowed
  /\ conn' = [conn EXCEPT ![c] = "denied"]
  /\ UNCHANGED <<up, installed, allowed, links, mgrVars, open, user, mgr,
                 crossed, taken, adminVars>>

(* "user has been revoked": lm.CloseAll(), then CompareAndDelete(email, lm). *)
DeniedCloseAll(c) ==
  /\ conn[c] = "denied"
  /\ TakeLinks(c, mgr[c])
  /\ conn' = [conn EXCEPT ![c] = "closing"]
  /\ UNCHANGED <<up, installed, allowed, links, open, user, mgr, crossed,
                 adminVars>>

(* Mutation: the closed manager is left in LinkManagers. *)
LeaveClosedManager(c) ==
  /\ conn[c] = "closing"
  /\ taken[c] = {}
  /\ Gone(c)
  /\ UNCHANGED <<up, installed, allowed, links, mgrVars, taken, adminVars>>

CompareAndDelete(c) ==
  /\ conn[c] = "closing"
  /\ taken[c] = {}
  /\ links' = IF links[user[c]] = mgr[c]
                THEN [links EXCEPT ![user[c]] = NoManager]
                ELSE links
  /\ Gone(c)
  /\ UNCHANGED <<up, installed, allowed, mgrVars, taken, adminVars>>

(* The connection ends, by itself or because its socket was closed:        *)
(* ManagedWriter.Close removes the writer.                                 *)
End(c) ==
  /\ conn[c] = "live"
  /\ members' = [members EXCEPT ![mgr[c]] = @ \ {c}]
  /\ Gone(c)
  /\ UNCHANGED <<up, installed, allowed, links, closed, taken, adminVars>>

-----------------------------------------------------------------------------
(* AddNode and AddUsers. *)

AddNode ==
  /\ op = "idle"
  /\ ~up
  /\ up' = TRUE
  /\ UNCHANGED <<installed, allowed, links, mgrVars, connVars, taken, adminVars>>

AddUsers(S) ==
  /\ op = "idle"
  /\ up
  /\ op' = "install"
  /\ mode' = "add"
  /\ todo' = S
  /\ done' = {}
  /\ UNCHANGED <<up, installed, allowed, links, mgrVars, connVars, taken, cur, held>>

(* man.AddUser, which refuses a user it already has. *)
Install(u) ==
  /\ op = "install"
  /\ u \in todo \ installed
  /\ installed' = installed \cup {u}
  /\ todo' = todo \ {u}
  /\ done' = done \cup {u}
  /\ UNCHANGED <<up, allowed, links, mgrVars, connVars, taken, op, mode, cur, held>>

(* man.AddUser fails: what this call installed is removed again. *)
InstallFails ==
  /\ op = "install"
  /\ todo # {}
  /\ installed' = installed \ done
  /\ op' = "idle"
  /\ todo' = {}
  /\ done' = {}
  /\ UNCHANGED <<up, allowed, links, mgrVars, connVars, taken, mode, cur, held>>

Installed ==
  /\ op = "install"
  /\ todo = {}
  /\ op' = "commit"
  /\ UNCHANGED <<up, installed, allowed, links, mgrVars, connVars, taken, mode,
                 todo, done, cur, held>>

(* LinkManagers.Delete(email) ... *)
ForgetManager(u) ==
  /\ op = "commit"
  /\ u \in done
  /\ links' = [links EXCEPT ![u] = NoManager]
  /\ cur' = u
  /\ op' = "store"
  /\ UNCHANGED <<up, installed, allowed, mgrVars, connVars, taken, mode, todo,
                 done, held>>

(* ... then AllowedUsers.Store(email, true). *)
Allow ==
  /\ op = "store"
  /\ allowed' = allowed \cup {cur}
  /\ crossed' = [c \in Conns |-> crossed[c] \/ (conn[c] \in {"held", "linked"}
                                                /\ user[c] = cur)]
  /\ done' = done \ {cur}
  /\ cur' = NoUser
  /\ op' = "commit"
  /\ UNCHANGED <<up, installed, links, mgrVars, open, conn, user, mgr, taken,
                 mode, todo, held>>

AddUsersReturns ==
  /\ op = "commit"
  /\ done = {}
  /\ op' = "idle"
  /\ UNCHANGED <<up, installed, allowed, links, mgrVars, connVars, taken, mode,
                 todo, done, cur, held>>

-----------------------------------------------------------------------------
(* DelUsers, and DelNode with retireNodeUsers. *)

DelUsers(S) ==
  /\ op = "idle"
  /\ up
  /\ op' = "pick"
  /\ mode' = "del"
  /\ todo' = S
  /\ UNCHANGED <<up, installed, allowed, links, mgrVars, connVars, taken, done,
                 cur, held>>

(* The handlers go first; the users of uidMap, those allowed, are retired. *)
DelNode ==
  /\ op = "idle"
  /\ up' = FALSE
  /\ installed' = {}
  /\ op' = "pick"
  /\ mode' = "retire"
  /\ todo' = allowed
  /\ UNCHANGED <<allowed, links, mgrVars, connVars, taken, done, cur, held>>

(* userManager.RemoveUser, when GetUser finds the user. *)
RemoveUser(u) ==
  /\ op = "pick"
  /\ u \in todo
  /\ installed' = IF mode = "del" THEN installed \ {u} ELSE installed
  /\ todo' = todo \ {u}
  /\ cur' = u
  /\ op' = "forbid"
  /\ UNCHANGED <<up, allowed, links, mgrVars, connVars, taken, mode, done, held>>

(* RemoveUser fails: DelUsers returns with the rest of the list undone. *)
RemoveUserFails ==
  /\ op = "pick"
  /\ mode = "del"
  /\ todo \cap installed # {}
  /\ op' = "idle"
  /\ todo' = {}
  /\ UNCHANGED <<up, installed, allowed, links, mgrVars, connVars, taken, mode,
                 done, cur, held>>

(* AllowedUsers.Delete(user). *)
Forbid ==
  /\ op = "forbid"
  /\ allowed' = allowed \ {cur}
  /\ op' = "load"
  /\ UNCHANGED <<up, installed, links, mgrVars, connVars, taken, mode, todo,
                 done, cur, held>>

(* Mutation: retireNodeUsers drops the manager without CloseAll. *)
DropManager ==
  /\ op = "load"
  /\ op' = "pick"
  /\ cur' = NoUser
  /\ links' = [links EXCEPT ![cur] = NoManager]
  /\ UNCHANGED <<up, installed, allowed, mgrVars, connVars, taken, mode, todo,
                 done, held>>

(* LinkManagers.Load in DelUsers, LoadAndDelete in retireNodeUsers. *)
LoadForClose ==
  /\ op = "load"
  /\ IF links[cur] = NoManager
       THEN op' = "pick" /\ cur' = NoUser /\ UNCHANGED <<held, links>>
       ELSE /\ op' = "take"
            /\ held' = links[cur]
            /\ links' = IF mode = "retire"
                          THEN [links EXCEPT ![cur] = NoManager]
                          ELSE links
            /\ UNCHANGED cur
  /\ UNCHANGED <<up, installed, allowed, mgrVars, connVars, taken, mode, todo, done>>

AdminCloseAll ==
  /\ op = "take"
  /\ TakeLinks(Admin, held)
  /\ op' = "close"
  /\ UNCHANGED <<up, installed, allowed, links, connVars, mode, todo, done,
                 cur, held>>

(* CloseAll has returned; DelUsers ends with LinkManagers.Delete(user).    *)
(* The traffic retained here is the subject of module XrayTraffic.         *)
DeleteManager ==
  /\ op = "close"
  /\ taken[Admin] = {}
  /\ links' = IF mode = "del" THEN [links EXCEPT ![cur] = NoManager] ELSE links
  /\ op' = "pick"
  /\ cur' = NoUser
  /\ held' = NoManager
  /\ UNCHANGED <<up, installed, allowed, mgrVars, connVars, taken, mode, todo, done>>

DelReturns ==
  /\ op = "pick"
  /\ todo = {}
  /\ op' = "idle"
  /\ UNCHANGED <<up, installed, allowed, links, mgrVars, connVars, taken, mode,
                 todo, done, cur, held>>

-----------------------------------------------------------------------------
ConnStep(c) ==
  \/ Open(c) \/ Reject(c) \/ LoadManager(c) \/ StoreManager(c) \/ AddLink(c)
  \/ Recheck(c) \/ RecheckFails(c) \/ DeniedCloseAll(c) \/ CompareAndDelete(c)
  \/ End(c)

AdminCall ==
  \/ AddNode
  \/ DelNode
  \/ \E S \in SUBSET Users \ {{}} : AddUsers(S) \/ DelUsers(S)

AdminStep ==
  \/ \E u \in Users : Install(u) \/ ForgetManager(u) \/ RemoveUser(u)
  \/ InstallFails \/ Installed \/ Allow \/ AddUsersReturns
  \/ RemoveUserFails \/ Forbid \/ LoadForClose \/ AdminCloseAll
  \/ DeleteManager \/ DelReturns

Next ==
  \/ \E c \in Conns : ConnStep(c)
  \/ \E k \in Closers, c \in Conns : CloseLink(k, c)
  \/ AdminCall
  \/ AdminStep

(***************************************************************************)
(* Goroutines that have started run on: mapLock's holder finishes its call *)
(* and a dispatch leaves getLink.  Nothing makes a connection end by       *)
(* itself, nor a new call or connection arrive.                            *)
(***************************************************************************)
Fairness ==
  /\ WF_vars(AdminStep)
  /\ \A k \in Closers : WF_vars(\E c \in Conns : CloseLink(k, c))
  /\ \A c \in Conns : WF_vars(RecheckFails(c) \/ DeniedCloseAll(c) \/ CompareAndDelete(c))

Spec == Init /\ [][Next]_vars
FairSpec == Spec /\ Fairness

-----------------------------------------------------------------------------
TypeOK ==
  /\ up \in BOOLEAN
  /\ installed \in SUBSET Users
  /\ allowed \in SUBSET Users
  /\ links \in [Users -> Managers \cup {NoManager}]
  /\ closed \in [Managers -> BOOLEAN]
  /\ members \in [Managers -> SUBSET Conns]
  /\ open \in SUBSET Conns
  /\ conn \in [Conns -> ConnPhases]
  /\ user \in [Conns -> Users \cup {NoUser}]
  /\ mgr \in [Conns -> Managers \cup {NoManager}]
  /\ crossed \in [Conns -> BOOLEAN]
  /\ taken \in [Closers -> SUBSET Conns]
  /\ op \in AdminPhases
  /\ mode \in {"add", "del", "retire"}
  /\ todo \in SUBSET Users
  /\ done \in SUBSET Users
  /\ cur \in Users \cup {NoUser}
  /\ held \in Managers \cup {NoManager}
  /\ \A c \in Conns : conn[c] # "idle" => user[c] # NoUser
  /\ \A c \in Conns : Holds(c) => mgr[c] # NoManager
  /\ op \in {"store", "forbid", "load", "take", "close"} => cur # NoUser
  /\ op \in {"take", "close"} <=> held # NoManager

Live(c) == conn[c] = "live" /\ c \in open

(* Somebody has yet to close c: mapLock's holder, on its way through the   *)
(* user's CloseAll, or a dispatch that swapped the links out.              *)
BeingClosed(c) ==
  \/ op \in {"load", "take"} /\ cur = user[c]
  \/ \E k \in Closers : c \in taken[k]

(* A connection that passed the recheck does not outlive its user's        *)
(* revocation: once DelUsers or DelNode is done with the user, the         *)
(* connection is closed or its closing is under way -- provided no AddUsers*)
(* granted the user again while the dispatch stood between linkManager and *)
(* the recheck (user.go DelUsers/AddUsers against default.go getLink).     *)
RevokedConnClosed ==
  \A c \in Conns :
    Live(c) /\ user[c] \notin allowed /\ ~crossed[c] => BeingClosed(c)

(* The same without the proviso, as the code's "user has been revoked" and *)
(* its tests promise it: a revoked user keeps no connection.               *)
RevokedUserHasNoConn ==
  \A c \in Conns : Live(c) /\ user[c] \notin allowed => BeingClosed(c)

(* A closed LinkManager rejects every new link, so it must never stay in   *)
(* LinkManagers: whoever closed it is still to delete it.                  *)
ClosedManagerIsRemoved ==
  \A u \in Users :
    links[u] # NoManager /\ closed[links[u]] =>
      \/ op = "close" /\ mode = "del" /\ cur = u
      \/ \E c \in Conns : conn[c] = "closing" /\ user[c] = u /\ mgr[c] = links[u]

(* A revoked connection is not only scheduled for closing: it is closed,   *)
(* or the user is granted again first.                                     *)
RevokedConnGoes ==
  \A c \in Conns :
    (Live(c) /\ user[c] \notin allowed /\ ~crossed[c])
      ~> (~Live(c) \/ user[c] \in allowed)
=============================================================================
