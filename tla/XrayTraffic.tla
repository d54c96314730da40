---------------------------- MODULE XrayTraffic ----------------------------
(***************************************************************************)
(* The traffic of a node's users on the Xray core, from a connection that  *)
(* counts it to the panel that bills it: the counters of the dispatcher    *)
(* (common/counter/traffic.go), what DelUsers and DelNode retain of them,  *)
(* GetUserTrafficSlice (core/xray/user.go) and flushUserTraffic            *)
(* (node/reload.go), on top of module XrayRevocation, whose actions this   *)
(* module completes with what they do to traffic.                          *)
(*                                                                         *)
(* A dispatch gets a pointer to its user's counters once and counts there  *)
(* until it ends, whatever becomes of the map it found the counters in.    *)
(***************************************************************************)
EXTENDS XrayRevocation

CONSTANTS
  Storages,    \* TrafficStorage objects; an unreferenced one is reused (GC)
  NoStorage,
  MinTraffic,  \* nodeReportMinTrafficBytes
  MaxBytes,    \* bound on what connections count
  MaxFaults    \* bound on reports that fail

ASSUME TrafficAssumption ==
  /\ NoStorage \notin Storages
  /\ {MinTraffic, MaxBytes, MaxFaults} \subseteq Nat

VARIABLES
  uids,      \* the emails in uidMap
  entry,     \* Counter[tag].Counters
  bytes,     \* UpCounter and DownCounter of a storage, together
  table,     \* the TrafficCounter of a dispatch: none, the map's, a dropped one
  cnt,       \* the TrafficStorage of a dispatch (ts)
  settling,  \* the user whose traffic the holder of mapLock retains next
  dropping,  \* the user whose counters it deletes next
  retired,   \* retiredTraffic[tag] by UID; NoUser stands for UID 0
  pending,   \* Controller.pendingTraffic
  sending,   \* flushUserTraffic is at its report, under stateMu
  billed,    \* what the panel has booked (external)
  faults,
  severed,   \* history: user or node was deleted since the dispatch began
  counted,   \* history: bytes counted for a user ...
  due,       \* ... and those of them counted by dispatches not severed
  again      \* history: bytes booked whose reply was lost

storeVars  == <<uids, entry, bytes>>
linkVars   == <<table, cnt, severed>>
ledgerVars == <<retired, pending, sending, billed, faults, again>>
countVars  == <<counted, due>>
trafficVars ==
  <<storeVars, linkVars, settling, dropping, ledgerVars, countVars>>
allVars == <<vars, trafficVars>>

Zero == [u \in Users \cup {NoUser} |-> 0]
Plus(f, g) == [u \in DOMAIN f |-> f[u] + g[u]]

TrafficInit ==
  /\ Init
  /\ uids = {}
  /\ entry = [u \in Users |-> NoStorage]
  /\ bytes = [s \in Storages |-> 0]
  /\ table = [c \in Conns |-> "none"]
  /\ cnt = [c \in Conns |-> NoStorage]
  /\ severed = [c \in Conns |-> FALSE]
  /\ settling = NoUser
  /\ dropping = NoUser
  /\ retired = Zero
  /\ pending = Zero
  /\ sending = FALSE
  /\ billed = Zero
  /\ again = Zero
  /\ faults = 0
  /\ counted = Zero
  /\ due = Zero

(* uidMap[email], 0 when it has no such key. *)
Uid(u) == IF u \in uids THEN u ELSE NoUser

-----------------------------------------------------------------------------
(* Dispatches. *)

(* The dispatch is over and forgets its counters. *)
Released(c) ==
  /\ table' = [table EXCEPT ![c] = "none"]
  /\ cnt' = [cnt EXCEPT ![c] = NoStorage]
  /\ severed' = [severed EXCEPT ![c] = FALSE]
  /\ UNCHANGED <<storeVars, settling, dropping, ledgerVars, countVars>>

(* trafficCounter(tag): LoadOrStore on the dispatcher's Counter. *)
TrafficCounter(c) ==
  /\ conn[c] \in {"held", "linked"}
  /\ table[c] = "none"
  /\ table' = [table EXCEPT ![c] = "current"]
  /\ UNCHANGED <<vars, storeVars, cnt, severed, settling, dropping, ledgerVars,
                 countVars>>

Fresh(s) ==
  /\ \A u \in Users : entry[u] # s
  /\ \A d \in Conns : cnt[d] # s

(* t.GetCounter(email): the user's storage, or a new one -- which only a   *)
(* table that is still in the map makes known to anybody else.             *)
GetCounter(c) ==
  /\ table[c] # "none"
  /\ cnt[c] = NoStorage
  /\ \/ /\ table[c] = "current"
        /\ entry[user[c]] # NoStorage
        /\ cnt' = [cnt EXCEPT ![c] = entry[user[c]]]
        /\ UNCHANGED <<entry, bytes>>
     \/ /\ table[c] = "current" => entry[user[c]] = NoStorage
        /\ \E s \in Storages :
             /\ Fresh(s)
             /\ cnt' = [cnt EXCEPT ![c] = s]
             /\ bytes' = [bytes EXCEPT ![s] = 0]
             /\ entry' = IF table[c] = "current"
                           THEN [entry EXCEPT ![user[c]] = s] ELSE entry
  /\ UNCHANGED <<vars, uids, table, severed, settling, dropping, ledgerVars,
                 countVars>>

(* SizeStatWriter or CounterReader.  A connection that was closed may be   *)
(* in the middle of it.                                                    *)
Count(c) ==
  /\ conn[c] = "live"
  /\ counted[user[c]] < MaxBytes
  /\ bytes' = [bytes EXCEPT ![cnt[c]] = @ + 1]
  /\ counted' = [counted EXCEPT ![user[c]] = @ + 1]
  /\ due' = IF severed[c] THEN due ELSE [due EXCEPT ![user[c]] = @ + 1]
  /\ UNCHANGED <<vars, uids, entry, linkVars, settling, dropping, ledgerVars>>

(* getLink adds the link before it takes the counters, DispatchLink after. *)
Dispatch(c) ==
  \/ (Open(c) \/ LoadManager(c) \/ StoreManager(c) \/ DeniedCloseAll(c))
     /\ UNCHANGED trafficVars
  \/ AddLink(c) /\ (table[c] = "none" \/ cnt[c] # NoStorage)
     /\ UNCHANGED trafficVars
  \/ (Recheck(c) \/ RecheckFails(c)) /\ cnt[c] # NoStorage
     /\ UNCHANGED trafficVars
  \/ (Reject(c) \/ CompareAndDelete(c) \/ End(c)) /\ Released(c)

-----------------------------------------------------------------------------
(* Administration, one call at a time under stateMu and mapLock. *)

Unsettled == settling # NoUser \/ dropping # NoUser

AdminCalled == AdminCall /\ ~sending /\ UNCHANGED trafficVars

Added ==
  \/ (InstallFails \/ Installed \/ Allow \/ AddUsersReturns
        \/ \E u \in Users : Install(u))
     /\ UNCHANGED trafficVars
  \/ \E u \in Users :
       /\ ForgetManager(u)
       /\ uids' = uids \cup {u}
       /\ UNCHANGED <<entry, bytes, linkVars, settling, dropping, ledgerVars,
                      countVars>>

Revoke ==
  /\ Forbid
  /\ severed' = [c \in Conns |->
                   severed[c] \/ (conn[c] # "idle" /\ user[c] = cur)]
  /\ UNCHANGED <<storeVars, table, cnt, settling, dropping, ledgerVars,
                 countVars>>

(* The user's links are closed or in other hands; his traffic is next. *)
LinksClosed ==
  /\ LoadForClose \/ DeleteManager
  /\ settling' = IF op' = "pick" THEN cur ELSE NoUser
  /\ UNCHANGED <<storeVars, linkVars, dropping, ledgerVars, countVars>>

Deleting ==
  \/ /\ ~Unsettled
     /\ RemoveUserFails \/ \E u \in Users : RemoveUser(u)
     /\ UNCHANGED trafficVars
  \/ AdminCloseAll /\ UNCHANGED trafficVars

(* Mutation: the user leaves uidMap before his traffic is retained. *)
RetainUnknown ==
  /\ settling # NoUser
  /\ LET s == entry[settling] IN
     IF s = NoStorage
       THEN UNCHANGED <<retired, bytes>>
       ELSE /\ retired' = [retired EXCEPT ![NoUser] = @ + bytes[s]]
            /\ bytes' = [bytes EXCEPT ![s] = 0]
  /\ uids' = uids \ {settling}
  /\ dropping' = IF mode = "del" THEN settling ELSE NoUser
  /\ settling' = NoUser
  /\ UNCHANGED <<vars, entry, linkVars, pending, sending, billed, faults,
                 again, countVars>>

(* retainUserTraffic and delete(uidMap, user). *)
Retain ==
  /\ settling # NoUser
  /\ LET s == entry[settling] IN
     IF s = NoStorage
       THEN UNCHANGED <<retired, bytes>>
       ELSE /\ retired' = [retired EXCEPT ![Uid(settling)] = @ + bytes[s]]
            /\ bytes' = [bytes EXCEPT ![s] = 0]
  /\ uids' = uids \ {settling}
  /\ dropping' = IF mode = "del" THEN settling ELSE NoUser
  /\ settling' = NoUser
  /\ UNCHANGED <<vars, entry, linkVars, pending, sending, billed, faults,
                 again, countVars>>

(* TrafficCounter.Delete(user). *)
DropCounter ==
  /\ dropping # NoUser
  /\ entry' = [entry EXCEPT ![dropping] = NoStorage]
  /\ dropping' = NoUser
  /\ UNCHANGED <<vars, uids, bytes, linkVars, settling, ledgerVars, countVars>>

(* DelUsers returns, or retireNodeUsers ends with Counter.Delete(tag). *)
Returned ==
  /\ ~Unsettled
  /\ DelReturns
  /\ IF mode = "retire"
       THEN /\ entry' = [u \in Users |-> NoStorage]
            /\ table' = [c \in Conns |->
                           IF table[c] = "current" THEN "dropped" ELSE table[c]]
            /\ severed' = [c \in Conns |-> severed[c] \/ conn[c] # "idle"]
       ELSE UNCHANGED <<entry, table, severed>>
  /\ UNCHANGED <<uids, bytes, cnt, settling, dropping, ledgerVars, countVars>>

-----------------------------------------------------------------------------
(* Reporting: reportUserTrafficTask and replaceVLESSNode. *)

Minimum == IF up THEN MinTraffic ELSE 0

(* The users whose counters GetUserTrafficSlice reads and resets. *)
Sliced == {u \in Users : entry[u] # NoStorage /\ bytes[entry[u]] > Minimum}

Slice ==
  [u \in Users \cup {NoUser} |->
     IF u \in Sliced \cap uids THEN bytes[entry[u]] ELSE 0]

(* Mutation: retiredTraffic is read and not deleted. *)
FlushKeepsRetired ==
  /\ op = "idle" /\ ~Unsettled
  /\ ~sending
  /\ pending' = Plus(pending, Plus(retired, Slice))
  /\ UNCHANGED retired
  /\ bytes' = [s \in Storages |->
                 IF \E u \in Sliced : entry[u] = s THEN 0 ELSE bytes[s]]
  /\ entry' = [u \in Users |->
                 IF u \in Sliced \ uids THEN NoStorage ELSE entry[u]]
  /\ sending' = (pending' # Zero)
  /\ UNCHANGED <<vars, uids, linkVars, settling, dropping, billed, faults,
                 again, countVars>>

(* Mutation: without new traffic the pending one is not sent again. *)
FlushOnlyNew ==
  /\ op = "idle" /\ ~Unsettled
  /\ ~sending
  /\ pending' = Plus(pending, Plus(retired, Slice))
  /\ retired' = Zero
  /\ bytes' = [s \in Storages |->
                 IF \E u \in Sliced : entry[u] = s THEN 0 ELSE bytes[s]]
  /\ entry' = [u \in Users |->
                 IF u \in Sliced \ uids THEN NoStorage ELSE entry[u]]
  /\ sending' = (Plus(retired, Slice) # Zero)
  /\ UNCHANGED <<vars, uids, linkVars, settling, dropping, billed, faults,
                 again, countVars>>

(* flushUserTraffic up to the report: GetUserTrafficSlice(tag, true) under *)
(* mapLock, mergeUserTraffic.  Counters of an unknown user are deleted.    *)
Flush ==
  /\ op = "idle" /\ ~Unsettled
  /\ ~sending
  /\ pending' = Plus(pending, Plus(retired, Slice))
  /\ retired' = Zero
  /\ bytes' = [s \in Storages |->
                 IF \E u \in Sliced : entry[u] = s THEN 0 ELSE bytes[s]]
  /\ entry' = [u \in Users |->
                 IF u \in Sliced \ uids THEN NoStorage ELSE entry[u]]
  /\ sending' = (pending' # Zero)
  /\ UNCHANGED <<vars, uids, linkVars, settling, dropping, billed, faults,
                 again, countVars>>

(* ReportUserTraffic fails: the panel has not got the report, or has       *)
(* booked it and its reply is lost.                                        *)
ReportFails ==
  /\ sending
  /\ faults < MaxFaults
  /\ faults' = faults + 1
  /\ sending' = FALSE
  /\ \/ UNCHANGED <<billed, again>>
     \/ billed' = Plus(billed, pending) /\ again' = Plus(again, pending)
  /\ UNCHANGED <<vars, storeVars, linkVars, settling, dropping, retired,
                 pending, countVars>>

Report ==
  /\ sending
  /\ billed' = Plus(billed, pending)
  /\ pending' = Zero
  /\ sending' = FALSE
  /\ UNCHANGED <<vars, storeVars, linkVars, settling, dropping, retired,
                 faults, again, countVars>>

-----------------------------------------------------------------------------
Connections ==
  \/ \E c \in Conns : Dispatch(c) \/ TrafficCounter(c) \/ GetCounter(c) \/ Count(c)
  \/ \E k \in Closers, c \in Conns : CloseLink(k, c) /\ UNCHANGED trafficVars

Administration ==
  Added \/ Revoke \/ LinksClosed \/ Deleting \/ Retain \/ DropCounter \/ Returned

TrafficNext ==
  Connections \/ AdminCalled \/ Administration \/ Flush \/ ReportFails \/ Report

(* The holder of a mutex goes on, closing links included; the report task  *)
(* gets stateMu again and again (a sync.Mutex does not starve a waiter).   *)
TrafficSpec == TrafficInit /\ [][TrafficNext]_allVars

FairTrafficSpec ==
  /\ TrafficSpec
  /\ WF_allVars(Administration)
  /\ \A c \in Conns : WF_allVars(CloseLink(Admin, c) /\ UNCHANGED trafficVars)
  /\ SF_allVars(Flush)
  /\ WF_allVars(Report \/ ReportFails)
-----------------------------------------------------------------------------
(* Properties *)

Ledger == [Users \cup {NoUser} -> Nat]

(* Every variable keeps its type; a live dispatch has counters, and only   *)
(* the holder of mapLock settles a user's traffic.                         *)
TrafficTypeOK ==
  /\ TypeOK
  /\ uids \subseteq Users
  /\ entry \in [Users -> Storages \cup {NoStorage}]
  /\ bytes \in [Storages -> Nat]
  /\ table \in [Conns -> {"none", "current", "dropped"}]
  /\ cnt \in [Conns -> Storages \cup {NoStorage}]
  /\ severed \in [Conns -> BOOLEAN]
  /\ settling \in Users \cup {NoUser} /\ dropping \in Users \cup {NoUser}
  /\ {retired, pending, billed, again, counted, due} \subseteq Ledger
  /\ sending \in BOOLEAN
  /\ faults \in 0..MaxFaults
  /\ \A c \in Conns : conn[c] = "live" => cnt[c] # NoStorage
  /\ Unsettled => op = "pick"
  /\ sending => op = "idle"

InCounter(u) == IF entry[u] = NoStorage THEN 0 ELSE bytes[entry[u]]

(* What the node has counted for u and the panel has not acknowledged. *)
Owed(u) == InCounter(u) + retired[u] + pending[u]

(* What a user's connections counted before he was revoked is owed to the  *)
(* panel or booked by it, through deletions, reloads and failed reports    *)
(* (user_retirement_test.go: "unreported traffic lost").                   *)
NothingLost ==
  \A u \in Users : due[u] + again[u] <= Owed(u) + billed[u]

(* And nothing is owed or booked twice, but for a report whose reply was   *)
(* lost ("retired traffic reported more than once").                       *)
NothingTwice ==
  \A u \in Users : Owed(u) + billed[u] <= counted[u] + again[u]

(* Retired and pending traffic reaches the panel at last.                  *)
RetiredIsBilled ==
  \A u \in Users :
    (retired[u] + pending[u] > 0) ~> (retired[u] + pending[u] = 0)
=============================================================================
