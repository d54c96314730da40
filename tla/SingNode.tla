------------------------------ MODULE SingNode ------------------------------
(***************************************************************************)
(* The sing-box core of V2bX for one node: user and node administration    *)
(* (core/sing/user.go, node.go), handshakes on snapshots of the user       *)
(* table (SingHandshake), and the connection tracker that lets routed      *)
(* connections in and cuts them when their user goes (hook.go,             *)
(* connections.go).                                                        *)
(*                                                                         *)
(* AddUsers, DelUsers, AddNode and DelNode hold managedMu.  Handshakes and *)
(* RoutedConnection hold no lock of the core: one action here is one       *)
(* operation on activeUsers or connections.                                *)
(***************************************************************************)
EXTENDS SingHandshake, FiniteSets

CONSTANTS
  Protocols,   \* the inbound types the node may have
  Sessions,    \* client sessions: a TCP connection (with mux) or a QUIC one
  Conns        \* connections routed at one time

ASSUME ProtocolsAssumption == Protocols \subseteq AllProtocols

VARIABLES
  proto,       \* the inbound's type
  limited,     \* the node's Limiter is registered
  up,          \* the inbound exists
  table,       \* the inbound's user table
  managedNode, \* HookServer.managedNodes
  managed,     \* Sing.managedUsers
  active,      \* HookServer.activeUsers
  op,          \* what the holder of managedMu is doing
  todo,        \* users it has yet to revoke
  cur,         \* the user whose connections revoke() is ranging over
  scan,        \* connections its Range must still visit
  sess,        \* each session: phase, snapshot, user
  conn,        \* where each routed connection stands
  user         \* and whose it is

adminVars == <<op, todo, cur, scan>>
nodeVars  == <<limited, up, table, managedNode, managed>>
connVars  == <<conn, user>>
vars == <<proto, nodeVars, active, adminVars, sess, connVars>>

NoSession == [phase |-> "none", snap |-> {}, user |-> NoUser]

TypeOK ==
  /\ proto \in Protocols
  /\ limited \in BOOLEAN /\ up \in BOOLEAN /\ managedNode \in BOOLEAN
  /\ table \subseteq Users /\ managed \subseteq Users /\ active \subseteq Users
  /\ op \in {"idle", "add", "revoke", "remove"}
  /\ todo \subseteq Users
  /\ cur \in Users \cup {NoUser}
  /\ scan \subseteq Conns
  /\ sess \in [Sessions -> [phase : {"none", "reading", "open"},
                            snap : SUBSET Users, user : Users \cup {NoUser}]]
  /\ conn \in [Conns -> {"idle", "admitted", "passed", "stored", "live",
                         "untracked"}]
  /\ user \in [Conns -> Users \cup {NoUser}]

Init ==
  /\ proto \in Protocols
  /\ limited = FALSE /\ up = FALSE /\ managedNode = FALSE
  /\ table = {} /\ managed = {} /\ active = {}
  /\ op = "idle" /\ todo = {} /\ cur = NoUser /\ scan = {}
  /\ sess = [s \in Sessions |-> NoSession]
  /\ conn = [c \in Conns |-> "idle"]
  /\ user = [c \in Conns |-> NoUser]

-----------------------------------------------------------------------------
(* The controller's own order: the Limiter is registered before the node   *)
(* is added, and Close drops it before it calls DelNode.                   *)

RegisterLimiter ==
  /\ op = "idle" /\ ~up
  /\ limited' = TRUE
  /\ UNCHANGED <<proto, up, table, managedNode, managed, active, adminVars,
                 sess, connVars>>

DropLimiter ==
  /\ op = "idle" /\ limited
  /\ limited' = FALSE
  /\ UNCHANGED <<proto, up, table, managedNode, managed, active, adminVars,
                 sess, connVars>>

-----------------------------------------------------------------------------
(* Node and user administration, under managedMu. *)

(* The mark in managedNodes stays even when the inbound cannot be made. *)
AddNode ==
  /\ op = "idle" /\ limited /\ ~up
  /\ managedNode' = TRUE
  /\ up' \in BOOLEAN
  /\ table' = {}
  /\ UNCHANGED <<proto, limited, managed, active, adminVars, sess, connVars>>

(* AddUsers first lets every user of the new set through the tracker. *)
AddUsers(us) ==
  /\ op = "idle" /\ limited
  /\ active' = active \cup managed \cup us
  /\ todo' = (managed \cup us) \ managed
  /\ op' = "add"
  /\ UNCHANGED <<proto, nodeVars, cur, scan, sess, connVars>>

AddAccepted ==
  LET r == SetUsers(proto, managed \cup todo, table)
  IN  /\ op = "add" /\ up /\ r.ok
      /\ table' = r.table
      /\ managed' = managed \cup todo
      /\ op' = "idle"
      /\ todo' = {}
      /\ UNCHANGED <<proto, limited, up, managedNode, active, cur, scan, sess,
                     connVars>>

(* No inbound, or a key the protocol refuses: the new users are revoked. *)
AddRefused ==
  LET r == SetUsers(proto, managed \cup todo, table)
  IN  /\ op = "add" /\ ~(up /\ r.ok)
      /\ table' = IF up THEN r.table ELSE table
      /\ op' = "revoke"
      /\ UNCHANGED <<proto, limited, up, managedNode, managed, active, todo,
                     cur, scan, sess, connVars>>

DelUsers(us) ==
  LET r == SetUsers(proto, managed \ us, table)
  IN  /\ op = "idle" /\ limited /\ up
      /\ us # {} /\ us \subseteq managed
      /\ r.ok
      /\ table' = r.table
      /\ managed' = managed \ us
      /\ op' = "revoke"
      /\ todo' = us
      /\ UNCHANGED <<proto, limited, up, managedNode, active, cur, scan, sess,
                     connVars>>

DelNode ==
  /\ op = "idle"
  /\ op' = "remove"
  /\ todo' = managed
  /\ UNCHANGED <<proto, nodeVars, active, cur, scan, sess, connVars>>

(* revoke: activeUsers.Delete, then connections.Range. *)

Tracked(c) == conn[c] \in {"stored", "live"}

Forbid(u) ==
  /\ op \in {"revoke", "remove"} /\ cur = NoUser /\ u \in todo
  /\ active' = active \ {u}
  /\ cur' = u
  /\ scan' = {c \in Conns : Tracked(c) /\ user[c] = u}
  /\ UNCHANGED <<proto, nodeVars, op, todo, sess, connVars>>

(* Range visits what was stored before it began, and may visit the rest. *)
CloseTracked(c) ==
  /\ cur # NoUser /\ Tracked(c) /\ user[c] = cur
  /\ conn' = [conn EXCEPT ![c] = "idle"]
  /\ user' = [user EXCEPT ![c] = NoUser]
  /\ scan' = scan \ {c}
  /\ UNCHANGED <<proto, nodeVars, active, op, todo, cur, sess>>

(* Mutation: revoke() stops at the first connection it has closed. *)
RevokedAfterOne ==
  /\ cur # NoUser /\ (scan = {} \/ \E c \in Conns : c \notin scan)
  /\ cur' = NoUser /\ scan' = {}
  /\ todo' = todo \ {cur}
  /\ UNCHANGED <<proto, nodeVars, active, op, sess, connVars>>

Revoked ==
  /\ cur # NoUser /\ scan = {}
  /\ cur' = NoUser
  /\ todo' = todo \ {cur}
  /\ UNCHANGED <<proto, nodeVars, active, op, scan, sess, connVars>>

RevokeReturns ==
  /\ op = "revoke" /\ cur = NoUser /\ todo = {}
  /\ op' = "idle"
  /\ UNCHANGED <<proto, nodeVars, active, todo, cur, scan, sess, connVars>>

(* Inbound().Remove closes the listener: with it go the QUIC sessions, but *)
(* not the TCP connections already accepted.                               *)
RemoveInbound ==
  /\ op = "remove" /\ cur = NoUser /\ todo = {}
  /\ op' = "idle"
  /\ managed' = {}
  /\ up' = FALSE
  /\ table' = {}
  /\ sess' = IF proto \in QuicProtocols
             THEN [s \in Sessions |-> NoSession] ELSE sess
  /\ UNCHANGED <<proto, limited, managedNode, active, todo, cur, scan,
                 connVars>>

-----------------------------------------------------------------------------
(* Sessions. *)

Accept(s) ==
  /\ up /\ sess[s].phase = "none"
  /\ sess' = [sess EXCEPT ![s] =
                [phase |-> "reading", snap |-> table, user |-> NoUser]]
  /\ UNCHANGED <<proto, nodeVars, active, adminVars, connVars>>

(* hysteria2 looks at the table when the request arrives, the others when  *)
(* the connection or the stream is accepted.                               *)
Snapshot(s) == IF proto = "hysteria2" THEN table ELSE sess[s].snap

(* What a request can come to. *)
Outcomes(s) == {Identify(proto, Snapshot(s), r) : r \in Requests}

Handshake(s, who) ==
  /\ sess[s].phase = "reading"
  /\ sess' = [sess EXCEPT ![s] =
                IF who.kind = "refused" THEN NoSession
                ELSE [phase |-> "open", snap |-> {}, user |-> who.user]]
  /\ UNCHANGED <<proto, nodeVars, active, adminVars, connVars>>

SessionEnds(s) ==
  /\ sess[s].phase # "none"
  /\ sess' = [sess EXCEPT ![s] = NoSession]
  /\ UNCHANGED <<proto, nodeVars, active, adminVars, connVars>>

-----------------------------------------------------------------------------
(* RoutedConnection and RoutedPacketConnection. *)

Allowed(u) == ~managedNode \/ u \in active

Who(s) ==
  IF sess[s].user = NoUser THEN Fallback ELSE Known(sess[s].user)

(* A stream whose user is not allowed, a fallback one included, is closed. *)
Route(s, c) ==
  /\ conn[c] = "idle"
  /\ Opens(proto, sess[s].phase)
  /\ \E fallback \in BOOLEAN : Routes(proto, Who(s), fallback)
  /\ Allowed(sess[s].user)
  /\ conn' = [conn EXCEPT ![c] = "admitted"]
  /\ user' = [user EXCEPT ![c] = sess[s].user]
  /\ UNCHANGED <<proto, nodeVars, active, adminVars, sess>>

(* "get limiter for ... error": the bare connection is returned. *)
NoLimiter(c) ==
  /\ conn[c] = "admitted" /\ ~limited
  /\ conn' = [conn EXCEPT ![c] = "untracked"]
  /\ UNCHANGED <<proto, nodeVars, active, adminVars, sess, user>>

PassLimits(c) ==
  /\ conn[c] = "admitted" /\ limited
  /\ conn' = [conn EXCEPT ![c] = "passed"]
  /\ UNCHANGED <<proto, nodeVars, active, adminVars, sess, user>>

Store(c) ==
  /\ conn[c] = "passed"
  /\ conn' = [conn EXCEPT ![c] = "stored"]
  /\ UNCHANGED <<proto, nodeVars, active, adminVars, sess, user>>

(* Mutation: the first look at activeUsers is the only one. *)
RecheckOmitted(c) ==
  /\ conn[c] = "stored"
  /\ conn' = [conn EXCEPT ![c] = "live"]
  /\ UNCHANGED <<proto, nodeVars, active, adminVars, sess, user>>

Recheck(c) ==
  /\ conn[c] = "stored" /\ Allowed(user[c])
  /\ conn' = [conn EXCEPT ![c] = "live"]
  /\ UNCHANGED <<proto, nodeVars, active, adminVars, sess, user>>

(* Close deletes the connection from the table too. *)
Gone(c) ==
  /\ conn' = [conn EXCEPT ![c] = "idle"]
  /\ user' = [user EXCEPT ![c] = NoUser]
  /\ scan' = scan \ {c}
  /\ UNCHANGED <<proto, nodeVars, active, op, todo, cur, sess>>

(* Mutation: Close joins a reader it has not woken by a deadline. *)
RecheckBlocks(c) ==
  /\ conn[c] = "stored" /\ ~Allowed(user[c])
  /\ UNCHANGED vars

RecheckFails(c) == conn[c] = "stored" /\ ~Allowed(user[c]) /\ Gone(c)

(* CheckLimit or a rule rejects it. *)
Reject(c) == conn[c] = "admitted" /\ limited /\ Gone(c)

(* The peer ends it. *)
End(c) == conn[c] \in {"live", "untracked"} /\ Gone(c)

-----------------------------------------------------------------------------
Tracker(c) ==
  \/ NoLimiter(c) \/ PassLimits(c) \/ Store(c) \/ Recheck(c) \/ RecheckFails(c)

AdminRuns ==
  \/ AddAccepted \/ AddRefused \/ Revoked \/ RevokeReturns \/ RemoveInbound
  \/ \E u \in Users : Forbid(u)
  \/ \E c \in scan : CloseTracked(c)

Next ==
  \/ RegisterLimiter \/ DropLimiter \/ AddNode \/ DelNode
  \/ \E us \in SUBSET Users : AddUsers(us) \/ DelUsers(us)
  \/ AdminRuns
  \/ \E c \in Conns : CloseTracked(c)
  \/ \E s \in Sessions :
       \/ Accept(s) \/ SessionEnds(s)
       \/ \E who \in Outcomes(s) : Handshake(s, who)
       \/ \E c \in Conns : Route(s, c)
  \/ \E c \in Conns : Tracker(c) \/ Reject(c) \/ End(c)

Spec == Init /\ [][Next]_vars

(* The goroutine inside the core and the one inside RoutedConnection keep  *)
(* running; peers and the panel promise nothing.                           *)
FairSpec ==
  /\ Spec
  /\ WF_vars(AdminRuns)
  /\ \A c \in Conns : WF_vars(Tracker(c))

-----------------------------------------------------------------------------
(* A connection handed to the router as a tracked one belongs to an active *)
(* user, or revoke() is about to close it: DelUsers and DelNode do not     *)
(* return while a connection of their users is carried (managed_test.go:   *)
(* "deleted user's existing connection stayed usable").                    *)
RevokedUserIsCut ==
  \A c \in Conns : conn[c] = "live" => user[c] \in active \/ c \in scan

(* Between calls the three records of who the users are agree: a refused   *)
(* AddUsers leaves no new user allowed, and nobody who was there is lost.  *)
(* The tables of shadowsocks are the exception (see CommitsWholeSnapshot). *)
RecordsAgree ==
  op = "idle" =>
    /\ active = managed
    /\ up /\ proto # "shadowsocks" => table = managed

(* user.go: "User changes commit only after the authentication table       *)
(* accepts the entire snapshot."                                           *)
CommitsWholeSnapshot == op = "idle" /\ up => table = managed

(* managed_test.go: "deleted user's existing connection stayed usable";    *)
(* also of a connection that was let in while the node had no Limiter.     *)
DeletedUserIsCut ==
  op = "idle" =>
    \A c \in Conns : conn[c] \in {"live", "untracked"} => user[c] \in active

Lingers(c) ==
  conn[c] \in {"passed", "stored", "live"} /\ user[c] \in Users \ active

(* A connection that is being let in while its user goes is settled, and a *)
(* tracked one of a user who is gone does not stay.                        *)
RevokedConnIsSettled == \A c \in Conns : Lingers(c) ~> ~Lingers(c)

-----------------------------------------------------------------------------
(* What the node promises: UserGate. *)
Gate == INSTANCE UserGate WITH
          granted <- active,
          leaving <- IF cur = NoUser THEN {} ELSE {cur},
          serving <- [c \in Conns |->
                        IF conn[c] = "live" THEN user[c] ELSE NoUser]

GateSpec == Gate!Spec
=============================================================================
