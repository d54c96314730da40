---------------------------- MODULE Certificates ----------------------------
(***************************************************************************)
(* The certificate of the nodes of one process: who writes the two files   *)
(* (node/cert.go, node/lego.go), and who reads them: Xray's listeners      *)
(* (patches/xray/transport/internet/tls/config.go) and Hysteria2's         *)
(* (core/hy2/config.go).  The nodes share one pair of files, as the        *)
(* configurations that the manager generates do; they start one after the  *)
(* other, and each has a task of its own for the renewal, which takes no   *)
(* lock.  Files are written in place, the certificate before the key, and  *)
(* read without one.                                                       *)
(*                                                                         *)
(* A certificate and the key that belongs to it have the same number.      *)
(***************************************************************************)
EXTENDS Integers

CONSTANTS
  Nodes,        \* the nodes of the process
  Kinds,        \* which cores they may run on: functions from Nodes
  MaxPairs,     \* bound on pairs that are issued
  MaxAges,      \* bound on certificates that come into their last 30 days
  MaxChanges,   \* bound on acts of the administrator
  MaxTroubles   \* bound on failing calls and deaths of the process

ASSUME CertificatesAssumption ==
  /\ Kinds \subseteq [Nodes -> {"xray", "vless", "hy2"}]
  /\ MaxPairs \in Nat \ {0}
  /\ {MaxAges, MaxChanges, MaxTroubles} \subseteq Nat

Pairs == 1..MaxPairs
None  == 0     \* no file, or no listener
Torn  == -1    \* a file that is truncated and not yet written
Bare  == -1    \* a listener without a certificate

Admin == <<"admin", "admin">>
Node(n) == <<n, "node">>
Task(n) == <<n, "task">>
Procs == (Nodes \X {"node", "task"}) \cup {Admin}

VARIABLES
  mode,         \* CertMode
  kind,         \* the cores
  file,         \* the "cert" and the "key" file
  account,      \* the account at the CA: None, Torn, or 1
  issued,       \* pairs there have been
  due,          \* certificates in their last 30 days
  up,           \* the process runs
  started,      \* nodes whose Start is over
  pc,           \* where the nodes, their tasks and the administrator are
  pair,         \* what a writer writes
  shown,        \* the pair a listener presents (Hysteria2's: to clients
                \* that name no server), Bare, or None
  entry,        \* Certificate and Key of the listener's configuration
  tick,         \* the listener's goroutine
  seen,         \* the certificate it has just read
  ages, changes, troubles

world   == <<mode, kind>>
disk    == <<file, account>>
ca      == <<issued, due>>
readers == <<shown, entry, tick, seen>>
budget  == <<ages, changes, troubles>>
vars == <<world, disk, ca, up, started, pc, pair, readers, budget>>

ForNodes(x) == [n \in Nodes |-> x]
Idle == [p \in Procs |-> IF p = Admin THEN "sleep" ELSE "off"]

Exists == file["cert"] # None /\ file["key"] # None
Matches(e) == e["cert"] \in Pairs /\ e["cert"] = e["key"]
Whole(g) == g \in Pairs /\ file["cert"] = g /\ file["key"] = g

Init ==
  /\ mode \in {"acme", "self", "file"}
  /\ kind \in Kinds
  /\ issued \in {0, 1}
  /\ mode = "file" => issued = 1
  /\ file = [f \in {"cert", "key"} |-> issued]
  /\ account \in {None, 1}
  /\ mode # "acme" => account = None
  /\ due = {}
  /\ up = FALSE
  /\ started = {}
  /\ pc = Idle
  /\ pair = [p \in Procs |-> None]
  /\ shown = ForNodes(None)
  /\ entry = ForNodes([f \in {"cert", "key"} |-> None])
  /\ tick = ForNodes("none")
  /\ seen = ForNodes(None)
  /\ ages = MaxAges
  /\ changes = MaxChanges
  /\ troubles = MaxTroubles

Goes(p, step) == pc' = [pc EXCEPT ![p] = step]
Trouble == troubles > 0 /\ troubles' = troubles - 1 /\ UNCHANGED <<ages, changes>>
Change  == changes > 0 /\ changes' = changes - 1 /\ UNCHANGED <<ages, troubles>>

(* The goroutine of a listener that is gone goes on, with an entry that    *)
(* nobody else has.                                                        *)
NoListener(n) ==
  /\ shown' = [shown EXCEPT ![n] = None]
  /\ tick'  = [tick EXCEPT ![n] = "none"]
  /\ seen'  = [seen EXCEPT ![n] = None]
  /\ entry' = [entry EXCEPT ![n] = [f \in {"cert", "key"} |-> None]]

-----------------------------------------------------------------------------
(* The process *)

(* Death by a Panic, an error of Start, or a kill; the files stay. *)
Dies ==
  /\ up' = FALSE
  /\ started' = {}
  /\ pc' = [Idle EXCEPT ![Admin] = pc[Admin]]
  /\ pair' = [p \in Procs |-> IF p = Admin THEN pair[Admin] ELSE None]
  /\ shown' = ForNodes(None)
  /\ entry' = ForNodes([f \in {"cert", "key"} |-> None])
  /\ tick' = ForNodes("none")
  /\ seen' = ForNodes(None)

Killed ==
  /\ up
  /\ Trouble
  /\ Dies
  /\ UNCHANGED <<world, disk, ca>>

(* systemd, Restart=always *)
Restart ==
  /\ ~up
  /\ up' = TRUE
  /\ UNCHANGED <<world, disk, ca, started, pc, pair, readers, budget>>

(* Node.Start: the next controller; Start comes to the certificate. *)
Begin(n) ==
  LET waiting == {m \in Nodes : pc[Node(m)] = "off"} IN
  /\ up
  /\ started = Nodes \ waiting
  /\ waiting # {}
  /\ n = CHOOSE m \in waiting : TRUE
  /\ Goes(Node(n), "request")
  /\ UNCHANGED <<world, disk, ca, up, started, pair, readers, budget>>

(* nodeInfoMonitor with a changed node: DelNode, then requestCert.  VLESS  *)
(* only validates, on Xray, and keeps what it has if the pair is no good.  *)
Reload(n) ==
  /\ n \in started
  /\ pc[Node(n)] = "serve"
  /\ kind[n] = "vless" => Matches(file)
  /\ Goes(Node(n), IF kind[n] = "vless" THEN "build" ELSE "request")
  /\ NoListener(n)
  /\ UNCHANGED <<world, disk, ca, up, started, pair, budget>>

(* The configuration was not accepted, so that the next round deletes the  *)
(* node again.  Xray alone has nothing to do; a Selector returns an error, *)
(* Hysteria2 calls a nil server, and both are panics.                      *)
Retry(n) ==
  /\ pc[Node(n)] = "lost"
  /\ \/ /\ kind[n] # "hy2"
        /\ Goes(Node(n), "request")
        /\ UNCHANGED <<up, started, pair, readers>>
     \/ Dies
  /\ UNCHANGED <<world, disk, ca, budget>>

(* Mutation: the task returns the error and is not scheduled again. *)
ErrsForGood(p) ==
  CASE p[2] = "task" ->
         /\ Goes(p, "off")
         /\ UNCHANGED <<up, started, pair, readers>>
    [] p[2] = "node" /\ p[1] \in started ->
         /\ Goes(p, "lost")
         /\ UNCHANGED <<up, started, pair, readers>>
    [] OTHER -> Dies

(* renewCertTask logs and returns nil, so that its Task goes on; a reload  *)
(* has already deleted the node; Start returns the error.                  *)
Errs(p) ==
  CASE p[2] = "task" ->
         /\ Goes(p, "sleep")
         /\ UNCHANGED <<up, started, pair, readers>>
    [] p[2] = "node" /\ p[1] \in started ->
         /\ Goes(p, "lost")
         /\ UNCHANGED <<up, started, pair, readers>>
    [] OTHER -> Dies

(* A call to the CA or to the file system fails. *)
Fails(p) ==
  /\ pc[p] \in {"user", "save", "obtain", "fill cert", "open key", "fill key"}
  /\ p # Admin
  /\ Trouble
  /\ Errs(p)
  /\ UNCHANGED <<world, disk, ca>>

-----------------------------------------------------------------------------
(* Writing *)

(* Mutation: requestCert looks for the certificate only. *)
RequestCertOnly(n) ==
  /\ pc[Node(n)] = "request"
  /\ Goes(Node(n), CASE mode = "file" \/ file["cert"] # None -> "validate"
                     [] mode = "acme" -> "user"
                     [] OTHER -> "obtain")
  /\ UNCHANGED <<world, disk, ca, up, started, pair, readers, budget>>

(* requestCert: files that exist are taken as they are. *)
RequestCert(n) ==
  /\ pc[Node(n)] = "request"
  /\ Goes(Node(n), CASE mode = "file" \/ Exists -> "validate"
                     [] mode = "acme" -> "user"
                     [] OTHER -> "obtain")
  /\ UNCHANGED <<world, disk, ca, up, started, pair, readers, budget>>

(* The task's tick, at once and then every 24 hours. *)
Wakes(n) ==
  /\ pc[Task(n)] = "sleep"
  /\ Goes(Task(n), "user")
  /\ UNCHANGED <<world, disk, ca, up, started, pair, readers, budget>>

(* NewLego makes its client; CreateCert or RenewCert comes next. *)
HasLego(p) == IF p[2] = "task" THEN "check" ELSE "obtain"

(* NewLegoUser: the account is loaded, or registered and its file opened. *)
NewLego(p) ==
  /\ pc[p] = "user"
  /\ IF account = Torn
       THEN Errs(p) /\ UNCHANGED account
       ELSE /\ account' = IF account = None THEN Torn ELSE account
            /\ Goes(p, IF account = None THEN "save" ELSE HasLego(p))
            /\ UNCHANGED <<up, started, pair, readers>>
  /\ UNCHANGED <<world, file, ca, budget>>

SaveUser(p) ==
  /\ pc[p] = "save"
  /\ account' = 1
  /\ Goes(p, HasLego(p))
  /\ UNCHANGED <<world, file, ca, up, started, pair, readers, budget>>

(* RenewCert with CheckCert: a certificate that cannot be parsed is nobody's *)
(* error, and is not renewed.                                              *)
CheckCert(n) ==
  /\ pc[Task(n)] = "check"
  /\ Goes(Task(n), IF file["cert"] \in due THEN "obtain" ELSE "sleep")
  /\ UNCHANGED <<world, disk, ca, up, started, pair, readers, budget>>

(* Obtain and Renew, which is given no private key and makes one; or       *)
(* generateSelfSslCertificate.                                             *)
Obtain(p) ==
  /\ pc[p] = "obtain"
  /\ issued < MaxPairs
  /\ issued' = issued + 1
  /\ pair' = [pair EXCEPT ![p] = issued']
  /\ Goes(p, "open cert")
  /\ UNCHANGED <<world, disk, due, up, started, readers, budget>>

Opens == [cert |-> "open cert", key |-> "open key"]
Fills == [cert |-> "fill cert", key |-> "fill key"]

(* os.WriteFile truncates; a self-signed pair is written over the old one. *)
Open(p, f) ==
  /\ pc[p] = Opens[f]
  /\ file' = IF mode = "self" /\ p # Admin /\ file[f] # None
               THEN file
               ELSE [file EXCEPT ![f] = Torn]
  /\ Goes(p, Fills[f])
  /\ UNCHANGED <<world, account, ca, up, started, pair, readers, budget>>

FillCert(p) ==
  /\ pc[p] = "fill cert"
  /\ file' = [file EXCEPT !["cert"] = pair[p]]
  /\ Goes(p, "open key")
  /\ UNCHANGED <<world, account, ca, up, started, pair, readers, budget>>

FillKey(p) ==
  /\ pc[p] = "fill key"
  /\ file' = [file EXCEPT !["key"] = pair[p]]
  /\ pair' = [pair EXCEPT ![p] = None]
  /\ Goes(p, IF p[2] = "node" THEN "validate" ELSE "sleep")
  /\ UNCHANGED <<world, account, ca, up, started, readers, budget>>

(* The administrator puts a pair of his own in place, *)
Replace ==
  /\ pc[Admin] = "sleep"
  /\ issued < MaxPairs
  /\ Change
  /\ issued' = issued + 1
  /\ pair' = [pair EXCEPT ![Admin] = issued']
  /\ Goes(Admin, "open cert")
  /\ UNCHANGED <<world, disk, due, up, started, readers>>

(* or removes a file for a new one to be made. *)
Remove(f) ==
  /\ mode # "file"
  /\ pc[Admin] = "sleep"
  /\ file[f] # None
  /\ Change
  /\ file' = [file EXCEPT ![f] = None]
  /\ UNCHANGED <<world, account, ca, up, started, pc, pair, readers>>

(* Time; a self-signed certificate is made for thirty years. *)
Ages ==
  /\ ages > 0
  /\ mode = "acme"
  /\ file["cert"] \in Pairs \ due
  /\ due' = due \cup {file["cert"]}
  /\ ages' = ages - 1
  /\ UNCHANGED <<world, disk, issued, up, started, pc, pair, readers,
                 changes, troubles>>

-----------------------------------------------------------------------------
(* Reading *)

(* ValidateNode of a VLESS node that starts: LoadX509KeyPair. *)
Validate(n) ==
  /\ pc[Node(n)] = "validate"
  /\ IF kind[n] = "vless" /\ n \notin started /\ ~Matches(file)
       THEN Dies
       ELSE /\ Goes(Node(n), "build")
            /\ UNCHANGED <<up, started, pair, readers>>
  /\ UNCHANGED <<world, disk, ca, budget>>

(* AddNode reads the certificate; a file that is missing is an error of    *)
(* Start or a Panic,                                                       *)
Build(n) ==
  /\ pc[Node(n)] = "build"
  /\ IF file["cert"] = None
       THEN Dies
       ELSE /\ entry' = [entry EXCEPT ![n]["cert"] = file["cert"]]
            /\ Goes(Node(n), "load")
            /\ UNCHANGED <<up, started, pair, shown, tick, seen>>
  /\ UNCHANGED <<world, disk, ca, budget>>

(* and the key.  Hysteria2 refuses a pair that does not match.  Xray only  *)
(* ignores it (BuildCertificates): such a listener has no certificate, and *)
(* no goroutine that would look for one.                                   *)
Load(n) ==
  LET e == [entry[n] EXCEPT !["key"] = file["key"]] IN
  /\ pc[Node(n)] = "load"
  /\ IF file["key"] = None \/ (kind[n] = "hy2" /\ ~Matches(e))
       THEN Dies
       ELSE /\ entry' = [entry EXCEPT ![n] = e]
            /\ shown' = [shown EXCEPT ![n] = IF Matches(e) THEN e["cert"] ELSE Bare]
            /\ tick' = [tick EXCEPT ![n] =
                          IF kind[n] # "hy2" /\ Matches(e) THEN "cert" ELSE "none"]
            /\ started' = started \cup {n}
            /\ pc' = [pc EXCEPT ![Node(n)] = "serve",
                                ![Task(n)] = IF n \notin started /\ mode = "acme"
                                               THEN "user" ELSE pc[Task(n)]]
            /\ UNCHANGED <<up, pair, seen>>
  /\ UNCHANGED <<world, disk, ca, budget>>

(* setupOcspTicker, every hour: the certificate; an error ends it for ever *)
TickCert(n) ==
  /\ tick[n] = "cert"
  /\ IF file["cert"] = None
       THEN tick' = [tick EXCEPT ![n] = "dead"] /\ UNCHANGED seen
       ELSE /\ tick' = [tick EXCEPT ![n] = "key"]
            /\ seen' = [seen EXCEPT ![n] = file["cert"]]
  /\ UNCHANGED <<world, disk, ca, up, started, pc, pair, shown, entry, budget>>

(* Mutation: a key that has changed alone is not noticed. *)
ComparesCert(n) ==
  seen[n] # entry[n]["cert"]

(* `string(newCert) != ... || string(newKey) != ...` *)
Compares(n) ==
  seen[n] # entry[n]["cert"] \/ file["key"] # entry[n]["key"]

(* the key, and what differs is taken over, whether it matches or not *)
TickKey(n) ==
  /\ tick[n] = "key"
  /\ IF file["key"] = None
       THEN tick' = [tick EXCEPT ![n] = "dead"] /\ UNCHANGED entry
       ELSE IF Compares(n)
       THEN /\ tick' = [tick EXCEPT ![n] = "publish"]
            /\ entry' = [entry EXCEPT ![n]["cert"] = seen[n], ![n]["key"] = file["key"]]
       ELSE tick' = [tick EXCEPT ![n] = "cert"] /\ UNCHANGED entry
  /\ seen' = [seen EXCEPT ![n] = None]
  /\ UNCHANGED <<world, disk, ca, up, started, pc, pair, shown, budget>>

(* the callback: a pair that does not match is not published. *)
Publish(n) ==
  /\ tick[n] = "publish"
  /\ shown' = [shown EXCEPT ![n] = IF Matches(entry[n]) THEN entry[n]["cert"] ELSE shown[n]]
  /\ tick' = [tick EXCEPT ![n] = "cert"]
  /\ UNCHANGED <<world, disk, ca, up, started, pc, pair, entry, seen, budget>>

-----------------------------------------------------------------------------
Step(p) ==
  \/ NewLego(p)
  \/ SaveUser(p)
  \/ Obtain(p)
  \/ \E f \in {"cert", "key"} : Open(p, f)
  \/ FillCert(p)
  \/ FillKey(p)

NodeStep(n) ==
  \/ Begin(n)
  \/ RequestCert(n)
  \/ Step(Node(n))
  \/ Validate(n)
  \/ Build(n)
  \/ Load(n)
  \/ Retry(n)

TaskStep(n) ==
  \/ Wakes(n)
  \/ CheckCert(n)
  \/ Step(Task(n))

TickStep(n) ==
  \/ TickCert(n)
  \/ TickKey(n)
  \/ Publish(n)

Next ==
  \/ Restart
  \/ \E n \in Nodes : NodeStep(n) \/ TaskStep(n) \/ TickStep(n) \/ Reload(n)
  \/ Step(Admin)
  \/ Replace
  \/ \E f \in {"cert", "key"} : Remove(f)
  \/ \E p \in Procs : Fails(p)
  \/ Ages
  \/ Killed

(* systemd restarts, goroutines are scheduled, calls return, and a copy    *)
(* that was begun ends; nobody has to reload, replace or remove.           *)
Fairness ==
  /\ WF_vars(Restart)
  /\ WF_vars(Step(Admin))
  /\ \A n \in Nodes : /\ WF_vars(NodeStep(n))
                      /\ WF_vars(TaskStep(n))
                      /\ WF_vars(TickStep(n))

Spec == Init /\ [][Next]_vars /\ Fairness

-----------------------------------------------------------------------------
Contents == {None, Torn} \cup Pairs

TypeOK ==
  /\ mode \in {"acme", "self", "file"}
  /\ kind \in Kinds
  /\ file \in [{"cert", "key"} -> Contents]
  /\ account \in {None, Torn, 1}
  /\ issued \in 0..MaxPairs
  /\ due \subseteq Pairs
  /\ up \in BOOLEAN
  /\ started \subseteq Nodes
  /\ pc \in [Procs -> {"off", "request", "user", "save", "check", "obtain",
                       "open cert", "fill cert", "open key", "fill key",
                       "validate", "build", "load", "serve", "lost", "sleep"}]
  /\ pair \in [Procs -> {None} \cup Pairs]
  /\ shown \in [Nodes -> {None, Bare} \cup Pairs]
  /\ entry \in [Nodes -> [{"cert", "key"} -> Contents]]
  /\ tick \in [Nodes -> {"none", "cert", "key", "publish", "dead"}]
  /\ seen \in [Nodes -> Contents]
  /\ ages \in 0..MaxAges
  /\ changes \in 0..MaxChanges
  /\ troubles \in 0..MaxTroubles

(* What the code does not repair: a pair that exists and does not match,   *)
(* because a write was cut short or two writers met, is never asked for    *)
(* again, and an account that was not saved whole is never registered.     *)
Writing(p) == pc[p] \in {"fill cert", "open key", "fill key"}
Spoilt ==
  \/ /\ Exists
     /\ ~Matches(file)
     /\ \A p \in Procs : ~Writing(p)
  \/ /\ account = Torn
     /\ \A p \in Procs : pc[p] # "save"

(* Hysteria2 loads the files again for each handshake that names a server. *)
LoadsPair == IF Matches(file) THEN file["cert"] ELSE Bare

(* What such a handshake gets (getNewGetCertificateFunc). *)
Presents(n) == IF kind[n] = "hy2" THEN LoadsPair ELSE shown[n]

Serves(n) == pc[Node(n)] = "serve" /\ Presents(n) \in Pairs

(* A listener of Xray presents another pair than the one on the disk.  The *)
(* goroutine of a listener that found a file missing is gone.              *)
Stale(n) ==
  /\ kind[n] # "hy2" /\ tick[n] # "dead"
  /\ Matches(file)
  /\ shown[n] \in Pairs \ {file["cert"]}

(* A listener of Xray that has a certificate comes to present the pair     *)
(* that is on the disk, whatever it read while that pair was written,      *)
(* unless its goroutine found a file missing (setupOcspTicker).            *)
FreshPairIsServed == \A n \in Nodes : Stale(n) ~> ~Stale(n)

(* A certificate that comes into its last 30 days is replaced by a whole   *)
(* pair that is not due, whatever fails in between, unless a write was cut *)
(* short, two tasks wrote at once or the administrator takes a file away   *)
(* (renewCertTask, RenewCert, writeCert).                                  *)
DueIsRenewed ==
  (\E g \in due : Whole(g))
    ~> ((\E g \in Pairs \ due : Whole(g)) \/ Spoilt \/ ~Exists)

(* A node that does not serve, because it starts, reloads, failed or lost  *)
(* its files, serves again, unless the pair is spoilt or its listener was  *)
(* built from files that did not match (requestCert, BuildCertificates).   *)
(* Files that are taken away from a Hysteria2 node in service are asked    *)
(* for when it is reloaded, not before.                                    *)
NodeServesAgain ==
  \A n \in Nodes :
    ~Serves(n) ~> \/ Serves(n) \/ Spoilt \/ shown[n] = Bare
                  \/ pc[Node(n)] = "serve" /\ ~Exists

(* Not checked, for it fails: a write that a crash cuts short leaves two   *)
(* files, and neither requestCert nor RenewCert looks whether they match.  *)
SpoiltIsRepaired == Spoilt ~> ~Spoilt

(* Not checked, for it fails: a node reloaded while the pair was written   *)
(* gets a listener without a certificate that looks for none.              *)
BareListenerGetsOne == \A n \in Nodes : shown[n] = Bare ~> shown[n] # Bare
=============================================================================
