------------------------------- MODULE Reload -------------------------------
(***************************************************************************)
(* The life of the V2bX process (src/runtime/cmd/server.go): it loads the  *)
(* configuration, starts a core and a controller for each node, and lets   *)
(* fsnotify watch the file (conf/watch.go).  A noticed change makes a      *)
(* goroutine that sleeps, reads the file and exchanges the core and all    *)
(* controllers; nothing keeps two of them apart.  The controllers' tasks   *)
(* (common/task/task.go) tick meanwhile.  systemd restarts the process.    *)
(*                                                                         *)
(* A run is serverHandle itself (Boot) or one such goroutine.  `c`, `vc`   *)
(* and `nodes.controllers` are shared by all runs and unprotected.  One    *)
(* task stands for the tasks of a controller.                              *)
(***************************************************************************)
EXTENDS Naturals

CONSTANTS
  Nodes,        \* nodes that a configuration may list
  Files,        \* the configurations that are written: sets of nodes
  Bad,          \* a file that does not parse, and a `c` without cores
  MaxEdits,     \* bound on changes of the file
  MaxTroubles   \* bound on failures of cores, panels and certificates

ASSUME ReloadAssumption ==
  /\ Files \subseteq SUBSET Nodes
  /\ \A N \in SUBSET Nodes : Bad # N
  /\ {MaxEdits, MaxTroubles} \subseteq Nat

Boot == 0
Runs == 0..MaxEdits    \* the goroutine of the nth change is run n
Nil  == MaxEdits + 1

VARIABLES
  file,         \* the nodes in config.json, or Bad
  watching,     \* fsnotify still has the file
  blind,        \* `pre`: changes are dropped for ten seconds
  up,           \* the process runs
  conf,         \* `c`: the nodes
  vc,           \* `vc`: the run that made the core, or Nil
  list,         \* `nodes.controllers`: the run that made the slice, or Nil
  core,         \* the cores: "none", "made", "on", "closed"
  slot,         \* the controllers in each slice
  server,       \* the core that the controllers of a slice were given
  tick,         \* their tasks: "off", "timer", "busy", "stray"
  pc,           \* where each run is
  mine, rest,   \* the slice it walks through, and what of it is ahead
  failed,       \* history: the last run has failed
  missed,       \* history: a change that no run has read
  overlapped,   \* history: two runs have worked at once
  tainted       \* history: a run has left a nil core or a nil controller
VARIABLES edits, troubles

watcher == <<watching, blind>>
shared  == <<conf, vc, list>>
objects == <<core, slot, server, tick>>
runs    == <<pc, mine, rest>>
ghosts  == <<failed, missed, overlapped, tainted>>
budget  == <<edits, troubles>>
vars == <<file, watcher, up, shared, objects, runs, ghosts, budget>>

Everywhere(x) == [r \in Runs |-> x]
NoSlots == Everywhere([n \in Nodes |-> "out"])
NoTicks == Everywhere([n \in Nodes |-> "off"])

Init ==
  /\ file \in Files
  /\ up = FALSE
  /\ watching = FALSE
  /\ blind = FALSE
  /\ conf = Bad
  /\ vc = Nil
  /\ list = Nil
  /\ core = Everywhere("none")
  /\ slot = NoSlots
  /\ server = Everywhere(Nil)
  /\ tick = NoTicks
  /\ pc = Everywhere("none")
  /\ mine = Everywhere(Nil)
  /\ rest = Everywhere({})
  /\ failed = FALSE
  /\ missed = FALSE
  /\ overlapped = FALSE
  /\ tainted = FALSE
  /\ edits = MaxEdits
  /\ troubles = MaxTroubles

Trouble == troubles > 0 /\ troubles' = troubles - 1 /\ UNCHANGED edits

Works(r) == pc[r] \notin {"none", "sleep", "done"}
Goes(r, step) == pc' = [pc EXCEPT ![r] = step]
On(c) == c \in Runs /\ core[c] = "on"

(* Controllers are closed and started in the order of the file. *)
IsNext(r, n) == rest[r] # {} /\ n = CHOOSE m \in rest[r] : TRUE

-----------------------------------------------------------------------------
(* The process *)

(* serverHandle as systemd starts it; LoadFromPath must succeed. *)
Start ==
  /\ ~up
  /\ file # Bad
  /\ up' = TRUE
  /\ conf' = file
  /\ Goes(Boot, "newCore")
  /\ failed' = FALSE
  /\ missed' = FALSE
  /\ overlapped' = FALSE
  /\ tainted' = FALSE
  /\ UNCHANGED <<file, watcher, vc, list, objects, mine, rest, budget>>

(* A panic, or a return from serverHandle: nothing of the process is left. *)
Dies ==
  /\ up' = FALSE
  /\ watching' = FALSE
  /\ blind' = FALSE
  /\ conf' = Bad
  /\ vc' = Nil
  /\ list' = Nil
  /\ core' = Everywhere("none")
  /\ slot' = NoSlots
  /\ server' = Everywhere(Nil)
  /\ tick' = NoTicks
  /\ pc' = Everywhere("none")
  /\ mine' = Everywhere(Nil)
  /\ rest' = Everywhere({})
  /\ UNCHANGED <<file, ghosts>>

(* An error ends the run: serverHandle returns, a goroutine only logs it.  *)
Gives(r, taints) ==
  IF r = Boot THEN Dies
  ELSE /\ Goes(r, "done")
       /\ mine' = [mine EXCEPT ![r] = Nil]
       /\ rest' = [rest EXCEPT ![r] = {}]
       /\ failed' = TRUE
       /\ tainted' = (tainted \/ taints)
       /\ UNCHANGED <<file, watcher, up, conf, list, server, tick, missed, overlapped>>

-----------------------------------------------------------------------------
(* Watch *)

(* An editor writes the file, or puts another one in its place, which      *)
(* fsnotify reports once and then watches no longer.                       *)
Edit(content, replaced) ==
  /\ edits > 0
  /\ content # file
  /\ edits' = edits - 1
  /\ file' = content
  /\ watching' = (watching /\ ~replaced)
  /\ IF watching /\ ~blind
       THEN /\ blind' = TRUE
            /\ Goes(MaxEdits + 1 - edits, "sleep")
            /\ UNCHANGED missed
       ELSE /\ missed' = up
            /\ UNCHANGED <<blind, pc>>
  /\ UNCHANGED <<up, shared, objects, mine, rest, failed, overlapped, tainted,
                 troubles>>

(* Ten seconds are over; the five of the run that began them were first.   *)
WindowEnds ==
  /\ blind
  /\ \A r \in Runs : pc[r] # "sleep"
  /\ blind' = FALSE
  /\ UNCHANGED <<file, watching, up, shared, objects, runs, ghosts, budget>>

(* *p = *New(), LoadFromPath and the call of reload(), whatever was read.  *)
ReadAs(r, contents) ==
  /\ pc[r] = "sleep"
  /\ conf' \in contents
  /\ Goes(r, "close")
  /\ mine' = [mine EXCEPT ![r] = list]
  /\ rest' = [rest EXCEPT ![r] =
                IF list = Nil THEN {} ELSE {n \in Nodes : slot[list][n] # "out"}]
  /\ overlapped' = (overlapped \/ \E o \in Runs \ {r} : Works(o))
  /\ failed' = (file = Bad)
  /\ missed' = FALSE
  /\ UNCHANGED <<file, watcher, up, vc, list, objects, tainted, budget>>

(* Mutation: the configuration is parsed when the change is noticed, and   *)
(* changes of the next five seconds find no reader.                        *)
ReadsEarly(r) == ReadAs(r, IF file = Bad THEN {Bad} ELSE {file, conf})

(* Of a file that does not parse some part is decoded, or nothing. *)
Read(r) == ReadAs(r, IF file = Bad THEN {Bad} \cup SUBSET Nodes ELSE {file})

-----------------------------------------------------------------------------
(* reload(): nodes.Close *)

(* Controller.Close: Task.Close waits for a callback that executes and     *)
(* stops the timer; a callback that the timer has started already comes to *)
(* the lock later.  Of a node that is not there Xray's DelNode says        *)
(* nothing.                                                                *)
CloseController(r, n) ==
  /\ pc[r] = "close"
  /\ IsNext(r, n)
  /\ slot[mine[r]][n] # "nil"
  /\ tick[mine[r]][n] # "busy"
  /\ slot' = [slot EXCEPT ![mine[r]][n] = "closed"]
  /\ \E left \in IF tick[mine[r]][n] = "timer" THEN {"off", "stray"} ELSE {"off"} :
       tick' = [tick EXCEPT ![mine[r]][n] = left]
  /\ rest' = [rest EXCEPT ![r] = @ \ {n}]
  /\ UNCHANGED <<file, watcher, up, shared, core, server, pc, mine, ghosts, budget>>

(* A nil controller, or a core that does not have the node (any more). *)
CloseControllerPanics(r, n) ==
  /\ pc[r] = "close"
  /\ IsNext(r, n)
  /\ slot[mine[r]][n] # "started" \/ ~On(server[mine[r]])
  /\ Dies
  /\ UNCHANGED budget

(* Mutation: the slice of closed controllers is kept. *)
NodesClosedKeepsList(r) ==
  /\ pc[r] = "close"
  /\ rest[r] = {}
  /\ mine' = [mine EXCEPT ![r] = Nil]
  /\ Goes(r, "closeCore")
  /\ UNCHANGED <<file, watcher, up, shared, objects, rest, ghosts, budget>>

NodesClosed(r) ==
  /\ pc[r] = "close"
  /\ rest[r] = {}
  /\ list' = Nil
  /\ mine' = [mine EXCEPT ![r] = Nil]
  /\ Goes(r, "closeCore")
  /\ UNCHANGED <<file, watcher, up, conf, vc, objects, rest, ghosts, budget>>

-----------------------------------------------------------------------------
(* ... vc.Close, NewCore, vc.Start: for serverHandle as for reload() *)

CloseCore(r) ==
  /\ pc[r] = "closeCore"
  /\ vc # Nil
  /\ core' = [core EXCEPT ![vc] = "closed"]
  /\ Goes(r, "newCore")
  /\ UNCHANGED <<file, watcher, up, shared, slot, server, tick, mine, rest, ghosts,
                 budget>>

CloseCoreFails(r) ==
  /\ pc[r] = "closeCore"
  /\ vc # Nil
  /\ IF core[vc] = "closed" THEN UNCHANGED budget ELSE Trouble
  /\ Gives(r, FALSE)
  /\ UNCHANGED <<vc, core, slot>>

(* A method of a nil interface. *)
NilCorePanics(r) ==
  /\ pc[r] \in {"closeCore", "startCore"}
  /\ vc = Nil
  /\ Dies
  /\ UNCHANGED budget

NewCore(r) ==
  /\ pc[r] = "newCore"
  /\ conf # Bad
  /\ vc' = r
  /\ core' = [core EXCEPT ![r] = "made"]
  /\ Goes(r, "startCore")
  /\ UNCHANGED <<file, watcher, up, conf, list, slot, server, tick, mine, rest,
                 ghosts, budget>>

(* The result of NewCore is stored before its error is looked at. *)
NewCoreFails(r) ==
  /\ pc[r] = "newCore"
  /\ IF conf = Bad THEN UNCHANGED budget ELSE Trouble
  /\ vc' = Nil
  /\ Gives(r, TRUE)
  /\ r # Boot => UNCHANGED <<core, slot>>

(* Xray panics over a file of its own that it cannot read or understand. *)
NewCorePanics(r) ==
  /\ pc[r] = "newCore"
  /\ conf # Bad
  /\ Trouble
  /\ Dies

StartCore(r) ==
  /\ pc[r] = "startCore"
  /\ vc # Nil
  /\ core' = [core EXCEPT ![vc] = "on"]
  /\ Goes(r, "list")
  /\ UNCHANGED <<file, watcher, up, shared, slot, server, tick, mine, rest, ghosts,
                 budget>>

StartCoreFails(r) ==
  /\ pc[r] = "startCore"
  /\ vc # Nil
  /\ IF core[vc] = "made" THEN Trouble ELSE UNCHANGED budget
  /\ Gives(r, FALSE)
  /\ r # Boot => UNCHANGED <<vc, core, slot>>

-----------------------------------------------------------------------------
(* ... and nodes.Start *)

Listed == IF conf = Bad THEN {} ELSE conf

MakeList(r) ==
  /\ pc[r] = "list"
  /\ list' = r
  /\ slot' = [slot EXCEPT ![r] = [n \in Nodes |-> IF n \in Listed THEN "nil" ELSE "out"]]
  /\ server' = [server EXCEPT ![r] = vc]
  /\ rest' = [rest EXCEPT ![r] = Listed]
  /\ Goes(r, "start")
  /\ UNCHANGED <<file, watcher, up, conf, vc, core, tick, mine, ghosts, budget>>

(* NewController, Controller.Start and, last, startTasks: the first tick   *)
(* comes after an interval.                                                *)
StartController(r, n) ==
  /\ pc[r] = "start"
  /\ IsNext(r, n)
  /\ On(server[r])
  /\ slot' = [slot EXCEPT ![r][n] = "started"]
  /\ tick' = [tick EXCEPT ![r][n] = "timer"]
  /\ rest' = [rest EXCEPT ![r] = @ \ {n}]
  /\ UNCHANGED <<file, watcher, up, shared, core, server, pc, mine, ghosts, budget>>

(* panel.New fails before the controller exists, Start after. *)
StartControllerFails(r, n) ==
  /\ pc[r] = "start"
  /\ IsNext(r, n)
  /\ IF On(server[r]) THEN Trouble ELSE UNCHANGED budget
  /\ Gives(r, TRUE)
  /\ r # Boot => /\ slot' \in {slot, [slot EXCEPT ![r][n] = "failed"]}
                 /\ UNCHANGED <<vc, core>>

(* Another run has closed the core, or replaced the slice: then            *)
(* nodes.controllers[i] need not exist.  (If it does, the run goes on;     *)
(* what it stores into a slice of another run is not followed.)            *)
StartControllerPanics(r) ==
  /\ pc[r] = "start"
  /\ rest[r] # {}
  /\ list # r \/ ~On(server[r])
  /\ Dies
  /\ UNCHANGED budget

(* "Nodes started": serverHandle begins to watch the file, as it is now.   *)
Started(r) ==
  /\ pc[r] = "start"
  /\ rest[r] = {}
  /\ Goes(r, "done")
  /\ watching' = (watching \/ r = Boot)
  /\ UNCHANGED <<file, blind, up, shared, objects, mine, rest, ghosts, budget>>

WatchFails ==
  /\ pc[Boot] = "start"
  /\ rest[Boot] = {}
  /\ Trouble
  /\ Dies

-----------------------------------------------------------------------------
(* Task.checkedExecute *)

Ticks(s, n, from, to) ==
  /\ tick[s][n] \in from
  /\ tick' = [tick EXCEPT ![s][n] = to]
  /\ UNCHANGED <<file, watcher, up, shared, core, slot, server, runs, ghosts, budget>>

(* Mutation: the callback does not look whether the task is running. *)
ExecutesUnchecked(s, n) == Ticks(s, n, {"timer", "stray"}, "busy")

(* The timer's callback has the lock; Execute, then the timer is set again *)
(* (no Execute returns an error).                                          *)
Executes(s, n) == Ticks(s, n, {"timer"}, "busy")
Executed(s, n) == Ticks(s, n, {"busy"}, "timer")

(* It comes after Close, and finds the task not running. *)
Returns(s, n) == Ticks(s, n, {"stray"}, "off")

(* nodeInfoMonitor panics when it cannot delete, or add, a changed node. *)
TickPanics(s, n) ==
  /\ tick[s][n] = "busy"
  /\ ~On(server[s])
  /\ Dies
  /\ UNCHANGED budget

-----------------------------------------------------------------------------
Progress(r) ==
  \/ Read(r)
  \/ \E n \in Nodes : CloseControllerPanics(r, n)
  \/ NodesClosed(r) \/ CloseCore(r) \/ CloseCoreFails(r) \/ NilCorePanics(r)
  \/ NewCore(r) \/ NewCoreFails(r) \/ NewCorePanics(r)
  \/ StartCore(r) \/ StartCoreFails(r) \/ MakeList(r)
  \/ \E n \in Nodes : StartController(r, n) \/ StartControllerFails(r, n)
  \/ StartControllerPanics(r) \/ Started(r)

Next ==
  \/ Start \/ WindowEnds \/ WatchFails
  \/ \E content \in {Bad} \cup Files, replaced \in BOOLEAN : Edit(content, replaced)
  \/ \E r \in Runs : Progress(r)
  \/ \E r \in Runs, n \in Nodes :
       \/ CloseController(r, n)
       \/ Executes(r, n) \/ Executed(r, n) \/ Returns(r, n) \/ TickPanics(r, n)

Spec == Init /\ [][Next]_vars

(* systemd, the goroutines and the callbacks go on; Go's mutex serves a    *)
(* waiting Close before a task's next callback gets it again and again.    *)
FairSpec ==
  /\ Spec
  /\ WF_vars(Start) /\ WF_vars(WindowEnds)
  /\ WF_vars(\E r \in Runs : Progress(r))
  /\ SF_vars(\E r \in Runs, n \in Nodes : CloseController(r, n))
  /\ \A r \in Runs, n \in Nodes : WF_vars(Executed(r, n))

-----------------------------------------------------------------------------
(* Type correctness; nothing of a process that has died is left. *)
TypeOK ==
  /\ file \in {Bad} \cup SUBSET Nodes
  /\ {watching, blind, up} \subseteq BOOLEAN
  /\ conf \in {Bad} \cup SUBSET Nodes
  /\ {vc, list} \subseteq Runs \cup {Nil}
  /\ core \in [Runs -> {"none", "made", "on", "closed"}]
  /\ slot \in [Runs -> [Nodes -> {"out", "nil", "failed", "started", "closed"}]]
  /\ tick \in [Runs -> [Nodes -> {"off", "timer", "busy", "stray"}]]
  /\ vc # Nil => core[vc] # "none"
  /\ \A r \in Runs : pc[r] \in {"none", "done"} => rest[r] = {}
  /\ ~up => pc = Everywhere("none") /\ tick = NoTicks /\ ~watching /\ ~blind

(* No task of a controller executes after Close has returned, whatever     *)
(* runs work at once: it would report, and change users, on a core that is *)
(* not there any more.                                                     *)
QuietAfterClose ==
  \A r \in Runs, n \in Nodes : slot[r][n] = "closed" => tick[r][n] # "busy"

(* Once it serves, the process dies only after a run has left a nil core   *)
(* or a controller that has not started, if two runs work at once, or if   *)
(* a new core panics: reloads that come one by one and do not fail         *)
(* exchange everything safely, and so does a reload after one whose core   *)
(* would not start.                                                        *)
OnlyTroubleKills ==
  [][pc[Boot] = "done" /\ ~up' =>
       \/ tainted \/ overlapped
       \/ troubles' < troubles /\ \E r \in Runs : pc[r] = "newCore"]_vars

InService ==
  /\ up /\ file # Bad
  /\ On(vc)
  /\ list # Nil /\ server[list] = vc
  /\ \A n \in Nodes :
       /\ slot[list][n] = "started" <=> n \in file
       /\ slot[list][n] = "started" => tick[list][n] # "off"

(* What the file says last is what the process serves in the end.  Excused *)
(* are the cases in which the code gives up: a run that fails is not       *)
(* repeated, a change is missed in the blind seconds after a read, before  *)
(* the watcher is there or after the file was replaced, and runs that work *)
(* at once; a file that does not parse keeps a new process from starting.  *)
LastEditIsServed ==
  <>[](InService \/ failed \/ missed \/ overlapped \/ (~up /\ file = Bad))
=============================================================================
