----------------------------- MODULE ReloadProofs -----------------------------
(***************************************************************************)
(* Type correctness of Reload, and its safety of the periodic tasks: no    *)
(* callback executes after Task.Close, for any number of nodes, reloads    *)
(* and failures.  QuietAfterClose alone is not inductive: a closed         *)
(* controller's timer must not merely be idle, it must never have been     *)
(* left armed, or its next callback would execute.                         *)
(* And OnlyTroubleKills: what a run must find at each of its stages so     *)
(* that the exchange of core and controllers has nothing to panic over.    *)
(***************************************************************************)
EXTENDS Reload, TLAPS

Places == {"none", "sleep", "close", "closeCore", "newCore", "startCore",
           "list", "start", "done"}

(* What TypeOK leaves open: where the runs are. *)
RunsTypeOK ==
  /\ pc \in [Runs -> Places]
  /\ mine \in [Runs -> Runs \cup {Nil}]
  /\ rest \in [Runs -> SUBSET Nodes]
  /\ server \in [Runs -> Runs \cup {Nil}]
  /\ {failed, missed, overlapped, tainted} \subseteq BOOLEAN

ClosedTimersAreStopped ==
  \A r \in Runs, n \in Nodes : slot[r][n] = "closed" => tick[r][n] \in {"off", "stray"}

ReloadInv == TypeOK /\ RunsTypeOK /\ ClosedTimersAreStopped

-----------------------------------------------------------------------------
(* What keeps a process alive whose runs come one by one and fail, if they *)
(* do, before a controller or the new core is lost (OnlyTroubleKills).     *)

OneAtATime == \A r, o \in Runs : Works(r) /\ Works(o) => r = o

(* There is a core from the first NewCore on, and the one that the         *)
(* controllers of `nodes.controllers` are given runs.                      *)
CoreIsThere ==
  /\ pc[Boot] # "newCore" => vc # Nil
  /\ \A r \in Runs : pc[r] = "list" => On(vc)
  /\ list # Nil => server[list] = vc /\ On(vc)

(* Nothing but `nodes.controllers` holds a controller that is not closed,  *)
(* and only a started controller has a task that may execute.              *)
ListIsAll ==
  /\ \A r \in Runs, n \in Nodes : slot[r][n] \in {"nil", "started"} => list = r
  /\ \A r \in Runs, n \in Nodes : tick[r][n] \in {"timer", "busy"} => slot[r][n] = "started"

(* The controllers of the list, for each stage of the run that works.      *)
ListInStage ==
  /\ \A r \in Runs : pc[r] \in {"closeCore", "newCore", "startCore", "list"} => list = Nil
  /\ \A r \in Runs : pc[r] = "start" =>
       /\ list = r
       /\ \A n \in Nodes : slot[r][n] = "nil" <=> n \in rest[r]
       /\ \A n \in Nodes : slot[r][n] \in {"out", "nil", "started"}
  /\ \A r \in Runs : pc[r] = "close" =>
       /\ mine[r] = list
       /\ list = Nil => rest[r] = {}
       /\ list # Nil => \A n \in Nodes : /\ slot[list][n] = "started" <=> n \in rest[r]
                                        /\ slot[list][n] \in {"out", "started", "closed"}
  /\ (\A r \in Runs : ~Works(r)) /\ list # Nil =>
       \A n \in Nodes : slot[list][n] \in {"out", "started"}

Orderly == OneAtATime /\ CoreIsThere /\ ListIsAll /\ ListInStage

(* A change that is still to come has its run unused. *)
RunsAhead ==
  /\ edits \in 0..MaxEdits
  /\ \A r \in Runs : r > MaxEdits - edits => pc[r] = "none"

DeadIsEmpty == ~up => vc = Nil /\ list = Nil /\ slot = NoSlots

OrderInv == RunsAhead /\ DeadIsEmpty /\ (up /\ ~tainted /\ ~overlapped => Orderly)

LEMMA Numbers == Boot \in Runs /\ Nil \notin Runs /\ MaxEdits \in Nat
BY ReloadAssumption DEF Boot, Runs, Nil

LEMMA InitInv == Init => ReloadInv
<1> SUFFICES ASSUME Init PROVE ReloadInv
    OBVIOUS
<1> USE Numbers, ReloadAssumption DEF Init, Everywhere, NoSlots, NoTicks
<1>1. TypeOK
      BY DEF TypeOK
<1>2. RunsTypeOK
      BY DEF RunsTypeOK, Places
<1>3. ClosedTimersAreStopped
      BY DEF ClosedTimersAreStopped
<1> QED
    BY <1>1, <1>2, <1>3 DEF ReloadInv

(* A process that dies leaves the initial state behind. *)
LEMMA DiesInv == ReloadInv /\ Dies => ReloadInv'
<1> SUFFICES ASSUME ReloadInv, Dies PROVE ReloadInv'
    OBVIOUS
<1> USE Numbers DEF ReloadInv, Dies, Everywhere, NoSlots, NoTicks, ghosts
<1>1. TypeOK'
      BY DEF TypeOK
<1>2. RunsTypeOK'
      BY DEF RunsTypeOK, Places
<1>3. ClosedTimersAreStopped'
      BY DEF ClosedTimersAreStopped
<1> QED
    BY <1>1, <1>2, <1>3

-----------------------------------------------------------------------------
(* The watcher and the process. *)

LEMMA StartInv == ReloadInv /\ Start => ReloadInv'
<1> SUFFICES ASSUME ReloadInv, Start PROVE ReloadInv'
    OBVIOUS
<1> USE Numbers DEF ReloadInv, Start, Goes, watcher, objects, runs, budget
<1>1. pc \in [Runs -> Places] /\ file # Bad
      BY DEF RunsTypeOK
<1>2. \A r \in Runs : r # Boot => pc'[r] = pc[r]
      BY <1>1
<1>3. TypeOK'
      BY <1>1, <1>2 DEF TypeOK
<1>4. RunsTypeOK'
      BY <1>1 DEF RunsTypeOK, Places
<1>5. ClosedTimersAreStopped'
      BY DEF ClosedTimersAreStopped
<1> QED
    BY <1>3, <1>4, <1>5

(* Without a watcher, so in a process that does not run, no run begins.    *)
LEMMA EditInv ==
  ASSUME ReloadInv, NEW content \in {Bad} \cup Files, NEW replaced \in BOOLEAN,
         Edit(content, replaced)
  PROVE  ReloadInv'
<1> USE Numbers, ReloadAssumption DEF ReloadInv, Edit, Goes, shared, objects
<1>1. pc \in [Runs -> Places] /\ pc' \in [Runs -> Places]
      BY DEF RunsTypeOK, Places
<1>2. \A r \in Runs : pc'[r] \in {"none", "done"} => pc[r] \in {"none", "done"}
      BY <1>1
<1>3. ~up => pc' = pc /\ blind' = blind
      BY DEF TypeOK
<1>4. file' \in {Bad} \cup SUBSET Nodes /\ {watching', blind'} \subseteq BOOLEAN
      BY DEF TypeOK
<1>5. TypeOK'
      BY <1>2, <1>3, <1>4 DEF TypeOK
<1>6. missed' \in BOOLEAN
      BY DEF RunsTypeOK, TypeOK
<1>7. RunsTypeOK'
      BY <1>1, <1>6 DEF RunsTypeOK
<1>8. ClosedTimersAreStopped'
      BY DEF ClosedTimersAreStopped
<1> QED
    BY <1>5, <1>7, <1>8

LEMMA WindowEndsInv == ReloadInv /\ WindowEnds => ReloadInv'
<1> SUFFICES ASSUME ReloadInv, WindowEnds PROVE ReloadInv'
    OBVIOUS
<1> USE DEF ReloadInv, WindowEnds, shared, objects, runs, ghosts, budget
<1>1. TypeOK'
      BY DEF TypeOK
<1>2. RunsTypeOK'
      BY DEF RunsTypeOK
<1>3. ClosedTimersAreStopped'
      BY DEF ClosedTimersAreStopped
<1> QED
    BY <1>1, <1>2, <1>3

(* A run that has been somewhere may go anywhere but to "none"; one that   *)
(* ends has nothing ahead of it.                                           *)
LEMMA MovedOn ==
  ASSUME ReloadInv, NEW r \in Runs, pc[r] # "none",
         NEW step \in Places \ {"none"}, Goes(r, step)
  PROVE  /\ up
         /\ pc' \in [Runs -> Places]
         /\ pc'[r] = step
         /\ \A o \in Runs \ {r} : pc'[o] = pc[o]
BY DEF ReloadInv, RunsTypeOK, TypeOK, Goes, Everywhere

LEMMA ReadInv ==
  ASSUME ReloadInv, NEW r \in Runs, Read(r)
  PROVE  ReloadInv'
<1> USE Numbers DEF ReloadInv, Read, ReadAs, watcher, objects, budget
<1>1. /\ up /\ pc' \in [Runs -> Places] /\ pc'[r] = "close"
      /\ \A o \in Runs \ {r} : pc'[o] = pc[o]
      BY MovedOn DEF Places
<1>2. /\ mine' \in [Runs -> Runs \cup {Nil}]
      /\ rest' \in [Runs -> SUBSET Nodes]
      /\ \A o \in Runs \ {r} : rest'[o] = rest[o]
      BY DEF RunsTypeOK, TypeOK
<1>3. conf' \in {Bad} \cup SUBSET Nodes
      BY DEF TypeOK
<1>4. TypeOK'
      BY <1>1, <1>2, <1>3 DEF TypeOK
<1>5. overlapped' \in BOOLEAN
      BY DEF RunsTypeOK
<1>6. RunsTypeOK'
      BY <1>1, <1>2, <1>5 DEF RunsTypeOK
<1>7. ClosedTimersAreStopped'
      BY DEF ClosedTimersAreStopped
<1> QED
    BY <1>4, <1>6, <1>7

-----------------------------------------------------------------------------
(* Closing controllers. *)

(* The heart of the matter: Close leaves a timer "off" or "stray", and the *)
(* slice that a run walks through may be nobody's (Nil), but then it has   *)
(* no controllers.                                                         *)
LEMMA CloseControllerInv ==
  ASSUME ReloadInv, NEW r \in Runs, NEW n \in Nodes, CloseController(r, n)
  PROVE  ReloadInv'
<1> USE Numbers DEF ReloadInv, CloseController, watcher, shared, ghosts, budget
<1> DEFINE s == mine[r]
<1>1. PICK left \in {"off", "stray"} : tick' = [tick EXCEPT ![s][n] = left]
      OBVIOUS
<1>2. s \in Runs \cup {Nil} /\ up
      BY DEF RunsTypeOK, TypeOK, Everywhere
<1>3. /\ rest' \in [Runs -> SUBSET Nodes]
      /\ \A o \in Runs : rest'[o] \subseteq rest[o]
      BY DEF RunsTypeOK
<1>4. /\ slot' \in [Runs -> [Nodes -> {"out", "nil", "failed", "started", "closed"}]]
      /\ tick' \in [Runs -> [Nodes -> {"off", "timer", "busy", "stray"}]]
      BY <1>1, <1>2 DEF TypeOK
<1>5. TypeOK'
      BY <1>2, <1>3, <1>4 DEF TypeOK
<1>6. RunsTypeOK'
      BY <1>3 DEF RunsTypeOK
<1>7. ASSUME NEW q \in Runs, NEW m \in Nodes, slot'[q][m] = "closed"
      PROVE  tick'[q][m] \in {"off", "stray"}
  <2>1. CASE q = s /\ m = n
        BY <1>1, <2>1 DEF TypeOK
  <2>2. CASE ~(q = s /\ m = n)
    <3>1. slot'[q][m] = slot[q][m] /\ tick'[q][m] = tick[q][m]
          BY <1>1, <1>2, <2>2 DEF TypeOK
    <3> QED
        BY <1>7, <3>1 DEF ClosedTimersAreStopped
  <2> QED
      BY <2>1, <2>2
<1> QED
    BY <1>5, <1>6, <1>7 DEF ClosedTimersAreStopped

LEMMA NodesClosedInv ==
  ASSUME ReloadInv, NEW r \in Runs, NodesClosed(r)
  PROVE  ReloadInv'
<1> USE Numbers DEF ReloadInv, NodesClosed, watcher, objects, ghosts, budget
<1>1. /\ up /\ pc' \in [Runs -> Places] /\ pc'[r] = "closeCore"
      /\ \A o \in Runs \ {r} : pc'[o] = pc[o]
      BY MovedOn DEF Places
<1>2. TypeOK'
      BY <1>1 DEF TypeOK
<1>3. RunsTypeOK'
      BY <1>1 DEF RunsTypeOK
<1>4. ClosedTimersAreStopped'
      BY DEF ClosedTimersAreStopped
<1> QED
    BY <1>2, <1>3, <1>4
-----------------------------------------------------------------------------
(* Exchanging the core. *)

(* A run that gives up; `vc`, `core` and `slot` are the caller's to say.   *)
LEMMA GivesInv ==
  ASSUME ReloadInv, NEW r \in Runs, pc[r] # "none", NEW taints \in BOOLEAN,
         Gives(r, taints),
         r # Boot =>
           /\ vc' \in Runs \cup {Nil} /\ (vc' # Nil => core'[vc'] # "none")
           /\ core' = core
           /\ slot' \in [Runs -> [Nodes -> {"out", "nil", "failed", "started", "closed"}]]
           /\ \A q \in Runs, n \in Nodes : slot'[q][n] = "closed" => slot[q][n] = "closed"
  PROVE  ReloadInv'
<1>1. CASE r = Boot
      BY <1>1, DiesInv DEF Gives
<1>2. CASE r # Boot
  <2> USE <1>2, Numbers DEF ReloadInv, Gives, watcher
  <2>1. /\ up /\ pc' \in [Runs -> Places] /\ pc'[r] = "done"
        /\ \A o \in Runs \ {r} : pc'[o] = pc[o]
        BY MovedOn DEF Places
  <2>2. /\ mine' \in [Runs -> Runs \cup {Nil}]
        /\ rest' \in [Runs -> SUBSET Nodes]
        /\ rest'[r] = {}
        /\ \A o \in Runs \ {r} : rest'[o] = rest[o]
        BY DEF RunsTypeOK
  <2>3. TypeOK'
    <3>1. /\ <<file, watching, blind, up, conf, list, tick>>' =
                <<file, watching, blind, up, conf, list, tick>>
          /\ core' = core
          OBVIOUS
    <3>2. vc' \in Runs \cup {Nil} /\ (vc' # Nil => core'[vc'] # "none")
          OBVIOUS
    <3>3. \A o \in Runs : pc'[o] \in {"none", "done"} => rest'[o] = {}
          BY <2>1, <2>2 DEF TypeOK
    <3>4. slot' \in [Runs -> [Nodes -> {"out", "nil", "failed", "started", "closed"}]]
          OBVIOUS
    <3> QED
        BY <2>1, <3>1, <3>2, <3>3, <3>4 DEF TypeOK
  <2>4. tainted' \in BOOLEAN
        BY DEF RunsTypeOK
  <2>5. RunsTypeOK'
        BY <2>1, <2>2, <2>4 DEF RunsTypeOK
  <2>6. ClosedTimersAreStopped'
        BY DEF ClosedTimersAreStopped
  <2> QED
      BY <2>3, <2>5, <2>6
<1> QED
    BY <1>1, <1>2

LEMMA CloseCoreInv ==
  ASSUME ReloadInv, NEW r \in Runs, CloseCore(r) \/ CloseCoreFails(r)
  PROVE  ReloadInv'
<1>1. CASE CloseCore(r)
  <2> USE <1>1, Numbers DEF ReloadInv, CloseCore, watcher, shared, ghosts, budget
  <2>1. /\ up /\ pc' \in [Runs -> Places] /\ pc'[r] = "newCore"
        /\ \A o \in Runs \ {r} : pc'[o] = pc[o]
        BY MovedOn DEF Places
  <2>2. TypeOK'
        BY <2>1 DEF TypeOK
  <2>3. RunsTypeOK'
        BY <2>1 DEF RunsTypeOK
  <2>4. ClosedTimersAreStopped'
        BY DEF ClosedTimersAreStopped
  <2> QED
      BY <2>2, <2>3, <2>4
<1>2. CASE CloseCoreFails(r)
      BY <1>2, GivesInv DEF CloseCoreFails, ReloadInv, TypeOK
<1> QED
    BY <1>1, <1>2

LEMMA NewCoreInv ==
  ASSUME ReloadInv, NEW r \in Runs, NewCore(r) \/ NewCoreFails(r)
  PROVE  ReloadInv'
<1>1. CASE NewCore(r)
  <2> USE <1>1, Numbers DEF ReloadInv, NewCore, watcher, ghosts, budget
  <2>1. /\ up /\ pc' \in [Runs -> Places] /\ pc'[r] = "startCore"
        /\ \A o \in Runs \ {r} : pc'[o] = pc[o]
        BY MovedOn DEF Places
  <2>2. TypeOK'
        BY <2>1 DEF TypeOK
  <2>3. RunsTypeOK'
        BY <2>1 DEF RunsTypeOK
  <2>4. ClosedTimersAreStopped'
        BY DEF ClosedTimersAreStopped
  <2> QED
      BY <2>2, <2>3, <2>4
<1>2. CASE NewCoreFails(r)
      BY <1>2, GivesInv DEF NewCoreFails, ReloadInv, TypeOK
<1> QED
    BY <1>1, <1>2

LEMMA StartCoreInv ==
  ASSUME ReloadInv, NEW r \in Runs, StartCore(r) \/ StartCoreFails(r)
  PROVE  ReloadInv'
<1>1. CASE StartCore(r)
  <2> USE <1>1, Numbers DEF ReloadInv, StartCore, watcher, shared, ghosts, budget
  <2>1. /\ up /\ pc' \in [Runs -> Places] /\ pc'[r] = "list"
        /\ \A o \in Runs \ {r} : pc'[o] = pc[o]
        BY MovedOn DEF Places
  <2>2. TypeOK'
        BY <2>1 DEF TypeOK
  <2>3. RunsTypeOK'
        BY <2>1 DEF RunsTypeOK
  <2>4. ClosedTimersAreStopped'
        BY DEF ClosedTimersAreStopped
  <2> QED
      BY <2>2, <2>3, <2>4
<1>2. CASE StartCoreFails(r)
      BY <1>2, GivesInv DEF StartCoreFails, ReloadInv, TypeOK
<1> QED
    BY <1>1, <1>2

-----------------------------------------------------------------------------
(* Starting controllers. *)

LEMMA MakeListInv ==
  ASSUME ReloadInv, NEW r \in Runs, MakeList(r)
  PROVE  ReloadInv'
<1> USE Numbers DEF ReloadInv, MakeList, watcher, ghosts, budget
<1>1. /\ up /\ pc' \in [Runs -> Places] /\ pc'[r] = "start"
      /\ \A o \in Runs \ {r} : pc'[o] = pc[o]
      BY MovedOn DEF Places
<1>2. Listed \in SUBSET Nodes
      BY DEF Listed, TypeOK
<1>3. /\ rest' \in [Runs -> SUBSET Nodes]
      /\ \A o \in Runs \ {r} : rest'[o] = rest[o]
      BY <1>2 DEF RunsTypeOK
<1>4. TypeOK'
      BY <1>1, <1>3 DEF TypeOK
<1>5. server' \in [Runs -> Runs \cup {Nil}]
      BY DEF RunsTypeOK, TypeOK
<1>6. RunsTypeOK'
      BY <1>1, <1>3, <1>5 DEF RunsTypeOK
<1>7. \A q \in Runs, n \in Nodes : slot'[q][n] = "closed" => slot[q][n] = "closed"
      BY DEF TypeOK
<1>8. ClosedTimersAreStopped'
      BY <1>7 DEF ClosedTimersAreStopped
<1> QED
    BY <1>4, <1>6, <1>8

LEMMA StartControllerInv ==
  ASSUME ReloadInv, NEW r \in Runs, NEW n \in Nodes, StartController(r, n)
  PROVE  ReloadInv'
<1> USE Numbers DEF ReloadInv, StartController, watcher, shared, ghosts, budget
<1>1. up /\ pc[r] = "start"
      BY DEF TypeOK, Everywhere
<1>2. /\ rest' \in [Runs -> SUBSET Nodes]
      /\ \A o \in Runs : rest'[o] \subseteq rest[o]
      BY DEF RunsTypeOK
<1>3. /\ slot' \in [Runs -> [Nodes -> {"out", "nil", "failed", "started", "closed"}]]
      /\ tick' \in [Runs -> [Nodes -> {"off", "timer", "busy", "stray"}]]
      BY DEF TypeOK
<1>4. TypeOK'
      BY <1>1, <1>2, <1>3 DEF TypeOK
<1>5. RunsTypeOK'
      BY <1>2 DEF RunsTypeOK
<1>6. ASSUME NEW q \in Runs, NEW m \in Nodes, slot'[q][m] = "closed"
      PROVE  slot[q][m] = "closed" /\ tick'[q][m] = tick[q][m]
      BY <1>6 DEF TypeOK
<1>7. ClosedTimersAreStopped'
      BY <1>6 DEF ClosedTimersAreStopped
<1> QED
    BY <1>4, <1>5, <1>7

LEMMA StartControllerFailsInv ==
  ASSUME ReloadInv, NEW r \in Runs, NEW n \in Nodes, StartControllerFails(r, n)
  PROVE  ReloadInv'
<1>1. slot \in [Runs -> [Nodes -> {"out", "nil", "failed", "started", "closed"}]]
      BY DEF ReloadInv, TypeOK
<1>2. ASSUME r # Boot
      PROVE  /\ slot' \in [Runs -> [Nodes -> {"out", "nil", "failed", "started", "closed"}]]
             /\ \A q \in Runs, m \in Nodes : slot'[q][m] = "closed" => slot[q][m] = "closed"
  <2>1. CASE slot' = slot
        BY <1>1, <2>1
  <2>2. CASE slot' = [slot EXCEPT ![r][n] = "failed"]
        BY <1>1, <2>2
  <2> QED
      BY <1>2, <2>1, <2>2 DEF StartControllerFails
<1> QED
    BY <1>2, GivesInv DEF StartControllerFails, ReloadInv, TypeOK

LEMMA StartedInv ==
  ASSUME ReloadInv, NEW r \in Runs, Started(r)
  PROVE  ReloadInv'
<1> USE Numbers DEF ReloadInv, Started, shared, objects, ghosts, budget
<1>1. /\ up /\ pc' \in [Runs -> Places] /\ pc'[r] = "done"
      /\ \A o \in Runs \ {r} : pc'[o] = pc[o]
      BY MovedOn DEF Places
<1>2. TypeOK'
      BY <1>1 DEF TypeOK
<1>3. RunsTypeOK'
      BY <1>1 DEF RunsTypeOK
<1>4. ClosedTimersAreStopped'
      BY DEF ClosedTimersAreStopped
<1> QED
    BY <1>2, <1>3, <1>4

-----------------------------------------------------------------------------
(* The tasks: a timer of a closed controller never fires, and a stray      *)
(* callback only goes off.                                                 *)
LEMMA TicksInv ==
  ASSUME ReloadInv, NEW s \in Runs, NEW n \in Nodes,
         Executes(s, n) \/ Executed(s, n) \/ Returns(s, n)
  PROVE  ReloadInv'
<1> USE DEF ReloadInv, watcher, shared, runs, ghosts, budget
<1>1. PICK from \in {"timer", "busy", "stray"}, to \in {"off", "timer", "busy"} :
        /\ Ticks(s, n, {from}, to)
        /\ from = "stray" => to = "off"
      BY DEF Executes, Executed, Returns
<1>2. /\ up
      /\ tick' \in [Runs -> [Nodes -> {"off", "timer", "busy", "stray"}]]
      BY <1>1 DEF Ticks, TypeOK, NoTicks, Everywhere
<1>3. TypeOK'
      BY <1>1, <1>2 DEF Ticks, TypeOK
<1>4. RunsTypeOK'
      BY <1>1 DEF Ticks, RunsTypeOK
<1>5. ASSUME NEW q \in Runs, NEW m \in Nodes, slot'[q][m] = "closed"
      PROVE  tick'[q][m] \in {"off", "stray"}
      BY <1>1, <1>5 DEF Ticks, TypeOK, ClosedTimersAreStopped
<1> QED
    BY <1>3, <1>4, <1>5 DEF ClosedTimersAreStopped

-----------------------------------------------------------------------------
LEMMA NextInv == ReloadInv /\ [Next]_vars => ReloadInv'
<1> SUFFICES ASSUME ReloadInv, [Next]_vars PROVE ReloadInv'
    OBVIOUS
<1>1. CASE Start
      BY <1>1, StartInv
<1>2. CASE WindowEnds
      BY <1>2, WindowEndsInv
<1>3. CASE WatchFails
      BY <1>3, DiesInv DEF WatchFails
<1>4. CASE \E content \in {Bad} \cup Files, replaced \in BOOLEAN : Edit(content, replaced)
      BY <1>4, EditInv
<1>5. ASSUME NEW r \in Runs, Progress(r) PROVE ReloadInv'
  <2>1. CASE Read(r)
        BY <2>1, ReadInv
  <2>2. CASE \E n \in Nodes : CloseControllerPanics(r, n)
        BY <2>2, DiesInv DEF CloseControllerPanics
  <2>3. CASE NodesClosed(r)
        BY <2>3, NodesClosedInv
  <2>4. CASE CloseCore(r) \/ CloseCoreFails(r)
        BY <2>4, CloseCoreInv
  <2>5. CASE NilCorePanics(r) \/ NewCorePanics(r) \/ StartControllerPanics(r)
        BY <2>5, DiesInv DEF NilCorePanics, NewCorePanics, StartControllerPanics
  <2>6. CASE NewCore(r) \/ NewCoreFails(r)
        BY <2>6, NewCoreInv
  <2>7. CASE StartCore(r) \/ StartCoreFails(r)
        BY <2>7, StartCoreInv
  <2>8. CASE MakeList(r)
        BY <2>8, MakeListInv
  <2>9. CASE \E n \in Nodes : StartController(r, n) \/ StartControllerFails(r, n)
        BY <2>9, StartControllerInv, StartControllerFailsInv
  <2>10. CASE Started(r)
        BY <2>10, StartedInv
  <2> QED
      BY <1>5, <2>1, <2>2, <2>3, <2>4, <2>5, <2>6, <2>7, <2>8, <2>9, <2>10
         DEF Progress
<1>6. ASSUME NEW r \in Runs, NEW n \in Nodes,
             \/ CloseController(r, n) \/ Executes(r, n) \/ Executed(r, n)
             \/ Returns(r, n) \/ TickPanics(r, n)
      PROVE  ReloadInv'
      BY <1>6, CloseControllerInv, TicksInv, DiesInv DEF TickPanics
<1>7. CASE UNCHANGED vars
  <2> USE <1>7 DEF ReloadInv, vars, watcher, shared, objects, runs, ghosts
  <2>1. TypeOK'
        BY DEF TypeOK
  <2>2. RunsTypeOK'
        BY DEF RunsTypeOK
  <2>3. ClosedTimersAreStopped'
        BY DEF ClosedTimersAreStopped
  <2> QED
      BY <2>1, <2>2, <2>3
<1> QED
    BY <1>1, <1>2, <1>3, <1>4, <1>5, <1>6, <1>7 DEF Next

(* Every reachable state satisfies the inductive invariant of this module. *)
LEMMA AlwaysInv == Spec => []ReloadInv
<1>1. ReloadInv /\ [Next]_vars => ReloadInv'
      BY NextInv
<1> QED
    BY InitInv, <1>1, PTL DEF Spec

(* Every variable keeps its type, and nothing of a process that has died   *)
(* is left over for the next one (cmd/server.go), for any number of nodes, *)
(* edits and failures.                                                     *)
THEOREM TypeCorrect == Spec => []TypeOK
<1>1. ReloadInv => TypeOK
      BY DEF ReloadInv
<1> QED
    BY AlwaysInv, <1>1, PTL

(* No task executes on behalf of a controller whose Close has returned     *)
(* (common/task/task.go, node/controller.go), however many reloads overlap.*)
THEOREM NoTickAfterClose == Spec => []QuietAfterClose
<1>1. ReloadInv => QuietAfterClose
      BY DEF ReloadInv, ClosedTimersAreStopped, QuietAfterClose
<1> QED
    BY AlwaysInv, <1>1, PTL
-----------------------------------------------------------------------------
(* The order of the runs is kept by every step. *)

LEMMA RunsAheadStep ==
  ASSUME ReloadInv, NEW r \in Runs, r <= MaxEdits - edits, edits' = edits, RunsAhead,
         \A o \in Runs \ {r} : pc'[o] = pc[o]
  PROVE  RunsAhead'
BY Numbers DEF RunsAhead, Runs

LEMMA DiesOrder == RunsAhead /\ Dies /\ edits' = edits => OrderInv'
BY DEF OrderInv, RunsAhead, DeadIsEmpty, Dies, Everywhere

(* A run that is somewhere is not ahead, and its process runs. *)
LEMMA RunIsBehind ==
  ASSUME ReloadInv, OrderInv, NEW r \in Runs, pc[r] # "none"
  PROVE  up /\ r <= MaxEdits - edits
BY Numbers DEF ReloadInv, TypeOK, OrderInv, RunsAhead, Everywhere, Runs

(* While a run works no other does. *)
LEMMA OthersRest ==
  ASSUME ReloadInv, OneAtATime, NEW r \in Runs, Works(r)
  PROVE  \A o \in Runs \ {r} : pc[o] \in {"none", "sleep", "done"}
BY DEF OneAtATime, Works

LEMMA NodesClosedOrder ==
  ASSUME ReloadInv, OrderInv, NEW r \in Runs, NodesClosed(r)
  PROVE  OrderInv'
<1> USE Numbers DEF NodesClosed, On, watcher, shared, objects, ghosts, budget
<1>1. /\ up /\ pc' \in [Runs -> Places] /\ pc'[r] = "closeCore"
      /\ \A o \in Runs \ {r} : pc'[o] = pc[o]
      BY MovedOn DEF Places, ReloadInv
<1>2. RunsAhead'
      BY <1>1, RunIsBehind, RunsAheadStep DEF OrderInv
<1>3. ASSUME ~tainted', ~overlapped' PROVE Orderly'
  <2>1. Orderly
        BY <1>1, <1>3 DEF OrderInv
  <2>2. \A o \in Runs \ {r} : pc'[o] \in {"none", "sleep", "done"}
        BY <1>1, <2>1, OthersRest DEF Orderly, Works
  <2>3. OneAtATime'
        BY <2>2 DEF OneAtATime, Works
  <2> USE <1>1, <2>1, <2>2 DEF Orderly, ReloadInv, TypeOK, RunsTypeOK
  <2>4. CoreIsThere'
        BY DEF CoreIsThere, ListInStage
  <2>5. ListIsAll'
        BY DEF ListIsAll, ListInStage
  <2>6. ListInStage'
        BY DEF ListIsAll, ListInStage, CoreIsThere, Works
  <2> QED
      BY <2>3, <2>4, <2>5, <2>6
<1> QED
    BY <1>1, <1>2, <1>3 DEF OrderInv, DeadIsEmpty

LEMMA CloseCoreOrder ==
  ASSUME ReloadInv, OrderInv, NEW r \in Runs, CloseCore(r)
  PROVE  OrderInv'
<1> USE Numbers DEF CloseCore, On, watcher, shared, objects, ghosts, budget
<1>1. /\ up /\ pc' \in [Runs -> Places] /\ pc'[r] = "newCore"
      /\ \A o \in Runs \ {r} : pc'[o] = pc[o]
      BY MovedOn DEF Places, ReloadInv
<1>2. RunsAhead'
      BY <1>1, RunIsBehind, RunsAheadStep DEF OrderInv
<1>3. ASSUME ~tainted', ~overlapped' PROVE Orderly'
  <2>1. Orderly
        BY <1>1, <1>3 DEF OrderInv
  <2>2. \A o \in Runs \ {r} : pc'[o] \in {"none", "sleep", "done"}
        BY <1>1, <2>1, OthersRest DEF Orderly, Works
  <2>3. OneAtATime'
        BY <2>2 DEF OneAtATime, Works
  <2> USE <1>1, <2>1, <2>2 DEF Orderly, ReloadInv, TypeOK, RunsTypeOK
  <2>4. CoreIsThere'
        BY DEF CoreIsThere, ListInStage
  <2>5. ListIsAll'
        BY DEF ListIsAll, ListInStage
  <2>6. ListInStage'
        BY DEF ListIsAll, ListInStage, CoreIsThere, Works
  <2> QED
      BY <2>3, <2>4, <2>5, <2>6
<1> QED
    BY <1>1, <1>2, <1>3 DEF OrderInv, DeadIsEmpty

LEMMA NewCoreOrder ==
  ASSUME ReloadInv, OrderInv, NEW r \in Runs, NewCore(r)
  PROVE  OrderInv'
<1> USE Numbers DEF NewCore, On, watcher, shared, objects, ghosts, budget
<1>1. /\ up /\ pc' \in [Runs -> Places] /\ pc'[r] = "startCore"
      /\ \A o \in Runs \ {r} : pc'[o] = pc[o]
      BY MovedOn DEF Places, ReloadInv
<1>2. RunsAhead'
      BY <1>1, RunIsBehind, RunsAheadStep DEF OrderInv
<1>3. ASSUME ~tainted', ~overlapped' PROVE Orderly'
  <2>1. Orderly
        BY <1>1, <1>3 DEF OrderInv
  <2>2. \A o \in Runs \ {r} : pc'[o] \in {"none", "sleep", "done"}
        BY <1>1, <2>1, OthersRest DEF Orderly, Works
  <2>3. OneAtATime'
        BY <2>2 DEF OneAtATime, Works
  <2> USE <1>1, <2>1, <2>2 DEF Orderly, ReloadInv, TypeOK, RunsTypeOK
  <2>4. CoreIsThere'
        BY DEF CoreIsThere, ListInStage
  <2>5. ListIsAll'
        BY DEF ListIsAll, ListInStage
  <2>6. ListInStage'
        BY DEF ListIsAll, ListInStage, CoreIsThere, Works
  <2> QED
      BY <2>3, <2>4, <2>5, <2>6
<1> QED
    BY <1>1, <1>2, <1>3 DEF OrderInv, DeadIsEmpty

LEMMA StartCoreOrder ==
  ASSUME ReloadInv, OrderInv, NEW r \in Runs, StartCore(r)
  PROVE  OrderInv'
<1> USE Numbers DEF StartCore, On, watcher, shared, objects, ghosts, budget
<1>1. /\ up /\ pc' \in [Runs -> Places] /\ pc'[r] = "list"
      /\ \A o \in Runs \ {r} : pc'[o] = pc[o]
      BY MovedOn DEF Places, ReloadInv
<1>2. RunsAhead'
      BY <1>1, RunIsBehind, RunsAheadStep DEF OrderInv
<1>3. ASSUME ~tainted', ~overlapped' PROVE Orderly'
  <2>1. Orderly
        BY <1>1, <1>3 DEF OrderInv
  <2>2. \A o \in Runs \ {r} : pc'[o] \in {"none", "sleep", "done"}
        BY <1>1, <2>1, OthersRest DEF Orderly, Works
  <2>3. OneAtATime'
        BY <2>2 DEF OneAtATime, Works
  <2> USE <1>1, <2>1, <2>2 DEF Orderly, ReloadInv, TypeOK, RunsTypeOK
  <2>4. CoreIsThere'
        BY DEF CoreIsThere, ListInStage
  <2>5. ListIsAll'
        BY DEF ListIsAll, ListInStage
  <2>6. ListInStage'
        BY DEF ListIsAll, ListInStage, CoreIsThere, Works
  <2> QED
      BY <2>3, <2>4, <2>5, <2>6
<1> QED
    BY <1>1, <1>2, <1>3 DEF OrderInv, DeadIsEmpty

LEMMA MakeListOrder ==
  ASSUME ReloadInv, OrderInv, NEW r \in Runs, MakeList(r)
  PROVE  OrderInv'
<1> USE Numbers DEF MakeList, On, watcher, shared, objects, ghosts, budget
<1>1. /\ up /\ pc' \in [Runs -> Places] /\ pc'[r] = "start"
      /\ \A o \in Runs \ {r} : pc'[o] = pc[o]
      BY MovedOn DEF Places, ReloadInv
<1>2. RunsAhead'
      BY <1>1, RunIsBehind, RunsAheadStep DEF OrderInv
<1>3. ASSUME ~tainted', ~overlapped' PROVE Orderly'
  <2>1. Orderly
        BY <1>1, <1>3 DEF OrderInv
  <2>2. \A o \in Runs \ {r} : pc'[o] \in {"none", "sleep", "done"}
        BY <1>1, <2>1, OthersRest DEF Orderly, Works
  <2>3. OneAtATime'
        BY <2>2 DEF OneAtATime, Works
  <2> USE <1>1, <2>1, <2>2 DEF Orderly, ReloadInv, TypeOK, RunsTypeOK
  <2>4. CoreIsThere'
        BY DEF CoreIsThere, ListInStage
  <2>5. ListIsAll'
        BY DEF ListIsAll, ListInStage
  <2>6. ListInStage'
    <3>1. Listed \in SUBSET Nodes
          BY DEF Listed
    <3>2. /\ list' = r /\ rest'[r] = Listed
          /\ slot'[r] = [n \in Nodes |-> IF n \in Listed THEN "nil" ELSE "out"]
          OBVIOUS
    <3>3. \A n \in Nodes : /\ slot'[r][n] = "nil" <=> n \in rest'[r]
                          /\ slot'[r][n] \in {"out", "nil", "started"}
          BY <3>1, <3>2
    <3>4. Works(r)'
          BY DEF Works
    <3> HIDE DEF MakeList, ReloadInv, TypeOK, RunsTypeOK
    <3> QED
        BY <3>2, <3>3, <3>4 DEF ListInStage
  <2> QED
      BY <2>3, <2>4, <2>5, <2>6
<1> QED
    BY <1>1, <1>2, <1>3 DEF OrderInv, DeadIsEmpty

LEMMA StartedOrder ==
  ASSUME ReloadInv, OrderInv, NEW r \in Runs, Started(r)
  PROVE  OrderInv'
<1> USE Numbers DEF Started, On, watcher, shared, objects, ghosts, budget
<1>1. /\ up /\ pc' \in [Runs -> Places] /\ pc'[r] = "done"
      /\ \A o \in Runs \ {r} : pc'[o] = pc[o]
      BY MovedOn DEF Places, ReloadInv
<1>2. RunsAhead'
      BY <1>1, RunIsBehind, RunsAheadStep DEF OrderInv
<1>3. ASSUME ~tainted', ~overlapped' PROVE Orderly'
  <2>1. Orderly
        BY <1>1, <1>3 DEF OrderInv
  <2>2. \A o \in Runs \ {r} : pc'[o] \in {"none", "sleep", "done"}
        BY <1>1, <2>1, OthersRest DEF Orderly, Works
  <2>3. OneAtATime'
        BY <2>2 DEF OneAtATime, Works
  <2> USE <1>1, <2>1, <2>2 DEF Orderly, ReloadInv, TypeOK, RunsTypeOK
  <2>4. CoreIsThere'
        BY DEF CoreIsThere, ListInStage
  <2>5. ListIsAll'
        BY DEF ListIsAll, ListInStage
  <2>6. ListInStage'
        BY DEF ListIsAll, ListInStage, CoreIsThere, Works
  <2> QED
      BY <2>3, <2>4, <2>5, <2>6
<1> QED
    BY <1>1, <1>2, <1>3 DEF OrderInv, DeadIsEmpty

LEMMA ReadOrder ==
  ASSUME ReloadInv, OrderInv, NEW r \in Runs, Read(r)
  PROVE  OrderInv'
<1> USE Numbers DEF Read, ReadAs, On, watcher, shared, objects, ghosts, budget
<1>1. /\ up /\ pc' \in [Runs -> Places] /\ pc'[r] = "close"
      /\ \A o \in Runs \ {r} : pc'[o] = pc[o]
      BY MovedOn DEF Places, ReloadInv
<1>2. RunsAhead'
      BY <1>1, RunIsBehind, RunsAheadStep DEF OrderInv
<1>3. ASSUME ~tainted', ~overlapped' PROVE Orderly'
  <2>1. Orderly
        BY <1>1, <1>3 DEF OrderInv
  <2>2. \A o \in Runs \ {r} : pc'[o] \in {"none", "sleep", "done"}
        BY <1>1, <1>3 DEF Works, ReloadInv, RunsTypeOK, Places
  <2>3. OneAtATime'
        BY <2>2 DEF OneAtATime, Works
  <2> USE <1>1, <2>1, <2>2 DEF Orderly, ReloadInv, TypeOK, RunsTypeOK
  <2>4. CoreIsThere'
        BY DEF CoreIsThere, ListInStage
  <2>5. ListIsAll'
        BY DEF ListIsAll, ListInStage
  <2>6. ListInStage'
    <3>1. \A o \in Runs : ~Works(o)
          BY <2>2 DEF Works
    <3>2. list # Nil => \A n \in Nodes : slot[list][n] \in {"out", "started"}
          BY <3>1 DEF ListInStage
    <3>3. /\ mine'[r] = list /\ list' = list /\ slot' = slot
          /\ rest'[r] = IF list = Nil THEN {} ELSE {n \in Nodes : slot[list][n] # "out"}
          OBVIOUS
    <3>4. Works(r)'
          BY DEF Works
    <3> QED
        BY <3>2, <3>3, <3>4 DEF ListInStage
  <2> QED
      BY <2>3, <2>4, <2>5, <2>6
<1> QED
    BY <1>1, <1>2, <1>3 DEF OrderInv, DeadIsEmpty

(* A run that gives up before it has a core or a controller to lose. *)
LEMMA GivesOrder ==
  ASSUME ReloadInv, OrderInv, NEW r \in Runs, NEW taints \in BOOLEAN,
         Gives(r, taints), edits' = edits,
         pc[r] \in {"closeCore", "newCore", "startCore", "start"},
         r # Boot /\ ~taints => pc[r] # "start" /\ UNCHANGED <<vc, core, slot>>
  PROVE  OrderInv'
<1>1. CASE r = Boot
      BY <1>1, DiesOrder DEF Gives, OrderInv
<1>2. CASE r # Boot
  <2> USE <1>2, Numbers DEF Gives, On, watcher
  <2>1. /\ up /\ pc' \in [Runs -> Places] /\ pc'[r] = "done"
        /\ \A o \in Runs \ {r} : pc'[o] = pc[o]
        BY MovedOn DEF Places, ReloadInv
  <2>2. RunsAhead'
        BY <2>1, RunIsBehind, RunsAheadStep DEF OrderInv
  <2>3. ASSUME ~tainted', ~overlapped' PROVE Orderly'
    <3>1. Orderly /\ ~taints
          BY <2>1, <2>3 DEF OrderInv
    <3>2. \A o \in Runs : pc'[o] \in {"none", "sleep", "done"}
          BY <2>1, <3>1, OthersRest DEF Orderly, Works
    <3>3. list' = Nil /\ list = Nil
          BY <3>1 DEF Orderly, ListInStage
    <3>4. OneAtATime'
          BY <3>2 DEF OneAtATime, Works
    <3> USE <2>1, <3>1, <3>2, <3>3 DEF Orderly, ReloadInv, TypeOK, RunsTypeOK
    <3>5. CoreIsThere'
          BY DEF CoreIsThere
    <3>6. ListIsAll'
          BY DEF ListIsAll
    <3>7. ListInStage'
          BY DEF ListInStage
    <3> QED
        BY <3>4, <3>5, <3>6, <3>7
  <2> QED
      BY <2>1, <2>2, <2>3 DEF OrderInv, DeadIsEmpty
<1> QED
    BY <1>1, <1>2

(* Closing a controller, and starting one: the others of the list and all  *)
(* runs stay where they are.                                               *)
LEMMA CloseControllerOrder ==
  ASSUME ReloadInv, OrderInv, NEW r \in Runs, NEW n \in Nodes, CloseController(r, n)
  PROVE  OrderInv'
<1> USE Numbers DEF CloseController, IsNext, On, watcher, shared, ghosts, budget
<1>1. up /\ pc' = pc /\ RunsAhead'
      BY DEF ReloadInv, TypeOK, Everywhere, OrderInv, RunsAhead
<1>2. ASSUME Orderly PROVE Orderly'
  <2> USE <1>1, <1>2 DEF Orderly, ReloadInv, TypeOK, RunsTypeOK
  <2>1. OneAtATime'
        BY DEF OneAtATime, Works
  <2>2. CoreIsThere'
        BY DEF CoreIsThere
  <2>3. \A o \in Runs \ {r} : pc[o] \in {"none", "sleep", "done"}
        BY OthersRest DEF Works
  <2>4. /\ list # Nil /\ mine[r] = list /\ list \in Runs
        /\ slot[list][n] = "started"
        BY DEF ListInStage
  <2>5. /\ \A m \in Nodes \ {n} : slot'[list][m] = slot[list][m] /\ tick'[list][m] = tick[list][m]
        /\ slot'[list][n] = "closed" /\ tick'[list][n] \in {"off", "stray"}
        /\ \A q \in Runs \ {list} : slot'[q] = slot[q] /\ tick'[q] = tick[q]
        /\ mine' = mine /\ rest'[r] = rest[r] \ {n}
        BY <2>4
  <2>6. ListIsAll'
        BY <2>4, <2>5 DEF ListIsAll
  <2>7. Works(r)'
        BY DEF Works
  <2>8. ListInStage'
    <3>1. \A m \in Nodes : /\ slot'[list][m] = "started" <=> m \in rest'[r]
                          /\ slot'[list][m] \in {"out", "started", "closed"}
          BY <2>4, <2>5 DEF ListInStage
    <3>2. pc'[r] = "close" /\ mine'[r] = list /\ list' = list
          BY <2>4, <2>5
    <3> HIDE DEF CloseController, ReloadInv, TypeOK, RunsTypeOK
    <3> QED
        BY <2>3, <2>4, <2>7, <3>1, <3>2 DEF ListInStage
  <2> QED
      BY <2>1, <2>2, <2>6, <2>8
<1> QED
    BY <1>1, <1>2 DEF OrderInv, DeadIsEmpty

LEMMA StartControllerOrder ==
  ASSUME ReloadInv, OrderInv, NEW r \in Runs, NEW n \in Nodes, StartController(r, n)
  PROVE  OrderInv'
<1> USE Numbers DEF StartController, IsNext, On, watcher, shared, ghosts, budget
<1>1. up /\ pc' = pc /\ RunsAhead'
      BY DEF ReloadInv, TypeOK, Everywhere, OrderInv, RunsAhead
<1>2. ASSUME Orderly PROVE Orderly'
  <2> USE <1>1, <1>2 DEF Orderly, ReloadInv, TypeOK, RunsTypeOK
  <2>1. OneAtATime'
        BY DEF OneAtATime, Works
  <2>2. CoreIsThere'
        BY DEF CoreIsThere
  <2>3. \A o \in Runs \ {r} : pc[o] \in {"none", "sleep", "done"}
        BY OthersRest DEF Works
  <2>4. list = r /\ n \in rest[r]
        BY DEF ListInStage
  <2>5. /\ \A m \in Nodes \ {n} : slot'[r][m] = slot[r][m] /\ tick'[r][m] = tick[r][m]
        /\ slot'[r][n] = "started"
        /\ \A q \in Runs \ {r} : slot'[q] = slot[q] /\ tick'[q] = tick[q]
        /\ rest'[r] = rest[r] \ {n}
        OBVIOUS
  <2>6. ListIsAll'
        BY <2>4, <2>5 DEF ListIsAll
  <2>7. Works(r)'
        BY DEF Works
  <2>8. ListInStage'
        BY <2>3, <2>4, <2>5, <2>7 DEF ListInStage
  <2> QED
      BY <2>1, <2>2, <2>6, <2>8
<1> QED
    BY <1>1, <1>2 DEF OrderInv, DeadIsEmpty

(* The process starts with a run that has everything to do. *)
LEMMA StartOrder == ReloadInv /\ OrderInv /\ Start => OrderInv'
<1> SUFFICES ASSUME ReloadInv, OrderInv, Start PROVE OrderInv'
    OBVIOUS
<1> USE Numbers DEF Start, Goes, On, watcher, objects, runs, budget
<1>1. /\ pc = Everywhere("none") /\ tick = NoTicks /\ slot = NoSlots /\ list = Nil
      BY DEF ReloadInv, TypeOK, OrderInv, DeadIsEmpty
<1>2. pc'[Boot] = "newCore" /\ \A o \in Runs \ {Boot} : pc'[o] = "none"
      BY <1>1 DEF Everywhere
<1>3. RunsAhead'
      BY <1>2 DEF OrderInv, RunsAhead, Boot, Runs
<1>4. OneAtATime'
      BY <1>2 DEF OneAtATime, Works
<1>5. CoreIsThere'
      BY <1>1, <1>2 DEF CoreIsThere
<1>6. ListIsAll'
      BY <1>1 DEF ListIsAll, NoTicks, NoSlots, Everywhere
<1>7. ListInStage'
      BY <1>1, <1>2 DEF ListInStage
<1> QED
    BY <1>3, <1>4, <1>5, <1>6, <1>7 DEF OrderInv, DeadIsEmpty, Orderly

(* A change of the file sends a run to sleep that nobody has used. *)
LEMMA EditOrder ==
  ASSUME ReloadInv, OrderInv, NEW content \in {Bad} \cup Files, NEW replaced \in BOOLEAN,
         Edit(content, replaced)
  PROVE  OrderInv'
<1> USE Numbers, ReloadAssumption DEF Edit, Goes, On, shared, objects
<1> DEFINE q == MaxEdits + 1 - edits
<1>1. /\ edits \in 1..MaxEdits /\ edits' = edits - 1
      /\ q \in Runs \ {Boot} /\ pc[q] = "none"
      BY DEF OrderInv, RunsAhead, Runs, Boot
<1>2. \/ pc' = pc
      \/ pc'[q] = "sleep" /\ \A o \in Runs \ {q} : pc'[o] = pc[o]
      BY <1>1 DEF ReloadInv, RunsTypeOK
<1>3. RunsAhead'
      BY <1>1, <1>2 DEF OrderInv, RunsAhead, Runs
<1>4. ASSUME Orderly PROVE Orderly'
  <2>1. \A o \in Runs : pc'[o] = pc[o] \/ (pc[o] = "none" /\ pc'[o] = "sleep")
        BY <1>1, <1>2
  <2>2. pc'[Boot] = pc[Boot]
        BY <1>1, <1>2
  <2>3. \A o \in Runs : Works(o)' <=> Works(o)
        BY <2>1 DEF Works
  <2> USE <1>4, <2>1, <2>2, <2>3 DEF Orderly
  <2>4. OneAtATime'
        BY DEF OneAtATime
  <2>5. CoreIsThere'
        BY DEF CoreIsThere
  <2>6. ListIsAll'
        BY DEF ListIsAll
  <2>7. ListInStage'
        BY DEF ListInStage
  <2> QED
      BY <2>4, <2>5, <2>6, <2>7
<1> QED
    BY <1>3, <1>4 DEF OrderInv, DeadIsEmpty

(* A task's callback keeps its controller's task armed, or was stray. *)
LEMMA TicksOrder ==
  ASSUME ReloadInv, OrderInv, NEW s \in Runs, NEW n \in Nodes,
         Executes(s, n) \/ Executed(s, n) \/ Returns(s, n)
  PROVE  OrderInv'
<1> USE DEF Executes, Executed, Returns, Ticks, On, watcher, shared, runs, ghosts, budget
<1>1. ASSUME ListIsAll PROVE ListIsAll'
  <2>1. PICK from \in {"timer", "busy", "stray"}, to \in {"off", "timer", "busy"} :
          /\ Ticks(s, n, {from}, to)
          /\ from = "stray" => to = "off"
        OBVIOUS
  <2>2. \A q \in Runs, m \in Nodes :
          tick'[q][m] \in {"timer", "busy"} => tick[q][m] \in {"timer", "busy"}
        BY <2>1 DEF ReloadInv, TypeOK
  <2> QED
      BY <1>1, <2>2 DEF ListIsAll
<1>2. ASSUME Orderly PROVE Orderly'
      BY <1>1, <1>2 DEF Orderly, OneAtATime, Works, CoreIsThere, ListInStage
<1> QED
    BY <1>2 DEF OrderInv, RunsAhead, DeadIsEmpty

LEMMA UnchangedOrder ==
  ASSUME OrderInv, UNCHANGED <<up, shared, objects, runs, ghosts, edits>>
  PROVE  OrderInv'
<1> USE DEF shared, objects, runs, ghosts, On
<1>1. ASSUME Orderly PROVE Orderly'
      BY <1>1 DEF Orderly, OneAtATime, Works, CoreIsThere, ListIsAll, ListInStage
<1> QED
    BY <1>1 DEF OrderInv, RunsAhead, DeadIsEmpty

LEMMA NextOrder == ReloadInv /\ OrderInv /\ [Next]_vars => OrderInv'
<1> SUFFICES ASSUME ReloadInv, OrderInv, [Next]_vars PROVE OrderInv'
    OBVIOUS
<1>1. ASSUME Dies, edits' = edits PROVE OrderInv'
      BY <1>1, DiesOrder DEF OrderInv
<1>2. CASE Start
      BY <1>2, StartOrder
<1>3. CASE WindowEnds
      BY <1>3, UnchangedOrder DEF WindowEnds, budget
<1>4. CASE WatchFails
      BY <1>1, <1>4 DEF WatchFails, Trouble
<1>5. CASE \E content \in {Bad} \cup Files, replaced \in BOOLEAN : Edit(content, replaced)
      BY <1>5, EditOrder
<1>6. ASSUME NEW r \in Runs, Progress(r) PROVE OrderInv'
  <2>1. CASE Read(r) \/ NodesClosed(r) \/ CloseCore(r) \/ NewCore(r) \/ StartCore(r)
             \/ MakeList(r) \/ Started(r)
        BY <2>1, ReadOrder, NodesClosedOrder, CloseCoreOrder, NewCoreOrder,
           StartCoreOrder, MakeListOrder, StartedOrder
  <2>2. CASE \/ \E n \in Nodes : CloseControllerPanics(r, n)
             \/ NilCorePanics(r) \/ NewCorePanics(r) \/ StartControllerPanics(r)
        BY <1>1, <2>2
        DEF CloseControllerPanics, NilCorePanics, NewCorePanics, StartControllerPanics,
            Trouble, budget
  <2>3. CASE CloseCoreFails(r)
        BY <2>3, GivesOrder DEF CloseCoreFails, Trouble, budget
  <2>4. CASE NewCoreFails(r)
        BY <2>4, GivesOrder DEF NewCoreFails, Trouble, budget
  <2>5. CASE StartCoreFails(r)
        BY <2>5, GivesOrder DEF StartCoreFails, Trouble, budget
  <2>6. CASE \E n \in Nodes : StartController(r, n) \/ StartControllerFails(r, n)
        BY <2>6, StartControllerOrder, GivesOrder DEF StartControllerFails, Trouble, budget
  <2> QED
      BY <1>6, <2>1, <2>2, <2>3, <2>4, <2>5, <2>6 DEF Progress
<1>7. ASSUME NEW r \in Runs, NEW n \in Nodes,
             \/ CloseController(r, n) \/ Executes(r, n) \/ Executed(r, n)
             \/ Returns(r, n) \/ TickPanics(r, n)
      PROVE  OrderInv'
      BY <1>1, <1>7, CloseControllerOrder, TicksOrder DEF TickPanics, budget
<1>8. CASE UNCHANGED vars
      BY <1>8, UnchangedOrder DEF vars, budget
<1> QED
    BY <1>2, <1>3, <1>4, <1>5, <1>6, <1>7, <1>8 DEF Next

(* The bound on troubles is counted down. *)
LEMMA TroublesStep == troubles \in Nat /\ [Next]_vars => troubles' \in Nat
<1> SUFFICES ASSUME troubles \in Nat, [Next]_vars PROVE troubles' \in Nat
    OBVIOUS
<1> USE DEF budget, Trouble
<1>1. CASE Start \/ WindowEnds \/ WatchFails
      BY <1>1 DEF Start, WindowEnds, WatchFails
<1>2. CASE \E content \in {Bad} \cup Files, replaced \in BOOLEAN : Edit(content, replaced)
      BY <1>2 DEF Edit
<1>3. ASSUME NEW r \in Runs, Progress(r) PROVE troubles' \in Nat
  <2>1. CASE UNCHANGED budget \/ Trouble
        BY <2>1
  <2>2. UNCHANGED budget \/ Trouble
    <3> HIDE DEF budget, Trouble
    <3> QED
        BY <1>3
        DEF Progress, Read, ReadAs, CloseControllerPanics, NodesClosed, CloseCore,
            CloseCoreFails, NilCorePanics, NewCore, NewCoreFails, NewCorePanics, StartCore,
            StartCoreFails, MakeList, StartController, StartControllerFails,
            StartControllerPanics, Started
  <2> QED
      BY <2>1, <2>2
<1>4. ASSUME NEW r \in Runs, NEW n \in Nodes,
             \/ CloseController(r, n) \/ Executes(r, n) \/ Executed(r, n)
             \/ Returns(r, n) \/ TickPanics(r, n)
      PROVE  troubles' \in Nat
      BY <1>4 DEF CloseController, Executes, Executed, Returns, Ticks, TickPanics
<1>5. CASE UNCHANGED vars
      BY <1>5 DEF vars
<1> QED
    BY <1>1, <1>2, <1>3, <1>4, <1>5 DEF Next

(* Where the runs are in order, nothing dies but over a new core. *)
LEMMA OrderlyLives ==
  ASSUME ReloadInv, Orderly, troubles \in Nat, Next, up, pc[Boot] = "done", ~up'
  PROVE  troubles' < troubles /\ \E r \in Runs : pc[r] = "newCore"
<1> USE Numbers, ReloadAssumption DEF Orderly, CoreIsThere
<1>1. ASSUME NEW r \in Runs, Progress(r)
      PROVE  NewCorePanics(r)
  <2>1. r # Boot
        BY <1>1
        DEF Progress, Read, ReadAs, CloseControllerPanics, NodesClosed, CloseCore,
            CloseCoreFails, NilCorePanics, NewCore, NewCoreFails, NewCorePanics, StartCore,
            StartCoreFails, MakeList, StartController, StartControllerFails,
            StartControllerPanics, Started
  <2>2. ~(\E n \in Nodes : CloseControllerPanics(r, n))
    <3> SUFFICES ASSUME NEW n \in Nodes, CloseControllerPanics(r, n) PROVE FALSE
        OBVIOUS
    <3> USE DEF CloseControllerPanics, IsNext
    <3>1. pc[r] = "close" /\ n \in rest[r]
          OBVIOUS
    <3>2. list # Nil /\ mine[r] = list /\ slot[list][n] = "started"
          BY <3>1 DEF ListInStage
    <3> QED
        BY <3>2
  <2>3. ~NilCorePanics(r)
        BY DEF NilCorePanics
  <2>4. ~StartControllerPanics(r)
        BY DEF StartControllerPanics, ListInStage
  <2> QED
      BY <1>1, <2>1, <2>2, <2>3, <2>4
      DEF Progress, Read, ReadAs, NodesClosed, CloseCore, CloseCoreFails, NewCore,
          NewCoreFails, StartCore, StartCoreFails, MakeList, StartController,
          StartControllerFails, Started, Gives
<1>2. ASSUME NEW r \in Runs, NEW n \in Nodes,
             \/ CloseController(r, n) \/ Executes(r, n) \/ Executed(r, n)
             \/ Returns(r, n) \/ TickPanics(r, n)
      PROVE  FALSE
      BY <1>2
      DEF CloseController, Executes, Executed, Returns, Ticks, TickPanics, ListIsAll
<1>3. ~Start /\ ~WindowEnds /\ ~WatchFails
      BY DEF Start, WindowEnds, WatchFails
<1>4. ~\E content \in {Bad} \cup Files, replaced \in BOOLEAN : Edit(content, replaced)
      BY DEF Edit
<1>5. PICK r \in Runs : NewCorePanics(r)
      BY <1>1, <1>2, <1>3, <1>4 DEF Next
<1> QED
    BY <1>5 DEF NewCorePanics, Trouble

(* Once it serves, the process dies only after a run has left a nil core   *)
(* or controller behind, with two runs at work at once, or over a new core *)
(* that panics (cmd/server.go, node/node.go), for any number of nodes,     *)
(* edits and failures: reloads that come one by one never panic otherwise. *)
THEOREM OrderlyReloadsNeverKill == Spec => OnlyTroubleKills
<1> DEFINE Inv == ReloadInv /\ OrderInv /\ troubles \in Nat
<1>1. Init => Inv
  <2> SUFFICES ASSUME Init PROVE Inv
      OBVIOUS
  <2>1. OrderInv
        BY Numbers
        DEF Init, OrderInv, RunsAhead, DeadIsEmpty, Everywhere
  <2>2. troubles \in Nat
        BY ReloadAssumption DEF Init
  <2> QED
      BY <2>1, <2>2, InitInv
<1>2. Inv /\ [Next]_vars => Inv'
      BY NextInv, NextOrder, TroublesStep
<1>3. Inv /\ [Next]_vars =>
        [pc[Boot] = "done" /\ ~up' =>
           \/ tainted \/ overlapped
           \/ troubles' < troubles /\ \E r \in Runs : pc[r] = "newCore"]_vars
  <2> SUFFICES ASSUME Inv, Next, pc[Boot] = "done", ~up', ~tainted, ~overlapped
               PROVE  troubles' < troubles /\ \E r \in Runs : pc[r] = "newCore"
      OBVIOUS
  <2>1. up
        BY Numbers DEF ReloadInv, TypeOK, Everywhere
  <2> QED
      BY <2>1, OrderlyLives DEF OrderInv
<1> QED
    BY <1>1, <1>2, <1>3, PTL DEF Spec, OnlyTroubleKills
=============================================================================
