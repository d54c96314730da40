-------------------------- MODULE ConfigTransaction --------------------------
(***************************************************************************)
(* The two transactions on the configuration files: m_edit (src/src/       *)
(* manager/nodes.sh), which changes, adds or deletes nodes, and m_generate *)
(* (config.sh), which writes everything anew.  Both hold the manager's     *)
(* lock, ask the user, back the originals up, stop the service, install    *)
(* file after file, start the service and check its health; an EXIT trap   *)
(* undoes what was done once `armed` is set.  Editors and other tools do   *)
(* not ask for the lock and may write at any moment.                       *)
(***************************************************************************)
EXTENDS Naturals, Sequences, Functions

CONSTANTS
  Main,         \* config.json
  Others,       \* the route, outbound and core files it refers to
  Contents,     \* what a file may hold
  Empty,        \* a config.json without nodes
  Absent,       \* no such file
  Broken,       \* a file that was written in part
  MaxOps,       \* bound on transactions
  MaxEdits,     \* bound on changes by editors and other tools
  MaxTroubles   \* bound on failed commands, signals and power failures

ASSUME ConfigAssumption ==
  /\ Main \notin Others
  /\ {Absent, Broken, Empty} \cap Contents = {}
  /\ Absent # Broken /\ Absent # Empty /\ Broken # Empty
  /\ {MaxOps, MaxEdits, MaxTroubles} \subseteq Nat

Files == {Main} \cup Others
Whole == Contents \cup {Empty}

VARIABLES
  file,         \* what is on disk
  service,      \* systemd's view: "up", "retrying" (auto-restart), "down"
  op,           \* "edit" or "generate"
  phase,        \* "idle", "collect", "run", "clean"
  tracked,      \* N_PATHS, M_FILES: the files of the transaction, in order
  before, after,  \* the copies of them in the stage directory or the backup
  todo, left,   \* the steps ahead, and the files the first of them has not done
  armed, wasActive, ok,  \* shell variables
  backup,       \* N_BACKUP: the files in the transaction's directory
  outcome,      \* how the last transaction ended, as it was reported
  was,          \* history: the service when armed
  late          \* history: files that others wrote after the last comparison
VARIABLES ops, edits, troubles

copies == <<tracked, before, after>>
script == <<op, phase, todo, left>>
flags  == <<armed, wasActive, ok>>
ghosts == <<was, late>>
budget == <<ops, edits, troubles>>
vars == <<file, service, copies, script, flags, backup, outcome, ghosts, budget>>

NoFiles == [f \in Files |-> Absent]

Init ==
  /\ file \in {[NoFiles EXCEPT ![Main] = c] : c \in Contents}
                \cup {[f \in Files |-> c] : c \in Contents}
  /\ service \in {"up", "retrying", "down"}
  /\ op = "edit"
  /\ phase = "idle"
  /\ tracked = << >>
  /\ before = NoFiles
  /\ after = NoFiles
  /\ todo = << >>
  /\ left = << >>
  /\ armed = FALSE
  /\ wasActive = FALSE
  /\ ok = TRUE
  /\ backup = NoFiles
  /\ outcome = "none"
  /\ was = "down"
  /\ late = {}
  /\ ops = MaxOps
  /\ edits = MaxEdits
  /\ troubles = MaxTroubles

-----------------------------------------------------------------------------
(* The commands of m_nodes_save and m_generate, and those of the EXIT trap *)

Apply == <<"backup", "arm", "stop", "install", "start", "disarm">>

(* Mutation: nothing is compared again after the prompt. *)
ScriptTrustsThePrompt(o) ==
  IF o = "edit" THEN <<"check", "confirm">> \o Apply ELSE <<"confirm">> \o Apply

Script(o) ==
  IF o = "edit" THEN <<"check", "confirm", "recheck">> \o Apply
                ELSE <<"confirm">> \o Apply

(* Mutation: the cleanup leaves the service to the administrator. *)
UndoStaysDown == <<"unstop", "restore">>

Undo == <<"unstop", "restore", "restart">>

At(step) == todo # << >> /\ Head(todo) = step
Proceeds == todo' = Tail(todo) /\ left' = tracked /\ UNCHANGED <<op, phase>>
Does(step) == At(step) /\ Proceeds

(* The body of a loop over the files. *)
DoesFile(step, f) ==
  /\ At(step)
  /\ f = Head(left)
  /\ IF Len(left) = 1 THEN Proceeds
     ELSE left' = Tail(left) /\ UNCHANGED <<op, phase, todo>>

Trouble == troubles > 0 /\ troubles' = troubles - 1 /\ UNCHANGED <<ops, edits>>

(* The EXIT trap. *)
Trapped ==
  /\ phase' = "clean"
  /\ todo' = IF armed THEN Undo ELSE << >>
  /\ left' = tracked
  /\ UNCHANGED op

Ends(result) ==
  /\ phase' = "idle"
  /\ todo' = << >>
  /\ left' = << >>
  /\ armed' = FALSE
  /\ outcome' = result
  /\ UNCHANGED <<op, wasActive, ok>>

-----------------------------------------------------------------------------
(* The dialogue *)

Begin(o) ==
  /\ phase = "idle"
  /\ ops > 0
  /\ file[Main] \in Whole
  /\ ops' = ops - 1
  /\ op' = o
  /\ phase' = "collect"
  /\ tracked' = << >>
  /\ ok' = TRUE
  /\ wasActive' = FALSE
  /\ outcome' = "none"
  /\ late' = {}
  /\ backup' = NoFiles
  /\ UNCHANGED <<file, service, before, after, todo, left, armed, was, edits,
                 troubles>>

(* m_node_track, and the new content that the dialogue builds: config.json *)
(* first, then files to add or to clean of a deleted node's rules.         *)
Track(f, content) ==
  /\ phase = "collect"
  /\ f \notin Range(tracked)
  /\ tracked = << >> <=> f = Main
  /\ f # Main => content \in Contents
  /\ op = "generate" => content \in Contents
  /\ file[f] \in Whole \cup {Absent}
  /\ tracked' = Append(tracked, f)
  /\ before' = [before EXCEPT ![f] = file[f]]
  /\ after' = [after EXCEPT ![f] = content]
  /\ UNCHANGED <<file, service, script, flags, backup, outcome, ghosts, budget>>

Collected ==
  /\ phase = "collect"
  /\ IF op = "generate" THEN Range(tracked) = Files ELSE tracked # << >>
  /\ phase' = "run"
  /\ todo' = Script(op)
  /\ left' = tracked
  /\ UNCHANGED <<file, service, copies, op, flags, backup, outcome, ghosts, budget>>

Changes == op = "generate" \/ \E f \in Range(tracked) : before[f] # after[f]

Confirm ==
  /\ Changes
  /\ Does("confirm")
  /\ UNCHANGED <<file, service, copies, flags, backup, outcome, ghosts, budget>>

(* The user declines, closes the terminal, or has changed nothing. *)
Cancel ==
  /\ phase = "collect" \/ At("confirm")
  /\ Ends("refused")
  /\ UNCHANGED <<file, service, copies, backup, ghosts, budget>>

-----------------------------------------------------------------------------
(* m_nodes_save and m_generate *)

Check(f) ==
  /\ DoesFile("check", f) \/ DoesFile("recheck", f)
  /\ file[f] = before[f]
  /\ UNCHANGED <<file, service, copies, flags, backup, outcome, ghosts, budget>>

CheckFails ==
  /\ At("check") \/ At("recheck")
  /\ file[Head(left)] # before[Head(left)]
  /\ Ends("refused")
  /\ UNCHANGED <<file, service, copies, backup, ghosts, budget>>

(* Mutation: the backup holds what is to be installed. *)
BackupOfStaged(f) ==
  /\ DoesFile("backup", f)
  /\ before' = [before EXCEPT ![f] = IF op = "edit" THEN @ ELSE file[f]]
  /\ backup' = [backup EXCEPT ![f] = after[f]]
  /\ UNCHANGED <<file, service, tracked, after, flags, outcome, ghosts, budget>>

(* m_edit backs up the copy it has compared, m_generate the file itself. *)
Backup(f) ==
  /\ DoesFile("backup", f)
  /\ before' = [before EXCEPT ![f] = IF op = "edit" THEN @ ELSE file[f]]
  /\ backup' = [backup EXCEPT ![f] = before'[f]]
  /\ UNCHANGED <<file, service, tracked, after, flags, outcome, ghosts, budget>>

(* systemctl is-active is false for a unit that waits for its restart. *)
Arm ==
  /\ Does("arm")
  /\ wasActive' = (service = "up")
  /\ armed' = TRUE
  /\ was' = service
  /\ UNCHANGED <<file, service, copies, ok, backup, outcome, late, budget>>

Stop ==
  /\ Does("stop") \/ Does("unstop")
  /\ service' = "down"
  /\ UNCHANGED <<file, copies, flags, backup, outcome, ghosts, budget>>

Install(f) ==
  /\ DoesFile("install", f)
  /\ file' = [file EXCEPT ![f] = after[f]]
  /\ UNCHANGED <<service, copies, flags, backup, outcome, ghosts, budget>>

(* systemctl start and m_health, unless no node is left. *)
Start ==
  /\ Does("start")
  /\ service' = IF after[Main] = Empty THEN service ELSE "up"
  /\ UNCHANGED <<file, copies, flags, backup, outcome, ghosts, budget>>

Disarm ==
  /\ Does("disarm")
  /\ armed' = FALSE
  /\ UNCHANGED <<file, service, copies, wasActive, ok, backup, outcome, ghosts, budget>>

(* What is on disk when the writing of Head(left) is cut short. *)
Torn(step) ==
  IF At(step) THEN {file, [file EXCEPT ![Head(left)] = Broken]} ELSE {file}

(* A command fails, or INT, TERM or HUP is trapped after it. *)
StepFails ==
  /\ phase = "run"
  /\ todo # << >>
  /\ Trouble
  /\ file' \in Torn("install")
  /\ service' \in {service} \cup (IF At("stop") THEN {"down"} ELSE {})
                    \cup (IF At("start") /\ after[Main] # Empty THEN {"up"} ELSE {})
  /\ Trapped
  /\ UNCHANGED <<copies, flags, backup, outcome, ghosts>>

-----------------------------------------------------------------------------
(* m_nodes_rollback and m_restore_files *)

Restore(f) ==
  /\ DoesFile("restore", f)
  /\ file' = [file EXCEPT ![f] = before[f]]
  /\ UNCHANGED <<service, copies, flags, backup, outcome, ghosts, budget>>

(* Mutation: the service is started over what could not be restored. *)
RestartAnyway ==
  /\ Does("restart")
  /\ service' = IF wasActive THEN "up" ELSE service
  /\ UNCHANGED <<file, copies, flags, backup, outcome, ghosts, budget>>

Restart ==
  /\ Does("restart")
  /\ service' = IF wasActive /\ ok THEN "up" ELSE service
  /\ UNCHANGED <<file, copies, flags, backup, outcome, ghosts, budget>>

(* Mutation: a file that cannot be put back goes unnoticed. *)
UndoFailsSilently ==
  /\ phase = "clean"
  /\ todo # << >>
  /\ At("restart") => wasActive /\ ok
  /\ Trouble
  /\ file' \in Torn("restore")
  /\ IF At("unstop") THEN todo' = << >> /\ UNCHANGED <<op, phase, left>>
     ELSE IF At("restore") THEN DoesFile("restore", Head(left)) ELSE Does("restart")
  /\ ok' = ~At("unstop")
  /\ service' \in {service} \cup (IF At("unstop") THEN {"down"} ELSE {})
  /\ UNCHANGED <<copies, armed, wasActive, backup, outcome, ghosts>>

(* A stop that fails ends the restoration, a file that fails does not;     *)
(* m_generate reports the same whether its start fails or not.             *)
UndoFails ==
  /\ phase = "clean"
  /\ todo # << >>
  /\ At("restart") => wasActive /\ ok
  /\ Trouble
  /\ file' \in Torn("restore")
  /\ IF At("unstop") THEN todo' = << >> /\ UNCHANGED <<op, phase, left>>
     ELSE IF At("restore") THEN DoesFile("restore", Head(left)) ELSE Does("restart")
  /\ ok' = (op = "generate" /\ At("restart"))
  /\ service' \in {service} \cup (IF At("unstop") THEN {"down"} ELSE {})
  /\ UNCHANGED <<copies, armed, wasActive, backup, outcome, ghosts>>

Exit ==
  /\ phase \in {"run", "clean"}
  /\ todo = << >>
  /\ Ends(IF phase = "run" THEN "done"
          ELSE IF ~armed THEN "refused" ELSE IF ok THEN "restored" ELSE "unfinished")
  /\ UNCHANGED <<file, service, copies, backup, ghosts, budget>>

-----------------------------------------------------------------------------
(* The rest of the machine *)

(* SIGKILL, or a power failure, after which an enabled unit is started. *)
Kill ==
  /\ phase # "idle"
  /\ Trouble
  /\ file' \in Torn("install") \cup Torn("restore")
  /\ service' \in {service, "up"}
  /\ Ends(IF armed \/ (phase = "run" /\ todo = << >>) THEN "killed" ELSE "refused")
  /\ UNCHANGED <<copies, backup, ghosts>>

(* The prompt is answered, and the file has been compared, or copied.      *)
Passed(f) ==
  LET last == IF op = "edit" THEN "recheck" ELSE "backup"
  IN  phase = "clean" \/
        (phase = "run" /\ Range(todo) \cap {"check", "confirm"} = {}
           /\ ~(At(last) /\ f \in Range(left)))

(* An editor, or a tool that asks for no lock. *)
HandEdits(f, content) ==
  /\ edits > 0
  /\ content # file[f]
  /\ edits' = edits - 1
  /\ file' = [file EXCEPT ![f] = content]
  /\ late' = IF Passed(f) THEN late \cup {f} ELSE late
  /\ UNCHANGED <<service, copies, script, flags, backup, outcome, was, ops, troubles>>

(* m_service, under the lock. *)
ServiceCommand ==
  /\ phase = "idle"
  /\ service' \in {"up", "down"} \ {service}
  /\ UNCHANGED <<file, copies, script, flags, backup, outcome, ghosts, budget>>

(* The program exits, and systemd starts it again (Restart=always). *)
Flaps ==
  /\ service # "down"
  /\ service' = IF service = "up" THEN "retrying" ELSE "up"
  /\ UNCHANGED <<file, copies, script, flags, backup, outcome, ghosts, budget>>

-----------------------------------------------------------------------------
User ==
  \/ Begin("edit") \/ Begin("generate")
  \/ \E f \in Files, content \in Whole : Track(f, content)
  \/ Collected \/ Confirm \/ Cancel

Manager ==
  \/ \E f \in Files : Check(f) \/ Backup(f) \/ Install(f) \/ Restore(f)
  \/ CheckFails \/ Arm \/ Stop \/ Start \/ Disarm \/ StepFails
  \/ Restart \/ UndoFails \/ Exit

Machine ==
  \/ Kill \/ ServiceCommand \/ Flaps
  \/ \E f \in Files, content \in Contents : HandEdits(f, content)

Next == User \/ Manager \/ Machine

Spec == Init /\ [][Next]_vars

(* The commands of the scripts return; nobody has to answer a prompt. *)
FairSpec == Spec /\ WF_vars(Manager)

-----------------------------------------------------------------------------
(* Type correctness; the script is armed during a transaction only, and    *)
(* config.json is the first file of each.                                  *)
TypeOK ==
  /\ file \in [Files -> Whole \cup {Absent, Broken}]
  /\ {service, was} \subseteq {"up", "retrying", "down"}
  /\ op \in {"edit", "generate"}
  /\ phase \in {"idle", "collect", "run", "clean"}
  /\ Range(tracked) \subseteq Files
  /\ tracked # << >> => Head(tracked) = Main
  /\ after \in [Files -> Whole \cup {Absent}]
  /\ {armed, wasActive, ok} \subseteq BOOLEAN
  /\ armed => phase \in {"run", "clean"}
  /\ outcome \in {"none", "refused", "done", "restored", "unfinished", "killed"}
  /\ late \subseteq Files

(* Whatever fails or is cut short, power included: what a transaction      *)
(* found in a file is still in the file or in the backup.  Excused: what   *)
(* others write after the last comparison, which nobody sees.              *)
OriginalIsKept ==
  armed \/ outcome \in {"done", "restored", "unfinished", "killed"} =>
    \A f \in Range(tracked) \ late : backup[f] = before[f] \/ file[f] = before[f]

(* A change that others make while the dialogue waits for its user is not  *)
(* overwritten: the manager writes over what the user has seen, over what  *)
(* it wrote itself, or (m_generate) over what it has backed up.            *)
EditsAreNotOverwritten ==
  [][\A f \in Files : file'[f] # file[f] /\ phase \in {"run", "clean"} =>
       edits' # edits \/ f \in late \/ file[f] \in {before[f], after[f], Broken}]_vars

(* Every tracked file has the given content, but for what others wrote. *)
Holds(content) == \A f \in Range(tracked) \ late : file[f] = content[f]

(* The script or its cleanup starts the service. *)
Starts ==
  /\ At("start") \/ At("restart")
  /\ service = "down" /\ service' # "down"
  /\ phase' # "idle"

(* The manager never starts the service over a mixture of old and new      *)
(* files, not even after a restoration that failed in part.                *)
NoMixtureIsStarted ==
  [][Starts => Holds(before) \/ Holds(after)]_vars

(* A transaction that is about to report that it is done has all its files *)
(* in place and a service that runs, unless no node is left; one that      *)
(* reports a restoration has put back every file and a service that was    *)
(* active.  m_generate does not look whether that service started.         *)
ReportIsTrue ==
  /\ phase = "run" /\ todo = << >> =>
       /\ Holds(after)
       /\ (service = "down" <=> after[Main] = Empty)
  /\ phase = "clean" /\ todo = << >> /\ armed /\ ok =>
       /\ Holds(before)
       /\ op = "edit" /\ was # "retrying" => (service = "down" <=> was = "down")

(* A service that a transaction has stopped runs again, unless the manager *)
(* is killed, reports an unfinished restoration or has deleted the last    *)
(* node; m_generate's restart may fail once more without a word.           *)
ServiceComesBack ==
  armed /\ wasActive /\ service = "down" ~>
    \/ service # "down"
    \/ outcome \in {"unfinished", "killed"}
    \/ outcome = "done" /\ after[Main] = Empty
    \/ op = "generate" /\ outcome = "restored"

(* The restoration that m_edit reports includes the state of the service:  *)
(* a unit that systemd was about to start again is left to systemd again.  *)
ServiceStateIsRestored ==
  phase = "clean" /\ todo = << >> /\ armed /\ ok /\ op = "edit" =>
    (service = "down" <=> was = "down")
=============================================================================
