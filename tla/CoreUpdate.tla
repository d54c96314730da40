----------------------------- MODULE CoreUpdate -----------------------------
(***************************************************************************)
(* The update and the rollback of the core (src/src/manager/core-jobs.sh,  *)
(* core-install.sh and core-release.sh): a menu submits a systemd job, the *)
(* job's worker takes the configuration lock, stages a verified program,   *)
(* backs the installed one up, stops the service, swaps the directories by *)
(* two renames and starts the service again.  An EXIT trap undoes the swap *)
(* from two shell flags, `armed` and `swapped`.                            *)
(*                                                                         *)
(* A worker consists of two shells: that of m_core_job_worker, which       *)
(* writes result.json from its EXIT trap, and its child, which runs the    *)
(* script below with traps of its own.  systemd signals both.              *)
(***************************************************************************)
EXTENDS Naturals, Sequences

CONSTANTS
  Versions,     \* programs that can be released and installed
  Configs,      \* what config.json may hold, up to its hash
  None,         \* no program, and a service that does not run
  Broken,       \* a program directory that was removed in part
  MaxJobs,      \* bound on jobs and installations
  MaxEdits,     \* bound on changes of the configuration by others
  MaxTroubles   \* bound on failed commands, signals and power failures

ASSUME CoreAssumption ==
  /\ {None, Broken} \cap Versions = {}
  /\ None # Broken
  /\ {MaxJobs, MaxEdits, MaxTroubles} \subseteq Nat

VARIABLES
  program, unit,     \* M_BINARY and M_UNIT
  service,           \* the program that runs, or None
  backups, pointer,  \* manager-backups/core-* and last-core-backup
  config,            \* config.json
  new, old,          \* the stage directory: new, and old (`current` in a rollback)
  kept,              \* programs in stage directories that were left behind
  menu,              \* another menu holds the lock: "out", "in"
  job,               \* job.json, result.json and what the log reports
  phase, todo,       \* the worker: where it is and the steps that are left
  armed, swapped, wasActive, unitExisted, restored,  \* its shell variables
  before,            \* history: program, unit and service when armed
  lastGood,          \* history: the backup of the last update that succeeded
  misled,            \* history: flags that a signal kept from being set
  jobs, edits, troubles  \* what may still happen

disk   == <<program, unit, backups, pointer>>
stage  == <<new, old, kept>>
flags  == <<armed, swapped, wasActive, unitExisted, restored>>
ghosts == <<before, lastGood, misled>>
budget == <<jobs, edits, troubles>>
vars == <<disk, service, config, stage, menu, job, phase, todo, flags, ghosts,
          budget>>

NoJob == [action |-> "none", target |-> None, saw |-> <<None, None>>,
          result |-> "none", outcome |-> "none", edited |-> FALSE]

Init ==
  /\ program \in Versions
  /\ unit = TRUE
  /\ service \in {program, None}
  /\ backups = << >>
  /\ pointer = 0
  /\ config \in Configs
  /\ new = None
  /\ old = None
  /\ kept = {}
  /\ menu = "out"
  /\ job = NoJob
  /\ phase = "idle"
  /\ todo = << >>
  /\ armed = FALSE
  /\ swapped = FALSE
  /\ wasActive = FALSE
  /\ unitExisted = FALSE
  /\ restored = TRUE
  /\ before = [program |-> program, unit |-> TRUE, up |-> FALSE]
  /\ lastGood = 0
  /\ misled = {}
  /\ jobs = MaxJobs
  /\ edits = MaxEdits
  /\ troubles = MaxTroubles

-----------------------------------------------------------------------------
(* The two scripts, a word for each command that can fail or be cut short. *)

Rollback ==
  <<"select", "arm", "stop", "moveOld", "flag", "moveNew", "start", "disarm">>

Swap == <<"prepare", "backup", "arm", "stop", "moveOld", "moveNew">>

(* Mutation: the flag follows the files instead of the rename. *)
ScriptFlagsLate(action) ==
  IF action = "rollback" THEN Rollback
    ELSE Swap \o <<"files", "flag", "start", "point", "disarm">>

(* Mutation: last-core-backup is replaced before the health check. *)
ScriptPointsEarly(action) ==
  IF action = "rollback" THEN Rollback
    ELSE Swap \o <<"flag", "files", "point", "start", "disarm">>

Script(action) ==
  IF action = "rollback" THEN Rollback
    ELSE Swap \o <<"flag", "files", "start", "point", "disarm">>

(* Mutation: the cleanup leaves the service alone. *)
CleanupStaysDown(action) ==
  IF action = "rollback" THEN <<"stop", "remove", "back">>
                         ELSE <<"stop", "remove", "back", "files">>

Cleanup(action) ==
  IF action = "rollback" THEN <<"stop", "remove", "back", "start">>
                         ELSE <<"stop", "remove", "back", "files", "start">>

At(step) == todo # << >> /\ Head(todo) = step
Does(step) == phase = "run" /\ At(step) /\ todo' = Tail(todo) /\ UNCHANGED phase
Undoes(step) == phase = "clean" /\ At(step) /\ todo' = Tail(todo) /\ UNCHANGED phase

Trouble == troubles > 0 /\ troubles' = troubles - 1 /\ UNCHANGED <<jobs, edits>>

(* The EXIT trap of the script. *)
Trapped == phase' = "clean" /\ todo' = IF armed THEN Cleanup(job.action) ELSE << >>

-----------------------------------------------------------------------------
(* m_core_job_submit and m_install_flow, and what else uses the lock *)

Alive == phase # "idle"
Installed == program \in Versions

Begins(action, target, at) ==
  /\ menu = "out"
  /\ ~Alive
  /\ jobs > 0
  /\ jobs' = jobs - 1
  /\ job' = [NoJob EXCEPT !.action = action, !.target = target,
                          !.saw = <<program, config>>]
  /\ phase' = at
  /\ todo' = Script(action)
  /\ armed' = FALSE
  /\ swapped' = FALSE
  /\ restored' = TRUE
  /\ misled' = misled \ {"program"}
  /\ UNCHANGED <<disk, service, config, stage, menu, wasActive, unitExisted,
                 before, lastGood, edits, troubles>>

SubmitUpdate(v) == Installed /\ Begins("update", v, "wait")
SubmitRollback == Installed /\ Begins("rollback", None, "wait")
Install(v) == ~Installed /\ Begins("install", v, "run")

(* A menu takes the lock, looks for running jobs, and changes the          *)
(* configuration if there are none.                                        *)
MenuEnters ==
  /\ menu = "out"
  /\ phase \in {"idle", "wait"}
  /\ edits > 0
  /\ menu' = "in"
  /\ UNCHANGED <<disk, service, config, stage, job, phase, todo, flags, ghosts, budget>>

MenuLeaves ==
  /\ menu = "in"
  /\ menu' = "out"
  /\ UNCHANGED <<disk, service, config, stage, job, phase, todo, flags, ghosts, budget>>

Edit(c) ==
  /\ edits > 0
  /\ edits' = edits - 1
  /\ config' = c
  /\ UNCHANGED <<disk, service, stage, phase, todo, flags, ghosts, jobs, troubles>>

(* Mutation: the lock is enough to let a menu in. *)
MenuEditsAnyway(c) ==
  /\ menu = "in"
  /\ menu' = "out"
  /\ Edit(c)
  /\ UNCHANGED job

MenuEdits(c) ==
  /\ menu = "in"
  /\ ~Alive
  /\ menu' = "out"
  /\ Edit(c)
  /\ UNCHANGED job

(* An administrator's editor knows no lock. *)
HandEdits(c) ==
  /\ Alive
  /\ c # config
  /\ job' = [job EXCEPT !.edited = TRUE]
  /\ Edit(c)
  /\ UNCHANGED menu

-----------------------------------------------------------------------------
(* m_core_job_worker up to the script *)

(* m_core_job_finish, once the script has exited by itself. *)
Settled(result, outcome) ==
  [job EXCEPT !.outcome = outcome,
              !.result = IF job.action = "install" \/ job.result # "none"
                           THEN @ ELSE result]

Verify ==
  /\ phase = "wait"
  /\ menu = "out"
  /\ IF job.saw = <<program, config>>
       THEN phase' = "run" /\ UNCHANGED <<job, todo>>
       ELSE phase' = "idle" /\ job' = Settled("failed", "refused") /\ todo' = << >>
  /\ UNCHANGED <<disk, service, config, stage, menu, flags, ghosts, budget>>

(* systemd-run fails, or flock -w 30 runs out. *)
NeverStarts ==
  /\ phase = "wait"
  /\ Trouble
  /\ phase' = "idle"
  /\ job' = Settled("failed", "refused")
  /\ todo' = << >>
  /\ UNCHANGED <<disk, service, config, stage, menu, flags, ghosts>>

-----------------------------------------------------------------------------
(* The scripts up to `armed=true` *)

Stages(v) ==
  /\ new' = v
  /\ UNCHANGED <<disk, service, config, old, kept, menu, job, flags, ghosts, budget>>

(* The program in last-core-backup, if there is a backup with one. *)
BackedUp == IF pointer = 0 THEN None ELSE backups[pointer].program

(* The candidate is what is installed already. *)
Unchanged ==
  /\ phase = "run"
  /\ \/ At("prepare") /\ job.target = program /\ unit
     \/ At("select") /\ BackedUp = program
  /\ phase' = "idle"
  /\ job' = Settled("succeeded", "unchanged")
  /\ todo' = << >>
  /\ UNCHANGED <<disk, service, config, stage, menu, flags, ghosts, budget>>

(* m_prepare_core and m_core_preflight *)
Prepare ==
  /\ Does("prepare")
  /\ job.target # program \/ ~unit
  /\ Stages(job.target)

(* m_core_rollback's checks of the backup *)
Select ==
  /\ Does("select")
  /\ BackedUp \in Versions \ {program}
  /\ Stages(BackedUp)

NothingToSelect ==
  /\ phase = "run"
  /\ At("select")
  /\ BackedUp \notin Versions
  /\ Trapped
  /\ UNCHANGED <<disk, service, config, stage, menu, job, flags, ghosts, budget>>

Backup ==
  /\ Does("backup")
  /\ backups' = Append(backups, [program |-> program, unit |-> unit])
  /\ unitExisted' = unit
  /\ UNCHANGED <<program, unit, pointer, service, config, stage, menu, job,
                 armed, swapped, wasActive, restored, ghosts, budget>>

Arm ==
  /\ Does("arm")
  /\ wasActive' = (service # None)
  /\ armed' = TRUE
  /\ before' = [program |-> program, unit |-> unit, up |-> service # None]
  /\ UNCHANGED <<disk, service, config, stage, menu, job, swapped, unitExisted,
                 restored, lastGood, misled, budget>>

-----------------------------------------------------------------------------
(* ... and up to `armed=false` *)

Stop ==
  /\ Does("stop") \/ Undoes("stop")
  /\ service' = None
  /\ UNCHANGED <<disk, config, stage, menu, job, flags, ghosts, budget>>

MoveOld ==
  /\ Does("moveOld")
  /\ old' = program
  /\ program' = None
  /\ UNCHANGED <<unit, backups, pointer, service, config, new, kept, menu, job,
                 flags, ghosts, budget>>

MoveNew ==
  /\ Does("moveNew")
  /\ program' = new
  /\ new' = None
  /\ UNCHANGED <<unit, backups, pointer, service, config, old, kept, menu, job,
                 flags, ghosts, budget>>

Flag ==
  /\ Does("flag")
  /\ swapped' = TRUE
  /\ UNCHANGED <<disk, service, config, stage, menu, job, armed, wasActive,
                 unitExisted, restored, ghosts, budget>>

(* The Geo files keep their content; a missing unit is written. *)
InstallFiles ==
  /\ Does("files")
  /\ unit' = TRUE
  /\ UNCHANGED <<program, backups, pointer, service, config, stage, menu, job,
                 flags, ghosts, budget>>

CanStart == unit /\ Installed

Start ==
  /\ Does("start") \/ (Undoes("start") /\ (job.action = "rollback" \/ restored))
  /\ wasActive => CanStart
  /\ service' = IF wasActive THEN program ELSE service
  /\ UNCHANGED <<disk, config, stage, menu, job, flags, ghosts, budget>>

Point ==
  /\ Does("point")
  /\ pointer' = Len(backups)
  /\ UNCHANGED <<program, unit, backups, service, config, stage, menu, job,
                 flags, ghosts, budget>>

Disarm ==
  /\ Does("disarm")
  /\ armed' = FALSE
  /\ IF job.action = "rollback" THEN UNCHANGED <<lastGood, misled>>
       ELSE lastGood' = Len(backups) /\ misled' = misled \ {"pointer"}
  /\ UNCHANGED <<disk, service, config, stage, menu, job, swapped, wasActive,
                 unitExisted, restored, before, budget>>

(* A command fails, and `|| exit 1` ends the script.  A start that fails   *)
(* its health check may have left the program running.                     *)
StepFails ==
  /\ phase = "run"
  /\ todo # << >>
  /\ Head(todo) \notin {"flag", "disarm"}
  /\ IF At("start") /\ wasActive /\ ~CanStart THEN UNCHANGED budget ELSE Trouble
  /\ At("start") => wasActive
  /\ service' \in IF At("stop") THEN {service, None}
                  ELSE IF At("start") /\ CanStart THEN {program, None} ELSE {service}
  /\ Trapped
  /\ UNCHANGED <<disk, config, stage, menu, job, flags, ghosts>>

-----------------------------------------------------------------------------
(* m_core_cleanup and m_core_rollback_cleanup *)

(* rm -rf "$M_BINARY", if the flag says so. *)
Remove ==
  /\ Undoes("remove")
  /\ program' = IF swapped THEN None ELSE program
  /\ UNCHANGED <<unit, backups, pointer, service, config, stage, menu, job,
                 flags, ghosts, budget>>

(* What asks for the rename back: the directory, or the flag. *)
MovesBack == IF job.action = "rollback" THEN swapped ELSE old # None

(* mv into a directory that exists puts the old program inside it. *)
Back ==
  /\ Undoes("back")
  /\ IF ~MovesBack THEN UNCHANGED <<program, old, kept>>
     ELSE /\ program' = IF program = None THEN old ELSE program
          /\ kept' = IF program = None THEN kept ELSE kept \cup {old}
          /\ old' = None
  /\ UNCHANGED <<unit, backups, pointer, service, config, new, menu, job, flags,
                 ghosts, budget>>

RestoreFiles ==
  /\ Undoes("files")
  /\ unit' = unitExisted
  /\ UNCHANGED <<program, backups, pointer, service, config, stage, menu, job,
                 flags, ghosts, budget>>

(* m_core_cleanup starts nothing after a failure. *)
StaysDown ==
  /\ Undoes("start")
  /\ job.action # "rollback" /\ ~restored
  /\ UNCHANGED <<disk, service, config, stage, menu, job, flags, ghosts, budget>>

UndoFails ==
  /\ phase = "clean"
  /\ todo # << >>
  /\ todo' = Tail(todo)
  /\ IF At("start") /\ wasActive /\ ~CanStart THEN UNCHANGED budget ELSE Trouble
  /\ At("remove") => swapped
  /\ At("back") => MovesBack
  /\ At("start") => wasActive /\ (job.action = "rollback" \/ restored)
  /\ restored' = FALSE
  /\ program' \in IF At("remove") /\ program # None THEN {program, Broken} ELSE {program}
  /\ service' \in IF At("stop") THEN {service, None}
                  ELSE IF At("start") /\ CanStart THEN {program, None} ELSE {service}
  /\ UNCHANGED <<unit, backups, pointer, config, stage, menu, job, phase, armed,
                 swapped, wasActive, unitExisted, ghosts>>

-----------------------------------------------------------------------------
(* The ends of a job *)

Ends == phase' = "idle" /\ todo' = << >> /\ new' = None /\ old' = None
        /\ armed' = FALSE

Left == {new, old} \ {None}    \* the programs in the stage directory

ExitKeeping(programs) ==
  /\ phase \in {"run", "clean"}
  /\ todo = << >>
  /\ Ends
  /\ job' = IF phase = "run" THEN Settled("succeeded", "installed")
            ELSE Settled("failed", IF ~armed THEN "refused"
                                   ELSE IF restored THEN "restored" ELSE "unfinished")
  /\ kept' = kept \cup programs
  /\ UNCHANGED <<disk, service, config, menu, swapped, wasActive, unitExisted,
                 restored, ghosts, budget>>

(* Mutation: the stage is removed whatever became of the restoration. *)
ExitRemovesStage == ExitKeeping({})

Exit == ExitKeeping(IF armed /\ ~restored THEN Left ELSE {})

(* Changes on disk that the shell has not noted yet. *)
Gap ==
  (IF At("flag") THEN {"program"} ELSE {})
    \cup (IF At("disarm") /\ job.action # "rollback" THEN {"pointer"} ELSE {})

(* systemctl stop, or RuntimeMaxSec.  The worker's shell has no trap for   *)
(* TERM but its EXIT trap, in which $? is that of the last command it has  *)
(* completed, 0; the script's shell traps TERM and cleans up.              *)
Term ==
  /\ phase \in {"wait", "run"}
  /\ Trouble
  /\ IF phase = "wait"
       THEN phase' = "idle" /\ job' = Settled("succeeded", "refused") /\ todo' = << >>
       ELSE Trapped /\ job' = Settled("succeeded", "none")
  /\ misled' = IF phase = "run" THEN misled \cup Gap ELSE misled
  /\ UNCHANGED <<disk, service, config, stage, menu, flags, before, lastGood>>

(* SIGKILL after TimeoutStopSec; a power failure starts the unit again. *)
Kill ==
  /\ phase \in {"run", "clean"}
  /\ Trouble
  /\ Ends
  /\ job' = [job EXCEPT !.outcome = IF armed THEN "killed" ELSE "refused"]
  /\ kept' = kept \cup Left
  /\ program' \in IF phase = "clean" /\ At("remove") /\ swapped
                    THEN {program, Broken} ELSE {program}
  /\ service' \in {service, IF CanStart THEN program ELSE None}
  /\ misled' = misled \cup (Gap \cap {"pointer"})
  /\ UNCHANGED <<unit, backups, pointer, config, menu, swapped, wasActive,
                 unitExisted, restored, before, lastGood>>

-----------------------------------------------------------------------------
Others ==
  \/ \E v \in Versions : SubmitUpdate(v) \/ Install(v)
  \/ SubmitRollback
  \/ MenuEnters
  \/ MenuLeaves
  \/ \E c \in Configs : MenuEdits(c) \/ HandEdits(c)

Worker ==
  \/ Verify \/ NeverStarts
  \/ Unchanged \/ Prepare \/ Select \/ NothingToSelect \/ Backup \/ Arm
  \/ Stop \/ MoveOld \/ MoveNew \/ Flag \/ InstallFiles \/ Start \/ Point \/ Disarm
  \/ StepFails
  \/ Remove \/ Back \/ RestoreFiles \/ StaysDown \/ UndoFails
  \/ Exit

Next == Others \/ Worker \/ Term \/ Kill

Spec == Init /\ [][Next]_vars

(* Every command returns, and menus give the lock back. *)
FairSpec == Spec /\ WF_vars(Worker) /\ WF_vars(MenuLeaves)

-----------------------------------------------------------------------------
(* Type correctness, with what the flags and the stage directory mean: the *)
(* stage exists, and the script is armed, during a job only.               *)
Programs == Versions \cup {None, Broken}

TypeOK ==
  /\ {program, old, new, service} \subseteq Programs
  /\ service # Broken
  /\ {unit, armed, swapped, wasActive, unitExisted, restored} \subseteq BOOLEAN
  /\ \A i \in DOMAIN backups : backups[i] \in [program : Programs, unit : BOOLEAN]
  /\ {pointer, lastGood} \subseteq 0..Len(backups)
  /\ config \in Configs
  /\ kept \subseteq Programs
  /\ menu \in {"out", "in"}
  /\ job.action \in {"none", "update", "rollback", "install"}
  /\ phase \in {"idle", "wait", "run", "clean"}
  /\ menu = "in" => phase \in {"idle", "wait"}
  /\ phase \in {"idle", "wait"} => ~armed /\ new = None /\ old = None
  /\ misled \subseteq {"program", "pointer"}

(* Whatever fails or is cut short, power included, the program that a job  *)
(* found is on disk until the job has succeeded: in its place, in a stage  *)
(* directory that was kept, or in a backup.  A rollback makes no backup of *)
(* what it replaces.  Excused: a signal between a rename and its flag.     *)
OldKernelSurvives ==
  "program" \notin misled /\ (armed \/ job.outcome \in {"restored", "unfinished", "killed"})
    => before.program \in {program, old} \cup kept
                            \cup {backups[i].program : i \in DOMAIN backups}

(* When the script is about to report that it has restored, or installed,  *)
(* then program, unit and service are what they were, or what was asked    *)
(* for; the service runs exactly if it ran.  Excused as above.             *)
ReportIsTrue ==
  Alive /\ todo = << >> /\ "program" \notin misled =>
    /\ phase = "clean" /\ armed /\ restored =>
         /\ program = before.program
         /\ unit = before.unit
         /\ service = IF before.up THEN program ELSE None
    /\ phase = "run" =>
         /\ job.action # "rollback" => program = job.target
         /\ unit
         /\ service = IF before.up THEN program ELSE None

(* last-core-backup names the backup of the last update that succeeded, so *)
(* that a failed update does not take the way back.  Excused: a signal     *)
(* between the replacement of the file and armed=false.                    *)
RollbackGoesBack ==
  ~Alive /\ "pointer" \notin misled => pointer = lastGood

(* No menu changes what a waiting job has recorded: only an edit by hand,  *)
(* which asks for no lock, makes the worker refuse.                        *)
QueuedJobIsNotOvertaken ==
  phase = "wait" /\ ~job.edited => job.saw = <<program, config>>

(* A service that a job has stopped runs again, unless the worker is       *)
(* killed or reports that the restoration is unfinished.                   *)
ServiceComesBack ==
  (armed /\ wasActive /\ service = None)
    ~> (service # None \/ job.outcome \in {"unfinished", "killed"})

(* A job that is recorded as succeeded has installed its program. *)
ResultIsTrue ==
  ~Alive /\ job.result = "succeeded" => job.outcome \in {"installed", "unchanged"}

(* OldKernelSurvives without its excuse. *)
KernelIsNeverLost ==
  armed \/ job.outcome \in {"restored", "unfinished", "killed"}
    => before.program \in {program, old} \cup kept
                            \cup {backups[i].program : i \in DOMAIN backups}
=============================================================================
