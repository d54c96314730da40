-------------------------- MODULE SocksTransaction --------------------------
(***************************************************************************)
(* The configuration transaction of the SOCKS helper (src/helper.sh): the  *)
(* menu builds a candidate and submits a systemd job; the job's worker     *)
(* takes the configuration lock, backs the files up under a manifest whose *)
(* `status` it rewrites as it goes, replaces the files, restarts V2bX and  *)
(* commits or rolls back.  A worker that is killed leaves its manifest for *)
(* the restore menu.                                                       *)
(*                                                                         *)
(* The lock and check_running_jobs let one menu or worker in at a time.    *)
(* Administrators edit files by hand, at any moment and under no lock.     *)
(***************************************************************************)
EXTENDS Naturals, Sequences, Functions

CONSTANTS
  Files,        \* configuration files the helper may touch
  Main,         \* CONFIG_PATH, the main configuration
  FileLists,    \* the FILES of a candidate, in the order they are written
  Contents,     \* what a file may hold, up to its hash; absence is one of them
  NewestFirst,  \* the restore menu is answered with its default, the newest
  MaxTx,        \* bound on backups
  MaxTroubles   \* bound on failed commands, signals and edits by hand

ASSUME ConstantsAssumption ==
  /\ Main \in Files
  /\ FileLists \subseteq Seq(Files) \ {<< >>}
  /\ NewestFirst \in BOOLEAN
  /\ {MaxTx, MaxTroubles} \subseteq Nat

VARIABLES
  file,       \* the files on disk
  service,    \* who started V2bX, or "nobody" when it does not run
  txs,        \* BACKUP_ROOT: the manifests, oldest first
  job,        \* JOB_DIR and its work directory
  tx, armed,  \* TX_DIR (0 when empty) and TX_ARMED of the worker
  pc, stage,  \* where the worker stands, and in which of the nested handlers
  left,       \* files of the transaction still to be written
  late,       \* history: files edited since the worker last compared them
  troubles    \* how many troubles may still happen

disk    == <<file, late>>
worker  == <<tx, armed, stage, left>>
vars == <<disk, service, txs, job, worker, pc, troubles>>

Up == service # "nobody"

NoJob == [action |-> "none"]

Closed     == {"rolled_back", "cancelled", "restored"}
Unfinished == {"prepared", "writing", "checking", "restoring",
               "recovery_required"}
Statuses   == Closed \cup Unfinished \cup {"applied"}

(* Contents are only ever compared with others of the same file, so that   *)
(* all files may as well begin with the same one.                          *)
Init ==
  /\ \E c \in Contents : file = [f \in Files |-> c]
  /\ service = "operator"
  /\ txs = << >>
  /\ job = NoJob
  /\ tx = 0
  /\ armed = FALSE
  /\ pc = "off"
  /\ stage = "main"
  /\ left = << >>
  /\ late = {}
  /\ troubles = MaxTroubles

-----------------------------------------------------------------------------
(* Manifests and the checks made on them. *)

Compared(m) == DOMAIN m.before    \* the files of a manifest or job, and Main

(* backup_list leaves the closed ones out; the others are offered. *)
Listed == {i \in 1..Len(txs) : txs[i].status \notin Closed}

(* Mutation: nobody looks for unfinished transactions. *)
PendingIgnored == TRUE

(* pending_check *)
NothingPending == \A i \in Listed : txs[i].status = "applied"

(* Mutation: only CONFIG_SHA is compared. *)
MainDrifted == file[Main] # job.before[Main]

(* check_drift: CONFIG_SHA and every .before still match. *)
Drifted == \E f \in Compared(job) : file[f] # job.before[f]

(* restore_check: an applied backup needs every file as the transaction    *)
(* left it; an interrupted one takes either version of each.               *)
RestoreCheck(i, interrupted) ==
  \A f \in Compared(txs[i]) :
    \/ file[f] = txs[i].after[f]
    \/ interrupted /\ file[f] = txs[i].before[f]

Interrupted(i) == txs[i].status # "applied"

Checked(fs) == late' = late \ fs

-----------------------------------------------------------------------------
(* The menus, which end in submit_job. *)

(* configure_menu and remove_menu up to the confirmation: build_candidate. *)
BuildCandidate(action, list, new) ==
  /\ pc = "off"
  /\ Len(txs) < MaxTx
  /\ NothingPending
  /\ action = "apply" => Up
  /\ LET fs == Range(list) \cup {Main} IN
     job' = [action |-> action,
             files |-> list,
             before |-> [f \in fs |-> file[f]],
             after |-> [f \in fs |-> IF f \in Range(list) THEN new[f] ELSE file[f]],
             sha |-> file[Main],
             tx |-> 0]
  /\ pc' = "menu"
  /\ UNCHANGED <<disk, service, txs, worker, troubles>>

(* restore_menu up to the confirmation. *)
ChooseBackup(i) ==
  /\ pc = "off"
  /\ i \in Listed
  /\ NewestFirst => \A j \in Listed : j <= i
  /\ RestoreCheck(i, Interrupted(i))
  /\ job' = [action |-> "restore", files |-> << >>, before |-> << >>,
             after |-> << >>, sha |-> file[Main], tx |-> i]
  /\ pc' = "menu"
  /\ UNCHANGED <<disk, service, txs, worker, troubles>>

(* submit_job: prepare_job records the hash the main file has by now. *)
Submit ==
  /\ pc = "menu"
  /\ job.action = "apply" => Up
  /\ job' = [job EXCEPT !.sha = file[Main]]
  /\ pc' = "verify"
  /\ UNCHANGED <<disk, service, txs, worker, troubles>>

(* The answer is no, or systemd does not start the unit. *)
Cancel ==
  /\ pc = "menu"
  /\ job' = NoJob
  /\ pc' = "off"
  /\ UNCHANGED <<disk, service, txs, worker, troubles>>

-----------------------------------------------------------------------------
(* job_worker up to its case statement. *)

Verify ==
  /\ pc = "verify"
  /\ file[Main] = job.sha
  /\ IF job.action = "restore"
       THEN /\ RestoreCheck(job.tx, Interrupted(job.tx))
            /\ tx' = job.tx
            /\ armed' = TRUE
            /\ Checked(Compared(txs[job.tx]))
            /\ pc' = "rsStop"
       ELSE /\ NothingPending
            /\ job.action = "apply" => Up
            /\ pc' = "drift"
            /\ UNCHANGED <<tx, armed, late>>
  /\ UNCHANGED <<file, service, txs, job, stage, left, troubles>>

VerifyFails ==
  /\ pc = "verify"
  /\ \/ file[Main] # job.sha
     \/ job.action = "restore" /\ ~RestoreCheck(job.tx, Interrupted(job.tx))
     \/ job.action = "apply" /\ ~Up
  /\ pc' = "end"
  /\ UNCHANGED <<disk, service, txs, job, worker, troubles>>

-----------------------------------------------------------------------------
(* Commands that may fail.  A command that writes a file replaces it       *)
(* atomically, and may report a failure (of the flush) after doing so.     *)

Trouble == troubles > 0 /\ troubles' = troubles - 1

StatusSteps == {"mark", "check", "commit", "rsMark", "rsDone", "rsGiveUp",
                "rbCancel", "rbDone", "rbGiveUp"}
WriteSteps == {"write", "rsWrite", "rbWrite"}
StopSteps  == {"stop", "rsStop", "rbStop"}
StartSteps == {"start", "rsStart", "rsAbort", "rbStart"}
Steps == StatusSteps \cup WriteSteps \cup StopSteps \cup StartSteps
         \cup {"off", "menu", "verify", "drift", "prepare", "rsCheck",
               "rollback", "rbCheck", "end"}

(* The status each tx_status call writes. *)
NewStatus ==
  [mark     |-> "writing",    check    |-> "checking",  commit |-> "applied",
   rsMark   |-> "restoring",  rsDone   |-> "restored",
   rbCancel |-> "cancelled",  rbDone   |-> "rolled_back",
   rsGiveUp |-> "recovery_required",   rbGiveUp |-> "recovery_required"]

(* Where a step that succeeds goes on ... *)
Then ==
  [mark    |-> "write",   check    |-> "start",   commit   |-> "end",
   rsMark  |-> "rsWrite", rsDone   |-> "rsStart", rsGiveUp |-> "end",
   rbCancel |-> "rbStart", rbDone  |-> "rbStart", rbGiveUp |-> "end",
   write   |-> "check",   rsWrite  |-> "rsDone",  rbWrite  |-> "rbDone",
   stop    |-> "drift",   rsStop   |-> "rsCheck", rbStop   |-> "rbCheck",
   start   |-> "commit",  rsStart  |-> "end",     rsAbort  |-> "end",
   rbStart |-> "end"]

(* Mutation: the loop over the files goes on after a failed copy. *)
ElseWriteOn ==
  [mark    |-> "rollback", check   |-> "rollback", commit   |-> "rollback",
   rsMark  |-> "rsGiveUp", rsDone  |-> "rsGiveUp", rsGiveUp |-> "end",
   rbCancel |-> "end",     rbDone  |-> "rbGiveUp", rbGiveUp |-> "end",
   write   |-> "check",    rsWrite |-> "rsGiveUp", rbWrite  |-> "rbGiveUp",
   stop    |-> "rollback", rsStop  |-> "end",      rbStop   |-> "end",
   start   |-> "rollback", rsStart |-> "end",      rsAbort  |-> "end",
   rbStart |-> "end"]

(* ... and one that fails. *)
Else ==
  [mark    |-> "rollback", check   |-> "rollback", commit   |-> "rollback",
   rsMark  |-> "rsGiveUp", rsDone  |-> "rsGiveUp", rsGiveUp |-> "end",
   rbCancel |-> "end",     rbDone  |-> "rbGiveUp", rbGiveUp |-> "end",
   write   |-> "rollback", rsWrite |-> "rsGiveUp", rbWrite  |-> "rbGiveUp",
   stop    |-> "rollback", rsStop  |-> "end",      rbStop   |-> "end",
   start   |-> "rollback", rsStart |-> "end",      rsAbort  |-> "end",
   rbStart |-> "end"]

(* The steps after which TX_DIR is emptied, and TX_ARMED cleared. *)
Forgets == {"commit", "rsDone", "rsGiveUp", "rsAbort", "rbStart"}
Disarms == {"commit", "rsDone", "rbStart"}

Leave(steps) ==
  /\ tx' = IF pc \in steps THEN 0 ELSE tx
  /\ armed' = (armed /\ pc \notin (steps \cap Disarms))
  /\ UNCHANGED stage

-----------------------------------------------------------------------------
(* tx_status and the file writes *)

WriteStatus == txs' = [txs EXCEPT ![tx].status = NewStatus[pc]]

SetStatus ==
  /\ pc \in StatusSteps
  /\ WriteStatus
  /\ left' = IF pc \in {"mark", "rsMark"} THEN txs[tx].files ELSE left
  /\ Leave(Forgets)
  /\ pc' = Then[pc]
  /\ UNCHANGED <<disk, service, job, troubles>>

SetStatusFails ==
  /\ pc \in StatusSteps
  /\ Trouble
  /\ WriteStatus \/ UNCHANGED txs
  /\ Leave({"rsGiveUp"})
  /\ pc' = Else[pc]
  /\ UNCHANGED <<disk, service, job, left>>

Replace(f) ==
  file' = [file EXCEPT ![f] = IF pc = "write" THEN txs[tx].after[f]
                                              ELSE txs[tx].before[f]]

(* atomic_copy of the next file: the .after, or the .bak in restore_files. *)
WriteFile ==
  /\ pc \in WriteSteps
  /\ left # << >>
  /\ Replace(Head(left))
  /\ left' = Tail(left)
  /\ UNCHANGED <<late, service, txs, job, tx, armed, stage, pc, troubles>>

WriteFileFails ==
  /\ pc \in WriteSteps
  /\ left # << >>
  /\ Trouble
  /\ Replace(Head(left)) \/ UNCHANGED file
  /\ left' = << >>
  /\ pc' = Else[pc]
  /\ UNCHANGED <<late, service, txs, job, tx, armed, stage>>

Written ==
  /\ pc \in WriteSteps
  /\ left = << >>
  /\ pc' = Then[pc]
  /\ UNCHANGED <<disk, service, txs, job, worker, troubles>>

-----------------------------------------------------------------------------
(* service_stop and service_start_check *)

Starter ==
  [start |-> "apply", rsStart |-> "restore", rsAbort |-> "abort",
   rbStart |-> "rollback"]

(* Mutation: a transaction found writing is cancelled like a prepared one. *)
StopCancelsWriting ==
  /\ pc \in StopSteps
  /\ service' = "nobody"
  /\ pc' = IF pc = "rbStop" /\ txs[tx].status \in {"prepared", "writing"}
             THEN "rbCancel" ELSE Then[pc]
  /\ UNCHANGED <<disk, txs, job, worker, troubles>>

StopService ==
  /\ pc \in StopSteps
  /\ service' = "nobody"
  /\ pc' = IF pc = "rbStop" /\ txs[tx].status = "prepared"
             THEN "rbCancel" ELSE Then[pc]
  /\ UNCHANGED <<disk, txs, job, worker, troubles>>

StopServiceFails ==
  /\ pc \in StopSteps
  /\ Trouble
  /\ service' \in {service, "nobody"}
  /\ Leave({"rsStop"})
  /\ pc' = Else[pc]
  /\ UNCHANGED <<disk, txs, job, left>>

StartService ==
  /\ pc \in StartSteps
  /\ service' = IF Up THEN service ELSE Starter[pc]
  /\ Leave(Forgets)
  /\ pc' = Then[pc]
  /\ UNCHANGED <<disk, txs, job, left, troubles>>

(* The service dies, or stays up without becoming healthy. *)
StartServiceFails ==
  /\ pc \in StartSteps
  /\ Trouble
  /\ service' \in {IF Up THEN service ELSE Starter[pc], "nobody"}
  /\ Leave(Forgets)
  /\ pc' = Else[pc]
  /\ UNCHANGED <<disk, txs, job, left>>

-----------------------------------------------------------------------------
(* apply_candidate *)

(* The first call precedes the backup, the second follows the stop. *)
CheckDrift ==
  /\ pc = "drift"
  /\ ~Drifted
  /\ Checked(Compared(job))
  /\ pc' = IF armed THEN "mark" ELSE "prepare"
  /\ UNCHANGED <<file, service, txs, job, worker, troubles>>

CheckDriftFails ==
  /\ pc = "drift"
  /\ Drifted
  /\ pc' = IF armed THEN "rollback" ELSE "end"
  /\ UNCHANGED <<disk, service, txs, job, worker, troubles>>

AddManifest ==
  txs' = Append(txs, [status |-> "prepared", files |-> job.files,
                      before |-> job.before, after |-> job.after])

(* Mutation: TX_DIR is set in a subshell and lost. *)
PrepareLosesDir ==
  /\ pc = "prepare"
  /\ AddManifest
  /\ armed' = TRUE
  /\ pc' = "stop"
  /\ UNCHANGED <<disk, service, job, tx, stage, left, troubles>>

(* tx_prepare, then TX_ARMED=true *)
Prepare ==
  /\ pc = "prepare"
  /\ AddManifest
  /\ tx' = Len(txs) + 1
  /\ armed' = TRUE
  /\ pc' = "stop"
  /\ UNCHANGED <<disk, service, job, stage, left, troubles>>

PrepareFails ==
  /\ pc = "prepare"
  /\ Trouble
  /\ AddManifest \/ UNCHANGED txs
  /\ pc' = "end"
  /\ UNCHANGED <<disk, service, job, worker>>

-----------------------------------------------------------------------------
(* restore_candidate and rollback: restore_check *)

CheckBackup(interrupted, ok, bad) ==
  IF RestoreCheck(tx, interrupted)
    THEN pc' = ok /\ Checked(Compared(txs[tx]))
    ELSE pc' = bad /\ UNCHANGED late

CheckRestore ==
  /\ pc = "rsCheck"
  /\ CheckBackup(Interrupted(tx), "rsMark", "rsAbort")
  /\ UNCHANGED <<file, service, txs, job, worker, troubles>>

CheckRollback ==
  /\ pc = "rbCheck"
  /\ CheckBackup(TRUE, "rbWrite", "rbGiveUp")
  /\ left' = IF pc' = "rbWrite" THEN txs[tx].files ELSE << >>
  /\ UNCHANGED <<file, service, txs, job, tx, armed, stage, troubles>>

(* rollback has nothing to do for a transaction that is over. *)
Settled == txs[tx].status \in Closed \cup {"applied"}

Rollback ==
  /\ pc = "rollback"
  /\ IF Settled THEN tx' = 0 /\ armed' = FALSE /\ pc' = "end"
                ELSE pc' = "rbStop" /\ UNCHANGED <<tx, armed>>
  /\ UNCHANGED <<disk, service, txs, job, stage, left, troubles>>

-----------------------------------------------------------------------------
(* The end of the worker: the EXIT traps job_cleanup and cleanup. *)

NextStage == [main |-> "job_cleanup", job_cleanup |-> "cleanup"]

Exit ==
  /\ pc = "end"
  /\ stage # "cleanup"
  /\ stage' = NextStage[stage]
  /\ pc' = IF armed /\ tx # 0 THEN "rollback" ELSE "end"
  /\ UNCHANGED <<disk, service, txs, job, tx, armed, left, troubles>>

Reset ==
  /\ pc' = "off"
  /\ job' = NoJob
  /\ tx' = 0
  /\ armed' = FALSE
  /\ stage' = "main"
  /\ left' = << >>

Quit ==
  /\ pc = "end"
  /\ stage = "cleanup"
  /\ Reset
  /\ UNCHANGED <<disk, service, txs, troubles>>

Working == pc \notin {"off", "menu"}

(* TERM (RuntimeMaxSec, systemctl stop) runs the traps; they ignore it. *)
Term ==
  /\ Working /\ pc # "end" /\ stage = "main"
  /\ Trouble
  /\ pc' = "end"
  /\ left' = << >>
  /\ UNCHANGED <<disk, service, txs, job, tx, armed, stage>>

(* KILL (TimeoutStopSec, the OOM killer) ends the worker where it stands. *)
Kill ==
  /\ Working
  /\ Trouble
  /\ Reset
  /\ UNCHANGED <<disk, service, txs>>

-----------------------------------------------------------------------------
(* The administrator. *)

Known(m, f, c) == f \in Compared(m) /\ c \in {m.before[f], m.after[f]}

(* An edit leaves a content that no backup and no candidate holds. *)
Edit(f, c) ==
  /\ Trouble
  /\ c # file[f]
  /\ \A i \in 1..Len(txs) : ~Known(txs[i], f, c)
  /\ job # NoJob => ~Known(job, f, c)
  /\ file' = [file EXCEPT ![f] = c]
  /\ late' = late \cup {f}
  /\ UNCHANGED <<service, txs, job, worker, pc>>

(* The service menu, or systemctl; not while a job is at work. *)
StartByHand ==
  /\ ~Working
  /\ ~Up
  /\ service' = "operator"
  /\ UNCHANGED <<disk, txs, job, worker, pc, troubles>>

-----------------------------------------------------------------------------
Menu ==
  \/ \E a \in {"apply", "remove"}, l \in FileLists :
       \E new \in [Range(l) -> Contents] : BuildCandidate(a, l, new)
  \/ \E i \in 1..Len(txs) : ChooseBackup(i)
  \/ Submit
  \/ Cancel

Succeeds ==
  Verify \/ SetStatus \/ WriteFile \/ Written \/ StopService \/ StartService
  \/ CheckDrift \/ Prepare \/ CheckRestore \/ CheckRollback \/ Rollback
  \/ Exit \/ Quit

Fails ==
  VerifyFails \/ SetStatusFails \/ WriteFileFails \/ StopServiceFails
  \/ StartServiceFails \/ CheckDriftFails \/ PrepareFails

Admin ==
  \/ \E f \in Files, c \in Contents : Edit(f, c)
  \/ StartByHand

Next == Menu \/ Succeeds \/ Fails \/ Term \/ Kill \/ Admin

Spec == Init /\ [][Next]_vars
-----------------------------------------------------------------------------
(* Properties *)

Manifest ==
  [status : Statuses, files : FileLists,
   before : UNION {[fs -> Contents] : fs \in SUBSET Files},
   after : UNION {[fs -> Contents] : fs \in SUBSET Files}]

(* Every variable keeps its type; outside the worker the transaction       *)
(* variables are reset, and a step that works on a transaction has one.    *)
TypeOK ==
  /\ file \in [Files -> Contents]
  /\ service \in {"nobody", "operator", "apply", "restore", "abort", "rollback"}
  /\ txs \in Seq(Manifest) /\ Len(txs) <= MaxTx
  /\ job.action \in {"none", "apply", "remove", "restore"}
  /\ tx \in 0..Len(txs)
  /\ armed \in BOOLEAN
  /\ pc \in Steps
  /\ stage \in {"main", "job_cleanup", "cleanup"}
  /\ left \in Seq(Files)
  /\ late \subseteq Files
  /\ ~Working => tx = 0 /\ ~armed /\ stage = "main" /\ left = << >>
  /\ pc \in (DOMAIN Then) \ {"rsStart"} => tx # 0

(* Some files of the transaction have been replaced and some have not. *)
Half(t) ==
  \E f, g \in Compared(t) :
    /\ t.before[f] # t.after[f] /\ file[f] = t.before[f]
    /\ t.before[g] # t.after[g] /\ file[g] = t.after[g]

HalfConfig ==
  \E i \in 1..Len(txs) : txs[i].status \in Unfinished /\ Half(txs[i])

(* Whatever fails, is killed or is rolled back, apply, restore and         *)
(* rollback never start V2bX on files of which an unfinished transaction   *)
(* has replaced only some (apply_candidate, rollback, restore_candidate).  *)
NoHalfConfigStarted ==
  service \in {"apply", "restore", "rollback"} => ~HalfConfig

(* README.md:246: where the configuration cannot be restored in full, the  *)
(* service stays stopped, so that it never reads a half-new configuration. *)
(* restore_candidate starts it when its second restore_check refuses.      *)
HalfConfigStaysStopped ==
  service \notin {"nobody", "operator"} => ~HalfConfig

(* README.md:246: the restore menu can restore what a killed worker left.  *)
(* When nobody has edited its files since the worker last compared them,   *)
(* restore_check accepts every unfinished transaction.                     *)
InterruptedIsRestorable ==
  pc = "off" =>
    \A i \in 1..Len(txs) :
      txs[i].status \in Unfinished /\ Compared(txs[i]) \cap late = {}
        => RestoreCheck(i, TRUE)

Holds(t, version) == \A f \in Range(t.files) \ late : file[f] = version[f]

(* A manifest says what is on disk: when it becomes `applied` every file   *)
(* is the new one, when it becomes rolled_back, cancelled or restored the  *)
(* old one, except where somebody edited it after the last comparison.     *)
StatusIsTrue ==
  [][\A i \in 1..Len(txs) :
       txs'[i].status # txs[i].status =>
         /\ txs'[i].status = "applied" => Holds(txs[i], txs[i].after)
         /\ txs'[i].status \in Closed => Holds(txs[i], txs[i].before)]_vars

(* The worker overwrites a file only with a version of its own in it,      *)
(* unless it was edited after check_drift or restore_check compared it.    *)
EditsKept ==
  [][\A f \in Files :
       file'[f] # file[f] /\ f \notin late' =>
         file[f] \in {txs[tx].before[f], txs[tx].after[f]}]_vars
=============================================================================
