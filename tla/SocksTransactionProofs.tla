----------------------- MODULE SocksTransactionProofs -----------------------
(***************************************************************************)
(* The safety of the SOCKS helper's transactions for any files, contents   *)
(* and candidates, any number of backups, failures, signals and edits.     *)
(*                                                                         *)
(* WorkerInv says where the worker stands and what its transaction knows   *)
(* of the files; it gives TypeOK and EditsKept.  DiskInv adds that nobody  *)
(* else is unfinished and what the files hold at each step; it needs the   *)
(* default answer of the restore menu, and gives NoHalfConfigStarted,      *)
(* InterruptedIsRestorable and StatusIsTrue.                               *)
(***************************************************************************)
EXTENDS SocksTransaction, SequenceTheorems, TLAPS

Applies == {"apply", "remove"}

ApplySteps == {"drift", "prepare", "stop", "mark", "write", "check", "start", "commit"}

(* The steps of a worker that has a transaction. *)
TxSteps == ((DOMAIN Then) \ {"rsStart"}) \cup {"rsCheck", "rbCheck", "rollback"}

(* The steps between a stop of V2bX and its next start. *)
DownSteps == {"mark", "write", "check", "start", "rsCheck", "rsMark", "rsWrite",
              "rsDone", "rsGiveUp", "rsStart", "rsAbort", "rbCheck", "rbWrite",
              "rbDone", "rbCancel", "rbGiveUp", "rbStart"}

-----------------------------------------------------------------------------
(* The worker. *)

(* The versions of a candidate, or of its manifest, are of the files it    *)
(* lists and the main file, which it need not change.                      *)
Shaped(m) ==
  /\ m.files \in FileLists
  /\ m.before \in [Range(m.files) \cup {Main} -> Contents]
  /\ m.after \in [Range(m.files) \cup {Main} -> Contents]
  /\ \A f \in Compared(m) \ Range(m.files) : m.after[f] = m.before[f]

Versions == UNION {[fs -> Contents] : fs \in SUBSET Files}

Candidates ==
  [action : Applies, files : FileLists, before : Versions, after : Versions,
   sha : Contents, tx : {0}]

Restorations ==
  [action : {"restore"}, files : {<< >>}, before : {<< >>}, after : {<< >>},
   sha : Contents, tx : Nat]

RecordsOK ==
  /\ \A i \in 1..Len(txs) : Shaped(txs[i])
  /\ \/ job = NoJob
     \/ job \in Candidates /\ Shaped(job)
     \/ job \in Restorations /\ job.tx \in 1..Len(txs)
  /\ troubles \in Nat

(* What each step knows of the job, of TX_DIR and TX_ARMED, of the status  *)
(* last written and of the service.                                        *)
Place ==
  /\ pc = "off" => job = NoJob
  /\ pc # "off" => job # NoJob
  /\ pc \in ApplySteps => job.action \in Applies
  /\ pc \in {"verify", "prepare"} => tx = 0 /\ ~armed
  /\ pc = "drift" => (armed <=> tx # 0)
  /\ pc = "stop" => armed
  /\ pc \in TxSteps => tx # 0
  /\ pc \in {"menu", "verify", "prepare"} \/ (pc = "drift" /\ ~armed) =>
       (job.action \in Applies => Len(txs) < MaxTx)
  /\ tx # 0 /\ job.action \in Applies =>
       /\ txs[tx].files = job.files
       /\ txs[tx].before = job.before
       /\ txs[tx].after = job.after
  /\ pc \in {"stop", "mark", "rbCancel"} => txs[tx].status = "prepared"
  /\ pc = "drift" /\ armed => txs[tx].status = "prepared"
  /\ pc \in {"write", "rsWrite", "rbCheck", "rbWrite"} =>
       txs[tx].status # "prepared"
  /\ pc \in WriteSteps => Range(left) \subseteq Range(txs[tx].files)
  /\ pc \in DownSteps \/ (pc = "drift" /\ armed) => service = "nobody"

(* A file holds the given version of it, unless an edit that came after    *)
(* the last comparison left something that is neither version.             *)
Is(m, f, version) ==
  \/ file[f] = version[f]
  \/ f \in late /\ file[f] \notin {m.before[f], m.after[f]}

Untouched(m) == \A f \in Compared(m) : Is(m, f, m.before)
Replaced(m)  == \A f \in Compared(m) : Is(m, f, m.after)

(* A file that was not edited since holds one of its two versions. *)
Tracked(m) == \A f \in Compared(m) \ late : file[f] \in {m.before[f], m.after[f]}

WorkerInv ==
  /\ TypeOK
  /\ RecordsOK
  /\ Place
  /\ tx # 0 => Tracked(txs[tx])
  /\ pc = "prepare" => Untouched(job)

-----------------------------------------------------------------------------
(* The disk. *)

Open(i) == txs[i].status \in Unfinished

(* At most one transaction is unfinished.  No backup made later is listed, *)
(* and it is the one the worker is at.                                     *)
Sole ==
  /\ \A i \in 1..Len(txs) : Open(i) => \A j \in Listed : j <= i
  /\ tx # 0 => \A j \in 1..Len(txs) \ {tx} : ~Open(j) /\ (j \in Listed => j < tx)
  /\ pc \in {"menu", "verify"} /\ job.action = "restore" =>
       job.tx \in Listed /\ \A j \in Listed : j <= job.tx
  /\ pc = "prepare" \/ (pc = "drift" /\ ~armed) => \A i \in 1..Len(txs) : ~Open(i)

(* What an unfinished transaction knows of its files. *)
OpenInv ==
  \A i \in 1..Len(txs) :
    /\ Open(i) => Tracked(txs[i])
    /\ txs[i].status = "prepared" => Untouched(txs[i])

(* The files that have been written hold the version that was written. *)
Progress ==
  /\ pc = "write" =>
       \A f \in Range(txs[tx].files) \ Range(left) : Is(txs[tx], f, txs[tx].after)
  /\ pc \in {"rsWrite", "rbWrite"} =>
       \A f \in Range(txs[tx].files) \ Range(left) : Is(txs[tx], f, txs[tx].before)
  /\ pc \in {"check", "start", "commit"} => Replaced(txs[tx])
  /\ pc \in {"rsDone", "rbDone"} => Untouched(txs[tx])

(* V2bX is started again only on a transaction that is over. *)
OverAtStart == pc \in {"rsStart", "rbStart"} => \A i \in 1..Len(txs) : ~Open(i)

DiskInv ==
  /\ Sole
  /\ OpenInv
  /\ Progress
  /\ OverAtStart
  /\ NoHalfConfigStarted

-----------------------------------------------------------------------------
(* The tables of steps *)

LEMMA ThenIs ==
  /\ Then["mark"] = "write" /\ Then["check"] = "start" /\ Then["commit"] = "end"
  /\ Then["rsMark"] = "rsWrite" /\ Then["rsDone"] = "rsStart"
  /\ Then["rsGiveUp"] = "end" /\ Then["rbCancel"] = "rbStart"
  /\ Then["rbDone"] = "rbStart" /\ Then["rbGiveUp"] = "end"
  /\ Then["write"] = "check" /\ Then["rsWrite"] = "rsDone" /\ Then["rbWrite"] = "rbDone"
  /\ Then["stop"] = "drift" /\ Then["rsStop"] = "rsCheck" /\ Then["rbStop"] = "rbCheck"
  /\ Then["start"] = "commit" /\ Then["rsStart"] = "end" /\ Then["rsAbort"] = "end"
  /\ Then["rbStart"] = "end"
BY DEF Then

LEMMA ElseIs ==
  /\ Else["mark"] = "rollback" /\ Else["check"] = "rollback" /\ Else["commit"] = "rollback"
  /\ Else["rsMark"] = "rsGiveUp" /\ Else["rsDone"] = "rsGiveUp"
  /\ Else["rsGiveUp"] = "end" /\ Else["rbCancel"] = "end"
  /\ Else["rbDone"] = "rbGiveUp" /\ Else["rbGiveUp"] = "end"
  /\ Else["write"] = "rollback" /\ Else["rsWrite"] = "rsGiveUp"
  /\ Else["rbWrite"] = "rbGiveUp"
  /\ Else["stop"] = "rollback" /\ Else["rsStop"] = "end" /\ Else["rbStop"] = "end"
  /\ Else["start"] = "rollback" /\ Else["rsStart"] = "end" /\ Else["rsAbort"] = "end"
  /\ Else["rbStart"] = "end"
BY DEF Else

LEMMA NewStatusIs ==
  /\ NewStatus["mark"] = "writing" /\ NewStatus["check"] = "checking"
  /\ NewStatus["commit"] = "applied" /\ NewStatus["rsMark"] = "restoring"
  /\ NewStatus["rsDone"] = "restored" /\ NewStatus["rbCancel"] = "cancelled"
  /\ NewStatus["rbDone"] = "rolled_back"
  /\ NewStatus["rsGiveUp"] = "recovery_required"
  /\ NewStatus["rbGiveUp"] = "recovery_required"
BY DEF NewStatus

LEMMA StarterIs ==
  /\ Starter["start"] = "apply" /\ Starter["rsStart"] = "restore"
  /\ Starter["rsAbort"] = "abort" /\ Starter["rbStart"] = "rollback"
BY DEF Starter

LEMMA ThenDomain ==
  DOMAIN Then = {"mark", "check", "commit", "rsMark", "rsDone", "rsGiveUp",
                 "rbCancel", "rbDone", "rbGiveUp", "write", "rsWrite", "rbWrite",
                 "stop", "rsStop", "rbStop", "start", "rsStart", "rsAbort", "rbStart"}
BY DEF Then

LEMMA TxStepsAre ==
  TxSteps = {"mark", "check", "commit", "rsMark", "rsDone", "rsGiveUp",
             "rbCancel", "rbDone", "rbGiveUp", "write", "rsWrite", "rbWrite",
             "stop", "rsStop", "rbStop", "start", "rsAbort", "rbStart",
             "rsCheck", "rbCheck", "rollback"}
BY ThenDomain DEF TxSteps

-----------------------------------------------------------------------------
(* Manifests *)

LEMMA ManifestAt ==
  ASSUME TypeOK, RecordsOK, NEW i \in 1..Len(txs)
  PROVE  /\ txs[i] \in Manifest
         /\ Shaped(txs[i])
         /\ Compared(txs[i]) = Range(txs[i].files) \cup {Main}
         /\ Compared(txs[i]) \subseteq Files
         /\ txs[i].files \in Seq(Files)
         /\ txs[i].status \in Statuses
<1>1. txs[i] \in Manifest
  BY DEF TypeOK
<1>2. Shaped(txs[i])
  BY DEF RecordsOK
<1>3. txs[i].files \in Seq(Files)
  BY <1>2, ConstantsAssumption DEF Shaped
<1>4. Range(txs[i].files) \subseteq Files
  BY <1>3 DEF Range
<1> QED BY <1>1, <1>2, <1>3, <1>4, ConstantsAssumption DEF Shaped, Compared, Manifest

(* What a write of the status leaves alone. *)
SameManifests ==
  /\ Len(txs') = Len(txs)
  /\ \A i \in 1..Len(txs) :
       /\ txs'[i].files = txs[i].files
       /\ txs'[i].before = txs[i].before
       /\ txs'[i].after = txs[i].after
       /\ i # tx => txs'[i].status = txs[i].status

LEMMA StatusWritten ==
  ASSUME TypeOK, tx # 0, pc \in StatusSteps, WriteStatus
  PROVE  /\ txs' \in Seq(Manifest)
         /\ SameManifests
         /\ txs'[tx].status = NewStatus[pc]
<1>1. tx \in 1..Len(txs)
  BY DEF TypeOK
<1>2. NewStatus[pc] \in Statuses
  BY NewStatusIs DEF StatusSteps, Statuses, Closed, Unfinished
<1>3. txs[tx] \in Manifest
  BY <1>1 DEF TypeOK
<1> DEFINE m == [txs[tx] EXCEPT !.status = NewStatus[pc]]
<1>4. /\ m \in Manifest
      /\ m.files = txs[tx].files /\ m.before = txs[tx].before
      /\ m.after = txs[tx].after /\ m.status = NewStatus[pc]
  BY <1>2, <1>3 DEF Manifest
<1>5. txs' = [txs EXCEPT ![tx] = m]
  BY DEF WriteStatus
<1> HIDE DEF m
<1>6. txs' \in Seq(Manifest) /\ Len(txs') = Len(txs)
  BY <1>1, <1>4, <1>5, ExceptSeq DEF TypeOK
<1>7. \A i \in 1..Len(txs) : txs'[i] = IF i = tx THEN m ELSE txs[i]
  BY <1>1, <1>4, <1>5, ExceptSeq DEF TypeOK
<1> QED BY <1>1, <1>4, <1>6, <1>7 DEF SameManifests

LEMMA StatusKept ==
  ASSUME TypeOK, UNCHANGED txs
  PROVE  txs' \in Seq(Manifest) /\ SameManifests
BY DEF TypeOK, SameManifests

LEMMA ManifestAdded ==
  ASSUME TypeOK, RecordsOK, pc = "prepare", Place, AddManifest
  PROVE  /\ txs' \in Seq(Manifest)
         /\ Len(txs') = Len(txs) + 1
         /\ \A i \in 1..Len(txs) : txs'[i] = txs[i]
         /\ txs'[Len(txs) + 1].files = job.files
         /\ txs'[Len(txs) + 1].before = job.before
         /\ txs'[Len(txs) + 1].after = job.after
         /\ txs'[Len(txs) + 1].status = "prepared"
<1> DEFINE m == [status |-> "prepared", files |-> job.files,
                 before |-> job.before, after |-> job.after]
<1>1. job \in Candidates /\ Shaped(job)
  BY DEF Place, ApplySteps, Applies, RecordsOK, Restorations, NoJob
<1>2. m \in Manifest
  <2>1. "prepared" \in Statuses
    BY DEF Statuses, Unfinished
  <2> QED BY <1>1, <2>1 DEF Candidates, Manifest, Versions
<1>3. txs' = Append(txs, m)
  BY DEF AddManifest
<1> HIDE DEF m
<1>4. /\ txs' \in Seq(Manifest)
      /\ Len(txs') = Len(txs) + 1
      /\ \A i \in 1..Len(txs) : txs'[i] = txs[i]
      /\ txs'[Len(txs) + 1] = m
  BY <1>2, <1>3, AppendProperties DEF TypeOK
<1> QED BY <1>4 DEF m

-----------------------------------------------------------------------------
(* WorkerInv is inductive. *)

LEMMA InitWorker == Init => WorkerInv
<1> SUFFICES ASSUME Init PROVE WorkerInv
  OBVIOUS
<1>1. TypeOK
  <2>1. file \in [Files -> Contents]
    BY DEF Init
  <2>2. txs \in Seq(Manifest) /\ Len(txs) = 0 /\ left \in Seq(Files)
    BY DEF Init
  <2>3. pc \notin DOMAIN Then /\ pc \in Steps /\ ~Working
    BY ThenDomain DEF Init, Steps, Working
  <2>4. Len(txs) <= MaxTx /\ tx \in 0..Len(txs)
    BY <2>2, ConstantsAssumption DEF Init
  <2>5. job.action = "none"
    BY DEF Init, NoJob
  <2> QED BY <2>1, <2>2, <2>3, <2>4, <2>5 DEF Init, TypeOK
<1>2. RecordsOK
  BY ConstantsAssumption DEF Init, RecordsOK
<1>3. Place
  BY TxStepsAre DEF Init, Place, ApplySteps, WriteSteps, DownSteps
<1> QED BY <1>1, <1>2, <1>3 DEF Init, WorkerInv

LEMMA BuildCandidateWorker ==
  ASSUME WorkerInv, NEW a \in {"apply", "remove"}, NEW l \in FileLists,
         NEW new \in [Range(l) -> Contents], BuildCandidate(a, l, new)
  PROVE  WorkerInv'
<1> USE DEF WorkerInv, BuildCandidate
<1> DEFINE fs == Range(l) \cup {Main}
<1>1. l \in Seq(Files) /\ fs \subseteq Files /\ Range(l) \subseteq fs
  BY ConstantsAssumption DEF Range
<1>2. /\ job'.action = a /\ job'.files = l /\ job'.tx = 0 /\ job'.sha = file[Main]
      /\ job'.before = [f \in fs |-> file[f]]
      /\ job'.after = [f \in fs |-> IF f \in Range(l) THEN new[f] ELSE file[f]]
  OBVIOUS
<1>3. job' \in Candidates /\ Shaped(job')
  <2>1. file[Main] \in Contents /\ \A f \in fs : file[f] \in Contents
    BY <1>1, ConstantsAssumption DEF TypeOK
  <2>2. job'.before \in [fs -> Contents] /\ job'.after \in [fs -> Contents]
    BY <1>2, <2>1
  <2>3. job'.before \in Versions /\ job'.after \in Versions
    BY <1>1, <2>2 DEF Versions
  <2>4. Shaped(job')
    BY <1>2, <2>2 DEF Shaped, Compared
  <2>5. job' \in Candidates
    BY <2>1, <2>3 DEF Candidates, Applies
  <2> QED BY <2>4, <2>5
<1>4. TypeOK'
  BY <1>2, ThenDomain DEF TypeOK, disk, worker, Steps, Working
<1>5. RecordsOK'
  BY <1>3 DEF RecordsOK, Shaped, Compared
<1>6. Place'
  BY <1>2, <1>4, TxStepsAre
     DEF Place, ApplySteps, WriteSteps, DownSteps, disk, worker, NoJob, TypeOK, Working
<1> QED BY <1>4, <1>5, <1>6 DEF disk, worker, TypeOK, Working

LEMMA ChooseBackupWorker ==
  ASSUME WorkerInv, NEW i \in 1..Len(txs), ChooseBackup(i)
  PROVE  WorkerInv'
<1> USE DEF WorkerInv, ChooseBackup
<1>1. /\ job'.action = "restore" /\ job'.tx = i
      /\ job' \in Restorations
  BY ConstantsAssumption DEF TypeOK, Restorations
<1>2. TypeOK'
  BY <1>1, ThenDomain DEF TypeOK, disk, worker, Steps, Working
<1>3. RecordsOK'
  BY <1>1 DEF RecordsOK, Shaped, Compared
<1>4. Place'
  BY <1>1, <1>2, TxStepsAre
     DEF Place, ApplySteps, Applies, WriteSteps, DownSteps, disk, worker, NoJob,
         TypeOK, Working
<1> QED BY <1>2, <1>3, <1>4 DEF disk, worker, TypeOK, Working

LEMMA SubmitWorker == ASSUME WorkerInv, Submit PROVE WorkerInv'
<1> USE DEF WorkerInv, Submit
<1>1. file[Main] \in Contents
  BY ConstantsAssumption DEF TypeOK
<1>2. job \in Candidates \/ job \in Restorations
  BY DEF Place, RecordsOK
<1>3. /\ job'.action = job.action /\ job'.files = job.files
      /\ job'.before = job.before /\ job'.after = job.after /\ job'.tx = job.tx
      /\ job \in Candidates => job' \in Candidates
      /\ job \in Restorations => job' \in Restorations
      /\ job' # NoJob
  BY <1>1, <1>2 DEF Candidates, Restorations, Applies, NoJob
<1>4. TypeOK'
  BY <1>3, ThenDomain DEF TypeOK, disk, worker, Steps, Working
<1>5. RecordsOK'
  BY <1>2, <1>3 DEF RecordsOK, Shaped, Compared, Candidates, Restorations, Applies, NoJob
<1>6. Place'
  BY <1>3, <1>4, TxStepsAre
     DEF Place, ApplySteps, Applies, WriteSteps, DownSteps, disk, worker, TypeOK, Working
<1> QED BY <1>4, <1>5, <1>6 DEF disk, worker, TypeOK, Working

LEMMA RecordsKept ==
  ASSUME WorkerInv, UNCHANGED <<txs, job>>, troubles' \in Nat
  PROVE  RecordsOK'
BY DEF WorkerInv, RecordsOK, Shaped, Compared

(* Where a worker gives up, nothing more is known. *)
LEMMA PlaceAtRest ==
  ASSUME WorkerInv, UNCHANGED <<txs, job>>, pc # "off",
         pc' \in {"rollback", "end"}, tx' \in {0, tx}, pc' = "rollback" => tx' # 0
  PROVE  Place'
<1>1. job # NoJob
  BY DEF WorkerInv, Place
<1>2. pc' \notin ApplySteps \cup WriteSteps \cup DownSteps
  BY DEF ApplySteps, WriteSteps, DownSteps
<1>3. pc' \in TxSteps => pc' = "rollback"
  BY TxStepsAre
<1>4. tx' # 0 /\ job'.action \in Applies =>
        /\ txs'[tx'].files = job'.files
        /\ txs'[tx'].before = job'.before
        /\ txs'[tx'].after = job'.after
  BY DEF WorkerInv, Place
<1>5. pc' \notin {"off", "menu", "verify", "prepare", "drift", "stop", "mark", "rbCancel",
                  "write", "rsWrite", "rbCheck", "rbWrite"}
  OBVIOUS
<1> QED BY <1>1, <1>2, <1>3, <1>4, <1>5 DEF Place

LEMMA ResetWorker ==
  ASSUME WorkerInv, Reset, UNCHANGED <<disk, txs>>,
         service' = service, troubles' \in Nat
  PROVE  WorkerInv'
<1> USE DEF WorkerInv, Reset, disk
<1>1. TypeOK'
  <2>1. pc' \in Steps /\ pc' \notin DOMAIN Then /\ ~Working'
    BY ThenDomain DEF Steps, Working
  <2>2. job'.action = "none" /\ left' \in Seq(Files) /\ tx' \in 0..Len(txs')
    BY DEF NoJob, TypeOK
  <2> QED BY <2>1, <2>2 DEF TypeOK
<1>2. RecordsOK'
  BY DEF RecordsOK, Shaped, Compared
<1>3. Place'
  BY TxStepsAre DEF Place, ApplySteps, WriteSteps, DownSteps
<1> QED BY <1>1, <1>2, <1>3

LEMMA CancelWorker == ASSUME WorkerInv, Cancel PROVE WorkerInv'
<1> USE DEF WorkerInv, Cancel, disk, worker
<1>1. TypeOK'
  BY ThenDomain DEF TypeOK, Steps, Working, NoJob
<1>2. RecordsOK'
  BY DEF RecordsOK, Shaped, Compared
<1>3. Place'
  BY TxStepsAre DEF Place, ApplySteps, WriteSteps, DownSteps, TypeOK, Working
<1> QED BY <1>1, <1>2, <1>3 DEF TypeOK, Working

LEMMA VerifyWorker == ASSUME WorkerInv, Verify PROVE WorkerInv'
<1> USE DEF WorkerInv, Verify, disk, worker, Checked
<1>1. job.action # "restore" => job.action \in Applies
  BY DEF Place, RecordsOK, Candidates, Restorations
<1>2. job.action = "restore" =>
        job.tx \in 1..Len(txs) /\ job.tx # 0 /\ job.action \notin Applies
  BY DEF RecordsOK, Candidates, NoJob, Applies
<1>3. TypeOK'
  <2>1. pc' \in {"rsStop", "drift"} /\ pc' \in Steps /\ Working'
    BY DEF Steps, Working, StopSteps
  <2>2. (pc \in (DOMAIN Then) \ {"rsStart"} => tx # 0)'
    BY <1>2, <2>1, ThenDomain
  <2>3. tx' \in {tx, job.tx} /\ armed' \in {armed, TRUE} /\ late' \subseteq late
    OBVIOUS
  <2>4. tx' \in 0..Len(txs')
    BY <1>2, <2>3 DEF TypeOK
  <2> QED BY <2>1, <2>2, <2>3, <2>4 DEF TypeOK
<1>4. RecordsOK'
  BY DEF RecordsOK, Shaped, Compared
<1>5. Place'
  BY <1>1, <1>2, TxStepsAre DEF Place, ApplySteps, WriteSteps, DownSteps
<1>6. (tx # 0 => Tracked(txs[tx]))'
  BY <1>2 DEF Tracked, Compared, RestoreCheck, Place
<1> QED BY <1>3, <1>4, <1>5, <1>6

LEMMA VerifyFailsWorker == ASSUME WorkerInv, VerifyFails PROVE WorkerInv'
<1> USE DEF WorkerInv, VerifyFails, disk, worker
<1>1. TypeOK'
  <2>1. pc' = "end" /\ pc' \in Steps /\ Working'
    BY DEF Steps, Working
  <2>2. (pc \in (DOMAIN Then) \ {"rsStart"} => tx # 0)'
    BY <2>1, ThenDomain
  <2> QED BY <2>1, <2>2 DEF TypeOK
<1>2. RecordsOK'
  BY DEF RecordsOK, Shaped, Compared
<1>3. Place'
  BY TxStepsAre DEF Place, ApplySteps, WriteSteps, DownSteps
<1>4. (tx # 0 => Tracked(txs[tx]))'
  BY DEF Tracked, Compared
<1> QED BY <1>1, <1>2, <1>3, <1>4

(* A step of tx_status, whether it reports success or not. *)
StatusStep ==
  /\ pc \in StatusSteps
  /\ UNCHANGED <<disk, service, job>>
  /\ txs' \in Seq(Manifest)
  /\ SameManifests
  /\ tx' \in {0, tx}

LEMMA StatusStepKeeps ==
  ASSUME WorkerInv, StatusStep, troubles' \in Nat
  PROVE  /\ RecordsOK'
         /\ (tx # 0 => Tracked(txs[tx]))'
<1> USE DEF WorkerInv, StatusStep, SameManifests, disk
<1>1. tx # 0 => tx \in 1..Len(txs)
  BY DEF TypeOK
<1>2. RecordsOK'
  <2>1. ASSUME NEW i \in 1..Len(txs) PROVE Shaped(txs'[i])
    <3>1. Shaped(txs[i])
      BY DEF RecordsOK
    <3>2. /\ txs'[i].files = txs[i].files
          /\ txs'[i].before = txs[i].before
          /\ txs'[i].after = txs[i].after
      OBVIOUS
    <3> HIDE DEF WorkerInv, StatusStep, SameManifests
    <3> QED BY <3>1, <3>2, Zenon DEF Shaped, Compared
  <2>2. job' = job /\ Len(txs') = Len(txs)
    OBVIOUS
  <2> QED BY <2>1, <2>2 DEF RecordsOK, Shaped, Compared
<1>3. (tx # 0 => Tracked(txs[tx]))'
  BY <1>1 DEF Tracked, Compared
<1> QED BY <1>2, <1>3

LEMMA SetStatusIsStep ==
  ASSUME WorkerInv, SetStatus
  PROVE  /\ StatusStep
         /\ tx \in 1..Len(txs)
         /\ txs'[tx].status = NewStatus[pc]
<1>1. pc \in StatusSteps /\ WriteStatus /\ UNCHANGED <<disk, service, job>>
  BY DEF SetStatus
<1>2. pc \in TxSteps
  BY <1>1, TxStepsAre DEF StatusSteps
<1>3. tx # 0 /\ tx \in 1..Len(txs)
  BY <1>2 DEF WorkerInv, Place, TypeOK
<1>4. tx' \in {0, tx}
  BY DEF SetStatus, Leave
<1> QED BY <1>1, <1>3, <1>4, StatusWritten DEF StatusStep, WorkerInv

LEMMA SetStatusFailsIsStep ==
  ASSUME WorkerInv, SetStatusFails
  PROVE  /\ StatusStep
         /\ tx \in 1..Len(txs)
         /\ txs'[tx].status \in {txs[tx].status, NewStatus[pc]}
<1>1. /\ pc \in StatusSteps /\ UNCHANGED <<disk, service, job>>
      /\ WriteStatus \/ UNCHANGED txs
  BY DEF SetStatusFails
<1>2. pc \in TxSteps
  BY <1>1, TxStepsAre DEF StatusSteps
<1>3. tx # 0 /\ tx \in 1..Len(txs)
  BY <1>2 DEF WorkerInv, Place, TypeOK
<1>4. tx' \in {0, tx}
  BY DEF SetStatusFails, Leave
<1> QED BY <1>1, <1>3, <1>4, StatusWritten, StatusKept DEF StatusStep, WorkerInv

LEMMA SetStatusWorker == ASSUME WorkerInv, SetStatus PROVE WorkerInv'
<1> USE DEF WorkerInv
<1>1. StatusStep /\ tx \in 1..Len(txs) /\ txs'[tx].status = NewStatus[pc]
  BY SetStatusIsStep
<1>2. /\ pc' = Then[pc] /\ troubles' = troubles /\ troubles' \in Nat
      /\ left' = IF pc \in {"mark", "rsMark"} THEN txs[tx].files ELSE left
      /\ tx' = IF pc \in Forgets THEN 0 ELSE tx
      /\ armed' = (armed /\ pc \notin (Forgets \cap Disarms))
      /\ stage' = stage
  BY DEF SetStatus, Leave, RecordsOK
<1>3. pc' \in {"write", "start", "end", "rsWrite", "rsStart", "rbStart"}
  BY <1>1, <1>2, ThenIs DEF StatusStep, StatusSteps
<1>4. TypeOK'
  <2>1. txs[tx].files \in Seq(Files)
    BY <1>1, ManifestAt
  <2>2. left' \in Seq(Files)
    BY <1>2, <2>1 DEF TypeOK
  <2>3. armed' \in BOOLEAN
    BY <1>2
  <2>4. tx' \in 0..Len(txs')
    BY <1>1, <1>2 DEF StatusStep, SameManifests
  <2>5. (pc \in (DOMAIN Then) \ {"rsStart"} => tx # 0)'
    BY <1>1, <1>2, ThenIs, ThenDomain DEF StatusStep, StatusSteps, Forgets
  <2>6. pc' \in Steps /\ Working'
    BY <1>3 DEF Steps, Working, StatusSteps, WriteSteps, StartSteps
  <2> QED BY <1>1, <1>2, <2>2, <2>3, <2>4, <2>5, <2>6
          DEF StatusStep, SameManifests, TypeOK, disk
<1>5. RecordsOK'
  BY <1>1, <1>2, StatusStepKeeps
<1>6. Place'
  BY <1>1, <1>2, ThenIs, NewStatusIs, TxStepsAre
     DEF StatusStep, SameManifests, Place, ApplySteps, StatusSteps, WriteSteps, DownSteps,
         Forgets
<1>7. (tx # 0 => Tracked(txs[tx]))'
  BY <1>1, <1>2, StatusStepKeeps
<1> QED BY <1>3, <1>4, <1>5, <1>6, <1>7

LEMMA SetStatusFailsWorker == ASSUME WorkerInv, SetStatusFails PROVE WorkerInv'
<1> USE DEF WorkerInv
<1>1. /\ StatusStep /\ tx \in 1..Len(txs)
      /\ txs'[tx].status \in {txs[tx].status, NewStatus[pc]}
  BY SetStatusFailsIsStep
<1>2. /\ pc' = Else[pc] /\ troubles' \in Nat
      /\ left' = left
      /\ tx' = IF pc = "rsGiveUp" THEN 0 ELSE tx
      /\ armed' = (armed /\ pc \notin ({"rsGiveUp"} \cap Disarms))
      /\ stage' = stage
  BY DEF SetStatusFails, Leave, Trouble, RecordsOK
<1>3. pc' \in {"rollback", "rsGiveUp", "rbGiveUp", "end"}
  BY <1>1, <1>2, ElseIs DEF StatusStep, StatusSteps
<1>4. TypeOK'
  <2>1. armed' \in BOOLEAN
    BY <1>2
  <2>2. tx' \in 0..Len(txs')
    BY <1>1, <1>2 DEF StatusStep, SameManifests
  <2>3. (pc \in (DOMAIN Then) \ {"rsStart"} => tx # 0)'
    BY <1>1, <1>2, ElseIs, ThenDomain DEF StatusStep, StatusSteps
  <2>4. pc' \in Steps /\ Working'
    BY <1>3 DEF Steps, Working, StatusSteps, WriteSteps, StartSteps
  <2> QED BY <1>1, <1>2, <2>1, <2>2, <2>3, <2>4
          DEF StatusStep, SameManifests, TypeOK, disk
<1>5. RecordsOK'
  BY <1>1, <1>2, StatusStepKeeps
<1>6. Place'
  BY <1>1, <1>2, ElseIs, NewStatusIs, TxStepsAre
     DEF StatusStep, SameManifests, Place, ApplySteps, StatusSteps, WriteSteps, DownSteps
<1>7. (tx # 0 => Tracked(txs[tx]))'
  BY <1>1, <1>2, StatusStepKeeps
<1> QED BY <1>3, <1>4, <1>5, <1>6, <1>7

(* A copy of the next file, as it was or as it is to be. *)
LEMMA ReplaceIs ==
  ASSUME WorkerInv, pc \in WriteSteps, left # << >>, Replace(Head(left))
  PROVE  /\ tx \in 1..Len(txs) /\ tx # 0
         /\ Head(left) \in Range(txs[tx].files) /\ Head(left) \in Compared(txs[tx])
         /\ Range(Tail(left)) \subseteq Range(left)
         /\ \A f \in Range(left) : f = Head(left) \/ f \in Range(Tail(left))
         /\ Tail(left) \in Seq(Files)
         /\ file' \in [Files -> Contents]
         /\ \A f \in Files : f # Head(left) => file'[f] = file[f]
         /\ pc = "write" => file'[Head(left)] = txs[tx].after[Head(left)]
         /\ pc # "write" => file'[Head(left)] = txs[tx].before[Head(left)]
<1>1. pc \in TxSteps
  BY TxStepsAre DEF WriteSteps
<1>2. tx # 0 /\ tx \in 1..Len(txs)
  BY <1>1 DEF WorkerInv, Place, TypeOK
<1>3. left \in Seq(Files)
  BY DEF WorkerInv, TypeOK
<1>4. /\ Tail(left) \in Seq(Files) /\ Len(Tail(left)) = Len(left) - 1
      /\ \A i \in 1..Len(Tail(left)) : Tail(left)[i] = left[i + 1]
      /\ Len(left) > 0 /\ Head(left) = left[1]
  BY <1>3
<1>5. Head(left) \in Range(left) /\ Range(Tail(left)) \subseteq Range(left)
  BY <1>3, <1>4 DEF Range
<1>6. ASSUME NEW f \in Range(left) PROVE f = Head(left) \/ f \in Range(Tail(left))
  <2>1. PICK i \in 1..Len(left) : f = left[i]
    BY <1>3 DEF Range
  <2>2. i = 1 \/ (i - 1 \in 1..Len(Tail(left)) /\ Tail(left)[i - 1] = left[i])
    BY <1>4
  <2>3. CASE i = 1
    BY <1>4, <2>1, <2>3
  <2>4. CASE i # 1
    <3>1. i - 1 \in DOMAIN Tail(left) /\ Tail(left)[i - 1] = f
      BY <1>4, <2>1, <2>2, <2>4
    <3> QED BY <3>1 DEF Range
  <2> QED BY <2>3, <2>4
<1>7. Head(left) \in Range(txs[tx].files)
  BY <1>5 DEF WorkerInv, Place
<1>8. Head(left) \in Compared(txs[tx]) /\ Head(left) \in Files /\ Shaped(txs[tx])
  BY <1>2, <1>7, ManifestAt DEF WorkerInv
<1>9. /\ txs[tx].before[Head(left)] \in Contents
      /\ txs[tx].after[Head(left)] \in Contents
  BY <1>8 DEF Shaped, Compared
<1>10. /\ file' \in [Files -> Contents]
       /\ \A f \in Files : f # Head(left) => file'[f] = file[f]
       /\ pc = "write" => file'[Head(left)] = txs[tx].after[Head(left)]
       /\ pc # "write" => file'[Head(left)] = txs[tx].before[Head(left)]
  BY <1>8, <1>9 DEF Replace, WorkerInv, TypeOK
<1> QED BY <1>2, <1>4, <1>5, <1>6, <1>7, <1>8, <1>10

LEMMA ReplaceTracks ==
  ASSUME WorkerInv, pc \in WriteSteps, left # << >>,
         Replace(Head(left)) \/ UNCHANGED file, UNCHANGED <<txs, tx, late>>
  PROVE  tx # 0 /\ Tracked(txs[tx])'
<1>1. tx # 0 /\ tx \in 1..Len(txs)
  BY TxStepsAre DEF WriteSteps, WorkerInv, Place, TypeOK
<1>2. Tracked(txs[tx]) /\ Compared(txs[tx]) \subseteq Files
  BY <1>1, ManifestAt DEF WorkerInv
<1> DEFINE t == txs[tx]
<1>3. \A f \in Files : file'[f] = file[f] \/ file'[f] \in {t.before[f], t.after[f]}
  BY ReplaceIs
<1>4. t' = t
  OBVIOUS
<1> HIDE DEF t
<1>5. Tracked(t)'
  BY <1>2, <1>3, <1>4 DEF Tracked, Compared, t
<1> QED BY <1>1, <1>5 DEF t

LEMMA WriteFileWorker == ASSUME WorkerInv, WriteFile PROVE WorkerInv'
<1> USE DEF WriteFile
<1>1. TypeOK'
  <2>1. Working' /\ (pc \in (DOMAIN Then) \ {"rsStart"} => tx # 0)'
    BY TxStepsAre, ReplaceIs DEF Working, WriteSteps
  <2>2. file' \in [Files -> Contents] /\ left' \in Seq(Files)
    BY ReplaceIs
  <2> QED BY <2>1, <2>2 DEF WorkerInv, TypeOK
<1>2. RecordsOK'
  BY DEF WorkerInv, RecordsOK, Shaped, Compared
<1>3. Place'
  <2>1. Range(left') \subseteq Range(left)
    BY ReplaceIs
  <2> QED BY <2>1, TxStepsAre
          DEF WorkerInv, Place, ApplySteps, WriteSteps, DownSteps
<1>4. tx # 0 /\ Tracked(txs[tx])'
  BY ReplaceTracks
<1> QED BY <1>1, <1>2, <1>3, <1>4 DEF WorkerInv, WriteSteps

LEMMA WriteFileFailsWorker == ASSUME WorkerInv, WriteFileFails PROVE WorkerInv'
<1> USE DEF WriteFileFails, Trouble
<1>1. pc' \in {"rollback", "rsGiveUp", "rbGiveUp"}
  BY ElseIs DEF WriteSteps
<1>2. TypeOK'
  <2>1. Working' /\ pc' \in Steps
    BY <1>1 DEF Working, Steps, StatusSteps
  <2>2. file' \in [Files -> Contents] /\ tx # 0
    BY ReplaceIs, ReplaceTracks DEF WorkerInv, TypeOK
  <2>3. left' \in Seq(Files)
    OBVIOUS
  <2> QED BY <2>1, <2>2, <2>3 DEF WorkerInv, TypeOK
<1>3. RecordsOK'
  BY RecordsKept DEF WorkerInv, RecordsOK
<1>4. Place'
  <2>1. tx # 0
    BY ReplaceTracks
  <2> QED BY <1>1, <2>1, TxStepsAre, ElseIs
          DEF WorkerInv, Place, ApplySteps, WriteSteps, DownSteps
<1>5. tx # 0 /\ Tracked(txs[tx])'
  BY ReplaceTracks
<1> QED BY <1>1, <1>2, <1>3, <1>4, <1>5 DEF WorkerInv

LEMMA WrittenWorker == ASSUME WorkerInv, Written PROVE WorkerInv'
<1> USE DEF WorkerInv, Written, disk, worker
<1>1. tx # 0 /\ pc' \in {"check", "rsDone", "rbDone"}
  BY TxStepsAre, ThenIs DEF Place, WriteSteps
<1>2. TypeOK'
  BY <1>1 DEF TypeOK, Working, Steps, StatusSteps
<1>3. RecordsOK'
  BY DEF RecordsOK, Shaped, Compared
<1>4. Place'
  BY <1>1, TxStepsAre, ThenIs DEF Place, ApplySteps, WriteSteps, DownSteps
<1>5. Tracked(txs[tx])'
  BY <1>1 DEF Tracked, Compared
<1> QED BY <1>1, <1>2, <1>3, <1>4, <1>5

(* Commands of systemctl change none of the files and manifests. *)
LEMMA CommandKeeps ==
  ASSUME WorkerInv, UNCHANGED <<disk, txs, job>>, tx' \in {0, tx}, troubles' \in Nat
  PROVE  RecordsOK' /\ (tx # 0 => Tracked(txs[tx]))'
<1> USE DEF WorkerInv, disk
<1>1. RecordsOK'
  BY DEF RecordsOK, Shaped, Compared
<1>2. (tx # 0 => Tracked(txs[tx]))'
  BY DEF Tracked, Compared
<1> QED BY <1>1, <1>2

LEMMA StopServiceWorker == ASSUME WorkerInv, StopService PROVE WorkerInv'
<1> USE DEF WorkerInv, StopService, disk, worker
<1>1. tx # 0 /\ pc' \in {"drift", "rsCheck", "rbCheck", "rbCancel"}
  BY TxStepsAre, ThenIs DEF Place, StopSteps
<1>2. TypeOK'
  BY <1>1 DEF TypeOK, Working, Steps, StatusSteps
<1>3. Place'
  BY <1>1, TxStepsAre, ThenIs DEF Place, ApplySteps, WriteSteps, DownSteps, StopSteps
<1> QED BY <1>1, <1>2, <1>3, CommandKeeps DEF RecordsOK

LEMMA StopServiceFailsWorker == ASSUME WorkerInv, StopServiceFails PROVE WorkerInv'
<1> USE DEF WorkerInv, StopServiceFails, disk, Leave, Trouble
<1>1. /\ tx # 0 /\ pc' \in {"rollback", "end"} /\ tx' \in {0, tx}
      /\ pc' = "rollback" => tx' = tx
      /\ armed' \in BOOLEAN /\ troubles' \in Nat
  BY TxStepsAre, ElseIs DEF Place, StopSteps, RecordsOK
<1>2. TypeOK'
  <2>1. pc' \in Steps /\ Working' /\ pc' \notin DOMAIN Then
    BY <1>1, ThenDomain DEF Working, Steps
  <2>2. tx' \in 0..Len(txs')
    BY <1>1 DEF TypeOK
  <2>3. service' \in {service, "nobody"} /\ stage' = stage /\ left' = left
    OBVIOUS
  <2> QED BY <1>1, <2>1, <2>2, <2>3 DEF TypeOK
<1>3. Place'
  BY <1>1, PlaceAtRest DEF StopSteps
<1> QED BY <1>1, <1>2, <1>3, CommandKeeps

(* service_start_check, whether it reports success or not. *)
LEMMA StartIs ==
  ASSUME WorkerInv, StartService \/ StartServiceFails
  PROVE  /\ pc \in StartSteps /\ UNCHANGED <<disk, txs, job, left, stage>>
         /\ service' \in {service, Starter[pc], "nobody"}
         /\ tx' \in {0, tx} /\ armed' \in BOOLEAN /\ troubles' \in Nat
         /\ pc' \in {"commit", "rollback", "end"}
         /\ pc' \in {"commit", "rollback"} => pc = "start" /\ tx' = tx /\ tx # 0
         /\ pc' = "commit" => StartService
         /\ pc' = "rollback" => StartServiceFails
<1>1. pc \in StartSteps /\ pc = "start" => tx # 0
  BY TxStepsAre DEF StartService, StartServiceFails, WorkerInv, Place
<1>2. CASE StartService
  BY <1>1, <1>2, ThenIs
     DEF StartService, Leave, RecordsOK, WorkerInv, StartSteps, Forgets
<1>3. CASE StartServiceFails
  BY <1>1, <1>3, ElseIs
     DEF StartServiceFails, Leave, Trouble, RecordsOK, WorkerInv, StartSteps, Forgets
<1> QED BY <1>2, <1>3

LEMMA StartServiceWorker ==
  ASSUME WorkerInv, StartService \/ StartServiceFails PROVE WorkerInv'
<1> USE DEF WorkerInv
<1>1. /\ pc \in StartSteps /\ UNCHANGED <<disk, txs, job, left, stage>>
      /\ service' \in {service, Starter[pc], "nobody"}
      /\ tx' \in {0, tx} /\ armed' \in BOOLEAN /\ troubles' \in Nat
      /\ pc' \in {"commit", "rollback", "end"}
      /\ pc' \in {"commit", "rollback"} => pc = "start" /\ tx' = tx /\ tx # 0
  BY StartIs
<1>2. TypeOK'
  <2>1. pc' \in Steps /\ Working' /\ (pc' \in DOMAIN Then => tx' # 0)
    BY <1>1, ThenDomain DEF Working, Steps, StatusSteps
  <2>2. tx' \in 0..Len(txs')
    BY <1>1 DEF TypeOK
  <2>3. service' \in {service, "nobody", "apply", "restore", "abort", "rollback"}
    BY <1>1, StarterIs DEF StartSteps
  <2>4. UNCHANGED <<file, late, txs, job, left, stage>>
    BY <1>1 DEF disk
  <2> QED BY <1>1, <2>1, <2>2, <2>3, <2>4 DEF TypeOK
<1>3. Place'
  <2>1. CASE pc' = "commit"
    BY <1>1, <2>1, TxStepsAre DEF Place, ApplySteps, WriteSteps, DownSteps
  <2>2. CASE pc' # "commit"
    BY <1>1, <2>2, PlaceAtRest DEF StartSteps
  <2> QED BY <2>1, <2>2
<1> QED BY <1>1, <1>2, <1>3, CommandKeeps

LEMMA CheckDriftWorker == ASSUME WorkerInv, CheckDrift PROVE WorkerInv'
<1> USE DEF WorkerInv, CheckDrift, Checked, worker
<1>1. /\ job \in Candidates /\ Shaped(job) /\ job.action \in Applies
      /\ armed <=> tx # 0
      /\ \A f \in Compared(job) : file[f] = job.before[f]
      /\ pc' \in {"mark", "prepare"} /\ (pc' = "mark" <=> armed)
  BY DEF Place, ApplySteps, RecordsOK, Drifted, Restorations, NoJob, Applies
<1>2. TypeOK'
  BY <1>1, ThenDomain DEF TypeOK, Working, Steps, StatusSteps
<1>3. RecordsOK'
  BY RecordsKept DEF RecordsOK
<1>4. Place'
  BY <1>1, TxStepsAre DEF Place, ApplySteps, WriteSteps, DownSteps
<1>5. (tx # 0 => Tracked(txs[tx]))'
  BY <1>1 DEF Place, Tracked, Compared
<1>6. (pc = "prepare" => Untouched(job))'
  BY <1>1 DEF Untouched, Is, Compared
<1> QED BY <1>2, <1>3, <1>4, <1>5, <1>6

LEMMA CheckDriftFailsWorker == ASSUME WorkerInv, CheckDriftFails PROVE WorkerInv'
<1> USE DEF WorkerInv, CheckDriftFails, disk, worker
<1>1. pc' \in {"rollback", "end"} /\ (pc' = "rollback" => tx # 0)
  BY DEF Place
<1>2. TypeOK'
  BY <1>1, ThenDomain DEF TypeOK, Working, Steps
<1>3. Place'
  BY <1>1, PlaceAtRest
<1> QED BY <1>1, <1>2, <1>3, CommandKeeps DEF RecordsOK

LEMMA AppendKeeps ==
  ASSUME WorkerInv, pc = "prepare", AddManifest, UNCHANGED job, troubles' \in Nat
  PROVE  /\ RecordsOK'
         /\ txs' \in Seq(Manifest) /\ Len(txs') <= MaxTx
         /\ Len(txs') = Len(txs) + 1
<1> USE DEF WorkerInv
<1>1. /\ txs' \in Seq(Manifest)
      /\ Len(txs') = Len(txs) + 1
      /\ \A i \in 1..Len(txs) : txs'[i] = txs[i]
      /\ txs'[Len(txs) + 1].files = job.files
      /\ txs'[Len(txs) + 1].before = job.before
      /\ txs'[Len(txs) + 1].after = job.after
  BY ManifestAdded
<1>2. job \in Candidates /\ Shaped(job) /\ Len(txs) < MaxTx
  BY DEF Place, ApplySteps, Applies, RecordsOK, Restorations, NoJob
<1>3. ASSUME NEW i \in 1..Len(txs') PROVE Shaped(txs'[i])
  <2>1. CASE i \in 1..Len(txs)
    BY <1>1, <2>1 DEF RecordsOK
  <2>2. CASE i = Len(txs) + 1
    BY <1>1, <1>2, <2>2, Zenon DEF Shaped, Compared
  <2> QED BY <1>1, <2>1, <2>2 DEF TypeOK
<1>4. RecordsOK'
  <2>1. job' \in Candidates /\ Shaped(job')
    BY <1>2
  <2> QED BY <1>3, <2>1 DEF RecordsOK, Shaped, Compared
<1> QED BY <1>1, <1>2, <1>4, ConstantsAssumption DEF TypeOK

LEMMA PrepareWorker == ASSUME WorkerInv, Prepare PROVE WorkerInv'
<1> USE DEF WorkerInv, Prepare, disk
<1>1. /\ RecordsOK' /\ txs' \in Seq(Manifest)
      /\ Len(txs') <= MaxTx /\ Len(txs') = Len(txs) + 1
  BY AppendKeeps DEF RecordsOK
<1>2. /\ txs'[tx'].files = job.files
      /\ txs'[tx'].before = job.before
      /\ txs'[tx'].after = job.after
      /\ txs'[tx'].status = "prepared"
      /\ tx' \in 1..Len(txs') /\ tx' # 0
  BY <1>1, ManifestAdded DEF TypeOK
<1>3. TypeOK'
  BY <1>1, <1>2, ThenDomain DEF TypeOK, Working, Steps, StopSteps
<1>4. Place'
  BY <1>2, TxStepsAre DEF Place, ApplySteps, WriteSteps, DownSteps
<1>5. Tracked(txs[tx])'
  BY <1>2 DEF Untouched, Is, Tracked, Compared
<1> QED BY <1>1, <1>3, <1>4, <1>5

LEMMA PrepareFailsWorker == ASSUME WorkerInv, PrepareFails PROVE WorkerInv'
<1> USE DEF WorkerInv, PrepareFails, disk, worker, Trouble
<1>1. tx = 0 /\ ~armed /\ job # NoJob
  BY DEF Place
<1>2. troubles' \in Nat
  BY DEF RecordsOK
<1>3. /\ RecordsOK' /\ txs' \in Seq(Manifest)
      /\ Len(txs') <= MaxTx /\ Len(txs') \in {Len(txs), Len(txs) + 1}
  BY <1>2, AppendKeeps, RecordsKept DEF TypeOK
<1>4. TypeOK'
  BY <1>1, <1>3, ThenDomain DEF TypeOK, Working, Steps
<1>5. Place'
  BY <1>1, TxStepsAre DEF Place, ApplySteps, WriteSteps, DownSteps
<1> QED BY <1>1, <1>3, <1>4, <1>5

LEMMA CheckRestoreWorker == ASSUME WorkerInv, CheckRestore PROVE WorkerInv'
<1> USE DEF WorkerInv, CheckRestore, CheckBackup, worker, Checked
<1>1. tx # 0 /\ pc' \in {"rsMark", "rsAbort"} /\ late' \subseteq late
  BY TxStepsAre DEF Place
<1>2. TypeOK'
  BY <1>1 DEF TypeOK, Working, Steps, StatusSteps, StartSteps
<1>3. RecordsOK'
  BY RecordsKept DEF RecordsOK
<1>4. Place'
  BY <1>1, TxStepsAre DEF Place, ApplySteps, WriteSteps, DownSteps
<1>5. Tracked(txs[tx])'
  BY <1>1 DEF Tracked, Compared, RestoreCheck
<1> QED BY <1>1, <1>2, <1>3, <1>4, <1>5

LEMMA CheckRollbackWorker == ASSUME WorkerInv, CheckRollback PROVE WorkerInv'
<1> USE DEF WorkerInv, CheckRollback, CheckBackup, Checked
<1>1. tx # 0 /\ tx \in 1..Len(txs) /\ pc' \in {"rbWrite", "rbGiveUp"} /\ late' \subseteq late
  <2>1. pc \in TxSteps
    BY TxStepsAre
  <2>2. tx # 0 /\ tx \in 1..Len(txs)
    BY <2>1 DEF Place, TypeOK
  <2>3. pc' \in {"rbWrite", "rbGiveUp"} /\ late' \subseteq late
    OBVIOUS
  <2> QED BY <2>2, <2>3
<1>2. /\ left' = IF pc' = "rbWrite" THEN txs[tx].files ELSE << >>
      /\ txs[tx].files \in Seq(Files)
  BY <1>1, ManifestAt
<1>3. TypeOK'
  <2>1. left' \in Seq(Files)
    BY <1>2
  <2>2. pc' \in Steps /\ Working'
    BY <1>1 DEF Working, Steps, StatusSteps, WriteSteps
  <2> QED BY <1>1, <2>1, <2>2 DEF TypeOK
<1>4. RecordsOK'
  BY RecordsKept DEF RecordsOK
<1>5. Place'
  BY <1>1, <1>2, TxStepsAre DEF Place, ApplySteps, WriteSteps, DownSteps
<1>6. Tracked(txs[tx])'
  BY <1>1 DEF Tracked, Compared, RestoreCheck
<1> QED BY <1>1, <1>3, <1>4, <1>5, <1>6

LEMMA RollbackWorker == ASSUME WorkerInv, Rollback PROVE WorkerInv'
<1> USE DEF WorkerInv, Rollback, disk
<1>1. tx # 0 /\ pc' \in {"end", "rbStop"} /\ tx' \in {0, tx}
  BY TxStepsAre DEF Place
<1>2. TypeOK'
  <2>1. pc' \in Steps /\ Working' /\ (pc' = "rbStop" => tx' # 0) /\ tx' \in 0..Len(txs')
    BY <1>1 DEF Working, Steps, StopSteps, TypeOK
  <2>2. armed' \in BOOLEAN /\ (pc' \in DOMAIN Then => tx' # 0)
    BY <1>1, <2>1, ThenDomain DEF TypeOK
  <2> QED BY <2>1, <2>2 DEF TypeOK
<1>3. Place'
  <2>1. CASE pc' = "end"
    BY <2>1, <1>1, PlaceAtRest
  <2>2. CASE pc' = "rbStop"
    BY <2>2, TxStepsAre DEF Place, ApplySteps, WriteSteps, DownSteps
  <2> QED BY <1>1, <2>1, <2>2
<1> QED BY <1>1, <1>2, <1>3, CommandKeeps DEF RecordsOK

LEMMA ExitWorker == ASSUME WorkerInv, Exit PROVE WorkerInv'
<1> USE DEF WorkerInv, Exit, disk
<1>1. pc' \in {"end", "rollback"} /\ (pc' = "rollback" => tx # 0)
  OBVIOUS
<1>2. stage' \in {"job_cleanup", "cleanup"}
  BY DEF TypeOK, NextStage
<1>3. TypeOK'
  BY <1>1, <1>2, ThenDomain DEF TypeOK, Working, Steps
<1>4. Place'
  BY <1>1, PlaceAtRest
<1> QED BY <1>1, <1>3, <1>4, CommandKeeps DEF RecordsOK

LEMMA TermWorker == ASSUME WorkerInv, Term PROVE WorkerInv'
<1> USE DEF WorkerInv, Term, disk, Trouble
<1>1. TypeOK'
  <2>1. left' \in Seq(Files)
    OBVIOUS
  <2>2. pc' \in Steps /\ Working' /\ pc' \notin DOMAIN Then
    BY ThenDomain DEF Working, Steps
  <2> QED BY <2>1, <2>2 DEF TypeOK
<1>2. Place'
  BY PlaceAtRest DEF Working
<1> QED BY <1>1, <1>2, CommandKeeps DEF RecordsOK

LEMMA EditWorker ==
  ASSUME WorkerInv, NEW f \in Files, NEW c \in Contents, Edit(f, c)
  PROVE  WorkerInv'
<1> USE DEF WorkerInv, Edit, worker, Trouble
<1>1. TypeOK'
  BY DEF TypeOK, Working
<1>2. RecordsOK'
  BY RecordsKept DEF RecordsOK
<1>3. Place'
  BY DEF Place
<1>4. (tx # 0 => Tracked(txs[tx]))'
  BY DEF Tracked, Compared, TypeOK
<1>5. (pc = "prepare" => Untouched(job))'
  BY DEF Untouched, Is, Compared, Known, TypeOK, Place
<1> QED BY <1>1, <1>2, <1>3, <1>4, <1>5

LEMMA StartByHandWorker == ASSUME WorkerInv, StartByHand PROVE WorkerInv'
<1> USE DEF WorkerInv, StartByHand, disk, worker
<1>1. TypeOK'
  BY DEF TypeOK, Working
<1>2. Place'
  BY DEF Place, Working, DownSteps
<1>3. pc # "prepare"
  BY DEF Working
<1> QED BY <1>1, <1>2, <1>3, CommandKeeps DEF RecordsOK

LEMMA WorkerStep == ASSUME WorkerInv, [Next]_vars PROVE WorkerInv'
<1>1. CASE UNCHANGED vars
  <2>1. UNCHANGED <<file, late, service, txs, job, tx, armed, stage, left, pc, troubles>>
    BY <1>1 DEF vars, disk, worker
  <2>2. TypeOK'
    BY <2>1 DEF WorkerInv, TypeOK, Working
  <2>3. RecordsOK'
    BY <2>1, RecordsKept DEF WorkerInv, RecordsOK
  <2>4. Place'
    BY <2>1 DEF WorkerInv, Place
  <2>5. (tx # 0 => Tracked(txs[tx]))'
    BY <2>1 DEF WorkerInv, Tracked, Compared
  <2>6. (pc = "prepare" => Untouched(job))'
    BY <2>1 DEF WorkerInv, Untouched, Is, Compared
  <2> QED BY <2>2, <2>3, <2>4, <2>5, <2>6 DEF WorkerInv
<1>2. CASE Menu
  BY <1>2, BuildCandidateWorker, ChooseBackupWorker, SubmitWorker, CancelWorker DEF Menu
<1>3. CASE Succeeds
  <2>1. CASE Quit
    BY <2>1, ResetWorker DEF Quit, WorkerInv, RecordsOK
  <2> QED BY <1>3, <2>1, VerifyWorker, SetStatusWorker, WriteFileWorker, WrittenWorker,
             StopServiceWorker, StartServiceWorker, CheckDriftWorker, PrepareWorker,
             CheckRestoreWorker, CheckRollbackWorker, RollbackWorker, ExitWorker
          DEF Succeeds
<1>4. CASE Fails
  BY <1>4, VerifyFailsWorker, SetStatusFailsWorker, WriteFileFailsWorker,
     StopServiceFailsWorker, StartServiceWorker, CheckDriftFailsWorker, PrepareFailsWorker
  DEF Fails
<1>5. CASE Kill
  BY <1>5, ResetWorker DEF Kill, Trouble, WorkerInv, RecordsOK
<1>6. CASE Admin
  BY <1>6, EditWorker, StartByHandWorker DEF Admin
<1> QED BY <1>1, <1>2, <1>3, <1>4, <1>5, <1>6, TermWorker DEF Next

LEMMA WorkerCorrect == Spec => []WorkerInv
BY InitWorker, WorkerStep, PTL DEF Spec

(* Every variable keeps its type, and a step that works on a transaction   *)
(* has one: no tx_status, copy or rollback runs with an empty TX_DIR.      *)
THEOREM TypeCorrect == Spec => []TypeOK
<1>1. WorkerInv => TypeOK
  BY DEF WorkerInv
<1> QED BY <1>1, WorkerCorrect, PTL

LEMMA FilesMove ==
  ASSUME WorkerInv, [Next]_vars
  PROVE  \/ UNCHANGED file
         \/ /\ pc \in WriteSteps /\ left # << >> /\ Replace(Head(left))
            /\ UNCHANGED late
         \/ \E f \in Files, c \in Contents : Edit(f, c)
<1>1. CASE UNCHANGED vars
  BY <1>1 DEF vars, disk
<1>2. CASE Menu
  BY <1>2 DEF Menu, BuildCandidate, ChooseBackup, Submit, Cancel, disk
<1>3. CASE Succeeds
  BY <1>3 DEF Succeeds, Verify, SetStatus, WriteFile, Written, StopService, StartService,
              CheckDrift, Prepare, CheckRestore, CheckRollback, Rollback, Exit, Quit, disk
<1>4. CASE Fails
  BY <1>4 DEF Fails, VerifyFails, SetStatusFails, WriteFileFails, StopServiceFails,
              StartServiceFails, CheckDriftFails, PrepareFails, disk
<1>5. CASE Term \/ Kill
  BY <1>5 DEF Term, Kill, disk
<1>6. CASE Admin
  BY <1>6 DEF Admin, StartByHand, disk
<1> QED BY <1>1, <1>2, <1>3, <1>4, <1>5, <1>6 DEF Next

(* The worker never overwrites an edit made before check_drift or          *)
(* restore_check last compared the file: it finds a version of its own in  *)
(* every file it replaces.  This holds whichever backup is restored.       *)
THEOREM EditsSurvive == Spec => EditsKept
<1> DEFINE Kept ==
      \A f \in Files :
        file'[f] # file[f] /\ f \notin late' =>
          file[f] \in {txs[tx].before[f], txs[tx].after[f]}
<1>1. ASSUME WorkerInv, [Next]_vars PROVE Kept
  <2> SUFFICES ASSUME NEW f \in Files, file'[f] # file[f], f \notin late'
               PROVE  file[f] \in {txs[tx].before[f], txs[tx].after[f]}
    OBVIOUS
  <2>1. CASE UNCHANGED file
    BY <2>1
  <2>2. CASE \E g \in Files, c \in Contents : Edit(g, c)
    BY <1>1, <2>2 DEF Edit, WorkerInv, TypeOK
  <2>3. CASE pc \in WriteSteps /\ left # << >> /\ Replace(Head(left)) /\ UNCHANGED late
    <3>1. f = Head(left) /\ f \in Compared(txs[tx]) /\ tx # 0
      BY <1>1, <2>3, ReplaceIs
    <3> QED BY <1>1, <2>3, <3>1 DEF WorkerInv, Tracked
  <2> QED BY <1>1, <2>1, <2>2, <2>3, FilesMove
<1>2. ASSUME WorkerInv, [Next]_vars PROVE [Kept]_vars
  BY <1>1, <1>2
<1> QED BY <1>2, WorkerCorrect, PTL DEF Spec, EditsKept

-----------------------------------------------------------------------------
(* What DiskInv says, in the form its proofs use. *)

LEMMA StatusKinds ==
  ASSUME TypeOK, RecordsOK, NEW i \in 1..Len(txs)
  PROVE  /\ Open(i) => i \in Listed
         /\ Open(i) <=> txs[i].status \notin Closed \cup {"applied"}
         /\ i \in Listed => (Open(i) <=> txs[i].status # "applied")
         /\ txs[i].status = "prepared" => Open(i)
BY ManifestAt DEF Open, Listed, Statuses, Closed, Unfinished

LEMMA UntouchedIsWhole ==
  ASSUME NEW m, Untouched(m) \/ Replaced(m)
  PROVE  ~Half(m)
BY DEF Untouched, Replaced, Is, Half

(* A transaction at work is the only one that may be unfinished. *)
LEMMA OnlyMine ==
  ASSUME Sole, tx # 0, NEW i \in 1..Len(txs), Open(i)
  PROVE  i = tx
BY DEF Sole

-----------------------------------------------------------------------------
(* The steps that change neither files nor manifests *)

(* Nothing is at stake at these steps. *)
Plain(p) == p \notin {"write", "rsWrite", "rbWrite", "check", "start", "commit",
                      "rsDone", "rbDone", "rsStart", "rbStart"}

LEMMA PlainStep ==
  ASSUME Plain(pc)'
  PROVE  Progress' /\ OverAtStart'
BY DEF Plain, Progress, OverAtStart

LEMMA OpenKept ==
  ASSUME OpenInv, UNCHANGED <<file, late, txs>>
  PROVE  OpenInv'
BY DEF OpenInv, Open, Tracked, Untouched, Is, Compared

LEMMA WholeKept ==
  ASSUME NoHalfConfigStarted, UNCHANGED <<file, txs>>,
         service' \in {service, "nobody", "operator", "abort"}
  PROVE  NoHalfConfigStarted'
BY DEF NoHalfConfigStarted, HalfConfig, Half, Compared

LEMMA SoleKept ==
  ASSUME Sole, UNCHANGED txs, tx' \in {0, tx},
         pc' \notin {"menu", "verify", "prepare", "drift"}
  PROVE  Sole'
BY DEF Sole, Open, Listed

(* A step of the worker that is about its own position only. *)
LEMMA QuietDisk ==
  ASSUME DiskInv, UNCHANGED <<file, late, txs>>, tx' \in {0, tx},
         service' \in {service, "nobody", "operator", "abort"},
         pc' \notin {"menu", "verify", "prepare", "drift"},
         Plain(pc)'
  PROVE  DiskInv'
<1>1. Sole'
  BY SoleKept DEF DiskInv
<1>2. OpenInv'
  BY OpenKept DEF DiskInv
<1>3. Progress' /\ OverAtStart'
  BY PlainStep
<1>4. NoHalfConfigStarted'
  BY WholeKept DEF DiskInv
<1> QED BY <1>1, <1>2, <1>3, <1>4 DEF DiskInv

LEMMA InitDisk == Init => DiskInv
<1> SUFFICES ASSUME Init PROVE DiskInv
  OBVIOUS
<1>1. 1..Len(txs) = {} /\ Listed = {} /\ tx = 0 /\ pc = "off" /\ service = "operator"
  BY DEF Init, Listed
<1> QED BY <1>1 DEF DiskInv, Sole, OpenInv, Progress, OverAtStart, NoHalfConfigStarted

LEMMA MenuDisk ==
  ASSUME NewestFirst, WorkerInv, DiskInv, Menu
  PROVE  DiskInv'
<1>1. UNCHANGED <<file, late, txs, tx, service, armed>> /\ pc' \in {"menu", "verify", "off"}
  BY DEF Menu, BuildCandidate, ChooseBackup, Submit, Cancel, disk, worker
<1>2. OpenInv' /\ NoHalfConfigStarted'
  BY <1>1, OpenKept, WholeKept DEF DiskInv
<1>3. Progress' /\ OverAtStart'
  BY <1>1, PlainStep DEF Plain
<1>4. pc' \in {"menu", "verify"} /\ job'.action = "restore" =>
        job'.tx \in Listed /\ \A j \in Listed : j <= job'.tx
  <2>1. CASE \E a \in {"apply", "remove"}, l \in FileLists :
               \E new \in [Range(l) -> Contents] : BuildCandidate(a, l, new)
    BY <2>1 DEF BuildCandidate
  <2>2. CASE \E i \in 1..Len(txs) : ChooseBackup(i)
    BY <2>2 DEF ChooseBackup
  <2>3. CASE Submit
    <3>1. job \in Candidates \/ job \in Restorations
      BY <2>3 DEF WorkerInv, Place, RecordsOK, Submit
    <3>2. job'.action = job.action /\ job'.tx = job.tx
      BY <2>3, <3>1 DEF Submit, Candidates, Restorations
    <3> QED BY <2>3, <3>2 DEF Submit, DiskInv, Sole
  <2>4. CASE Cancel
    BY <2>4 DEF Cancel
  <2> QED BY <2>1, <2>2, <2>3, <2>4 DEF Menu
<1>5. Sole'
  BY <1>1, <1>4 DEF DiskInv, Sole, Open, Listed
<1> QED BY <1>2, <1>3, <1>5 DEF DiskInv

(* The decisions that end in a trap, a rollback or nothing at all. *)
LEMMA DecisionDisk ==
  ASSUME WorkerInv, DiskInv,
         \/ VerifyFails \/ StopServiceFails \/ CheckDriftFails \/ Rollback \/ Exit
         \/ Quit \/ Term \/ Kill
  PROVE  DiskInv'
<1>1. /\ UNCHANGED <<file, late, txs>> /\ tx' \in {0, tx}
      /\ service' \in {service, "nobody"}
      /\ pc' \in {"end", "rollback", "rbStop", "off"}
  <2>1. CASE StopServiceFails
    BY <2>1, ElseIs DEF StopServiceFails, Leave, StopSteps, disk
  <2>2. CASE VerifyFails \/ CheckDriftFails \/ Rollback \/ Exit
    BY <2>2 DEF VerifyFails, CheckDriftFails, Rollback, Exit, disk, worker
  <2>3. CASE Quit \/ Term \/ Kill
    BY <2>3 DEF Quit, Term, Kill, Reset, disk
  <2> QED BY <2>1, <2>2, <2>3
<1> QED BY <1>1, QuietDisk DEF Plain

LEMMA StopServiceDisk == ASSUME WorkerInv, DiskInv, StopService PROVE DiskInv'
<1>1. /\ UNCHANGED <<file, late, txs, tx, armed>> /\ service' = "nobody"
      /\ pc' \in {"drift", "rsCheck", "rbCheck", "rbCancel"}
      /\ pc' = "drift" => pc = "stop"
  BY ThenIs DEF StopService, StopSteps, disk, worker
<1>2. CASE pc' # "drift"
  BY <1>1, <1>2, QuietDisk DEF Plain
<1>3. CASE pc' = "drift"
  <2>1. armed /\ tx # 0
    BY <1>1, <1>3, TxStepsAre DEF WorkerInv, Place
  <2>2. Sole'
    BY <1>1, <1>3, <2>1 DEF DiskInv, Sole, Open, Listed
  <2>3. Progress' /\ OverAtStart'
    BY <1>3, PlainStep DEF Plain
  <2>4. OpenInv' /\ NoHalfConfigStarted'
    BY <1>1, OpenKept, WholeKept DEF DiskInv
  <2> QED BY <2>2, <2>3, <2>4 DEF DiskInv
<1> QED BY <1>2, <1>3

(* At `start` the files are those of the candidate; at the other starts    *)
(* no transaction is unfinished.                                           *)
LEMMA WholeAtStart ==
  ASSUME WorkerInv, DiskInv, pc \in StartSteps \ {"rsAbort"}
  PROVE  ~HalfConfig
<1>1. CASE pc = "start"
  <2>1. Replaced(txs[tx]) /\ tx # 0
    BY <1>1, TxStepsAre DEF DiskInv, Progress, WorkerInv, Place
  <2>2. ~Half(txs[tx])
    BY <2>1, UntouchedIsWhole
  <2> QED BY <2>1, <2>2, OnlyMine DEF HalfConfig, Open, DiskInv
<1>2. CASE pc # "start"
  BY <1>2 DEF StartSteps, DiskInv, OverAtStart, Open, HalfConfig
<1> QED BY <1>1, <1>2

LEMMA StartServiceDisk ==
  ASSUME WorkerInv, DiskInv, StartService \/ StartServiceFails PROVE DiskInv'
<1>1. /\ pc \in StartSteps /\ UNCHANGED <<disk, txs, job, left, stage>>
      /\ service' \in {service, Starter[pc], "nobody"}
      /\ tx' \in {0, tx}
      /\ pc' \in {"commit", "rollback", "end"}
      /\ pc' \in {"commit", "rollback"} => pc = "start" /\ tx' = tx /\ tx # 0
  BY StartIs
<1>2. UNCHANGED <<file, late, txs>>
  BY <1>1 DEF disk
<1>3. Sole' /\ OpenInv'
  BY <1>1, <1>2, SoleKept, OpenKept DEF DiskInv
<1>4. Progress' /\ OverAtStart'
  <2>1. CASE pc' = "commit"
    BY <1>1, <1>2, <2>1 DEF DiskInv, Progress, OverAtStart, Replaced, Is, Compared
  <2>2. CASE pc' # "commit"
    BY <1>1, <2>2, PlainStep DEF Plain
  <2> QED BY <2>1, <2>2
<1>5. NoHalfConfigStarted'
  <2>1. CASE pc = "rsAbort"
    BY <1>1, <1>2, <2>1, StarterIs, WholeKept DEF DiskInv
  <2>2. CASE pc # "rsAbort"
    <3>1. ~HalfConfig
      BY <1>1, <2>2, WholeAtStart
    <3> QED BY <1>2, <3>1 DEF NoHalfConfigStarted, HalfConfig, Half, Compared
  <2> QED BY <2>1, <2>2
<1> QED BY <1>3, <1>4, <1>5 DEF DiskInv

LEMMA StartByHandDisk == ASSUME WorkerInv, DiskInv, StartByHand PROVE DiskInv'
<1>1. /\ UNCHANGED <<file, late, txs, tx, armed, job, pc>> /\ service' = "operator"
      /\ pc \in {"off", "menu"}
  BY DEF StartByHand, disk, worker, Working
<1>2. Sole'
  BY <1>1 DEF DiskInv, Sole, Open, Listed
<1>3. OpenInv' /\ NoHalfConfigStarted'
  BY <1>1, OpenKept, WholeKept DEF DiskInv
<1>4. Progress' /\ OverAtStart'
  BY <1>1, PlainStep DEF Plain
<1> QED BY <1>2, <1>3, <1>4 DEF DiskInv

-----------------------------------------------------------------------------
(* The comparisons *)

(* A comparison that succeeds leaves every unfinished transaction known.   *)
LEMMA ComparedOpen ==
  ASSUME OpenInv, UNCHANGED <<file, txs>>, late' \subseteq late,
         \A i \in 1..Len(txs) : Open(i) =>
           \A f \in Compared(txs[i]) :
             \/ f \in late' \/ f \notin late
             \/ file[f] \in {txs[i].before[f], txs[i].after[f]},
         TypeOK, RecordsOK
  PROVE  OpenInv'
<1> SUFFICES ASSUME NEW i \in 1..Len(txs)
             PROVE  /\ Open(i) => Tracked(txs[i])'
                    /\ txs[i].status = "prepared" => Untouched(txs[i])'
  BY DEF OpenInv, Open
<1>1. txs[i].status = "prepared" => Open(i)
  BY StatusKinds
<1>2. Open(i) => Tracked(txs[i])'
  BY DEF OpenInv, Tracked, Compared
<1>3. txs[i].status = "prepared" => Untouched(txs[i])'
  BY <1>1 DEF OpenInv, Untouched, Is, Compared
<1> QED BY <1>2, <1>3

LEMMA VerifyDisk ==
  ASSUME WorkerInv, DiskInv, Verify
  PROVE  DiskInv'
<1>1. /\ UNCHANGED <<file, txs, service>> /\ pc' \in {"drift", "rsStop"}
      /\ late' \subseteq late
  BY DEF Verify, Checked
<1>2. TypeOK /\ RecordsOK
  BY DEF WorkerInv
<1>3. Progress' /\ OverAtStart'
  BY <1>1, PlainStep DEF Plain
<1>4. NoHalfConfigStarted'
  BY <1>1, WholeKept DEF DiskInv
<1>5. CASE job.action = "restore"
  <2>1. /\ job.tx \in Listed /\ \A j \in Listed : j <= job.tx
        /\ tx' = job.tx /\ pc' = "rsStop" /\ job' = job
        /\ RestoreCheck(job.tx, Interrupted(job.tx))
        /\ late' = late \ Compared(txs[job.tx])
    BY <1>5 DEF Verify, DiskInv, Sole, Checked
  <2>2. ASSUME NEW i \in 1..Len(txs), Open(i) PROVE i = job.tx
    <3>1. i \in Listed
      BY <1>2, <2>2, StatusKinds
    <3> QED BY <2>1, <2>2, <3>1 DEF DiskInv, Sole, Listed
  <2>3. OpenInv'
    <3>1. \A i \in 1..Len(txs) : Open(i) =>
            \A f \in Compared(txs[i]) :
              file[f] \in {txs[i].before[f], txs[i].after[f]}
      BY <2>1, <2>2 DEF RestoreCheck
    <3> QED BY <1>1, <1>2, <3>1, ComparedOpen DEF DiskInv
  <2>4. Sole'
    BY <1>1, <2>1, <2>2 DEF DiskInv, Sole, Open, Listed
  <2> QED BY <1>3, <1>4, <2>3, <2>4 DEF DiskInv
<1>6. CASE job.action # "restore"
  <2>1. NothingPending /\ UNCHANGED <<late, tx, armed, job>> /\ pc' = "drift"
    BY <1>6 DEF Verify
  <2>2. \A i \in 1..Len(txs) : ~Open(i)
    BY <1>2, <2>1, StatusKinds DEF NothingPending
  <2>3. OpenInv'
    BY <1>1, <2>1, OpenKept DEF DiskInv
  <2>4. Sole'
    BY <1>1, <2>1, <2>2 DEF DiskInv, Sole, Open, Listed
  <2> QED BY <1>3, <1>4, <2>3, <2>4 DEF DiskInv
<1> QED BY <1>5, <1>6

LEMMA CheckDriftDisk == ASSUME WorkerInv, DiskInv, CheckDrift PROVE DiskInv'
<1>1. /\ UNCHANGED <<file, txs, service, tx, armed, job>> /\ pc' \in {"mark", "prepare"}
      /\ pc' = IF armed THEN "mark" ELSE "prepare"
      /\ late' = late \ Compared(job) /\ pc = "drift"
      /\ \A f \in Compared(job) : file[f] = job.before[f]
  BY DEF CheckDrift, Checked, Drifted, worker
<1>2. TypeOK /\ RecordsOK
  BY DEF WorkerInv
<1>3. Progress' /\ OverAtStart'
  BY <1>1, PlainStep DEF Plain
<1>4. NoHalfConfigStarted'
  BY <1>1, WholeKept DEF DiskInv
<1>5. Sole'
  BY <1>1 DEF DiskInv, Sole, Open, Listed
<1>6. ASSUME NEW i \in 1..Len(txs), Open(i), NEW f \in Compared(txs[i])
      PROVE  file[f] \in {txs[i].before[f], txs[i].after[f]}
  <2>1. armed /\ tx # 0
    BY <1>1, <1>6 DEF DiskInv, Sole, WorkerInv, Place
  <2>2. i = tx
    BY <1>6, <2>1, OnlyMine DEF DiskInv
  <2>3. txs[tx].before = job.before
    BY <1>1, <2>1 DEF WorkerInv, Place, ApplySteps
  <2> QED BY <1>1, <1>6, <2>2, <2>3 DEF Compared
<1>7. OpenInv'
  BY <1>1, <1>2, <1>6, ComparedOpen DEF DiskInv
<1> QED BY <1>3, <1>4, <1>5, <1>7 DEF DiskInv

LEMMA CheckBackupDisk ==
  ASSUME WorkerInv, DiskInv, CheckRestore \/ CheckRollback PROVE DiskInv'
<1>1. /\ UNCHANGED <<file, txs, service, tx, armed, job>> /\ tx # 0
      /\ pc' \in {"rsMark", "rsAbort", "rbWrite", "rbGiveUp"}
      /\ pc' = "rbWrite" => left' = txs[tx].files
      /\ \/ late' = late
         \/ /\ late' = late \ Compared(txs[tx])
            /\ RestoreCheck(tx, TRUE)
  <2>1. tx # 0
    BY TxStepsAre DEF CheckRestore, CheckRollback, WorkerInv, Place
  <2>2. CASE CheckRestore
    BY <2>1, <2>2 DEF CheckRestore, CheckBackup, Checked, worker, RestoreCheck
  <2>3. CASE CheckRollback
    BY <2>1, <2>3 DEF CheckRollback, CheckBackup, Checked, RestoreCheck
  <2> QED BY <2>2, <2>3
<1>2. TypeOK /\ RecordsOK
  BY DEF WorkerInv
<1>3. Progress' /\ OverAtStart'
  BY <1>1 DEF Progress, OverAtStart
<1>4. NoHalfConfigStarted'
  BY <1>1, WholeKept DEF DiskInv
<1>5. Sole'
  BY <1>1, SoleKept DEF DiskInv
<1>6. OpenInv'
  <2>1. CASE late' = late
    BY <1>1, <2>1, OpenKept DEF DiskInv
  <2>2. CASE late' # late
    <3>1. \A i \in 1..Len(txs) : Open(i) => i = tx
      BY <1>1, OnlyMine DEF DiskInv
    <3>2. \A i \in 1..Len(txs) : Open(i) =>
            \A f \in Compared(txs[i]) :
              file[f] \in {txs[i].before[f], txs[i].after[f]}
      BY <1>1, <2>2, <3>1 DEF RestoreCheck
    <3> QED BY <1>1, <1>2, <2>2, <3>2, ComparedOpen DEF DiskInv
  <2> QED BY <2>1, <2>2
<1> QED BY <1>3, <1>4, <1>5, <1>6 DEF DiskInv

-----------------------------------------------------------------------------
(* The steps that write a status, a file or a manifest *)

(* A status that is written belongs to the transaction at work. *)
LEMMA StatusDisk ==
  ASSUME WorkerInv, DiskInv, StatusStep, tx \in 1..Len(txs),
         txs'[tx].status \in {txs[tx].status, NewStatus[pc]},
         pc = "commit" \/ service = "nobody",
         pc' \notin {"menu", "verify", "prepare", "drift"}
  PROVE  Sole' /\ OpenInv' /\ NoHalfConfigStarted'
<1> USE DEF StatusStep, SameManifests, disk
<1>1. NewStatus[pc] # "prepared" /\ NewStatus["commit"] = "applied"
  BY NewStatusIs DEF StatusSteps
<1>2. tx # 0 /\ \A j \in 1..Len(txs) \ {tx} : ~Open(j) /\ (j \in Listed => j < tx)
  BY DEF DiskInv, Sole
<1>3. \A j \in 1..Len(txs) \ {tx} : ~Open(j)' /\ (j \in Listed' => j < tx)
  BY <1>2 DEF Open, Listed
<1>4. Sole'
  BY <1>2, <1>3 DEF Sole, Open, Listed
<1>5. OpenInv'
  <2>1. ASSUME NEW i \in 1..Len(txs')
        PROVE  /\ Open(i)' => Tracked(txs[i])'
               /\ txs'[i].status = "prepared" => Untouched(txs[i])'
    <3>1. i \in 1..Len(txs)
      OBVIOUS
    <3>2. CASE i # tx
      <4>1. ~Open(i)' /\ txs'[i].status # "prepared"
        BY <1>3, <3>1, <3>2 DEF Open, Unfinished
      <4> QED BY <4>1
    <3>3. CASE i = tx
      <4>1. Tracked(txs[i])
        BY <1>2, <3>3 DEF WorkerInv
      <4>2. Tracked(txs[i])'
        BY <3>1, <4>1 DEF Tracked, Compared
      <4>3. txs'[i].status = "prepared" => Untouched(txs[i])
        BY <1>1, <3>1, <3>3 DEF DiskInv, OpenInv
      <4>4. txs'[i].status = "prepared" => Untouched(txs[i])'
        BY <3>1, <4>3 DEF Untouched, Is, Compared
      <4> QED BY <4>2, <4>4
    <3> QED BY <3>2, <3>3
  <2> QED BY <2>1 DEF OpenInv
<1>6. NoHalfConfigStarted'
  <2>1. CASE service = "nobody"
    BY <2>1 DEF NoHalfConfigStarted
  <2>2. CASE pc = "commit"
    <3>1. \A i \in 1..Len(txs) : Open(i)' => Open(i)
      BY <1>1, <1>3, <2>2 DEF Open, Unfinished
    <3>2. \A i \in 1..Len(txs) : Half(txs[i])' => Half(txs[i])
      BY DEF Half, Compared
    <3>3. HalfConfig' => HalfConfig
      BY <3>1, <3>2 DEF HalfConfig, Open
    <3> QED BY <3>3 DEF NoHalfConfigStarted, DiskInv
  <2> QED BY <2>1, <2>2
<1> QED BY <1>4, <1>5, <1>6

LEMMA OnlyCommitIsUp ==
  ASSUME WorkerInv, pc \in StatusSteps
  PROVE  pc = "commit" \/ service = "nobody"
BY DEF StatusSteps, WorkerInv, Place, DownSteps

LEMMA SetStatusDisk == ASSUME WorkerInv, DiskInv, SetStatus PROVE DiskInv'
<1>1. StatusStep /\ tx \in 1..Len(txs) /\ txs'[tx].status = NewStatus[pc]
  BY SetStatusIsStep
<1>2. /\ pc' = Then[pc]
      /\ pc \in {"mark", "rsMark"} => left' = txs[tx].files
      /\ tx' = IF pc \in Forgets THEN 0 ELSE tx
  BY DEF SetStatus, Leave
<1>3. pc \in StatusSteps /\ pc' \in {"write", "start", "end", "rsWrite", "rsStart", "rbStart"}
  BY <1>1, <1>2, ThenIs DEF StatusStep, StatusSteps
<1>4. Sole' /\ OpenInv' /\ NoHalfConfigStarted'
  BY <1>1, <1>3, OnlyCommitIsUp, StatusDisk
<1>5. Progress'
  <2>1. CASE pc \in {"mark", "rsMark"}
    BY <1>1, <1>2, <2>1, ThenIs DEF Progress, StatusStep, SameManifests, Forgets
  <2>2. CASE pc = "check"
    <3>1. pc' = "start" /\ tx' = tx
      BY <1>2, <2>2, ThenIs DEF Forgets
    <3>2. Replaced(txs[tx])
      BY <2>2 DEF DiskInv, Progress
    <3>3. Replaced(txs[tx])'
      BY <1>1, <3>1, <3>2 DEF StatusStep, SameManifests, Replaced, Is, Compared, disk
    <3> QED BY <3>1, <3>3 DEF Progress
  <2>3. CASE pc \notin {"mark", "rsMark", "check"}
    BY <1>2, <1>3, <2>3, ThenIs DEF Progress, StatusSteps
  <2> QED BY <2>1, <2>2, <2>3
<1>6. OverAtStart'
  <2> SUFFICES ASSUME pc' \in {"rsStart", "rbStart"}, NEW i \in 1..Len(txs')
               PROVE  ~Open(i)'
    BY DEF OverAtStart
  <2>1. pc \in {"rsDone", "rbCancel", "rbDone"}
    BY <1>2, <1>3, ThenIs DEF StatusSteps
  <2>2. txs'[tx].status \in Closed
    BY <1>1, <2>1, NewStatusIs DEF Closed
  <2>3. i \in 1..Len(txs) /\ (i # tx => txs'[i].status = txs[i].status)
    BY <1>1 DEF StatusStep, SameManifests
  <2>4. i # tx => ~Open(i)
    BY <1>1, <2>3, OnlyMine DEF DiskInv
  <2> QED BY <2>2, <2>3, <2>4 DEF Open, Closed, Unfinished
<1> QED BY <1>4, <1>5, <1>6 DEF DiskInv

LEMMA SetStatusFailsDisk == ASSUME WorkerInv, DiskInv, SetStatusFails PROVE DiskInv'
<1>1. /\ StatusStep /\ tx \in 1..Len(txs)
      /\ txs'[tx].status \in {txs[tx].status, NewStatus[pc]}
  BY SetStatusFailsIsStep
<1>2. pc \in StatusSteps /\ pc' \in {"rollback", "rsGiveUp", "rbGiveUp", "end"}
  BY ElseIs DEF SetStatusFails, StatusSteps
<1>3. Sole' /\ OpenInv' /\ NoHalfConfigStarted'
  BY <1>1, <1>2, OnlyCommitIsUp, StatusDisk
<1>4. Progress' /\ OverAtStart'
  BY <1>2, PlainStep DEF Plain
<1> QED BY <1>3, <1>4 DEF DiskInv

(* A file that is written is one of the transaction at work, with V2bX     *)
(* stopped and the manifest past `prepared`.                               *)
LEMMA WriteDisk ==
  ASSUME WorkerInv, WorkerInv', DiskInv, pc \in WriteSteps,
         UNCHANGED <<late, service, txs, tx>>,
         pc' \notin {"menu", "verify", "prepare", "drift"}
  PROVE  Sole' /\ OpenInv' /\ NoHalfConfigStarted'
<1>1. tx # 0 /\ tx \in 1..Len(txs)
  BY TxStepsAre DEF WriteSteps, WorkerInv, Place, TypeOK
<1>2. service = "nobody" /\ txs[tx].status # "prepared"
  BY DEF WriteSteps, WorkerInv, Place, DownSteps
<1>3. \A i \in 1..Len(txs) : Open(i) => i = tx
  BY <1>1, OnlyMine DEF DiskInv
<1>4. Sole'
  BY SoleKept DEF DiskInv
<1>5. Tracked(txs[tx])'
  BY <1>1 DEF WorkerInv
<1>6. \A i \in 1..Len(txs) : txs[i].status # "prepared"
  BY <1>2, <1>3, StatusKinds DEF WorkerInv
<1>7. OpenInv'
  BY <1>3, <1>5, <1>6 DEF OpenInv, Open
<1>8. NoHalfConfigStarted'
  BY <1>2 DEF NoHalfConfigStarted
<1> QED BY <1>4, <1>7, <1>8

LEMMA WriteFileDisk ==
  ASSUME WorkerInv, WorkerInv', DiskInv, WriteFile PROVE DiskInv'
<1>1. /\ pc \in WriteSteps /\ left # << >> /\ Replace(Head(left))
      /\ left' = Tail(left) /\ UNCHANGED <<late, service, txs, tx, pc>>
  BY DEF WriteFile
<1>2. Sole' /\ OpenInv' /\ NoHalfConfigStarted'
  BY <1>1, WriteDisk DEF WriteSteps
<1>3. Progress'
  <2> DEFINE t == txs[tx]
  <2>1. tx \in 1..Len(txs) /\ Range(t.files) \subseteq Files
    BY <1>1, ReplaceIs, ManifestAt DEF WorkerInv, Compared
  <2>2. CASE pc = "write"
    <3>1. ASSUME NEW f \in Range(t.files) \ Range(Tail(left)) PROVE Is(t, f, t.after)'
      <4>1. CASE f = Head(left)
        BY <1>1, <2>2, <4>1, ReplaceIs DEF Is
      <4>2. CASE f # Head(left)
        <5>1. f \notin Range(left) /\ file'[f] = file[f]
          BY <1>1, <2>1, <3>1, <4>2, ReplaceIs
        <5>2. Is(t, f, t.after)
          BY <2>2, <3>1, <5>1 DEF DiskInv, Progress
        <5> QED BY <1>1, <5>1, <5>2 DEF Is
      <4> QED BY <4>1, <4>2
    <3> QED BY <1>1, <2>2, <3>1 DEF Progress
  <2>3. CASE pc \in {"rsWrite", "rbWrite"}
    <3>1. ASSUME NEW f \in Range(t.files) \ Range(Tail(left)) PROVE Is(t, f, t.before)'
      <4>1. CASE f = Head(left)
        BY <1>1, <2>3, <4>1, ReplaceIs DEF Is
      <4>2. CASE f # Head(left)
        <5>1. f \notin Range(left) /\ file'[f] = file[f]
          BY <1>1, <2>1, <3>1, <4>2, ReplaceIs
        <5>2. Is(t, f, t.before)
          BY <2>3, <3>1, <5>1 DEF DiskInv, Progress
        <5> QED BY <1>1, <5>1, <5>2 DEF Is
      <4> QED BY <4>1, <4>2
    <3> QED BY <1>1, <2>3, <3>1 DEF Progress
  <2> QED BY <1>1, <2>2, <2>3 DEF WriteSteps
<1>4. OverAtStart'
  BY <1>1 DEF OverAtStart, WriteSteps
<1> QED BY <1>2, <1>3, <1>4 DEF DiskInv

LEMMA WriteFileFailsDisk ==
  ASSUME WorkerInv, WorkerInv', DiskInv, WriteFileFails PROVE DiskInv'
<1>1. /\ pc \in WriteSteps /\ UNCHANGED <<late, service, txs, tx>>
      /\ pc' \in {"rollback", "rsGiveUp", "rbGiveUp"}
  BY ElseIs DEF WriteFileFails, WriteSteps
<1>2. Sole' /\ OpenInv' /\ NoHalfConfigStarted'
  BY <1>1, WriteDisk
<1>3. Progress' /\ OverAtStart'
  BY <1>1, PlainStep DEF Plain
<1> QED BY <1>2, <1>3 DEF DiskInv

(* A file outside the list has only one version, which both stand for. *)
LEMMA OneVersion ==
  ASSUME NEW m, Shaped(m), Tracked(m), NEW f \in Compared(m) \ Range(m.files)
  PROVE  Is(m, f, m.before) /\ Is(m, f, m.after)
BY DEF Shaped, Tracked, Is, Compared

LEMMA WrittenDisk == ASSUME WorkerInv, DiskInv, Written PROVE DiskInv'
<1> DEFINE t == txs[tx]
<1>1. /\ pc \in WriteSteps /\ left = << >> /\ pc' = Then[pc]
      /\ UNCHANGED <<file, late, service, txs, tx>>
  BY DEF Written, disk, worker
<1>2. tx # 0 /\ tx \in 1..Len(txs)
  BY <1>1, TxStepsAre DEF WriteSteps, WorkerInv, Place, TypeOK
<1>3. pc' \in {"check", "rsDone", "rbDone"} /\ (pc' = "check" <=> pc = "write")
  BY <1>1, ThenIs DEF WriteSteps
<1>4. Sole' /\ OpenInv' /\ NoHalfConfigStarted'
  BY <1>1, <1>3, SoleKept, OpenKept, WholeKept DEF DiskInv
<1>5. Shaped(t) /\ Tracked(t)
  BY <1>2, ManifestAt DEF WorkerInv
<1>6. Range(left) = {}
  BY <1>1 DEF Range
<1>7. pc = "write" => Replaced(t)
  BY <1>5, <1>6, OneVersion DEF DiskInv, Progress, Replaced
<1>8. pc # "write" => Untouched(t)
  BY <1>1, <1>5, <1>6, OneVersion DEF DiskInv, Progress, Untouched, WriteSteps
<1>9. Replaced(t)' = Replaced(t) /\ Untouched(t)' = Untouched(t)
  BY <1>1 DEF Replaced, Untouched, Is, Compared
<1>10. Progress'
  BY <1>3, <1>7, <1>8, <1>9 DEF Progress
<1>11. OverAtStart'
  BY <1>3 DEF OverAtStart
<1> QED BY <1>4, <1>10, <1>11 DEF DiskInv

(* The new manifest is the only unfinished one, and its files are as it    *)
(* found them.                                                             *)
LEMMA AppendDisk ==
  ASSUME WorkerInv, DiskInv, pc = "prepare", AddManifest,
         UNCHANGED <<file, late, service>>,
         pc' \in {"stop", "end"}, tx' \in {0, Len(txs) + 1}
  PROVE  DiskInv'
<1>1. PICK n : n = Len(txs) + 1
  OBVIOUS
<1>2. n \in Nat /\ \A i \in 1..n : i = n \/ i \in 1..Len(txs)
  BY <1>1 DEF WorkerInv, TypeOK
<1>3. /\ Len(txs') = n
      /\ \A i \in 1..Len(txs) : txs'[i] = txs[i]
      /\ txs'[n].before = job.before
      /\ txs'[n].after = job.after
      /\ txs'[n].status = "prepared"
  BY <1>1, ManifestAdded DEF WorkerInv
<1>4. \A i \in 1..Len(txs) : ~Open(i)' /\ txs'[i].status # "prepared"
  BY <1>3 DEF DiskInv, Sole, Open, Unfinished
<1>5. Listed' \subseteq 1..n /\ \A j \in Listed' : j <= n /\ (j # n => j < n)
  BY <1>2, <1>3 DEF Listed, WorkerInv, TypeOK
<1>6. Sole'
  <2>1. \A i \in 1..n : Open(i)' => i = n
    BY <1>2, <1>4
  <2> QED BY <1>1, <1>3, <1>5, <2>1 DEF Sole
<1>7. Untouched(job)
  BY DEF WorkerInv
<1>8. Untouched(txs[n])' /\ Tracked(txs[n])'
  BY <1>3, <1>7 DEF Untouched, Tracked, Is, Compared
<1>9. OpenInv'
  BY <1>2, <1>3, <1>4, <1>8 DEF OpenInv
<1>10. Progress' /\ OverAtStart'
  BY PlainStep DEF Plain
<1>11. ~HalfConfig'
  <2>1. ~Half(txs[n])'
    BY <1>8, UntouchedIsWhole DEF Untouched, Is, Half, Compared
  <2> QED BY <1>2, <1>3, <1>4, <2>1 DEF HalfConfig, Open
<1> QED BY <1>6, <1>9, <1>10, <1>11 DEF DiskInv, NoHalfConfigStarted

LEMMA PrepareDisk ==
  ASSUME WorkerInv, DiskInv, Prepare \/ PrepareFails PROVE DiskInv'
<1>1. CASE Prepare
  BY <1>1, AppendDisk DEF Prepare, disk
<1>2. CASE PrepareFails
  <2>1. /\ pc = "prepare" /\ pc' = "end" /\ UNCHANGED <<file, late, service, tx>>
        /\ AddManifest \/ UNCHANGED txs
    BY <1>2 DEF PrepareFails, disk, worker
  <2>2. tx' = 0
    BY <2>1 DEF WorkerInv, Place
  <2>3. CASE AddManifest
    BY <2>1, <2>2, <2>3, AppendDisk
  <2>4. CASE UNCHANGED txs
    BY <2>1, <2>2, <2>4, QuietDisk DEF Plain
  <2> QED BY <2>1, <2>3, <2>4
<1> QED BY <1>1, <1>2

(* What an edit leaves is neither version of any manifest. *)
LEMMA EditIs ==
  ASSUME TypeOK, RecordsOK, NEW f \in Files, NEW c \in Contents, Edit(f, c),
         NEW i \in 1..Len(txs), NEW g \in Compared(txs[i])
  PROVE  /\ Is(txs[i], g, txs[i].before) => Is(txs[i], g, txs[i].before)'
         /\ Is(txs[i], g, txs[i].after) => Is(txs[i], g, txs[i].after)'
         /\ file'[g] \in {txs[i].before[g], txs[i].after[g]} => file'[g] = file[g]
<1>1. /\ file' = [file EXCEPT ![f] = c] /\ late' = late \cup {f} /\ txs' = txs
      /\ ~Known(txs[i], f, c)
  BY DEF Edit
<1>2. g \in Files
  BY ManifestAt
<1>3. CASE g = f
  <2>1. file'[g] = c /\ g \in late'
    BY <1>1, <1>2, <1>3 DEF TypeOK
  <2>2. c \notin {txs[i].before[g], txs[i].after[g]}
    BY <1>1, <1>3 DEF Known
  <2> QED BY <1>1, <2>1, <2>2 DEF Is
<1>4. CASE g # f
  <2>1. file'[g] = file[g] /\ (g \in late => g \in late')
    BY <1>1, <1>2, <1>4 DEF TypeOK
  <2> QED BY <1>1, <2>1 DEF Is
<1> QED BY <1>3, <1>4

LEMMA EditDisk ==
  ASSUME WorkerInv, WorkerInv', DiskInv, NEW f \in Files, NEW c \in Contents, Edit(f, c)
  PROVE  DiskInv'
<1>1. /\ UNCHANGED <<service, txs, job, tx, armed, left, pc>>
      /\ file' = [file EXCEPT ![f] = c] /\ late' = late \cup {f}
  BY DEF Edit, worker
<1>2. TypeOK /\ RecordsOK
  BY DEF WorkerInv
<1>3. Sole'
  BY <1>1 DEF DiskInv, Sole, Open, Listed
<1>4. OpenInv'
  <2>1. ASSUME NEW i \in 1..Len(txs), Tracked(txs[i]) PROVE Tracked(txs[i])'
    BY <1>1, <1>2, <2>1, EditIs DEF Tracked, Compared, TypeOK
  <2>2. ASSUME NEW i \in 1..Len(txs), Untouched(txs[i]) PROVE Untouched(txs[i])'
    <3>1. \A g \in Compared(txs[i]) : Is(txs[i], g, txs[i].before)'
      BY <1>2, <2>2, EditIs DEF Untouched
    <3> QED BY <1>1, <3>1 DEF Untouched, Compared
  <2> QED BY <1>1, <2>1, <2>2 DEF DiskInv, OpenInv, Open
<1>5. PICK k : k = tx
  OBVIOUS
<1>6. ASSUME pc \in WriteSteps \cup {"check", "start", "commit", "rsDone", "rbDone"}
      PROVE  k \in 1..Len(txs) /\ Range(txs[k].files) \subseteq Compared(txs[k])
  <2>1. k \in 1..Len(txs)
    BY <1>6, <1>5, TxStepsAre DEF WriteSteps, WorkerInv, Place, TypeOK
  <2> QED BY <1>2, <2>1, ManifestAt
<1>7. Progress'
  <2>1. CASE pc = "write"
    <3>1. \A g \in Range(txs[k].files) \ Range(left) : Is(txs[k], g, txs[k].after)'
      BY <1>2, <1>6, <1>5, <2>1, EditIs DEF DiskInv, Progress, WriteSteps
    <3> QED BY <1>1, <1>5, <2>1, <3>1 DEF Progress
  <2>2. CASE pc \in {"rsWrite", "rbWrite"}
    <3>1. \A g \in Range(txs[k].files) \ Range(left) : Is(txs[k], g, txs[k].before)'
      BY <1>2, <1>6, <1>5, <2>2, EditIs DEF DiskInv, Progress, WriteSteps
    <3> QED BY <1>1, <1>5, <2>2, <3>1 DEF Progress
  <2>3. CASE pc \in {"check", "start", "commit"}
    <3>1. \A g \in Compared(txs[k]) : Is(txs[k], g, txs[k].after)'
      BY <1>2, <1>6, <1>5, <2>3, EditIs DEF DiskInv, Progress, Replaced
    <3> QED BY <1>1, <1>5, <2>3, <3>1 DEF Progress, Replaced, Compared
  <2>4. CASE pc \in {"rsDone", "rbDone"}
    <3>1. \A g \in Compared(txs[k]) : Is(txs[k], g, txs[k].before)'
      BY <1>2, <1>6, <1>5, <2>4, EditIs DEF DiskInv, Progress, Untouched
    <3> QED BY <1>1, <1>5, <2>4, <3>1 DEF Progress, Untouched, Compared
  <2>5. CASE pc \notin {"write", "rsWrite", "rbWrite", "check", "start", "commit",
                        "rsDone", "rbDone"}
    BY <1>1, <1>5, <2>5 DEF Progress
  <2> QED BY <2>1, <2>2, <2>3, <2>4, <2>5
<1>8. OverAtStart'
  BY <1>1 DEF DiskInv, OverAtStart, Open
<1>9. NoHalfConfigStarted'
  <2>1. ASSUME NEW i \in 1..Len(txs), Half(txs[i])' PROVE Half(txs[i])
    <3>1. \A g \in Compared(txs[i]) :
            file'[g] \in {txs[i].before[g], txs[i].after[g]} => file'[g] = file[g]
      BY <1>2, EditIs
    <3> QED BY <1>1, <2>1, <3>1 DEF Half, Compared
  <2>2. HalfConfig' => HalfConfig
    BY <1>1, <2>1 DEF HalfConfig
  <2> QED BY <1>1, <2>2 DEF DiskInv, NoHalfConfigStarted
<1> QED BY <1>3, <1>4, <1>7, <1>8, <1>9 DEF DiskInv

LEMMA DiskStep ==
  ASSUME NewestFirst, WorkerInv, WorkerInv', DiskInv, [Next]_vars
  PROVE  DiskInv'
<1>1. CASE UNCHANGED vars
  <2>1. UNCHANGED <<file, late, service, txs, job, tx, armed, left, pc>>
    BY <1>1 DEF vars, disk, worker
  <2>2. Sole'
    BY <2>1 DEF DiskInv, Sole, Open, Listed
  <2>3. OpenInv' /\ NoHalfConfigStarted'
    BY <2>1, OpenKept, WholeKept DEF DiskInv
  <2>4. Progress'
    BY <2>1 DEF DiskInv, Progress, Replaced, Untouched, Is, Compared
  <2>5. OverAtStart'
    BY <2>1 DEF DiskInv, OverAtStart, Open
  <2> QED BY <2>2, <2>3, <2>4, <2>5 DEF DiskInv
<1>2. CASE Menu
  BY <1>2, MenuDisk
<1>3. CASE Succeeds
  BY <1>3, VerifyDisk, SetStatusDisk, WriteFileDisk, WrittenDisk, StopServiceDisk,
     StartServiceDisk, CheckDriftDisk, PrepareDisk, CheckBackupDisk, DecisionDisk
  DEF Succeeds
<1>4. CASE Fails
  BY <1>4, DecisionDisk, SetStatusFailsDisk, WriteFileFailsDisk, StartServiceDisk,
     PrepareDisk
  DEF Fails
<1>5. CASE Term \/ Kill
  BY <1>5, DecisionDisk
<1>6. CASE Admin
  BY <1>6, EditDisk, StartByHandDisk DEF Admin
<1> QED BY <1>1, <1>2, <1>3, <1>4, <1>5, <1>6 DEF Next

LEMMA DiskCorrect == ASSUME NewestFirst PROVE Spec => [](WorkerInv /\ DiskInv)
<1>1. ASSUME WorkerInv /\ DiskInv, [Next]_vars PROVE (WorkerInv /\ DiskInv)'
  BY <1>1, WorkerStep, DiskStep
<1> QED BY <1>1, InitWorker, InitDisk, PTL DEF Spec

(* Apply, rollback and restore never start V2bX on files of which an       *)
(* unfinished transaction has replaced only some, whatever commands fail,  *)
(* whoever is killed and whatever is edited, as long as the restore menu   *)
(* is answered with the newest backup.                                     *)
THEOREM NoHalfStart == ASSUME NewestFirst PROVE Spec => []NoHalfConfigStarted
<1>1. DiskInv => NoHalfConfigStarted
  BY DEF DiskInv
<1> QED BY <1>1, DiskCorrect, PTL

(* What a killed or failed worker leaves can be restored: restore_check    *)
(* accepts every unfinished transaction whose files nobody has edited      *)
(* since they were last compared, as long as older backups are not         *)
(* restored over it.                                                       *)
THEOREM InterruptedRestorable ==
  ASSUME NewestFirst PROVE Spec => []InterruptedIsRestorable
<1>1. DiskInv => InterruptedIsRestorable
  BY DEF DiskInv, OpenInv, Open, Tracked, InterruptedIsRestorable, RestoreCheck, Compared
<1> QED BY <1>1, DiskCorrect, PTL

(* Only tx_status changes a status, and only that of its own manifest. *)
LEMMA StatusMoves ==
  ASSUME WorkerInv, [Next]_vars, NEW i \in 1..Len(txs),
         txs'[i].status # txs[i].status
  PROVE  i = tx /\ pc \in StatusSteps /\ txs'[i].status = NewStatus[pc]
<1>1. CASE UNCHANGED txs
  BY <1>1
<1>2. CASE SetStatus
  BY <1>2, SetStatusIsStep DEF StatusStep, SameManifests
<1>3. CASE SetStatusFails
  BY <1>3, SetStatusFailsIsStep DEF StatusStep, SameManifests
<1>4. CASE pc = "prepare" /\ AddManifest
  BY <1>4, ManifestAdded DEF WorkerInv
<1>5. UNCHANGED txs \/ SetStatus \/ SetStatusFails \/ (pc = "prepare" /\ AddManifest)
  <2>1. CASE UNCHANGED vars
    BY <2>1 DEF vars
  <2>2. CASE Menu
    BY <2>2 DEF Menu, BuildCandidate, ChooseBackup, Submit, Cancel
  <2>3. CASE Succeeds
    BY <2>3 DEF Succeeds, Verify, WriteFile, Written, StopService, StartService,
                CheckDrift, Prepare, CheckRestore, CheckRollback, Rollback, Exit, Quit
  <2>4. CASE Fails
    BY <2>4 DEF Fails, VerifyFails, WriteFileFails, StopServiceFails,
                StartServiceFails, CheckDriftFails, PrepareFails
  <2>5. CASE Term \/ Kill \/ Admin
    BY <2>5 DEF Term, Kill, Admin, Edit, StartByHand
  <2> QED BY <2>1, <2>2, <2>3, <2>4, <2>5 DEF Next
<1> QED BY <1>1, <1>2, <1>3, <1>4, <1>5

(* A manifest never lies: when its status becomes `applied` the files are  *)
(* the new ones, when it becomes rolled_back, cancelled or restored the    *)
(* old ones, except where somebody edited them after they were compared.   *)
THEOREM ManifestsTruth == ASSUME NewestFirst PROVE Spec => StatusIsTrue
<1> DEFINE True ==
      \A i \in 1..Len(txs) :
        txs'[i].status # txs[i].status =>
          /\ txs'[i].status = "applied" => Holds(txs[i], txs[i].after)
          /\ txs'[i].status \in Closed => Holds(txs[i], txs[i].before)
<1>1. ASSUME WorkerInv /\ DiskInv, [Next]_vars PROVE True
  <2> SUFFICES ASSUME NEW i \in 1..Len(txs), txs'[i].status # txs[i].status
               PROVE  /\ txs'[i].status = "applied" => Holds(txs[i], txs[i].after)
                      /\ txs'[i].status \in Closed => Holds(txs[i], txs[i].before)
    OBVIOUS
  <2>1. i = tx /\ pc \in StatusSteps /\ txs'[i].status = NewStatus[pc]
    BY <1>1, StatusMoves
  <2>2. Range(txs[i].files) \subseteq Compared(txs[i])
    BY <1>1, ManifestAt DEF WorkerInv
  <2>3. txs'[i].status = "applied" => pc = "commit"
    BY <2>1, NewStatusIs DEF StatusSteps
  <2>4. pc = "commit" => Replaced(txs[i])
    BY <1>1, <2>1 DEF DiskInv, Progress
  <2>5. txs'[i].status \in Closed => pc \in {"rsDone", "rbCancel", "rbDone"}
    BY <2>1, NewStatusIs DEF StatusSteps, Closed
  <2>6. pc \in {"rsDone", "rbDone"} => Untouched(txs[i])
    BY <1>1, <2>1 DEF DiskInv, Progress
  <2>7. pc = "rbCancel" => Untouched(txs[i])
    BY <1>1, <2>1 DEF DiskInv, OpenInv, WorkerInv, Place
  <2> QED BY <2>2, <2>3, <2>4, <2>5, <2>6, <2>7 DEF Holds, Replaced, Untouched, Is
<1>2. ASSUME WorkerInv /\ DiskInv, [Next]_vars PROVE [True]_vars
  BY <1>1, <1>2
<1> QED BY <1>2, DiskCorrect, PTL DEF Spec, StatusIsTrue
=============================================================================
