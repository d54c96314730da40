-------------------------- MODULE CoreUpdateProofs --------------------------
(***************************************************************************)
(* The safety of an update and a rollback of the core, for any programs,   *)
(* any number of jobs and any number of failures, signals and power cuts:  *)
(* OldKernelSurvives, ReportIsTrue, RollbackGoesBack and                   *)
(* QueuedJobIsNotOvertaken.  None is inductive.  What is, says what every  *)
(* directory and flag holds at each step of the two scripts (RunInv) and   *)
(* of the two cleanups (CleanInv).                                         *)
(***************************************************************************)
EXTENDS CoreUpdate, SequenceTheorems, TLAPS

(* The step that is next, or "end". *)
Pos == IF todo = << >> THEN "end" ELSE Head(todo)

(* What may be left of an update or an installation, ... *)
U11 == <<"prepare", "backup", "arm", "stop", "moveOld", "moveNew", "flag",
         "files", "start", "point", "disarm">>
U10 == <<"backup", "arm", "stop", "moveOld", "moveNew", "flag", "files",
         "start", "point", "disarm">>
U9 == <<"arm", "stop", "moveOld", "moveNew", "flag", "files", "start",
        "point", "disarm">>
U8 == <<"stop", "moveOld", "moveNew", "flag", "files", "start", "point", "disarm">>
U7 == <<"moveOld", "moveNew", "flag", "files", "start", "point", "disarm">>
U6 == <<"moveNew", "flag", "files", "start", "point", "disarm">>
U5 == <<"flag", "files", "start", "point", "disarm">>
U4 == <<"files", "start", "point", "disarm">>
U3 == <<"start", "point", "disarm">>
U2 == <<"point", "disarm">>
U1 == <<"disarm">>
UpdateRests == {U11, U10, U9, U8, U7, U6, U5, U4, U3, U2, U1, << >>}

(* ... of a rollback, ... *)
R7 == <<"arm", "stop", "moveOld", "flag", "moveNew", "start", "disarm">>
R6 == <<"stop", "moveOld", "flag", "moveNew", "start", "disarm">>
R5 == <<"moveOld", "flag", "moveNew", "start", "disarm">>
R4 == <<"flag", "moveNew", "start", "disarm">>
R3 == <<"moveNew", "start", "disarm">>
R2 == <<"start", "disarm">>
RollbackRests == {Rollback, R7, R6, R5, R4, R3, R2, U1, << >>}

(* ... and of their cleanups. *)
C5 == <<"stop", "remove", "back", "files", "start">>
C4 == <<"remove", "back", "files", "start">>
C3 == <<"back", "files", "start">>
C2 == <<"files", "start">>
C1 == <<"start">>
D4 == <<"stop", "remove", "back", "start">>
D3 == <<"remove", "back", "start">>
D2 == <<"back", "start">>
CleanupRests == {C5, C4, C3, C2, C1, << >>}
RollbackCleanupRests == {D4, D3, D2, C1, << >>}

RunRests == IF job.action = "rollback" THEN RollbackRests ELSE UpdateRests
CleanRests == IF job.action = "rollback" THEN RollbackCleanupRests ELSE CleanupRests

Ups == IF before.up THEN before.program ELSE None

-----------------------------------------------------------------------------
(* The inductive invariant *)

Results == {"none", "succeeded", "failed"}
Outcomes == {"none", "refused", "unchanged", "installed", "restored", "unfinished",
             "killed"}
JobRecords ==
  [action : {"none", "update", "rollback", "install"},
   target : Versions \cup {None}, saw : Programs \X (Configs \cup {None}),
   result : Results, outcome : Outcomes, edited : BOOLEAN]

(* What TypeOK leaves open. *)
RecordsOK ==
  /\ job \in JobRecords
  /\ backups \in Seq([program : Programs, unit : BOOLEAN])
  /\ before \in [program : Programs, unit : BOOLEAN, up : BOOLEAN]
  /\ {pointer, lastGood} \subseteq Nat
  /\ {jobs, edits, troubles} \subseteq Nat

(* No step is lost or repeated, and the unit file is never missed. *)
Shape ==
  /\ Alive => job.action # "none" /\ job.outcome = "none"
  /\ phase = "idle" => todo = << >>
  /\ phase = "wait" => todo = Script(job.action) /\ ~swapped
  /\ phase = "run" => todo \in RunRests
  /\ phase = "run" => (armed <=> Pos \notin {"prepare", "select", "backup", "arm", "end"})
  /\ phase = "clean" => todo \in CleanRests /\ (~armed => todo = << >>)
  /\ job.action \in {"update", "install"} => job.target \in Versions
  /\ unit /\ (armed => before.unit /\ wasActive = before.up)
  /\ job.action # "rollback" /\ armed => unitExisted

(* An update has a backup of what it replaces. *)
BackupInv ==
  /\ phase = "run" /\ job.action # "rollback" /\ Pos = "arm" =>
       unitExisted /\ \E i \in DOMAIN backups : backups[i].program = program
  /\ armed /\ job.action # "rollback" =>
       \E i \in DOMAIN backups : backups[i].program = before.program

(* Where the programs are while the script runs. *)
RunInv ==
  phase = "run" =>
    /\ job.action # "rollback" =>
         /\ Pos \in {"backup", "arm", "stop", "moveOld", "moveNew"} => new = job.target
         /\ Pos \in {"flag", "files", "start", "point", "disarm", "end"} =>
              program = job.target
         /\ swapped <=> Pos \in {"files", "start", "point", "disarm", "end"}
         /\ Pos = "moveNew" => program = None
    /\ job.action = "rollback" =>
         /\ Pos \in {"arm", "stop", "moveOld", "flag", "moveNew"} => new \in Versions
         /\ swapped <=> Pos \in {"moveNew", "start", "disarm", "end"}
         /\ Pos \in {"flag", "moveNew"} => program = None
    /\ Pos \in {"prepare", "select", "backup", "arm", "stop", "moveOld"} => old = None
    /\ Pos \in {"prepare", "select"} => new = None
    /\ Pos \in {"stop", "moveOld"} => program = before.program
    /\ armed /\ Pos \notin {"stop", "moveOld"} => old = before.program
    /\ Pos \in {"moveOld", "moveNew", "flag", "files", "start"} => service = None
    /\ Pos \in {"point", "disarm", "end"} =>
         service = IF before.up THEN program ELSE None

(* ... and while it undoes what it did: `swapped` is right, or excused. *)
CleanInv ==
  phase = "clean" /\ armed /\ "program" \notin misled =>
    /\ Pos \in {"stop", "remove", "back"} =>
         \/ ~swapped /\ old = None /\ program = before.program
         \/ ~swapped /\ old = before.program /\ program = None
              /\ job.action # "rollback"
         \/ swapped /\ old = before.program
         \/ ~restored /\ job.action # "rollback"
    /\ Pos = "back" /\ restored /\ swapped => program = None
    /\ Pos \in {"files", "start", "end"} =>
         before.program \in {program, old} \cup kept \/ job.action # "rollback"
    /\ Pos \in {"files", "start", "end"} /\ restored => program = before.program
    /\ Pos \in {"remove", "back", "files", "start"} /\ restored => service = None
    /\ Pos = "end" /\ restored => service = Ups

(* The backup last-core-backup names, up to the file's replacement. *)
PointerInv ==
  /\ "pointer" \notin misled =>
       \/ pointer = lastGood
       \/ phase = "run" /\ job.action # "rollback" /\ Pos = "disarm"
  /\ phase = "run" /\ job.action # "rollback" /\ Pos = "disarm" =>
       pointer = Len(backups)

CoreInv ==
  /\ TypeOK
  /\ RecordsOK
  /\ Shape
  /\ BackupInv
  /\ RunInv
  /\ CleanInv
  /\ PointerInv
  /\ OldKernelSurvives
  /\ QueuedJobIsNotOvertaken
-----------------------------------------------------------------------------
(* Moving along the scripts *)

AfterUpdate(step) ==
  CASE step = "prepare" -> "backup"
    [] step = "backup"  -> "arm"
    [] step = "arm"     -> "stop"
    [] step = "stop"    -> "moveOld"
    [] step = "moveOld" -> "moveNew"
    [] step = "moveNew" -> "flag"
    [] step = "flag"    -> "files"
    [] step = "files"   -> "start"
    [] step = "start"   -> "point"
    [] step = "point"   -> "disarm"
    [] step = "disarm"  -> "end"

AfterRollback(step) ==
  CASE step = "select"  -> "arm"
    [] step = "arm"     -> "stop"
    [] step = "stop"    -> "moveOld"
    [] step = "moveOld" -> "flag"
    [] step = "flag"    -> "moveNew"
    [] step = "moveNew" -> "start"
    [] step = "start"   -> "disarm"
    [] step = "disarm"  -> "end"

AfterUndo(step) ==
  CASE step = "stop"   -> "remove"
    [] step = "remove" -> "back"
    [] step = "back"   -> IF job.action = "rollback" THEN "start" ELSE "files"
    [] step = "files"  -> "start"
    [] step = "start"  -> "end"

LEMMA ConcatIs ==
  ASSUME NEW S, NEW s \in Seq(S), NEW t \in Seq(S), NEW u \in Seq(S),
         Len(u) = Len(s) + Len(t),
         \A i \in 1..Len(s) : u[i] = s[i],
         \A i \in 1..Len(t) : u[Len(s) + i] = t[i]
  PROVE  s \o t = u
<1>1. s \o t \in Seq(S) /\ Len(s \o t) = Len(u)
  BY ConcatProperties
<1>2. ASSUME NEW i \in 1..Len(u) PROVE (s \o t)[i] = u[i]
  <2>1. (s \o t)[i] = IF i <= Len(s) THEN s[i] ELSE t[i - Len(s)]
    BY ConcatProperties
  <2>2. i > Len(s) => i - Len(s) \in 1..Len(t) /\ Len(s) + (i - Len(s)) = i
    BY LenProperties
  <2>3. i <= Len(s) => i \in 1..Len(s)
    BY LenProperties
  <2> QED BY <2>1, <2>2, <2>3
<1> QED BY <1>1, <1>2, SeqEqual

LEMMA Scripts ==
  /\ Script("rollback") = Rollback
  /\ \A a : a # "rollback" => Script(a) = U11
<1> DEFINE s == Swap
           t == <<"flag", "files", "start", "point", "disarm">>
           S == {"prepare", "backup", "arm", "stop", "moveOld", "moveNew",
                 "flag", "files", "start", "point", "disarm"}
<1>1. s \in Seq(S) /\ t \in Seq(S) /\ U11 \in Seq(S)
  BY DEF Swap, U11
<1>2. /\ Len(U11) = Len(s) + Len(t)
      /\ \A i \in 1..Len(s) : U11[i] = s[i]
      /\ \A i \in 1..Len(t) : U11[Len(s) + i] = t[i]
  BY DEF Swap, U11
<1>3. s \o t = U11
  <2> HIDE DEF s, t, S
  <2> QED BY <1>1, <1>2, ConcatIs
<1> QED BY <1>3 DEF Script

LEMMA UpdateAdvances ==
  ASSUME todo \in UpdateRests, todo # << >>, todo' = Tail(todo)
  PROVE  todo' \in UpdateRests /\ Pos' = AfterUpdate(Pos)
<1> USE DEF Pos, AfterUpdate, UpdateRests
<1>1. CASE todo = U11 BY <1>1 DEF U11, U10
<1>2. CASE todo = U10 BY <1>2 DEF U10, U9
<1>3. CASE todo = U9 BY <1>3 DEF U9, U8
<1>4. CASE todo = U8 BY <1>4 DEF U8, U7
<1>5. CASE todo = U7 BY <1>5 DEF U7, U6
<1>6. CASE todo = U6 BY <1>6 DEF U6, U5
<1>7. CASE todo = U5 BY <1>7 DEF U5, U4
<1>8. CASE todo = U4 BY <1>8 DEF U4, U3
<1>9. CASE todo = U3 BY <1>9 DEF U3, U2
<1>10. CASE todo = U2 BY <1>10 DEF U2, U1
<1>11. CASE todo = U1 BY <1>11 DEF U1
<1> QED BY <1>1, <1>2, <1>3, <1>4, <1>5, <1>6, <1>7, <1>8, <1>9, <1>10, <1>11

LEMMA RollbackAdvances ==
  ASSUME todo \in RollbackRests, todo # << >>, todo' = Tail(todo)
  PROVE  todo' \in RollbackRests /\ Pos' = AfterRollback(Pos)
<1> USE DEF Pos, AfterRollback, RollbackRests
<1>1. CASE todo = Rollback BY <1>1 DEF Rollback, R7
<1>2. CASE todo = R7 BY <1>2 DEF R7, R6
<1>3. CASE todo = R6 BY <1>3 DEF R6, R5
<1>4. CASE todo = R5 BY <1>4 DEF R5, R4
<1>5. CASE todo = R4 BY <1>5 DEF R4, R3
<1>6. CASE todo = R3 BY <1>6 DEF R3, R2
<1>7. CASE todo = R2 BY <1>7 DEF R2, U1
<1>8. CASE todo = U1 BY <1>8 DEF U1
<1> QED BY <1>1, <1>2, <1>3, <1>4, <1>5, <1>6, <1>7, <1>8

LEMMA CleanAdvances ==
  ASSUME todo \in CleanRests, todo # << >>, todo' = Tail(todo)
  PROVE  todo' \in CleanRests /\ Pos' = AfterUndo(Pos)
<1> USE DEF Pos, AfterUndo, CleanRests
<1>1. CASE job.action = "rollback"
  <2> USE <1>1 DEF RollbackCleanupRests
  <2>1. CASE todo = D4 BY <2>1 DEF D4, D3
  <2>2. CASE todo = D3 BY <2>2 DEF D3, D2
  <2>3. CASE todo = D2 BY <2>3 DEF D2, C1
  <2>4. CASE todo = C1 BY <2>4 DEF C1
  <2> QED BY <2>1, <2>2, <2>3, <2>4
<1>2. CASE job.action # "rollback"
  <2> USE <1>2 DEF CleanupRests
  <2>1. CASE todo = C5 BY <2>1 DEF C5, C4
  <2>2. CASE todo = C4 BY <2>2 DEF C4, C3
  <2>3. CASE todo = C3 BY <2>3 DEF C3, C2
  <2>4. CASE todo = C2 BY <2>4 DEF C2, C1
  <2>5. CASE todo = C1 BY <2>5 DEF C1
  <2> QED BY <2>1, <2>2, <2>3, <2>4, <2>5
<1> QED BY <1>1, <1>2
-----------------------------------------------------------------------------
(* The steps of the worker *)

LEMMA InitInv == Init => CoreInv
<1> SUFFICES ASSUME Init PROVE CoreInv
    OBVIOUS
<1> USE CoreAssumption DEF Init, NoJob
<1>1. TypeOK
  <2>1. {program, old, new, service} \subseteq Programs /\ service # Broken
    BY DEF Programs
  <2>2. pointer \in 0..Len(backups) /\ lastGood \in 0..Len(backups)
    OBVIOUS
  <2>3. \A i \in DOMAIN backups : backups[i] \in [program : Programs, unit : BOOLEAN]
    OBVIOUS
  <2> QED BY <2>1, <2>2, <2>3 DEF TypeOK
<1>2. RecordsOK
  <2>1. job \in JobRecords
    BY DEF JobRecords, Results, Outcomes, Programs
  <2> QED BY <2>1 DEF RecordsOK, Programs
<1>3. Shape
  BY DEF Shape, Alive
<1>4. BackupInv /\ RunInv /\ CleanInv /\ PointerInv
  BY DEF BackupInv, RunInv, CleanInv, PointerInv
<1>5. OldKernelSurvives /\ QueuedJobIsNotOvertaken
  BY DEF OldKernelSurvives, QueuedJobIsNotOvertaken
<1> QED BY <1>1, <1>2, <1>3, <1>4, <1>5 DEF CoreInv

(* What a step of the script, or of a cleanup, does to the list. *)
LEMMA DoesMoves ==
  ASSUME Shape, NEW step, Does(step), job' = job
  PROVE  /\ phase = "run" /\ phase' = "run"
         /\ Pos = step
         /\ (todo \in RunRests)'
         /\ job.action # "rollback" => Pos' = AfterUpdate(step)
         /\ job.action = "rollback" => Pos' = AfterRollback(step)
BY UpdateAdvances, RollbackAdvances DEF Shape, RunRests, Does, At, Pos

LEMMA UndoesMoves ==
  ASSUME Shape, NEW step, Undoes(step), job' = job
  PROVE  /\ phase = "clean" /\ phase' = "clean" /\ armed
         /\ Pos = step
         /\ (todo \in CleanRests)'
         /\ Pos' = AfterUndo(step)
BY CleanAdvances DEF Shape, CleanRests, Undoes, At, Pos

(* The steps of each script. *)
LEMMA StepsOf ==
  ASSUME Shape, phase = "run"
  PROVE  /\ job.action # "rollback" =>
              Pos \in {"prepare", "backup", "arm", "stop", "moveOld", "moveNew", "flag",
                      "files", "start", "point", "disarm", "end"}
         /\ job.action = "rollback" =>
              Pos \in {"select", "arm", "stop", "moveOld", "flag", "moveNew", "start",
                      "disarm", "end"}
         /\ todo # << >> => Pos # "end"
<1>1. ASSUME todo \in UpdateRests
      PROVE  /\ Pos \in {"prepare", "backup", "arm", "stop", "moveOld", "moveNew", "flag",
                         "files", "start", "point", "disarm", "end"}
             /\ todo # << >> => Pos # "end"
  BY <1>1 DEF UpdateRests, Pos, U11, U10, U9, U8, U7, U6, U5, U4, U3, U2, U1
<1>2. ASSUME todo \in RollbackRests
      PROVE  /\ Pos \in {"select", "arm", "stop", "moveOld", "flag", "moveNew", "start",
                         "disarm", "end"}
             /\ todo # << >> => Pos # "end"
  BY <1>2 DEF RollbackRests, Pos, Rollback, R7, R6, R5, R4, R3, R2, U1
<1> QED BY <1>1, <1>2 DEF Shape, RunRests

LEMMA UndoStepsOf ==
  ASSUME todo \in CleanRests, todo # << >>
  PROVE  /\ Pos \in {"stop", "remove", "back", "files", "start"}
         /\ Pos = "files" => job.action # "rollback"
BY DEF CleanRests, CleanupRests, RollbackCleanupRests, Pos, C5, C4, C3, C2, C1,
       D4, D3, D2

LEMMA PrepareStep == CoreInv /\ Prepare => CoreInv'
<1> SUFFICES ASSUME CoreInv, Prepare PROVE CoreInv'
    OBVIOUS
<1> USE CoreAssumption DEF CoreInv, Prepare, disk, stage, flags, ghosts, Stages, budget
<1>1. /\ phase = "run" /\ phase' = "run" /\ (todo \in RunRests)'
      /\ Pos = "prepare" /\ Pos' = "backup" /\ job.action # "rollback"
  BY DoesMoves, StepsOf DEF AfterUpdate, RunRests
<1>2. TypeOK' /\ RecordsOK'
  <2>1. TypeOK'
    BY <1>1 DEF JobRecords, RecordsOK, TypeOK, Programs
  <2>2. RecordsOK'
    BY <1>1 DEF RecordsOK
  <2> QED BY <2>1, <2>2
<1>3. Shape' /\ BackupInv' /\ PointerInv'
  BY <1>1 DEF Shape, BackupInv, PointerInv, Alive
<1>4. RunInv' /\ CleanInv'
  BY <1>1 DEF RunInv, CleanInv, Shape, Ups
<1>5. OldKernelSurvives' /\ QueuedJobIsNotOvertaken'
  BY <1>1 DEF OldKernelSurvives, QueuedJobIsNotOvertaken, Shape, Alive,
              BackupInv, RunInv, CleanInv
<1> QED BY <1>2, <1>3, <1>4, <1>5

LEMMA SelectStep == CoreInv /\ Select => CoreInv'
<1> SUFFICES ASSUME CoreInv, Select PROVE CoreInv'
    OBVIOUS
<1> USE CoreAssumption DEF CoreInv, Select, disk, stage, flags, ghosts, Stages, budget
<1>1. /\ phase = "run" /\ phase' = "run" /\ (todo \in RunRests)'
      /\ Pos = "select" /\ Pos' = "arm" /\ job.action = "rollback"
  BY DoesMoves, StepsOf DEF AfterRollback, RunRests
<1>2. TypeOK' /\ RecordsOK'
  BY <1>1 DEF TypeOK, Programs, RecordsOK
<1>3. Shape' /\ BackupInv' /\ PointerInv'
  BY <1>1 DEF Shape, BackupInv, PointerInv, Alive
<1>4. RunInv' /\ CleanInv'
  BY <1>1 DEF RunInv, CleanInv, Shape, Ups
<1>5. OldKernelSurvives' /\ QueuedJobIsNotOvertaken'
  BY <1>1 DEF OldKernelSurvives, QueuedJobIsNotOvertaken, Shape, Alive,
              BackupInv, RunInv, CleanInv
<1> QED BY <1>2, <1>3, <1>4, <1>5

LEMMA BackupStep == CoreInv /\ Backup => CoreInv'
<1> SUFFICES ASSUME CoreInv, Backup PROVE CoreInv'
    OBVIOUS
<1> USE CoreAssumption DEF CoreInv, Backup, disk, stage, flags, ghosts, budget
<1>1. /\ phase = "run" /\ phase' = "run" /\ (todo \in RunRests)'
      /\ Pos = "backup" /\ Pos' = "arm" /\ job.action # "rollback"
  BY DoesMoves, StepsOf DEF AfterUpdate, RunRests
<1>2. TypeOK' /\ RecordsOK'
  BY <1>1 DEF TypeOK, Programs, RecordsOK
<1>3. Shape' /\ BackupInv' /\ PointerInv'
  BY <1>1 DEF Shape, BackupInv, PointerInv, Alive
<1>4. RunInv' /\ CleanInv'
  BY <1>1 DEF RunInv, CleanInv, Shape, Ups
<1>5. OldKernelSurvives' /\ QueuedJobIsNotOvertaken'
  BY <1>1 DEF OldKernelSurvives, QueuedJobIsNotOvertaken, Shape, Alive,
              BackupInv, RunInv, CleanInv
<1> QED BY <1>2, <1>3, <1>4, <1>5

LEMMA ArmStep == CoreInv /\ Arm => CoreInv'
<1> SUFFICES ASSUME CoreInv, Arm PROVE CoreInv'
    OBVIOUS
<1> USE CoreAssumption DEF CoreInv, Arm, disk, stage, flags, ghosts, budget
<1>1. /\ phase = "run" /\ phase' = "run" /\ (todo \in RunRests)'
      /\ Pos = "arm" /\ Pos' = "stop"
  BY DoesMoves DEF AfterUpdate, AfterRollback
<1>2. TypeOK' /\ RecordsOK'
  BY <1>1 DEF TypeOK, Programs, RecordsOK
<1>3. Shape' /\ BackupInv' /\ PointerInv'
  BY <1>1 DEF Shape, BackupInv, PointerInv, Alive
<1>4. RunInv' /\ CleanInv'
  BY <1>1 DEF RunInv, CleanInv, Shape, Ups
<1>5. OldKernelSurvives' /\ QueuedJobIsNotOvertaken'
  BY <1>1 DEF OldKernelSurvives, QueuedJobIsNotOvertaken, Shape, Alive,
              BackupInv, RunInv, CleanInv
<1> QED BY <1>2, <1>3, <1>4, <1>5

LEMMA StopStep == CoreInv /\ Stop => CoreInv'
<1> SUFFICES ASSUME CoreInv, Stop PROVE CoreInv'
    OBVIOUS
<1> USE CoreAssumption DEF CoreInv, Stop, disk, stage, flags, ghosts, budget
<1>1. CASE Does("stop")
  <2>1. /\ phase = "run" /\ phase' = "run" /\ (todo \in RunRests)'
        /\ Pos = "stop" /\ Pos' = "moveOld"
    BY <1>1, DoesMoves DEF AfterUpdate, AfterRollback
  <2>2. TypeOK' /\ RecordsOK'
    BY <2>1 DEF TypeOK, Programs, RecordsOK
  <2>3. Shape' /\ BackupInv' /\ PointerInv'
    BY <2>1 DEF Shape, BackupInv, PointerInv, Alive
  <2>4. RunInv' /\ CleanInv'
    BY <2>1 DEF RunInv, CleanInv, Shape, Ups
  <2>5. OldKernelSurvives' /\ QueuedJobIsNotOvertaken'
    BY <2>1 DEF OldKernelSurvives, QueuedJobIsNotOvertaken, Shape, Alive,
                BackupInv, RunInv, CleanInv
  <2> QED BY <2>2, <2>3, <2>4, <2>5
<1>2. CASE Undoes("stop")
  <2>1. /\ phase = "clean" /\ phase' = "clean" /\ (todo \in CleanRests)'
        /\ armed /\ Pos = "stop" /\ Pos' = AfterUndo("stop")
    BY <1>2, UndoesMoves
  <2>2. TypeOK' /\ RecordsOK'
    BY <2>1 DEF AfterUndo, TypeOK, Programs, RecordsOK
  <2>3. Shape' /\ BackupInv' /\ PointerInv'
    BY <2>1 DEF AfterUndo, Shape, BackupInv, PointerInv, Alive
  <2>4. RunInv' /\ CleanInv'
    BY <2>1 DEF AfterUndo, RunInv, CleanInv, Shape, Ups
  <2>5. OldKernelSurvives' /\ QueuedJobIsNotOvertaken'
    BY <2>1 DEF AfterUndo, OldKernelSurvives, QueuedJobIsNotOvertaken, Shape, Alive,
                BackupInv, RunInv, CleanInv
  <2> QED BY <2>2, <2>3, <2>4, <2>5
<1> QED BY <1>1, <1>2

LEMMA MoveOldStep == CoreInv /\ MoveOld => CoreInv'
<1> SUFFICES ASSUME CoreInv, MoveOld PROVE CoreInv'
    OBVIOUS
<1> USE CoreAssumption DEF CoreInv, MoveOld, disk, stage, flags, ghosts, budget
<1>1. /\ phase = "run" /\ phase' = "run" /\ (todo \in RunRests)'
      /\ Pos = "moveOld" /\ Pos' = IF job.action = "rollback" THEN "flag" ELSE "moveNew"
  BY DoesMoves DEF AfterUpdate, AfterRollback
<1>2. TypeOK' /\ RecordsOK'
  BY <1>1 DEF TypeOK, Programs, RecordsOK
<1>3. Shape' /\ BackupInv' /\ PointerInv'
  BY <1>1 DEF Shape, BackupInv, PointerInv, Alive
<1>4. RunInv' /\ CleanInv'
  BY <1>1 DEF RunInv, CleanInv, Shape, Ups
<1>5. OldKernelSurvives' /\ QueuedJobIsNotOvertaken'
  BY <1>1 DEF OldKernelSurvives, QueuedJobIsNotOvertaken, Shape, Alive,
              BackupInv, RunInv, CleanInv
<1> QED BY <1>2, <1>3, <1>4, <1>5

LEMMA MoveNewStep == CoreInv /\ MoveNew => CoreInv'
<1> SUFFICES ASSUME CoreInv, MoveNew PROVE CoreInv'
    OBVIOUS
<1> USE CoreAssumption DEF CoreInv, MoveNew, disk, stage, flags, ghosts, budget
<1>1. /\ phase = "run" /\ phase' = "run" /\ (todo \in RunRests)'
      /\ Pos = "moveNew" /\ Pos' = IF job.action = "rollback" THEN "start" ELSE "flag"
  BY DoesMoves DEF AfterUpdate, AfterRollback
<1>2. TypeOK' /\ RecordsOK'
  BY <1>1 DEF TypeOK, Programs, RecordsOK
<1>3. Shape' /\ BackupInv' /\ PointerInv'
  BY <1>1 DEF Shape, BackupInv, PointerInv, Alive
<1>4. RunInv' /\ CleanInv'
  BY <1>1 DEF RunInv, CleanInv, Shape, Ups
<1>5. OldKernelSurvives' /\ QueuedJobIsNotOvertaken'
  BY <1>1 DEF OldKernelSurvives, QueuedJobIsNotOvertaken, Shape, Alive,
              BackupInv, RunInv, CleanInv
<1> QED BY <1>2, <1>3, <1>4, <1>5

LEMMA FlagStep == CoreInv /\ Flag => CoreInv'
<1> SUFFICES ASSUME CoreInv, Flag PROVE CoreInv'
    OBVIOUS
<1> USE CoreAssumption DEF CoreInv, Flag, disk, stage, flags, ghosts, budget
<1>1. /\ phase = "run" /\ phase' = "run" /\ (todo \in RunRests)'
      /\ Pos = "flag" /\ Pos' = IF job.action = "rollback" THEN "moveNew" ELSE "files"
  BY DoesMoves DEF AfterUpdate, AfterRollback
<1>2. TypeOK' /\ RecordsOK'
  BY <1>1 DEF TypeOK, Programs, RecordsOK
<1>3. Shape' /\ BackupInv' /\ PointerInv'
  BY <1>1 DEF Shape, BackupInv, PointerInv, Alive
<1>4. RunInv' /\ CleanInv'
  BY <1>1 DEF RunInv, CleanInv, Shape, Ups
<1>5. OldKernelSurvives' /\ QueuedJobIsNotOvertaken'
  BY <1>1 DEF OldKernelSurvives, QueuedJobIsNotOvertaken, Shape, Alive,
              BackupInv, RunInv, CleanInv
<1> QED BY <1>2, <1>3, <1>4, <1>5

LEMMA InstallFilesStep == CoreInv /\ InstallFiles => CoreInv'
<1> SUFFICES ASSUME CoreInv, InstallFiles PROVE CoreInv'
    OBVIOUS
<1> USE CoreAssumption DEF CoreInv, InstallFiles, disk, stage, flags, ghosts, budget
<1>1. /\ phase = "run" /\ phase' = "run" /\ (todo \in RunRests)'
      /\ Pos = "files" /\ Pos' = "start" /\ job.action # "rollback"
  BY DoesMoves, StepsOf DEF AfterUpdate, RunRests
<1>2. TypeOK' /\ RecordsOK'
  BY <1>1 DEF TypeOK, Programs, RecordsOK
<1>3. Shape' /\ BackupInv' /\ PointerInv'
  BY <1>1 DEF Shape, BackupInv, PointerInv, Alive
<1>4. RunInv' /\ CleanInv'
  BY <1>1 DEF RunInv, CleanInv, Shape, Ups
<1>5. OldKernelSurvives' /\ QueuedJobIsNotOvertaken'
  BY <1>1 DEF OldKernelSurvives, QueuedJobIsNotOvertaken, Shape, Alive,
              BackupInv, RunInv, CleanInv
<1> QED BY <1>2, <1>3, <1>4, <1>5

LEMMA PointStep == CoreInv /\ Point => CoreInv'
<1> SUFFICES ASSUME CoreInv, Point PROVE CoreInv'
    OBVIOUS
<1> USE CoreAssumption DEF CoreInv, Point, disk, stage, flags, ghosts, budget
<1>1. /\ phase = "run" /\ phase' = "run" /\ (todo \in RunRests)'
      /\ Pos = "point" /\ Pos' = "disarm" /\ job.action # "rollback"
  BY DoesMoves, StepsOf DEF AfterUpdate, RunRests
<1>2. TypeOK' /\ RecordsOK'
  BY <1>1 DEF TypeOK, Programs, RecordsOK
<1>3. Shape' /\ BackupInv' /\ PointerInv'
  BY <1>1 DEF Shape, BackupInv, PointerInv, Alive
<1>4. RunInv' /\ CleanInv'
  BY <1>1 DEF RunInv, CleanInv, Shape, Ups
<1>5. OldKernelSurvives' /\ QueuedJobIsNotOvertaken'
  BY <1>1 DEF OldKernelSurvives, QueuedJobIsNotOvertaken, Shape, Alive,
              BackupInv, RunInv, CleanInv
<1> QED BY <1>2, <1>3, <1>4, <1>5

LEMMA DisarmStep == CoreInv /\ Disarm => CoreInv'
<1> SUFFICES ASSUME CoreInv, Disarm PROVE CoreInv'
    OBVIOUS
<1> USE CoreAssumption DEF CoreInv, Disarm, disk, stage, flags, ghosts, budget
<1>1. /\ phase = "run" /\ phase' = "run" /\ (todo \in RunRests)'
      /\ Pos = "disarm" /\ Pos' = "end"
  BY DoesMoves DEF AfterUpdate, AfterRollback
<1>2. TypeOK' /\ RecordsOK'
  <2>1. Len(backups) \in Nat /\ lastGood' \in {lastGood, Len(backups)}
    BY LenProperties DEF RecordsOK
  <2>2. lastGood' \in 0..Len(backups)
    BY <2>1 DEF TypeOK
  <2>3. misled' \subseteq misled
    OBVIOUS
  <2>4. TypeOK'
    BY <1>1, <2>2, <2>3 DEF TypeOK, Programs
  <2> QED BY <2>1, <2>4 DEF RecordsOK
<1>3. Shape' /\ BackupInv' /\ PointerInv'
  BY <1>1 DEF Shape, BackupInv, PointerInv, Alive
<1>4. RunInv' /\ CleanInv'
  BY <1>1 DEF RunInv, CleanInv, Shape, Ups
<1>5. OldKernelSurvives' /\ QueuedJobIsNotOvertaken'
  BY <1>1 DEF OldKernelSurvives, QueuedJobIsNotOvertaken, Shape, Alive,
              BackupInv, RunInv, CleanInv
<1> QED BY <1>2, <1>3, <1>4, <1>5

LEMMA RemoveStep == CoreInv /\ Remove => CoreInv'
<1> SUFFICES ASSUME CoreInv, Remove PROVE CoreInv'
    OBVIOUS
<1> USE CoreAssumption DEF CoreInv, Remove, disk, stage, flags, ghosts, budget
<1>1. /\ phase = "clean" /\ phase' = "clean" /\ (todo \in CleanRests)'
      /\ armed /\ Pos = "remove" /\ Pos' = AfterUndo("remove")
  BY UndoesMoves
<1>2. TypeOK' /\ RecordsOK'
  BY <1>1 DEF AfterUndo, TypeOK, Programs, RecordsOK
<1>3. Shape' /\ BackupInv' /\ PointerInv'
  BY <1>1 DEF AfterUndo, Shape, BackupInv, PointerInv, Alive
<1>4. RunInv' /\ CleanInv'
  BY <1>1 DEF AfterUndo, RunInv, CleanInv, Shape, Ups
<1>5. OldKernelSurvives' /\ QueuedJobIsNotOvertaken'
  BY <1>1 DEF AfterUndo, OldKernelSurvives, QueuedJobIsNotOvertaken, Shape, Alive,
              BackupInv, RunInv, CleanInv
<1> QED BY <1>2, <1>3, <1>4, <1>5

LEMMA BackStep == CoreInv /\ Back => CoreInv'
<1> SUFFICES ASSUME CoreInv, Back PROVE CoreInv'
    OBVIOUS
<1> USE CoreAssumption DEF CoreInv, Back, disk, stage, flags, ghosts, budget
<1>1. /\ phase = "clean" /\ phase' = "clean" /\ (todo \in CleanRests)'
      /\ armed /\ Pos = "back" /\ Pos' = AfterUndo("back")
  BY UndoesMoves
<1>2. TypeOK' /\ RecordsOK'
  BY <1>1 DEF AfterUndo, TypeOK, Programs, RecordsOK
<1>3. Shape' /\ BackupInv' /\ PointerInv'
  BY <1>1 DEF AfterUndo, Shape, BackupInv, PointerInv, Alive
<1>4. RunInv' /\ CleanInv'
  BY <1>1 DEF AfterUndo, MovesBack, RunInv, CleanInv, Shape, Ups
<1>5. OldKernelSurvives' /\ QueuedJobIsNotOvertaken'
  BY <1>1 DEF AfterUndo, OldKernelSurvives, QueuedJobIsNotOvertaken, Shape, Alive,
              BackupInv, RunInv, CleanInv
<1> QED BY <1>2, <1>3, <1>4, <1>5

LEMMA RestoreFilesStep == CoreInv /\ RestoreFiles => CoreInv'
<1> SUFFICES ASSUME CoreInv, RestoreFiles PROVE CoreInv'
    OBVIOUS
<1> USE CoreAssumption DEF CoreInv, RestoreFiles, disk, stage, flags, ghosts, budget
<1>1. /\ phase = "clean" /\ phase' = "clean" /\ (todo \in CleanRests)'
      /\ armed /\ Pos = "files" /\ Pos' = AfterUndo("files")
      /\ job.action # "rollback"
  BY UndoesMoves, UndoStepsOf DEF Shape, Undoes, At
<1>2. TypeOK' /\ RecordsOK'
  BY <1>1 DEF AfterUndo, TypeOK, Programs, RecordsOK
<1>3. Shape' /\ BackupInv' /\ PointerInv'
  BY <1>1 DEF AfterUndo, Shape, BackupInv, PointerInv, Alive
<1>4. RunInv' /\ CleanInv'
  BY <1>1 DEF AfterUndo, RunInv, CleanInv, Shape, Ups
<1>5. OldKernelSurvives' /\ QueuedJobIsNotOvertaken'
  BY <1>1 DEF AfterUndo, OldKernelSurvives, QueuedJobIsNotOvertaken, Shape, Alive,
              BackupInv, RunInv, CleanInv
<1> QED BY <1>2, <1>3, <1>4, <1>5

LEMMA StaysDownStep == CoreInv /\ StaysDown => CoreInv'
<1> SUFFICES ASSUME CoreInv, StaysDown PROVE CoreInv'
    OBVIOUS
<1> USE CoreAssumption DEF CoreInv, StaysDown, disk, stage, flags, ghosts, budget
<1>1. /\ phase = "clean" /\ phase' = "clean" /\ (todo \in CleanRests)'
      /\ armed /\ Pos = "start" /\ Pos' = AfterUndo("start")
  BY UndoesMoves
<1>2. TypeOK' /\ RecordsOK'
  BY <1>1 DEF AfterUndo, TypeOK, Programs, RecordsOK
<1>3. Shape' /\ BackupInv' /\ PointerInv'
  BY <1>1 DEF AfterUndo, Shape, BackupInv, PointerInv, Alive
<1>4. RunInv' /\ CleanInv'
  BY <1>1 DEF AfterUndo, RunInv, CleanInv, Shape, Ups
<1>5. OldKernelSurvives' /\ QueuedJobIsNotOvertaken'
  BY <1>1 DEF AfterUndo, OldKernelSurvives, QueuedJobIsNotOvertaken, Shape, Alive,
              BackupInv, RunInv, CleanInv
<1> QED BY <1>2, <1>3, <1>4, <1>5

LEMMA StartStep == CoreInv /\ Start => CoreInv'
<1> SUFFICES ASSUME CoreInv, Start PROVE CoreInv'
    OBVIOUS
<1> USE CoreAssumption DEF CoreInv, Start, disk, stage, flags, ghosts, budget
<1>1. CASE Does("start")
  <2>1. /\ phase = "run" /\ phase' = "run" /\ (todo \in RunRests)'
        /\ Pos = "start" /\ Pos' = IF job.action = "rollback" THEN "disarm" ELSE "point"
    BY <1>1, DoesMoves DEF AfterUpdate, AfterRollback
  <2>2. TypeOK' /\ RecordsOK'
    BY <2>1 DEF CanStart, Installed, TypeOK, Programs, RecordsOK
  <2>3. Shape' /\ BackupInv' /\ PointerInv'
    BY <2>1 DEF Shape, BackupInv, PointerInv, Alive
  <2>4. RunInv' /\ CleanInv'
    BY <2>1 DEF RunInv, CleanInv, Shape, Ups
  <2>5. OldKernelSurvives' /\ QueuedJobIsNotOvertaken'
    BY <2>1 DEF OldKernelSurvives, QueuedJobIsNotOvertaken, Shape, Alive,
                BackupInv, RunInv, CleanInv
  <2> QED BY <2>2, <2>3, <2>4, <2>5
<1>2. CASE Undoes("start")
  <2>1. /\ phase = "clean" /\ phase' = "clean" /\ (todo \in CleanRests)'
        /\ armed /\ Pos = "start" /\ Pos' = AfterUndo("start")
    BY <1>2, UndoesMoves
  <2>2. TypeOK' /\ RecordsOK'
    BY <2>1 DEF AfterUndo, CanStart, Installed, TypeOK, Programs, RecordsOK
  <2>3. Shape' /\ BackupInv' /\ PointerInv'
    BY <2>1 DEF AfterUndo, Shape, BackupInv, PointerInv, Alive
  <2>4. RunInv' /\ CleanInv'
    BY <2>1 DEF AfterUndo, RunInv, CleanInv, Shape, Ups
  <2>5. OldKernelSurvives' /\ QueuedJobIsNotOvertaken'
    BY <2>1 DEF AfterUndo, OldKernelSurvives, QueuedJobIsNotOvertaken, Shape, Alive,
                BackupInv, RunInv, CleanInv
  <2> QED BY <2>2, <2>3, <2>4, <2>5
<1> QED BY <1>1, <1>2

-----------------------------------------------------------------------------
(* The ends of a script, whether it fails, is killed or comes to its end. *)

LEMMA SettledIs ==
  ASSUME RecordsOK, NEW result \in Results, NEW outcome \in Outcomes,
         job' = Settled(result, outcome)
  PROVE  /\ job' \in JobRecords
         /\ job'.outcome = outcome
         /\ job'.action = job.action
         /\ job'.target = job.target
BY DEF Settled, RecordsOK, JobRecords

LEMMA Ended == todo = << >> => Pos = "end"
BY DEF Pos

(* The trap starts a cleanup at its first step, and there is none unless   *)
(* the script is armed.                                                    *)
LEMMA TrappedMoves ==
  ASSUME Shape, Trapped, job'.action = job.action, armed' = armed
  PROVE  /\ phase' = "clean"
         /\ (todo \in CleanRests)'
         /\ ~armed => todo' = << >>
         /\ armed => Pos' = "stop"
<1>1. CASE armed
  <2>1. todo' = IF job.action = "rollback" THEN D4 ELSE C5
    BY <1>1 DEF Trapped, Cleanup, C5, D4
  <2> QED
    BY <1>1, <2>1 DEF Trapped, Pos, CleanRests, CleanupRests, RollbackCleanupRests,
                      C5, D4
<1>2. CASE ~armed
  BY <1>2 DEF Trapped, CleanRests, CleanupRests, RollbackCleanupRests
<1> QED BY <1>1, <1>2

LEMMA UnchangedStep == CoreInv /\ Unchanged => CoreInv'
<1> SUFFICES ASSUME CoreInv, Unchanged PROVE CoreInv'
    OBVIOUS
<1> USE CoreAssumption DEF CoreInv, Unchanged, disk, stage, flags, ghosts, budget
<1>1. /\ phase = "run" /\ phase' = "idle" /\ todo' = << >> /\ ~armed
      /\ Pos \in {"prepare", "select"}
  BY DEF At, Pos, Shape
<1>2. /\ job' \in JobRecords /\ job'.outcome = "unchanged"
      /\ job'.action = job.action /\ job'.target = job.target
  BY SettledIs DEF Results, Outcomes
<1>3. new = None /\ old = None
  BY <1>1 DEF RunInv
<1>4. TypeOK' /\ RecordsOK'
  <2>1. TypeOK'
    BY <1>1, <1>2, <1>3 DEF TypeOK, Programs
  <2>2. RecordsOK'
    BY <1>1, <1>2, <1>3 DEF RecordsOK
  <2> QED BY <2>1, <2>2
<1>5. Shape' /\ BackupInv' /\ PointerInv'
  BY <1>1, <1>2, <1>3 DEF Shape, BackupInv, PointerInv, Alive
<1>6. RunInv' /\ CleanInv'
  BY <1>1, <1>2, <1>3 DEF RunInv, CleanInv, Shape, Ups
<1>7. OldKernelSurvives' /\ QueuedJobIsNotOvertaken'
  BY <1>1, <1>2, <1>3 DEF OldKernelSurvives, QueuedJobIsNotOvertaken, Shape, Alive,
              BackupInv, RunInv, CleanInv
<1> QED BY <1>4, <1>5, <1>6, <1>7

LEMMA NothingToSelectStep == CoreInv /\ NothingToSelect => CoreInv'
<1> SUFFICES ASSUME CoreInv, NothingToSelect PROVE CoreInv'
    OBVIOUS
<1> USE CoreAssumption DEF CoreInv, NothingToSelect, disk, stage, flags, ghosts, budget
<1>1. /\ phase = "run" /\ phase' = "clean" /\ (todo \in CleanRests)'
      /\ ~armed /\ todo' = << >> /\ Pos = "select"
  <2>1. Pos = "select" BY DEF At, Pos
  <2>2. ~armed BY <2>1 DEF Shape
  <2> QED BY <2>1, <2>2, TrappedMoves
<1>2. TypeOK' /\ RecordsOK'
  BY <1>1 DEF TypeOK, Programs, RecordsOK
<1>3. Shape' /\ BackupInv' /\ PointerInv'
  BY <1>1 DEF Shape, BackupInv, PointerInv, Alive
<1>4. RunInv' /\ CleanInv'
  BY <1>1 DEF RunInv, CleanInv, Shape, Ups
<1>5. OldKernelSurvives' /\ QueuedJobIsNotOvertaken'
  BY <1>1 DEF OldKernelSurvives, QueuedJobIsNotOvertaken, Shape, Alive,
              BackupInv, RunInv, CleanInv
<1> QED BY <1>2, <1>3, <1>4, <1>5

(* The script can be trapped between any two of its steps but a rename and *)
(* its flag.                                                               *)
LEMMA TrapIsClean ==
  ASSUME CoreInv, phase = "run", phase' = "clean", Pos # "flag", armed => Pos' = "stop",
         UNCHANGED <<program, old, swapped, armed, before, wasActive, restored>>,
         job'.action = job.action
  PROVE  CleanInv'
<1> USE DEF CoreInv
<1>1. CASE armed
  <2>1. Pos \notin {"prepare", "select", "backup", "arm", "end"}
    BY <1>1 DEF Shape
  <2>2. \/ ~swapped /\ old = None /\ program = before.program
        \/ ~swapped /\ old = before.program /\ program = None /\ job.action # "rollback"
        \/ swapped /\ old = before.program
    <3>1. CASE job.action = "rollback" BY <1>1, <2>1, <3>1, StepsOf DEF RunInv
    <3>2. CASE job.action # "rollback" BY <1>1, <2>1, <3>2, StepsOf DEF RunInv
    <3> QED BY <3>1, <3>2
  <2> QED BY <1>1, <2>2 DEF CleanInv
<1>2. CASE ~armed BY <1>2 DEF CleanInv
<1> QED BY <1>1, <1>2

LEMMA StepFailsStep == CoreInv /\ StepFails => CoreInv'
<1> SUFFICES ASSUME CoreInv, StepFails PROVE CoreInv'
    OBVIOUS
<1> USE CoreAssumption DEF CoreInv, StepFails, disk, stage, flags, ghosts, budget, Trouble
<1>1. /\ phase = "run" /\ phase' = "clean" /\ (todo \in CleanRests)'
      /\ Pos \notin {"flag", "disarm", "end"}
      /\ ~armed => todo' = << >>
      /\ armed => Pos' = "stop"
  BY TrappedMoves, StepsOf DEF Pos
<1>2. service' \in {service, program, None} /\ service' # Broken
  BY DEF CanStart, Installed, TypeOK
<1>3. troubles' \in Nat
  BY DEF RecordsOK
<1>4. TypeOK' /\ RecordsOK'
  BY <1>1, <1>2, <1>3 DEF TypeOK, Programs, RecordsOK
<1>5. Shape' /\ BackupInv' /\ PointerInv'
  BY <1>1, <1>2, <1>3 DEF Shape, BackupInv, PointerInv, Alive
<1>6. RunInv' /\ CleanInv'
  BY <1>1, TrapIsClean DEF RunInv
<1>7. OldKernelSurvives' /\ QueuedJobIsNotOvertaken'
  BY <1>1, <1>2, <1>3 DEF OldKernelSurvives, QueuedJobIsNotOvertaken, Shape, Alive,
              BackupInv, RunInv, CleanInv
<1> QED BY <1>4, <1>5, <1>6, <1>7

LEMMA UndoFailsStep == CoreInv /\ UndoFails => CoreInv'
<1> SUFFICES ASSUME CoreInv, UndoFails PROVE CoreInv'
    OBVIOUS
<1> USE CoreAssumption DEF CoreInv, UndoFails, disk, stage, flags, ghosts, budget, Trouble
<1>1. /\ phase = "clean" /\ phase' = "clean" /\ (todo \in CleanRests)' /\ armed
      /\ Pos' = AfterUndo(Pos) /\ Pos \in {"stop", "remove", "back", "files", "start"}
  BY CleanAdvances, UndoStepsOf DEF Shape, CleanRests
<1>2. /\ service' \in {service, program, None} /\ service' # Broken
      /\ Pos # "remove" => program' = program
      /\ program' \in {program, Broken}
  BY DEF CanStart, Installed, TypeOK, At, Pos
<1>3. troubles' \in Nat
  BY DEF RecordsOK
<1>4. Pos = "back" => MovesBack
  BY DEF At, Pos
<1>5. Pos = "remove" => swapped
  BY DEF At, Pos
<1>6. TypeOK' /\ RecordsOK'
  BY <1>1, <1>2, <1>3, <1>4, <1>5 DEF TypeOK, Programs, RecordsOK
<1>7. Shape' /\ BackupInv' /\ PointerInv'
  BY <1>1, <1>2, <1>3, <1>4, <1>5 DEF AfterUndo, Shape, BackupInv, PointerInv, Alive
<1>8. RunInv' /\ CleanInv'
  BY <1>1, <1>2, <1>3, <1>4, <1>5 DEF AfterUndo, MovesBack, RunInv, CleanInv, Shape, Ups
<1>9. OldKernelSurvives' /\ QueuedJobIsNotOvertaken'
  BY <1>1, <1>2, <1>3, <1>4, <1>5 DEF OldKernelSurvives, QueuedJobIsNotOvertaken, Shape, Alive,
              BackupInv, RunInv, CleanInv
<1> QED BY <1>6, <1>7, <1>8, <1>9

LEMMA ExitStep == CoreInv /\ Exit => CoreInv'
<1> SUFFICES ASSUME CoreInv, Exit PROVE CoreInv'
    OBVIOUS
<1> USE CoreAssumption DEF CoreInv, Exit, disk, stage, flags, ghosts, budget, ExitKeeping, Ends
<1>1. /\ phase \in {"run", "clean"} /\ phase' = "idle" /\ Pos = "end"
      /\ phase = "run" => ~armed
  BY Ended DEF Shape
<1>2. kept' \subseteq kept \cup {new, old}
  BY DEF Left
<1>3. /\ job' \in JobRecords /\ job'.action = job.action
      /\ job'.target = job.target
      /\ job'.outcome = IF phase = "run" THEN "installed"
                        ELSE IF ~armed THEN "refused"
                        ELSE IF restored THEN "restored" ELSE "unfinished"
  BY <1>1, SettledIs DEF Results, Outcomes
<1>4. TypeOK' /\ RecordsOK'
  <2>1. TypeOK'
    BY <1>1, <1>3, <1>2 DEF TypeOK, Programs
  <2>2. RecordsOK'
    BY <1>1, <1>3, <1>2 DEF RecordsOK
  <2> QED BY <2>1, <2>2
<1>5. Shape' /\ BackupInv' /\ PointerInv'
  BY <1>1, <1>3, <1>2 DEF Shape, BackupInv, PointerInv, Alive
<1>6. RunInv' /\ CleanInv'
  BY <1>1, <1>3, <1>2 DEF RunInv, CleanInv, Shape, Ups
<1>7. OldKernelSurvives' /\ QueuedJobIsNotOvertaken'
  BY <1>1, <1>3, <1>2 DEF Left, OldKernelSurvives, QueuedJobIsNotOvertaken, Shape, Alive,
              BackupInv, RunInv, CleanInv
<1> QED BY <1>4, <1>5, <1>6, <1>7

LEMMA TermStep == CoreInv /\ Term => CoreInv'
<1> SUFFICES ASSUME CoreInv, Term PROVE CoreInv'
    OBVIOUS
<1> USE CoreAssumption DEF CoreInv, Term, disk, stage, flags, ghosts, budget, Trouble
<1>1. /\ job' \in JobRecords /\ job'.action = job.action
      /\ job'.target = job.target
      /\ job'.outcome = IF phase = "wait" THEN "refused" ELSE "none"
  BY SettledIs DEF Results, Outcomes
<1>2. troubles' \in Nat /\ jobs' = jobs /\ edits' = edits
  BY DEF RecordsOK
<1> HIDE DEF Trouble
<1>3. CASE phase = "wait"
  <2>1. ~armed /\ phase' = "idle" /\ todo' = << >> BY <1>3 DEF TypeOK
  <2>2. TypeOK' /\ RecordsOK'
    <3>1. TypeOK'
      BY <1>3, <1>1, <1>2, <2>1 DEF TypeOK, Programs
    <3>2. RecordsOK'
      BY <1>3, <1>1, <1>2, <2>1 DEF RecordsOK
    <3> QED BY <3>1, <3>2
  <2>3. Shape' /\ BackupInv' /\ PointerInv'
    BY <1>3, <1>1, <1>2, <2>1 DEF Shape, BackupInv, PointerInv, Alive
  <2>4. RunInv' /\ CleanInv' /\ OldKernelSurvives' /\ QueuedJobIsNotOvertaken'
    BY <1>3, <1>1, <1>2, <2>1 DEF RunInv, CleanInv, OldKernelSurvives, QueuedJobIsNotOvertaken
  <2> QED BY <2>2, <2>3, <2>4
<1>4. CASE phase = "run"
  <2>1. /\ phase' = "clean" /\ (todo \in CleanRests)'
        /\ ~armed => todo' = << >>
        /\ armed => Pos' = "stop"
    BY <1>4, <1>1, TrappedMoves
  <2>2. /\ "program" \notin misled' => "program" \notin misled /\ Pos # "flag"
        /\ "pointer" \notin misled' =>
             "pointer" \notin misled /\ (Pos = "disarm" => job.action = "rollback")
        /\ misled' \subseteq misled \cup {"program", "pointer"}
    BY <1>4, <2>1, Ended DEF Gap, At, Pos
  <2>3. TypeOK' /\ RecordsOK'
    <3>1. TypeOK'
      BY <1>4, <1>1, <1>2, <2>1, <2>2 DEF TypeOK, Programs
    <3>2. RecordsOK'
      BY <1>4, <1>1, <1>2, <2>1, <2>2 DEF RecordsOK
    <3> QED BY <3>1, <3>2
  <2>4. Shape' /\ BackupInv' /\ PointerInv'
    BY <1>4, <1>1, <1>2, <2>1, <2>2 DEF Shape, BackupInv, PointerInv, Alive
  <2>5. RunInv' /\ CleanInv'
    <3>1. CASE "program" \in misled' BY <2>1, <3>1 DEF RunInv, CleanInv
    <3>2. CASE "program" \notin misled' BY <1>4, <1>1, <2>1, <2>2, <3>2, TrapIsClean DEF RunInv
    <3> QED BY <3>1, <3>2
  <2>6. OldKernelSurvives' /\ QueuedJobIsNotOvertaken'
    BY <1>4, <1>1, <1>2, <2>1, <2>2 DEF OldKernelSurvives, QueuedJobIsNotOvertaken, BackupInv,
                            RunInv, Shape
  <2> QED BY <2>3, <2>4, <2>5, <2>6
<1> QED BY <1>3, <1>4

LEMMA KillStep == CoreInv /\ Kill => CoreInv'
<1> SUFFICES ASSUME CoreInv, Kill PROVE CoreInv'
    OBVIOUS
<1> USE CoreAssumption DEF CoreInv, Kill, disk, stage, flags, ghosts, budget, Trouble, Ends
<1>1. /\ phase \in {"run", "clean"} /\ phase' = "idle" /\ todo' = << >>
      /\ program' # program => phase = "clean" /\ Pos = "remove" /\ swapped
      /\ program' \in {program, Broken}
  BY DEF At, Pos
<1>2. kept' = kept \cup ({new, old} \ {None})
  BY DEF Left
<1>3. /\ "program" \notin misled' => "program" \notin misled
      /\ "pointer" \notin misled' =>
           /\ "pointer" \notin misled
           /\ phase = "run" /\ Pos = "disarm" => job.action = "rollback"
      /\ misled' \subseteq misled \cup {"pointer"}
  BY Ended DEF Gap, At, Pos
<1>4. service' \in Programs \ {Broken} /\ troubles' \in Nat
  BY DEF CanStart, Installed, TypeOK, Programs, RecordsOK
<1>5. /\ job' \in JobRecords /\ job'.action = job.action
      /\ job'.target = job.target
      /\ job'.outcome = IF armed THEN "killed" ELSE "refused"
  BY DEF JobRecords, RecordsOK, Outcomes
<1>6. TypeOK' /\ RecordsOK'
  <2>1. TypeOK'
    <3>1. {program', service'} \subseteq Programs /\ kept' \subseteq Programs
      BY <1>1, <1>2, <1>4 DEF TypeOK, Programs
    <3>2. job'.action \in {"none", "update", "rollback", "install"}
      BY <1>5 DEF TypeOK
    <3>3. menu' \in {"out", "in"} /\ misled' \subseteq {"program", "pointer"}
      BY <1>3 DEF TypeOK
    <3>4. None \in Programs
      BY DEF Programs
    <3> QED BY <1>1, <1>4, <3>1, <3>2, <3>3, <3>4 DEF TypeOK
  <2>2. RecordsOK'
    BY <1>1, <1>2, <1>3, <1>4, <1>5 DEF RecordsOK
  <2> QED BY <2>1, <2>2
<1>7. Shape' /\ BackupInv' /\ PointerInv'
  BY <1>1, <1>2, <1>3, <1>4, <1>5 DEF Shape, BackupInv, PointerInv, Alive
<1>8. RunInv' /\ CleanInv'
  BY <1>1, <1>2, <1>3, <1>4, <1>5 DEF RunInv, CleanInv, Shape, Ups
<1>9. OldKernelSurvives' /\ QueuedJobIsNotOvertaken'
  BY <1>1, <1>2, <1>3, <1>4, <1>5 DEF OldKernelSurvives, QueuedJobIsNotOvertaken, Shape, Alive,
              BackupInv, RunInv, CleanInv
<1> QED BY <1>6, <1>7, <1>8, <1>9

-----------------------------------------------------------------------------
(* The menus, and the worker up to the script. *)

LEMMA FirstSteps ==
  /\ Rollback \in RollbackRests /\ Rollback # << >> /\ Head(Rollback) = "select"
  /\ U11 \in UpdateRests /\ U11 # << >> /\ Head(U11) = "prepare"
BY DEF Rollback, U11, RollbackRests, UpdateRests

LEMMA BeginsStep ==
  ASSUME CoreInv, NEW action \in {"update", "rollback", "install"},
         NEW target \in Versions \cup {None}, NEW at \in {"wait", "run"},
         action # "rollback" => target \in Versions,
         at = "run" => action = "install",
         at = "wait" => action # "install",
         Begins(action, target, at)
  PROVE  CoreInv'
<1> USE CoreAssumption DEF CoreInv, Begins, disk, stage, flags, ghosts, budget
<1>1. /\ phase = "idle" /\ phase' = at /\ menu = "out" /\ ~armed /\ ~armed'
      /\ new = None /\ old = None
  BY DEF Alive, TypeOK
<1>2. /\ job' \in JobRecords /\ job'.action = action /\ job'.target = target
      /\ job'.outcome = "none" /\ job'.saw = <<program, config>>
  <2>1. <<program, config>> \in Programs \X (Configs \cup {None})
    BY DEF TypeOK
  <2> QED BY <2>1 DEF NoJob, JobRecords, Results, Outcomes
<1>3. /\ action = "rollback" => todo' = Rollback
      /\ action # "rollback" => todo' = U11
  BY Scripts
<1>4. /\ at = "run" => Pos' = "prepare" /\ (todo \in RunRests)'
  BY <1>2, <1>3, FirstSteps DEF Pos, RunRests
<1>5. jobs' \in Nat
  BY DEF RecordsOK
<1>6. TypeOK'
  BY <1>1, <1>2, <1>3, <1>4, <1>5 DEF TypeOK, Programs
<1>7. RecordsOK'
  BY <1>1, <1>2, <1>3, <1>4, <1>5 DEF RecordsOK
<1>8. Shape' /\ BackupInv' /\ PointerInv'
  BY <1>1, <1>2, <1>3, <1>4, <1>5 DEF Shape, BackupInv, PointerInv, Alive
<1>9. RunInv' /\ CleanInv'
  BY <1>1, <1>2, <1>3, <1>4, <1>5 DEF RunInv, CleanInv, Shape
<1>10. OldKernelSurvives' /\ QueuedJobIsNotOvertaken'
  BY <1>1, <1>2, <1>3, <1>4, <1>5 DEF OldKernelSurvives, QueuedJobIsNotOvertaken, Shape
<1> QED BY <1>6, <1>7, <1>8, <1>9, <1>10

LEMMA MenuEntersStep == CoreInv /\ MenuEnters => CoreInv'
<1> SUFFICES ASSUME CoreInv, MenuEnters PROVE CoreInv'
    OBVIOUS
<1> USE CoreAssumption DEF CoreInv, MenuEnters, disk, stage, flags, ghosts, budget
<1>1. Pos' = Pos /\ RunRests' = RunRests /\ CleanRests' = CleanRests
  BY DEF Pos, RunRests, CleanRests
<1>2. TypeOK'
  BY DEF TypeOK, Programs
<1>3. RecordsOK'
  BY DEF RecordsOK
<1>4. Shape' /\ BackupInv' /\ PointerInv'
  BY <1>1 DEF Shape, BackupInv, PointerInv, Alive
<1>5. RunInv' /\ CleanInv'
  BY <1>1 DEF RunInv, CleanInv, Shape, Ups
<1>6. OldKernelSurvives' /\ QueuedJobIsNotOvertaken'
  BY DEF OldKernelSurvives, QueuedJobIsNotOvertaken, Shape
<1> QED BY <1>2, <1>3, <1>4, <1>5, <1>6

LEMMA MenuLeavesStep == CoreInv /\ MenuLeaves => CoreInv'
<1> SUFFICES ASSUME CoreInv, MenuLeaves PROVE CoreInv'
    OBVIOUS
<1> USE CoreAssumption DEF CoreInv, MenuLeaves, disk, stage, flags, ghosts, budget
<1>1. Pos' = Pos /\ RunRests' = RunRests /\ CleanRests' = CleanRests
  BY DEF Pos, RunRests, CleanRests
<1>2. TypeOK'
  BY DEF TypeOK, Programs
<1>3. RecordsOK'
  BY DEF RecordsOK
<1>4. Shape' /\ BackupInv' /\ PointerInv'
  BY <1>1 DEF Shape, BackupInv, PointerInv, Alive
<1>5. RunInv' /\ CleanInv'
  BY <1>1 DEF RunInv, CleanInv, Shape, Ups
<1>6. OldKernelSurvives' /\ QueuedJobIsNotOvertaken'
  BY DEF OldKernelSurvives, QueuedJobIsNotOvertaken, Shape
<1> QED BY <1>2, <1>3, <1>4, <1>5, <1>6

LEMMA MenuEditsStep ==
  ASSUME CoreInv, NEW c \in Configs, MenuEdits(c)
  PROVE  CoreInv'
<1> USE CoreAssumption DEF CoreInv, MenuEdits, Edit, disk, stage, flags, ghosts, budget
<1>1. Pos' = Pos /\ RunRests' = RunRests /\ CleanRests' = CleanRests
  BY DEF Pos, RunRests, CleanRests
<1>2. TypeOK'
  BY DEF TypeOK, Programs
<1>3. RecordsOK'
  BY DEF RecordsOK
<1>4. Shape' /\ BackupInv' /\ PointerInv'
  BY <1>1 DEF Shape, BackupInv, PointerInv, Alive
<1>5. RunInv' /\ CleanInv'
  BY <1>1 DEF RunInv, CleanInv, Shape, Ups
<1>6. OldKernelSurvives' /\ QueuedJobIsNotOvertaken'
  BY DEF Alive, OldKernelSurvives, QueuedJobIsNotOvertaken, Shape
<1> QED BY <1>2, <1>3, <1>4, <1>5, <1>6

LEMMA HandEditsStep ==
  ASSUME CoreInv, NEW c \in Configs, HandEdits(c)
  PROVE  CoreInv'
<1> USE CoreAssumption DEF CoreInv, HandEdits, Edit, disk, stage, flags, ghosts, budget
<1>1. /\ job' \in JobRecords /\ job'.edited
      /\ job'.action = job.action /\ job'.target = job.target /\ job'.outcome = job.outcome
  BY DEF RecordsOK, JobRecords
<1>2. Pos' = Pos /\ RunRests' = RunRests /\ CleanRests' = CleanRests
  BY <1>1 DEF Pos, RunRests, CleanRests
<1>3. TypeOK'
  BY <1>1 DEF TypeOK, Programs
<1>4. RecordsOK'
  BY <1>1 DEF RecordsOK
<1>5. Shape' /\ BackupInv' /\ PointerInv'
  BY <1>1, <1>2 DEF Shape, BackupInv, PointerInv, Alive
<1>6. RunInv' /\ CleanInv'
  BY <1>1, <1>2 DEF RunInv, CleanInv, Shape, Ups
<1>7. OldKernelSurvives' /\ QueuedJobIsNotOvertaken'
  BY <1>1 DEF OldKernelSurvives, QueuedJobIsNotOvertaken, Shape
<1> QED BY <1>3, <1>4, <1>5, <1>6, <1>7

LEMMA VerifyStep == CoreInv /\ Verify => CoreInv'
<1> SUFFICES ASSUME CoreInv, Verify PROVE CoreInv'
    OBVIOUS
<1> USE CoreAssumption DEF CoreInv, Verify, disk, stage, flags, ghosts, budget
<1>1. CASE job.saw = <<program, config>>
  <2>1. /\ phase = "wait" /\ phase' = "run" /\ todo' = todo /\ job' = job
        /\ todo = Script(job.action)
        /\ new = None /\ old = None /\ ~armed /\ ~swapped
    BY <1>1 DEF TypeOK, Shape
  <2>2. /\ (todo \in RunRests)'
        /\ job.action = "rollback" => Pos' = "select"
        /\ job.action # "rollback" => Pos' = "prepare"
    BY <2>1, Scripts, FirstSteps DEF Pos, RunRests
  <2>3. TypeOK'
    BY <2>1 DEF TypeOK
  <2>4. RecordsOK'
    BY <2>1 DEF RecordsOK
  <2>5. Shape' /\ BackupInv' /\ PointerInv'
    BY <2>1, <2>2 DEF Shape, BackupInv, PointerInv, Alive
  <2>6. RunInv' /\ CleanInv'
    BY <2>1, <2>2 DEF RunInv, CleanInv, Shape
  <2>7. OldKernelSurvives' /\ QueuedJobIsNotOvertaken'
    BY <2>1 DEF OldKernelSurvives, QueuedJobIsNotOvertaken, Shape
  <2> QED BY <2>3, <2>4, <2>5, <2>6, <2>7
<1>2. CASE job.saw # <<program, config>>
  <2>1. /\ job' \in JobRecords /\ job'.outcome = "refused"
        /\ job'.action = job.action /\ job'.target = job.target
    BY <1>2, SettledIs DEF Results, Outcomes
  <2>2. phase' = "idle" /\ todo' = << >> /\ ~armed /\ new = None /\ old = None
    BY <1>2 DEF TypeOK
  <2>3. TypeOK'
    BY <2>1, <2>2 DEF TypeOK
  <2>4. RecordsOK'
    BY <2>1 DEF RecordsOK
  <2>5. Shape' /\ BackupInv' /\ PointerInv'
    BY <2>1, <2>2 DEF Shape, BackupInv, PointerInv, Alive
  <2>6. RunInv' /\ CleanInv'
    BY <2>2 DEF RunInv, CleanInv
  <2>7. OldKernelSurvives' /\ QueuedJobIsNotOvertaken'
    BY <2>1, <2>2 DEF OldKernelSurvives, QueuedJobIsNotOvertaken
  <2> QED BY <2>3, <2>4, <2>5, <2>6, <2>7
<1> QED BY <1>1, <1>2

LEMMA NeverStartsStep == CoreInv /\ NeverStarts => CoreInv'
<1> SUFFICES ASSUME CoreInv, NeverStarts PROVE CoreInv'
    OBVIOUS
<1> USE CoreAssumption DEF CoreInv, NeverStarts, disk, stage, flags, ghosts, budget, Trouble
<1>1. /\ job' \in JobRecords /\ job'.outcome = "refused"
      /\ job'.action = job.action /\ job'.target = job.target
  BY SettledIs DEF Results, Outcomes
<1>2. phase' = "idle" /\ todo' = << >> /\ ~armed /\ new = None /\ old = None
  BY DEF TypeOK
<1>3. troubles' \in Nat
  BY DEF RecordsOK
<1>4. TypeOK'
  BY <1>1, <1>2, <1>3 DEF TypeOK, Programs
<1>5. RecordsOK'
  BY <1>1, <1>2, <1>3 DEF RecordsOK
<1>6. Shape' /\ BackupInv' /\ PointerInv'
  BY <1>1, <1>2, <1>3 DEF Shape, BackupInv, PointerInv, Alive
<1>7. RunInv' /\ CleanInv'
  BY <1>1, <1>2, <1>3 DEF RunInv, CleanInv, Shape
<1>8. OldKernelSurvives' /\ QueuedJobIsNotOvertaken'
  BY <1>1, <1>2, <1>3 DEF OldKernelSurvives, QueuedJobIsNotOvertaken, Shape
<1> QED BY <1>4, <1>5, <1>6, <1>7, <1>8

-----------------------------------------------------------------------------
LEMMA WorkerStep == CoreInv /\ Worker => CoreInv'
BY VerifyStep, NeverStartsStep, UnchangedStep, PrepareStep, SelectStep,
   NothingToSelectStep, BackupStep, ArmStep, StopStep, MoveOldStep, MoveNewStep,
   FlagStep, InstallFilesStep, StartStep, PointStep, DisarmStep, StepFailsStep,
   RemoveStep, BackStep, RestoreFilesStep, StaysDownStep, UndoFailsStep, ExitStep
   DEF Worker

LEMMA OthersStep == CoreInv /\ Others => CoreInv'
<1> SUFFICES ASSUME CoreInv, Others PROVE CoreInv'
    OBVIOUS
<1>1. ASSUME NEW v \in Versions, SubmitUpdate(v) PROVE CoreInv'
  BY <1>1, BeginsStep DEF SubmitUpdate
<1>2. ASSUME NEW v \in Versions, Install(v) PROVE CoreInv'
  BY <1>2, BeginsStep DEF Install
<1>3. CASE SubmitRollback
  BY <1>3, BeginsStep DEF SubmitRollback
<1>4. ASSUME NEW c \in Configs, MenuEdits(c) \/ HandEdits(c) PROVE CoreInv'
  BY <1>4, MenuEditsStep, HandEditsStep
<1> QED BY <1>1, <1>2, <1>3, <1>4, MenuEntersStep, MenuLeavesStep DEF Others

LEMMA NextInv == CoreInv /\ [Next]_vars => CoreInv'
<1> SUFFICES ASSUME CoreInv, [Next]_vars PROVE CoreInv'
    OBVIOUS
<1>1. CASE Next
  BY <1>1, WorkerStep, OthersStep, TermStep, KillStep DEF Next
<1>2. CASE UNCHANGED vars
  <2> USE <1>2 DEF CoreInv, vars, disk, stage, flags, ghosts, budget
  <2>1. TypeOK' /\ RecordsOK'
    BY DEF TypeOK, RecordsOK
  <2>2. Shape' /\ BackupInv' /\ PointerInv'
    BY DEF Shape, BackupInv, PointerInv, Pos, Alive, RunRests, CleanRests
  <2>3. RunInv' /\ CleanInv'
    BY DEF RunInv, CleanInv, Pos, Ups
  <2>4. OldKernelSurvives' /\ QueuedJobIsNotOvertaken'
    BY DEF OldKernelSurvives, QueuedJobIsNotOvertaken
  <2> QED BY <2>1, <2>2, <2>3, <2>4
<1> QED BY <1>1, <1>2

(* The inductive invariant holds in every state of an update or a rollback,*)
(* its types included.                                                     *)
THEOREM CoreInvariant == Spec => []CoreInv
BY InitInv, NextInv, PTL DEF Spec

(* The program a job found stays on disk until the job has succeeded,      *)
(* whatever fails, is killed or loses power (m_core_cleanup,               *)
(* m_core_rollback_cleanup).                                               *)
THEOREM KernelSurvives == Spec => []OldKernelSurvives
<1>1. CoreInv => OldKernelSurvives
  BY DEF CoreInv
<1> QED BY <1>1, CoreInvariant, PTL

(* What a job is about to report as restored or installed is restored, or  *)
(* installed, and the service runs exactly if it ran.                      *)
THEOREM ReportsTruth == Spec => []ReportIsTrue
<1>1. CoreInv => ReportIsTrue
  BY Ended DEF CoreInv, ReportIsTrue, Shape, RunInv, CleanInv, Ups
<1> QED BY <1>1, CoreInvariant, PTL

(* last-core-backup names the backup of the last update that succeeded.    *)
THEOREM BackupIsOfLastSuccess == Spec => []RollbackGoesBack
<1>1. CoreInv => RollbackGoesBack
  BY DEF CoreInv, RollbackGoesBack, PointerInv, Alive
<1> QED BY <1>1, CoreInvariant, PTL

(* No menu changes what a waiting job has recorded.                        *)
THEOREM QueuedJobKeepsItsGround == Spec => []QueuedJobIsNotOvertaken
<1>1. CoreInv => QueuedJobIsNotOvertaken
  BY DEF CoreInv
<1> QED BY <1>1, CoreInvariant, PTL
=============================================================================
