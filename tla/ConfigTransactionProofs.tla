----------------------- MODULE ConfigTransactionProofs -----------------------
(***************************************************************************)
(* The safety of the transactions on the configuration files, for any      *)
(* number of files, transactions, edits by others, failures and power      *)
(* cuts: OriginalIsKept, ReportIsTrue, EditsAreNotOverwritten and          *)
(* NoMixtureIsStarted.  The inductive invariant says, for each step of the *)
(* scripts and of the restoration, which files the loop has passed and     *)
(* what is in them, in their copies and in the backup.                     *)
(***************************************************************************)
EXTENDS ConfigTransaction, SequenceTheorems, TLAPS

(* The step that is next, or "end". *)
Pos == IF todo = << >> THEN "end" ELSE Head(todo)

(* What may be left of a script and of the restoration. *)
E3 == <<"check", "confirm", "recheck", "backup", "arm", "stop", "install", "start", "disarm">>
E2 == <<"confirm", "recheck", "backup", "arm", "stop", "install", "start", "disarm">>
E1 == <<"recheck", "backup", "arm", "stop", "install", "start", "disarm">>
G1 == <<"confirm", "backup", "arm", "stop", "install", "start", "disarm">>
A5 == <<"arm", "stop", "install", "start", "disarm">>
A4 == <<"stop", "install", "start", "disarm">>
A3 == <<"install", "start", "disarm">>
A2 == <<"start", "disarm">>
A1 == <<"disarm">>
U2 == <<"restore", "restart">>
U1 == <<"restart">>
ApplyRests == {Apply, A5, A4, A3, A2, A1, << >>}
EditRests == {E3, E2, E1} \cup ApplyRests
GenerateRests == {G1} \cup ApplyRests
UndoRests == {Undo, U2, U1, << >>}

T == Range(tracked)
Done == T \ Range(left)    \* the files the loop has passed

-----------------------------------------------------------------------------
(* The inductive invariant *)

Kinds == Whole \cup {Absent, Broken}

(* What TypeOK leaves open. *)
CopiesOK ==
  /\ tracked \in Seq(Files) /\ left \in Seq(Files)
  /\ before \in [Files -> Kinds]
  /\ backup \in [Files -> Kinds]
  /\ {ops, edits, troubles} \subseteq Nat

(* No step is lost or repeated, and a loop has a file to go on with. *)
Shape ==
  /\ phase \in {"idle", "collect"} => todo = << >>
  /\ phase = "idle" => left = << >>
  /\ phase = "run" =>
       /\ todo \in IF op = "edit" THEN EditRests ELSE GenerateRests
       /\ armed <=> Pos \in {"stop", "install", "start", "disarm"}
  /\ phase = "clean" => todo \in UndoRests /\ (~armed => todo = << >>)
  /\ Range(left) \subseteq T
  /\ phase \in {"run", "clean"} => tracked # << >> /\ left # << >>

(* What was found in the files is in the backup before anything is written. *)
BackupInv ==
  /\ \/ armed
     \/ phase = "run" /\ Pos \in {"arm", "stop", "install", "start", "disarm", "end"}
     \/ outcome \in {"done", "restored", "unfinished", "killed"}
     => \A f \in T : backup[f] = before[f]
  /\ phase = "run" /\ Pos = "backup" => \A f \in Done : backup[f] = before[f]
  /\ phase # "idle" => outcome = "none"

(* What is in the files while the script runs ... *)
RunInv ==
  phase = "run" =>
    /\ Pos = "recheck" => \A f \in Done \ late : file[f] = before[f]
    /\ Pos = "backup" =>
         \A f \in (IF op = "edit" THEN T ELSE Done) \ late : file[f] = before[f]
    /\ Pos \in {"arm", "stop"} => \A f \in T \ late : file[f] = before[f]
    /\ Pos = "install" =>
         /\ \A f \in T \ late : file[f] \in {before[f], after[f]}
         /\ \A f \in Done \ late : file[f] = after[f]
    /\ Pos \in {"start", "disarm", "end"} => \A f \in T \ late : file[f] = after[f]
    /\ Pos \in {"install", "start"} => service = "down"
    /\ Pos \in {"disarm", "end"} => (service = "down" <=> after[Main] = Empty)

(* ... and while it is undone. *)
CleanInv ==
  phase = "clean" /\ armed =>
    /\ \A f \in T \ late : file[f] \in {before[f], after[f], Broken}
    /\ Pos = "restore" /\ ok => \A f \in Done \ late : file[f] = before[f]
    /\ Pos \in {"restart", "end"} /\ ok => \A f \in T \ late : file[f] = before[f]
    /\ Pos \in {"restore", "restart"} /\ ok => service = "down"
    /\ Pos = "end" /\ ok /\ op = "edit" => (service = "down" <=> ~wasActive)

ArmedInv == armed => (wasActive <=> was = "up")

ConfigInv ==
  /\ TypeOK
  /\ CopiesOK
  /\ Shape
  /\ BackupInv
  /\ RunInv
  /\ CleanInv
  /\ ArmedInv
-----------------------------------------------------------------------------
(* Moving along the scripts and over the files *)

LEMMA ConcatIs ==
  ASSUME NEW S, NEW s \in Seq(S), NEW t \in Seq(S), NEW u \in Seq(S),
         Len(u) = Len(s) + Len(t),
         \A i \in 1..Len(s) : u[i] = s[i],
         \A i \in 1..Len(t) : u[Len(s) + i] = t[i]
  PROVE  s \o t = u
<1>1. s \o t \in Seq(S) /\ Len(s \o t) = Len(u)
  BY ConcatProperties
<1>2. ASSUME NEW i \in 1..Len(u) PROVE (s \o t)[i] = u[i]
  <2>1. (s \o t)[i] = IF i <= Len(s) THEN s[i] ELSE t[i - Len(s)]
    BY ConcatProperties
  <2>2. i > Len(s) => i - Len(s) \in 1..Len(t) /\ Len(s) + (i - Len(s)) = i
    BY LenProperties
  <2>3. i <= Len(s) => i \in 1..Len(s)
    BY LenProperties
  <2> QED BY <2>1, <2>2, <2>3
<1> QED BY <1>1, <1>2, SeqEqual

LEMMA Scripts == Script("edit") = E3 /\ Script("generate") = G1
<1> DEFINE s == <<"check", "confirm", "recheck">>
           t == <<"confirm">>
           S == {"check", "confirm", "recheck", "backup", "arm", "stop", "install",
                 "start", "disarm"}
<1>1. s \in Seq(S) /\ t \in Seq(S) /\ Apply \in Seq(S) /\ E3 \in Seq(S) /\ G1 \in Seq(S)
  BY DEF Apply, E3, G1
<1>2. /\ Len(E3) = Len(s) + Len(Apply)
      /\ \A i \in 1..Len(s) : E3[i] = s[i]
      /\ \A i \in 1..Len(Apply) : E3[Len(s) + i] = Apply[i]
  BY DEF Apply, E3
<1>3. /\ Len(G1) = Len(t) + Len(Apply)
      /\ \A i \in 1..Len(t) : G1[i] = t[i]
      /\ \A i \in 1..Len(Apply) : G1[Len(t) + i] = Apply[i]
  BY DEF Apply, G1
<1>4. s \o Apply = E3 /\ t \o Apply = G1
  <2> HIDE DEF s, t, S
  <2> QED BY <1>1, <1>2, <1>3, ConcatIs
<1> QED BY <1>4 DEF Script

(* The steps of the script that runs, and of the restoration. *)
LEMMA StepsOf ==
  ASSUME Shape, TypeOK
  PROVE  /\ phase = "run" /\ op = "edit" =>
              Pos \in {"check", "confirm", "recheck", "backup", "arm", "stop", "install",
                      "start", "disarm", "end"}
         /\ phase = "run" /\ op = "generate" =>
              Pos \in {"confirm", "backup", "arm", "stop", "install", "start", "disarm",
                      "end"}
         /\ phase = "clean" => Pos \in {"unstop", "restore", "restart", "end"}
         /\ phase \in {"idle", "collect"} => Pos = "end"
         /\ todo = << >> <=> Pos = "end"
<1> USE DEF Pos
<1>1. ASSUME todo \in EditRests
      PROVE  /\ Pos \in {"check", "confirm", "recheck", "backup", "arm", "stop", "install",
                         "start", "disarm", "end"}
             /\ todo = << >> <=> Pos = "end"
  BY <1>1 DEF EditRests, ApplyRests, E3, E2, E1, Apply, A5, A4, A3, A2, A1
<1>2. ASSUME todo \in GenerateRests
      PROVE  /\ Pos \in {"confirm", "backup", "arm", "stop", "install", "start", "disarm",
                         "end"}
             /\ todo = << >> <=> Pos = "end"
  BY <1>2 DEF GenerateRests, ApplyRests, G1, Apply, A5, A4, A3, A2, A1
<1>3. ASSUME todo \in UndoRests
      PROVE  /\ Pos \in {"unstop", "restore", "restart", "end"}
             /\ todo = << >> <=> Pos = "end"
  BY <1>3 DEF UndoRests, Undo, U2, U1
<1> QED BY <1>1, <1>2, <1>3 DEF Shape, TypeOK

(* The prompt is answered once its word is no longer ahead. *)
LEMMA PromptAnswered ==
  ASSUME Shape, TypeOK, phase = "run", Pos \notin {"check", "confirm"}
  PROVE  Range(todo) \cap {"check", "confirm"} = {}
<1>1. ASSUME todo \in {E1} \cup ApplyRests
      PROVE  \A i \in DOMAIN todo : todo[i] \notin {"check", "confirm"}
  BY <1>1 DEF E1, ApplyRests, Apply, A5, A4, A3, A2, A1
<1>2. todo \in {E1} \cup ApplyRests
  BY DEF Shape, Pos, EditRests, GenerateRests, E3, E2, G1
<1> QED BY <1>1, <1>2 DEF Range

AfterStep(step) ==
  CASE step = "check"   -> "confirm"
    [] step = "confirm" -> IF op = "edit" THEN "recheck" ELSE "backup"
    [] step = "recheck" -> "backup"
    [] step = "backup"  -> "arm"
    [] step = "arm"     -> "stop"
    [] step = "stop"    -> "install"
    [] step = "install" -> "start"
    [] step = "start"   -> "disarm"
    [] step = "disarm"  -> "end"
    [] step = "unstop"  -> "restore"
    [] step = "restore" -> "restart"
    [] step = "restart" -> "end"

LEMMA Advances ==
  ASSUME Shape, TypeOK, todo # << >>, todo' = Tail(todo), phase' = phase, op' = op
  PROVE  /\ phase = "run" =>
              (todo \in IF op = "edit" THEN EditRests ELSE GenerateRests)'
         /\ phase = "clean" => (todo \in UndoRests)'
         /\ phase \in {"run", "clean"}
         /\ Pos' = AfterStep(Pos)
<1> USE DEF Pos, AfterStep
<1>1. ASSUME todo \in ApplyRests
      PROVE  todo' \in ApplyRests /\ Pos' = AfterStep(Pos)
  <2> USE DEF ApplyRests
  <2>1. CASE todo = Apply BY <2>1 DEF Apply, A5
  <2>2. CASE todo = A5 BY <2>2 DEF A5, A4
  <2>3. CASE todo = A4 BY <2>3 DEF A4, A3
  <2>4. CASE todo = A3 BY <2>4 DEF A3, A2
  <2>5. CASE todo = A2 BY <2>5 DEF A2, A1
  <2>6. CASE todo = A1 BY <2>6 DEF A1
  <2> QED BY <1>1, <2>1, <2>2, <2>3, <2>4, <2>5, <2>6
<1>2. ASSUME todo \in EditRests, op = "edit"
      PROVE  todo' \in EditRests /\ Pos' = AfterStep(Pos)
  <2> USE <1>2 DEF EditRests
  <2>1. CASE todo = E3 BY <2>1 DEF E3, E2
  <2>2. CASE todo = E2 BY <2>2 DEF E2, E1
  <2>3. CASE todo = E1 BY <2>3 DEF E1, Apply, ApplyRests
  <2> QED BY <1>1, <2>1, <2>2, <2>3
<1>3. ASSUME todo \in GenerateRests, op = "generate"
      PROVE  todo' \in GenerateRests /\ Pos' = AfterStep(Pos)
  <2> USE <1>3 DEF GenerateRests
  <2>1. CASE todo = G1 BY <2>1 DEF G1, Apply, ApplyRests
  <2> QED BY <1>1, <2>1
<1>4. ASSUME todo \in UndoRests
      PROVE  todo' \in UndoRests /\ Pos' = AfterStep(Pos)
  <2> USE DEF UndoRests
  <2>1. CASE todo = Undo BY <2>1 DEF Undo, U2
  <2>2. CASE todo = U2 BY <2>2 DEF U2, U1
  <2>3. CASE todo = U1 BY <2>3 DEF U1
  <2> QED BY <1>4, <2>1, <2>2, <2>3
<1> HIDE DEF Pos, AfterStep
<1> QED BY <1>2, <1>3, <1>4 DEF Shape, TypeOK

LEMMA RangeOfTail ==
  ASSUME NEW S, NEW s \in Seq(S), s # << >>
  PROVE  /\ Tail(s) \in Seq(S)
         /\ Head(s) \in Range(s) /\ Head(s) \in S
         /\ Range(Tail(s)) \subseteq Range(s)
         /\ Range(s) \subseteq Range(Tail(s)) \cup {Head(s)}
         /\ Len(s) = 1 => Range(s) = {Head(s)}
         /\ Len(s) # 1 => Tail(s) # << >>
<1>1. /\ Len(s) \in Nat \ {0} /\ DOMAIN s = 1..Len(s) /\ Head(s) = s[1]
  BY EmptySeq, LenProperties, HeadTailProperties
<1>2. /\ Tail(s) \in Seq(S) /\ Len(Tail(s)) = Len(s) - 1
      /\ \A i \in 1..Len(Tail(s)) : Tail(s)[i] = s[i + 1]
      /\ DOMAIN Tail(s) = 1..(Len(s) - 1)
  BY HeadTailProperties, LenProperties
<1>3. Head(s) \in Range(s) /\ Head(s) \in S
  BY <1>1, ElementOfSeq DEF Range
<1>4. Range(Tail(s)) \subseteq Range(s)
  BY <1>1, <1>2 DEF Range
<1>5. ASSUME NEW i \in 2..Len(s) PROVE s[i] \in Range(Tail(s))
  <2>1. i - 1 \in 1..(Len(s) - 1) /\ Tail(s)[i - 1] = s[i]
    BY <1>1, <1>2
  <2> QED BY <1>2, <2>1 DEF Range
<1>6. Range(s) \subseteq Range(Tail(s)) \cup {Head(s)}
  <2>1. \A i \in 1..Len(s) : i = 1 \/ i \in 2..Len(s)
    BY <1>1
  <2> QED BY <1>1, <1>5, <2>1 DEF Range
<1>7. Len(s) = 1 => Range(s) = {Head(s)}
  BY <1>1 DEF Range
<1>8. Len(s) # 1 => Tail(s) # << >>
  BY <1>1, <1>2
<1> QED BY <1>2, <1>3, <1>4, <1>6, <1>7, <1>8
-----------------------------------------------------------------------------
(* What the steps do to the list and the loop *)

LEMMA DoesMoves ==
  ASSUME ConfigInv, NEW step, Does(step), tracked' = tracked
  PROVE  /\ Pos = step /\ Pos' = AfterStep(step) /\ phase' = phase /\ op' = op
         /\ phase \in {"run", "clean"}
         /\ phase = "run" => (todo \in IF op = "edit" THEN EditRests ELSE GenerateRests)'
         /\ phase = "clean" => (todo \in UndoRests)'
         /\ left' = tracked /\ left' # << >> /\ T' = T /\ Done' = {}
<1> USE DEF ConfigInv
<1>1. Pos = step /\ todo # << >>
  BY DEF Does, At, Pos
<1>2. todo' = Tail(todo) /\ left' = tracked /\ phase' = phase /\ op' = op
  BY DEF Does, Proceeds
<1>3. phase \in {"run", "clean"} /\ tracked # << >>
  BY <1>1, <1>2, Advances DEF Shape
<1> QED BY <1>1, <1>2, <1>3, Advances DEF T, Done

(* One file of the loop is done: `f` is the first of those left, and the   *)
(* step ends with the last of them.                                        *)
LEMMA LoopMoves ==
  ASSUME ConfigInv, NEW step, NEW f, DoesFile(step, f), tracked' = tracked
  PROVE  /\ Pos = step /\ phase' = phase /\ op' = op
         /\ phase \in {"run", "clean"}
         /\ phase = "run" => (todo \in IF op = "edit" THEN EditRests ELSE GenerateRests)'
         /\ phase = "clean" => (todo \in UndoRests)'
         /\ f \in T /\ f \in Files /\ f \in Range(left)
         /\ left' \in Seq(Files) /\ left' # << >> /\ Range(left') \subseteq T
         /\ T' = T
         /\ \/ Pos' = step /\ Done' \subseteq Done \cup {f}
            \/ Pos' = AfterStep(step) /\ T \subseteq Done \cup {f} /\ Done' = {}
<1> USE DEF ConfigInv
<1>1. Pos = step /\ todo # << >> /\ f = Head(left)
  BY DEF DoesFile, At, Pos
<1>2. phase \in {"run", "clean"} /\ left # << >> /\ left \in Seq(Files) /\ tracked # << >>
  BY <1>1, StepsOf DEF Shape, CopiesOK, TypeOK
<1>3. f \in Range(left) /\ f \in T /\ f \in Files
  BY <1>1, <1>2, RangeOfTail DEF Shape
<1>4. CASE Len(left) = 1
  <2>1. todo' = Tail(todo) /\ left' = tracked /\ phase' = phase /\ op' = op
    BY <1>4 DEF DoesFile, Proceeds
  <2>2. T \subseteq Done \cup {f}
    BY <1>1, <1>2, <1>4, RangeOfTail DEF Done
  <2> QED BY <1>1, <1>2, <1>3, <2>1, <2>2, Advances DEF T, Done, CopiesOK
<1>5. CASE Len(left) # 1
  <2>1. left' = Tail(left) /\ todo' = todo /\ phase' = phase /\ op' = op
    BY <1>5 DEF DoesFile
  <2>2. /\ left' \in Seq(Files) /\ left' # << >> /\ Range(left') \subseteq Range(left)
        /\ Range(left) \subseteq Range(left') \cup {f}
    BY <1>1, <1>2, <1>5, <2>1, RangeOfTail
  <2> QED BY <1>1, <1>2, <1>3, <2>1, <2>2 DEF T, Done, Pos, Shape
<1> QED BY <1>4, <1>5

LEMMA InitInv == Init => ConfigInv
<1> SUFFICES ASSUME Init PROVE ConfigInv
    OBVIOUS
<1> USE ConfigAssumption DEF Init, NoFiles
<1>1. TypeOK
  <2>1. file \in [Files -> Whole \cup {Absent, Broken}]
    BY DEF Files, Whole
  <2>2. Range(tracked) = {}
    BY DEF Range
  <2> QED BY <2>1, <2>2 DEF TypeOK, Files
<1>2. CopiesOK
  BY DEF CopiesOK, Kinds, Files
<1>3. Shape /\ BackupInv
  BY DEF Shape, BackupInv, T, Range
<1>4. RunInv /\ CleanInv /\ ArmedInv
  BY DEF RunInv, CleanInv, ArmedInv
<1> QED BY <1>1, <1>2, <1>3, <1>4 DEF ConfigInv

-----------------------------------------------------------------------------
(* The commands of the script *)

LEMMA ConfirmStep == ConfigInv /\ Confirm => ConfigInv'
<1> SUFFICES ASSUME ConfigInv, Confirm PROVE ConfigInv'
    OBVIOUS
<1> USE ConfigAssumption DEF ConfigInv, Confirm, copies, script, flags, ghosts, budget
<1>1. /\ Pos = "confirm" /\ Pos' \in {"recheck", "backup"} /\ phase = "run"
      /\ Pos' = "backup" => op = "generate"
      /\ phase' = phase /\ op' = op /\ T' = T /\ Done' = {}
      /\ left' = tracked /\ left' # << >>
      /\ (todo \in IF op = "edit" THEN EditRests ELSE GenerateRests)'
  BY DoesMoves, StepsOf DEF AfterStep, TypeOK
<1>2. TypeOK'
  BY <1>1 DEF TypeOK
<1>3. CopiesOK'
  BY <1>1 DEF CopiesOK
<1>4. Shape' /\ BackupInv'
  BY <1>1 DEF T, Shape, BackupInv
<1>5. RunInv'
  BY <1>1 DEF RunInv, Shape
<1>6. CleanInv'
  BY <1>1 DEF CleanInv, RunInv, Shape
<1>7. ArmedInv'
  BY <1>1 DEF ArmedInv, TypeOK
<1> QED BY <1>2, <1>3, <1>4, <1>5, <1>6, <1>7

LEMMA CheckStep ==
  ASSUME ConfigInv, NEW f \in Files, Check(f)
  PROVE  ConfigInv'
<1> USE ConfigAssumption DEF ConfigInv, Check, copies, script, flags, ghosts, budget
<1>1. PICK step \in {"check", "recheck"} : DoesFile(step, f)
  OBVIOUS
<1>2. /\ Pos = step /\ phase = "run" /\ op = "edit" /\ phase' = phase /\ op' = op
      /\ (todo \in IF op = "edit" THEN EditRests ELSE GenerateRests)'
      /\ f \in T /\ left' \in Seq(Files) /\ left' # << >> /\ Range(left') \subseteq T
      /\ T' = T
      /\ \/ Pos' = step /\ Done' \subseteq Done \cup {f}
         \/ Pos' = AfterStep(step) /\ T \subseteq Done \cup {f} /\ Done' = {}
  BY <1>1, LoopMoves, StepsOf DEF TypeOK
<1>3. TypeOK'
  BY <1>1, <1>2 DEF TypeOK
<1>4. CopiesOK'
  BY <1>1, <1>2 DEF CopiesOK
<1>5. Shape' /\ BackupInv'
  BY <1>1, <1>2 DEF AfterStep, T, Shape, BackupInv
<1>6. RunInv'
  BY <1>1, <1>2 DEF AfterStep, RunInv, Shape
<1>7. CleanInv'
  BY <1>1, <1>2 DEF CleanInv, RunInv, Shape
<1>8. ArmedInv'
  BY <1>1, <1>2 DEF ArmedInv, TypeOK
<1> QED BY <1>3, <1>4, <1>5, <1>6, <1>7, <1>8

LEMMA BackupStep ==
  ASSUME ConfigInv, NEW f \in Files, Backup(f)
  PROVE  ConfigInv'
<1> USE ConfigAssumption DEF ConfigInv, Backup, copies, script, flags, ghosts, budget
<1>1. /\ Pos = "backup" /\ phase = "run" /\ phase' = phase /\ op' = op
      /\ (todo \in IF op = "edit" THEN EditRests ELSE GenerateRests)'
      /\ f \in T /\ left' \in Seq(Files) /\ left' # << >> /\ Range(left') \subseteq T
      /\ T' = T
      /\ \/ Pos' = "backup" /\ Done' \subseteq Done \cup {f}
         \/ Pos' = AfterStep("backup") /\ T \subseteq Done \cup {f} /\ Done' = {}
  BY LoopMoves, StepsOf DEF TypeOK
<1>2. f \in T /\ T \subseteq Files /\ Done \subseteq T
  BY <1>1 DEF T, Done, TypeOK
<1>3. TypeOK'
  BY <1>1, <1>2 DEF TypeOK
<1>4. CopiesOK'
  BY <1>1, <1>2 DEF Kinds, TypeOK, CopiesOK
<1>5. Shape' /\ BackupInv'
  BY <1>1, <1>2 DEF AfterStep, CopiesOK, T, Shape, BackupInv
<1>6. RunInv'
  BY <1>1, <1>2 DEF AfterStep, CopiesOK, Done, RunInv, Shape
<1>7. CleanInv'
  BY <1>1, <1>2 DEF CleanInv, RunInv, Shape
<1>8. ArmedInv'
  BY <1>1, <1>2 DEF ArmedInv, TypeOK
<1> QED BY <1>3, <1>4, <1>5, <1>6, <1>7, <1>8

LEMMA InstallStep ==
  ASSUME ConfigInv, NEW f \in Files, Install(f)
  PROVE  ConfigInv'
<1> USE ConfigAssumption DEF ConfigInv, Install, copies, script, flags, ghosts, budget
<1>1. /\ Pos = "install" /\ phase = "run" /\ phase' = phase /\ op' = op
      /\ (todo \in IF op = "edit" THEN EditRests ELSE GenerateRests)'
      /\ f \in T /\ left' \in Seq(Files) /\ left' # << >> /\ Range(left') \subseteq T
      /\ T' = T
      /\ \/ Pos' = "install" /\ Done' \subseteq Done \cup {f}
         \/ Pos' = AfterStep("install") /\ T \subseteq Done \cup {f} /\ Done' = {}
  BY LoopMoves, StepsOf DEF TypeOK
<1>2. f \in T /\ T \subseteq Files /\ Done \subseteq T
  BY <1>1 DEF T, Done, TypeOK
<1>3. TypeOK'
  BY <1>1, <1>2 DEF TypeOK
<1>4. CopiesOK'
  BY <1>1, <1>2 DEF CopiesOK
<1>5. Shape' /\ BackupInv'
  BY <1>1, <1>2 DEF AfterStep, T, Shape, BackupInv
<1>6. RunInv'
  BY <1>1, <1>2 DEF AfterStep, TypeOK, RunInv, Shape
<1>7. CleanInv'
  BY <1>1, <1>2 DEF CleanInv, RunInv, Shape
<1>8. ArmedInv'
  BY <1>1, <1>2 DEF ArmedInv, TypeOK
<1> QED BY <1>3, <1>4, <1>5, <1>6, <1>7, <1>8

LEMMA RestoreStep ==
  ASSUME ConfigInv, NEW f \in Files, Restore(f)
  PROVE  ConfigInv'
<1> USE ConfigAssumption DEF ConfigInv, Restore, copies, script, flags, ghosts, budget
<1>1. /\ Pos = "restore" /\ phase = "clean" /\ phase' = phase /\ op' = op
      /\ (todo \in UndoRests)'
      /\ f \in T /\ left' \in Seq(Files) /\ left' # << >> /\ Range(left') \subseteq T
      /\ T' = T
      /\ \/ Pos' = "restore" /\ Done' \subseteq Done \cup {f}
         \/ Pos' = AfterStep("restore") /\ T \subseteq Done \cup {f} /\ Done' = {}
  BY LoopMoves, StepsOf DEF TypeOK
<1>2. f \in T /\ T \subseteq Files /\ Done \subseteq T
  BY <1>1 DEF T, Done, TypeOK
<1>3. before[f] \in Kinds /\ armed
  BY <1>1 DEF CopiesOK, Shape, Pos
<1>4. TypeOK'
  BY <1>1, <1>2, <1>3 DEF Kinds, TypeOK
<1>5. CopiesOK'
  BY <1>1, <1>2, <1>3 DEF CopiesOK
<1>6. Shape' /\ BackupInv'
  BY <1>1, <1>2, <1>3 DEF AfterStep, T, Shape, BackupInv
<1>7. RunInv'
  BY <1>1, <1>2, <1>3 DEF RunInv, Shape
<1>8. CleanInv'
  BY <1>1, <1>2, <1>3 DEF AfterStep, TypeOK, CleanInv, RunInv, Shape
<1>9. ArmedInv'
  BY <1>1, <1>2, <1>3 DEF ArmedInv, TypeOK
<1> QED BY <1>4, <1>5, <1>6, <1>7, <1>8, <1>9

LEMMA ArmStep == ConfigInv /\ Arm => ConfigInv'
<1> SUFFICES ASSUME ConfigInv, Arm PROVE ConfigInv'
    OBVIOUS
<1> USE ConfigAssumption DEF ConfigInv, Arm, copies, script, flags, ghosts, budget
<1>1. /\ Pos = "arm" /\ phase = "run" /\ phase' = phase /\ op' = op
      /\ (todo \in IF op = "edit" THEN EditRests ELSE GenerateRests)'
      /\ Pos' = AfterStep("arm")
      /\ left' = tracked /\ left' # << >> /\ T' = T /\ Done' = {}
  BY DoesMoves, StepsOf DEF TypeOK
<1>2. TypeOK'
  BY <1>1 DEF TypeOK
<1>3. CopiesOK'
  BY <1>1 DEF CopiesOK
<1>4. Shape' /\ BackupInv'
  BY <1>1 DEF AfterStep, T, Shape, BackupInv
<1>5. RunInv'
  BY <1>1 DEF AfterStep, RunInv, Shape
<1>6. CleanInv'
  BY <1>1 DEF CleanInv, RunInv, Shape
<1>7. ArmedInv'
  BY <1>1 DEF ArmedInv, TypeOK
<1> QED BY <1>2, <1>3, <1>4, <1>5, <1>6, <1>7

LEMMA StartStep == ConfigInv /\ Start => ConfigInv'
<1> SUFFICES ASSUME ConfigInv, Start PROVE ConfigInv'
    OBVIOUS
<1> USE ConfigAssumption DEF ConfigInv, Start, copies, script, flags, ghosts, budget
<1>1. /\ Pos = "start" /\ phase = "run" /\ phase' = phase /\ op' = op
      /\ (todo \in IF op = "edit" THEN EditRests ELSE GenerateRests)'
      /\ Pos' = AfterStep("start")
      /\ left' = tracked /\ left' # << >> /\ T' = T /\ Done' = {}
  BY DoesMoves, StepsOf DEF TypeOK
<1>2. TypeOK'
  BY <1>1 DEF TypeOK
<1>3. CopiesOK'
  BY <1>1 DEF CopiesOK
<1>4. Shape' /\ BackupInv'
  BY <1>1 DEF AfterStep, T, Shape, BackupInv
<1>5. RunInv'
  BY <1>1 DEF AfterStep, RunInv, Shape
<1>6. CleanInv'
  BY <1>1 DEF CleanInv, RunInv, Shape
<1>7. ArmedInv'
  BY <1>1 DEF ArmedInv, TypeOK
<1> QED BY <1>2, <1>3, <1>4, <1>5, <1>6, <1>7

LEMMA DisarmStep == ConfigInv /\ Disarm => ConfigInv'
<1> SUFFICES ASSUME ConfigInv, Disarm PROVE ConfigInv'
    OBVIOUS
<1> USE ConfigAssumption DEF ConfigInv, Disarm, copies, script, flags, ghosts, budget
<1>1. /\ Pos = "disarm" /\ phase = "run" /\ phase' = phase /\ op' = op
      /\ (todo \in IF op = "edit" THEN EditRests ELSE GenerateRests)'
      /\ Pos' = AfterStep("disarm")
      /\ left' = tracked /\ left' # << >> /\ T' = T /\ Done' = {}
  BY DoesMoves, StepsOf DEF TypeOK
<1>2. TypeOK'
  BY <1>1 DEF TypeOK
<1>3. CopiesOK'
  BY <1>1 DEF CopiesOK
<1>4. Shape' /\ BackupInv'
  BY <1>1 DEF AfterStep, T, Shape, BackupInv
<1>5. RunInv'
  BY <1>1 DEF AfterStep, RunInv, Shape
<1>6. CleanInv'
  BY <1>1 DEF CleanInv, RunInv, Shape
<1>7. ArmedInv'
  BY <1>1 DEF ArmedInv, TypeOK
<1> QED BY <1>2, <1>3, <1>4, <1>5, <1>6, <1>7

LEMMA RestartStep == ConfigInv /\ Restart => ConfigInv'
<1> SUFFICES ASSUME ConfigInv, Restart PROVE ConfigInv'
    OBVIOUS
<1> USE ConfigAssumption DEF ConfigInv, Restart, copies, script, flags, ghosts, budget
<1>1. /\ Pos = "restart" /\ phase = "clean" /\ phase' = phase /\ op' = op
      /\ (todo \in UndoRests)'
      /\ Pos' = AfterStep("restart")
      /\ left' = tracked /\ left' # << >> /\ T' = T /\ Done' = {}
  BY DoesMoves, StepsOf DEF TypeOK
<1>2. armed
  BY <1>1 DEF Shape, Does, At
<1>3. TypeOK'
  BY <1>1 DEF TypeOK
<1>4. CopiesOK'
  BY <1>1 DEF CopiesOK
<1>5. Shape' /\ BackupInv'
  BY <1>1, <1>2 DEF AfterStep, T, Shape, BackupInv
<1>6. RunInv'
  BY <1>1 DEF RunInv, Shape
<1>7. CleanInv'
  BY <1>1 DEF AfterStep, ArmedInv, CleanInv, RunInv, Shape
<1>8. ArmedInv'
  BY <1>1 DEF ArmedInv, TypeOK
<1> QED BY <1>3, <1>4, <1>5, <1>6, <1>7, <1>8

LEMMA StopStep == ConfigInv /\ Stop => ConfigInv'
<1> SUFFICES ASSUME ConfigInv, Stop PROVE ConfigInv'
    OBVIOUS
<1> USE ConfigAssumption DEF ConfigInv, Stop, copies, script, flags, ghosts, budget
<1>1. PICK step \in {"stop", "unstop"} : Does(step)
  OBVIOUS
<1>2. /\ Pos = step /\ phase' = phase /\ op' = op
      /\ Pos' = AfterStep(step)
      /\ phase = "run" => step = "stop"
                          /\ (todo \in IF op = "edit" THEN EditRests ELSE GenerateRests)'
      /\ phase = "clean" => step = "unstop" /\ (todo \in UndoRests)'
      /\ phase \in {"run", "clean"}
      /\ left' = tracked /\ left' # << >> /\ T' = T /\ Done' = {}
  BY <1>1, DoesMoves, StepsOf DEF TypeOK
<1>3. phase = "clean" => armed
  BY <1>1, <1>2 DEF Shape, Does, At
<1>4. TypeOK'
  BY <1>1, <1>2 DEF TypeOK
<1>5. CopiesOK'
  BY <1>1, <1>2 DEF CopiesOK
<1>6. Shape' /\ BackupInv'
  <2>1. CASE phase = "run" BY <1>2, <2>1 DEF AfterStep, T, Shape, BackupInv
  <2>2. CASE phase = "clean" BY <1>2, <1>3, <2>2 DEF AfterStep, T, Shape, BackupInv
  <2> QED BY <1>2, <2>1, <2>2
<1>7. RunInv'
  BY <1>1, <1>2 DEF AfterStep, RunInv, Shape
<1>8. CleanInv'
  BY <1>1, <1>2 DEF AfterStep, CleanInv, RunInv, Shape
<1>9. ArmedInv'
  BY <1>1, <1>2 DEF ArmedInv, TypeOK
<1> QED BY <1>4, <1>5, <1>6, <1>7, <1>8, <1>9

-----------------------------------------------------------------------------
(* The ends of a script, whether it fails, is killed or comes to its end. *)

LEMMA TrappedMoves ==
  ASSUME ConfigInv, phase = "run", Trapped, UNCHANGED <<tracked, armed>>
  PROVE  /\ phase' = "clean" /\ op' = op /\ left' = tracked /\ left' # << >>
         /\ (todo \in UndoRests)' /\ T' = T
         /\ ~armed => todo' = << >>
         /\ armed => Pos' = "unstop"
BY DEF ConfigInv, Shape, Trapped, UndoRests, Undo, Pos, T

(* A write that is cut short leaves a part of one of the transaction's     *)
(* files.                                                                  *)
LEMMA TornFile ==
  ASSUME ConfigInv, NEW step \in {"install", "restore"}, file' \in Torn(step)
  PROVE  /\ file' \in [Files -> Kinds]
         /\ \A f \in Files : file'[f] \in {file[f], Broken}
         /\ Pos # step => file' = file
         /\ file' # file => phase \in {"run", "clean"} /\ armed
         /\ \A f \in Files : file'[f] # file[f] => f \in T
<1> USE DEF ConfigInv
<1>1. CASE At(step)
  <2>1. phase \in {"run", "clean"} /\ left \in Seq(Files) /\ left # << >> /\ Pos = step
    BY <1>1, StepsOf DEF Shape, CopiesOK, At, Pos, TypeOK
  <2>2. Head(left) \in T /\ Head(left) \in Files
    BY <2>1, RangeOfTail DEF Shape
  <2>3. armed
    <3>1. CASE phase = "run" BY <2>1, <3>1, StepsOf DEF Shape, TypeOK
    <3>2. CASE phase = "clean" BY <1>1, <3>2 DEF Shape, At
    <3> QED BY <2>1, <3>1, <3>2
  <2> QED BY <1>1, <2>1, <2>2, <2>3 DEF Torn, TypeOK, Kinds
<1>2. CASE ~At(step)
  BY <1>2 DEF Torn, TypeOK, Kinds, At, Pos
<1> QED BY <1>1, <1>2

LEMMA CheckFailsStep == ConfigInv /\ CheckFails => ConfigInv'
<1> SUFFICES ASSUME ConfigInv, CheckFails PROVE ConfigInv'
    OBVIOUS
<1> USE ConfigAssumption DEF ConfigInv, CheckFails, copies, script, flags, ghosts, budget, Ends
<1>1. phase = "run" /\ ~armed /\ op = "edit"
  BY StepsOf DEF At, Pos, TypeOK, Shape
<1>2. T' = T /\ left' \in Seq(Files) /\ Range(left') = {}
  BY DEF T, Range
<1>3. TypeOK'
  BY <1>1, <1>2 DEF TypeOK
<1>4. CopiesOK'
  BY <1>1, <1>2 DEF CopiesOK
<1>5. Shape' /\ BackupInv'
  BY <1>1, <1>2 DEF Shape, BackupInv
<1>6. RunInv'
  BY <1>1, <1>2 DEF RunInv, Shape
<1>7. CleanInv'
  BY <1>1, <1>2 DEF CleanInv, RunInv, Shape
<1>8. ArmedInv'
  BY <1>1, <1>2 DEF ArmedInv, TypeOK
<1> QED BY <1>3, <1>4, <1>5, <1>6, <1>7, <1>8

LEMMA CancelStep == ConfigInv /\ Cancel => ConfigInv'
<1> SUFFICES ASSUME ConfigInv, Cancel PROVE ConfigInv'
    OBVIOUS
<1> USE ConfigAssumption DEF ConfigInv, Cancel, copies, script, flags, ghosts, budget, Ends
<1>1. ~armed
  BY StepsOf DEF At, Pos, TypeOK, Shape
<1>2. T' = T /\ left' \in Seq(Files) /\ Range(left') = {}
  BY DEF T, Range
<1>3. TypeOK'
  BY <1>1, <1>2 DEF TypeOK
<1>4. CopiesOK'
  BY <1>1, <1>2 DEF CopiesOK
<1>5. Shape' /\ BackupInv'
  BY <1>1, <1>2 DEF Shape, BackupInv
<1>6. RunInv'
  BY <1>1, <1>2 DEF RunInv, Shape
<1>7. CleanInv'
  BY <1>1, <1>2 DEF CleanInv, RunInv, Shape
<1>8. ArmedInv'
  BY <1>1, <1>2 DEF ArmedInv, TypeOK
<1> QED BY <1>3, <1>4, <1>5, <1>6, <1>7, <1>8

LEMMA StepFailsStep == ConfigInv /\ StepFails => ConfigInv'
<1> SUFFICES ASSUME ConfigInv, StepFails PROVE ConfigInv'
    OBVIOUS
<1> USE ConfigAssumption DEF ConfigInv, StepFails, copies, script, flags, ghosts, budget, Trouble
<1>1. /\ phase' = "clean" /\ op' = op /\ left' = tracked /\ left' # << >>
      /\ (todo \in UndoRests)' /\ T' = T
      /\ ~armed => todo' = << >>
      /\ armed => Pos' = "unstop"
  BY TrappedMoves
<1>2. /\ file' \in [Files -> Kinds]
      /\ \A f \in Files : file'[f] \in {file[f], Broken}
      /\ Pos # "install" => file' = file
  BY TornFile
<1>3. service' \in {"up", "retrying", "down"} /\ troubles' \in Nat
  BY DEF TypeOK, CopiesOK
<1>4. T \subseteq Files
  BY DEF T, TypeOK
<1>5. armed => \A f \in T \ late : file'[f] \in {before[f], after[f], Broken}
  <2>1. armed => Pos \in {"stop", "install", "start", "disarm"} BY DEF Shape
  <2> QED BY <1>2, <1>4, <2>1 DEF RunInv
<1>6. TypeOK'
  BY <1>1, <1>2, <1>3, <1>4, <1>5 DEF Kinds, TypeOK
<1>7. CopiesOK'
  BY <1>1, <1>2, <1>3, <1>4, <1>5 DEF CopiesOK
<1>8. Shape' /\ BackupInv'
  BY <1>1, <1>2, <1>3, <1>4, <1>5 DEF T, Shape, BackupInv
<1>9. RunInv'
  BY <1>1, <1>2, <1>3, <1>4, <1>5 DEF RunInv, Shape
<1>10. CleanInv'
  BY <1>1, <1>2, <1>3, <1>4, <1>5 DEF CleanInv, RunInv, Shape
<1>11. ArmedInv'
  BY <1>1, <1>2, <1>3, <1>4, <1>5 DEF ArmedInv, TypeOK
<1> QED BY <1>6, <1>7, <1>8, <1>9, <1>10, <1>11

LEMMA UndoFailsStep == ConfigInv /\ UndoFails => ConfigInv'
<1> SUFFICES ASSUME ConfigInv, UndoFails PROVE ConfigInv'
    OBVIOUS
<1> USE ConfigAssumption DEF ConfigInv, UndoFails, copies, script, flags, ghosts, budget, Trouble
<1>1. /\ file' \in [Files -> Kinds]
      /\ \A f \in Files : file'[f] \in {file[f], Broken}
      /\ Pos # "restore" => file' = file
      /\ T \subseteq Files /\ T' = T /\ armed /\ troubles' \in Nat
      /\ service' \in {"up", "retrying", "down"}
  <2>1. /\ file' \in [Files -> Kinds]
        /\ \A f \in Files : file'[f] \in {file[f], Broken}
        /\ Pos # "restore" => file' = file
    BY TornFile
  <2>2. T \subseteq Files /\ T' = T
    BY DEF T, TypeOK
  <2>3. troubles' \in Nat /\ service' \in {"up", "retrying", "down"}
    BY DEF TypeOK, CopiesOK
  <2> QED BY <2>1, <2>2, <2>3 DEF Shape
<1>2. CASE At("unstop")
  <2>1. /\ Pos = "unstop" /\ todo' = << >> /\ Pos' = "end" /\ UNCHANGED <<op, phase, left>>
        /\ ~ok' /\ Done' = Done
    BY <1>1, <1>2 DEF At, Pos, Done
  <2>2. TypeOK'
    BY <1>1, <2>1 DEF Kinds, TypeOK
  <2>3. CopiesOK'
    BY <1>1, <2>1 DEF CopiesOK
  <2>4. Shape' /\ BackupInv'
    BY <1>1, <2>1 DEF UndoRests, Shape, BackupInv
  <2>5. RunInv'
    BY <1>1, <2>1 DEF RunInv, Shape
  <2>6. CleanInv'
    BY <1>1, <2>1 DEF CleanInv, RunInv, Shape
  <2>7. ArmedInv'
    BY <1>1, <2>1 DEF ArmedInv, TypeOK
  <2> QED BY <2>2, <2>3, <2>4, <2>5, <2>6, <2>7
<1>3. CASE At("restore")
  <2>1. Pos = "restore" /\ ~ok' /\ DoesFile("restore", Head(left))
    BY <1>3 DEF At, Pos
  <2>2. /\ phase' = phase /\ op' = op /\ (todo \in UndoRests)'
        /\ left' \in Seq(Files) /\ left' # << >> /\ Range(left') \subseteq T
    BY <2>1, LoopMoves
  <2>3. TypeOK'
    BY <1>1, <2>1, <2>2 DEF Kinds, TypeOK
  <2>4. CopiesOK'
    BY <1>1, <2>1, <2>2 DEF CopiesOK
  <2>5. Shape' /\ BackupInv'
    BY <1>1, <2>1, <2>2 DEF Shape, BackupInv
  <2>6. RunInv'
    BY <1>1, <2>1, <2>2 DEF RunInv, Shape
  <2>7. CleanInv'
    BY <1>1, <2>1, <2>2 DEF CleanInv, RunInv, Shape
  <2>8. ArmedInv'
    BY <1>1, <2>1, <2>2 DEF ArmedInv, TypeOK
  <2> QED BY <2>3, <2>4, <2>5, <2>6, <2>7, <2>8
<1>4. CASE ~At("unstop") /\ ~At("restore")
  <2>1. Does("restart") /\ Pos = "restart" /\ file' = file /\ service' = service
    BY <1>1, <1>4 DEF Does, At, Pos
  <2>2. /\ phase' = phase /\ op' = op /\ (todo \in UndoRests)' /\ Pos' = "end"
        /\ left' = tracked /\ left' # << >>
    BY <2>1, DoesMoves DEF AfterStep
  <2>3. ok /\ (ok' => op = "generate")
    BY <2>1 DEF Does
  <2>4. TypeOK'
    BY <1>1, <2>1, <2>2, <2>3 DEF Kinds, TypeOK
  <2>5. CopiesOK'
    BY <1>1, <2>1, <2>2, <2>3 DEF CopiesOK
  <2>6. Shape' /\ BackupInv'
    BY <1>1, <2>1, <2>2, <2>3 DEF T, Shape, BackupInv
  <2>7. RunInv'
    BY <1>1, <2>1, <2>2, <2>3 DEF RunInv, Shape
  <2>8. CleanInv'
    BY <1>1, <2>1, <2>2, <2>3 DEF CleanInv, RunInv, Shape
  <2>9. ArmedInv'
    BY <1>1, <2>1, <2>2, <2>3 DEF ArmedInv, TypeOK
  <2> QED BY <2>4, <2>5, <2>6, <2>7, <2>8, <2>9
<1> QED BY <1>2, <1>3, <1>4

LEMMA ExitStep == ConfigInv /\ Exit => ConfigInv'
<1> SUFFICES ASSUME ConfigInv, Exit PROVE ConfigInv'
    OBVIOUS
<1> USE ConfigAssumption DEF ConfigInv, Exit, copies, script, flags, ghosts, budget, Ends
<1>1. /\ T' = T /\ left' \in Seq(Files) /\ Range(left') = {} /\ Pos = "end"
      /\ phase = "run" => ~armed
  BY DEF T, Range, Pos, Shape
<1>2. TypeOK'
  BY <1>1 DEF TypeOK
<1>3. CopiesOK'
  BY <1>1 DEF CopiesOK
<1>4. Shape' /\ BackupInv'
  BY <1>1 DEF Shape, BackupInv
<1>5. RunInv'
  BY <1>1 DEF RunInv, Shape
<1>6. CleanInv'
  BY <1>1 DEF CleanInv, RunInv, Shape
<1>7. ArmedInv'
  BY <1>1 DEF ArmedInv, TypeOK
<1> QED BY <1>2, <1>3, <1>4, <1>5, <1>6, <1>7

LEMMA KillStep == ConfigInv /\ Kill => ConfigInv'
<1> SUFFICES ASSUME ConfigInv, Kill PROVE ConfigInv'
    OBVIOUS
<1> USE ConfigAssumption DEF ConfigInv, Kill, copies, script, flags, ghosts, budget, Trouble, Ends
<1>1. /\ T' = T /\ left' \in Seq(Files) /\ Range(left') = {} /\ troubles' \in Nat
      /\ phase = "run" /\ todo = << >> => Pos = "end"
  BY DEF T, Range, Pos, CopiesOK
<1>2. file' \in [Files -> Kinds]
  BY TornFile
<1>3. TypeOK'
  BY <1>1, <1>2 DEF Kinds, TypeOK
<1>4. CopiesOK'
  BY <1>1, <1>2 DEF CopiesOK
<1>5. Shape' /\ BackupInv'
  BY <1>1, <1>2 DEF Shape, BackupInv
<1>6. RunInv'
  BY <1>1, <1>2 DEF RunInv, Shape
<1>7. CleanInv'
  BY <1>1, <1>2 DEF CleanInv, RunInv, Shape
<1>8. ArmedInv'
  BY <1>1, <1>2 DEF ArmedInv, TypeOK
<1> QED BY <1>3, <1>4, <1>5, <1>6, <1>7, <1>8

-----------------------------------------------------------------------------
(* The dialogue, and the rest of the machine *)

LEMMA BeginStep ==
  ASSUME ConfigInv, NEW o \in {"edit", "generate"}, Begin(o)
  PROVE  ConfigInv'
<1> USE ConfigAssumption DEF ConfigInv, Begin, NoFiles, copies, script, flags, ghosts, budget
<1>1. T' = {} /\ ~armed /\ Range(left) = {} /\ ops' \in Nat
  BY DEF T, Range, TypeOK, Shape, CopiesOK
<1>2. TypeOK'
  BY <1>1 DEF T, TypeOK
<1>3. CopiesOK'
  BY <1>1 DEF Kinds, CopiesOK
<1>4. Shape' /\ BackupInv'
  BY <1>1 DEF Shape, BackupInv
<1>5. RunInv'
  BY <1>1 DEF RunInv, Shape
<1>6. CleanInv'
  BY <1>1 DEF CleanInv, RunInv, Shape
<1>7. ArmedInv'
  BY <1>1 DEF ArmedInv, TypeOK
<1> QED BY <1>2, <1>3, <1>4, <1>5, <1>6, <1>7

LEMMA RangeOfAppend ==
  ASSUME NEW S, NEW s \in Seq(S), NEW e \in S
  PROVE  Range(Append(s, e)) = Range(s) \cup {e}
<1>1. /\ Len(s) \in Nat /\ DOMAIN s = 1..Len(s)
      /\ Append(s, e) \in Seq(S) /\ DOMAIN Append(s, e) = 1..(Len(s) + 1)
      /\ \A i \in 1..Len(s) : Append(s, e)[i] = s[i]
      /\ Append(s, e)[Len(s) + 1] = e
  BY AppendProperties, LenProperties
<1>2. \A i \in 1..(Len(s) + 1) : i \in 1..Len(s) \/ i = Len(s) + 1
  BY <1>1
<1>3. 1..Len(s) \subseteq 1..(Len(s) + 1) /\ Len(s) + 1 \in 1..(Len(s) + 1)
  BY <1>1
<1> QED BY <1>1, <1>2, <1>3 DEF Range

LEMMA TrackStep ==
  ASSUME ConfigInv, NEW f \in Files, NEW content \in Whole, Track(f, content)
  PROVE  ConfigInv'
<1> USE ConfigAssumption DEF ConfigInv, Track, copies, script, flags, ghosts, budget
<1>1. /\ tracked' \in Seq(Files) /\ T' = T \cup {f}
      /\ Head(tracked') = Main
  <2>1. Append(tracked, f) \in Seq(Files)
    BY DEF CopiesOK
  <2>2. Range(Append(tracked, f)) = Range(tracked) \cup {f}
    BY RangeOfAppend DEF CopiesOK
  <2>3. Head(Append(tracked, f)) = IF tracked = << >> THEN f ELSE Head(tracked)
    BY DEF CopiesOK
  <2> QED BY <2>1, <2>2, <2>3 DEF T, TypeOK
<1>2. T \subseteq Files /\ phase = "collect" /\ outcome = "none" /\ ~armed
  BY DEF T, TypeOK, BackupInv
<1>3. TypeOK'
  BY <1>1, <1>2 DEF T, TypeOK
<1>4. CopiesOK'
  BY <1>1, <1>2 DEF Kinds, CopiesOK
<1>5. Shape' /\ BackupInv'
  BY <1>1, <1>2 DEF Shape, BackupInv
<1>6. RunInv'
  BY <1>1, <1>2 DEF RunInv, Shape
<1>7. CleanInv'
  BY <1>1, <1>2 DEF CleanInv, RunInv, Shape
<1>8. ArmedInv'
  BY <1>1, <1>2 DEF ArmedInv, TypeOK
<1> QED BY <1>3, <1>4, <1>5, <1>6, <1>7, <1>8

LEMMA CollectedStep == ConfigInv /\ Collected => ConfigInv'
<1> SUFFICES ASSUME ConfigInv, Collected PROVE ConfigInv'
    OBVIOUS
<1> USE ConfigAssumption DEF ConfigInv, Collected, copies, script, flags, ghosts, budget
<1>1. T' = T /\ ~armed /\ tracked # << >>
  <2>1. op = "generate" => Main \in Range(tracked)
    BY DEF Files
  <2>2. Range(<< >>) = {}
    BY DEF Range
  <2> QED BY <2>1, <2>2 DEF T, TypeOK
<1>2. /\ (todo \in IF op = "edit" THEN EditRests ELSE GenerateRests)' /\ Done' = {}
      /\ Pos' \in {"check", "confirm"}
  BY <1>1, Scripts DEF TypeOK, Pos, E3, G1, EditRests, GenerateRests, Done, T
<1>3. TypeOK'
  BY <1>1, <1>2 DEF TypeOK
<1>4. CopiesOK'
  BY <1>1, <1>2 DEF CopiesOK
<1>5. Shape' /\ BackupInv'
  BY <1>1, <1>2 DEF T, Shape, BackupInv
<1>6. RunInv'
  BY <1>1, <1>2 DEF RunInv, Shape
<1>7. CleanInv'
  BY <1>1, <1>2 DEF CleanInv, RunInv, Shape
<1>8. ArmedInv'
  BY <1>1, <1>2 DEF ArmedInv, TypeOK
<1> QED BY <1>3, <1>4, <1>5, <1>6, <1>7, <1>8

LEMMA ServiceCommandStep == ConfigInv /\ ServiceCommand => ConfigInv'
<1> SUFFICES ASSUME ConfigInv, ServiceCommand PROVE ConfigInv'
    OBVIOUS
<1> USE ConfigAssumption DEF ConfigInv, ServiceCommand, copies, script, flags, ghosts, budget
<1>1. TypeOK'
  BY DEF TypeOK
<1>2. CopiesOK'
  BY DEF CopiesOK
<1>3. Shape' /\ BackupInv'
  BY DEF T, Done, Pos, Shape, BackupInv
<1>4. RunInv'
  BY DEF RunInv, Shape
<1>5. CleanInv'
  BY DEF CleanInv, RunInv, Shape
<1>6. ArmedInv'
  BY DEF ArmedInv, TypeOK
<1> QED BY <1>1, <1>2, <1>3, <1>4, <1>5, <1>6

LEMMA FlapsStep == ConfigInv /\ Flaps => ConfigInv'
<1> SUFFICES ASSUME ConfigInv, Flaps PROVE ConfigInv'
    OBVIOUS
<1> USE ConfigAssumption DEF ConfigInv, Flaps, copies, script, flags, ghosts, budget
<1>1. Pos' = Pos /\ T' = T /\ Done' = Done
  BY DEF Pos, T, Done
<1>2. TypeOK'
  BY <1>1 DEF TypeOK
<1>3. CopiesOK'
  BY <1>1 DEF CopiesOK
<1>4. Shape' /\ BackupInv'
  BY <1>1 DEF Shape, BackupInv
<1>5. RunInv'
  BY <1>1 DEF RunInv, Shape
<1>6. CleanInv'
  BY <1>1 DEF CleanInv, RunInv, Shape
<1>7. ArmedInv'
  BY <1>1 DEF ArmedInv, TypeOK
<1> QED BY <1>2, <1>3, <1>4, <1>5, <1>6, <1>7

LEMMA HandEditsStep ==
  ASSUME ConfigInv, NEW f \in Files, NEW content \in Contents, HandEdits(f, content)
  PROVE  ConfigInv'
<1> USE ConfigAssumption DEF ConfigInv, HandEdits, copies, script, flags, ghosts, budget
<1>1. Pos' = Pos /\ T' = T /\ Done' = Done /\ edits' \in Nat
  BY DEF Pos, T, Done, CopiesOK
<1>2. /\ \A g \in Files : g \notin late' => g \notin late
      /\ \A g \in Files : g # f => file'[g] = file[g]
      /\ T \subseteq Files /\ late' \subseteq Files
  BY DEF TypeOK, T
<1>3. Pos = "recheck" => op = "edit"
  BY StepsOf DEF TypeOK, Shape, Pos
<1>4. phase = "clean" => f \in late'
  BY DEF Passed
<1>5. phase = "run" /\ Pos \notin {"check", "confirm"} =>
        \/ f \in late'
        \/ Pos = (IF op = "edit" THEN "recheck" ELSE "backup") /\ f \in Range(left)
  BY PromptAnswered DEF Passed, At, Pos
<1>6. TypeOK'
  BY <1>1, <1>2, <1>3, <1>4, <1>5 DEF Whole, TypeOK
<1>7. CopiesOK'
  BY <1>1, <1>2, <1>3, <1>4, <1>5 DEF CopiesOK
<1>8. Shape' /\ BackupInv'
  BY <1>1, <1>2, <1>3, <1>4, <1>5 DEF Shape, BackupInv
<1>9. RunInv'
  BY <1>1, <1>2, <1>3, <1>4, <1>5 DEF Done, RunInv, Shape
<1>10. CleanInv'
  BY <1>1, <1>2, <1>3, <1>4, <1>5 DEF CleanInv, RunInv, Shape
<1>11. ArmedInv'
  BY <1>1, <1>2, <1>3, <1>4, <1>5 DEF ArmedInv, TypeOK
<1> QED BY <1>6, <1>7, <1>8, <1>9, <1>10, <1>11

-----------------------------------------------------------------------------
LEMMA NextInv == ConfigInv /\ [Next]_vars => ConfigInv'
<1> SUFFICES ASSUME ConfigInv, [Next]_vars PROVE ConfigInv'
    OBVIOUS
<1>1. CASE User
  BY <1>1, BeginStep, TrackStep, CollectedStep, ConfirmStep, CancelStep DEF User
<1>2. CASE Manager
  BY <1>2, CheckStep, BackupStep, InstallStep, RestoreStep, CheckFailsStep, ArmStep,
     StopStep, StartStep, DisarmStep, StepFailsStep, RestartStep, UndoFailsStep,
     ExitStep DEF Manager
<1>3. CASE Machine
  BY <1>3, KillStep, ServiceCommandStep, FlapsStep, HandEditsStep DEF Machine
<1>4. CASE UNCHANGED vars
  <2> USE <1>4 DEF ConfigInv, vars, copies, script, flags, ghosts, budget
  <2>1. Pos' = Pos /\ T' = T /\ Done' = Done
    BY DEF Pos, T, Done
  <2>2. TypeOK' /\ CopiesOK' /\ ArmedInv'
    BY DEF TypeOK, CopiesOK, ArmedInv
  <2>3. Shape' /\ BackupInv'
    BY <2>1 DEF Shape, BackupInv
  <2>4. RunInv' /\ CleanInv'
    BY <2>1 DEF RunInv, CleanInv
  <2> QED BY <2>2, <2>3, <2>4
<1> QED BY <1>1, <1>2, <1>3, <1>4 DEF Next

(* The inductive invariant, types included, holds in every state. *)
THEOREM ConfigInvariant == Spec => []ConfigInv
BY InitInv, NextInv, PTL DEF Spec

(* What a transaction found in a file is in the file or in the backup,     *)
(* whatever fails, is killed or loses power (m_backup_files).              *)
THEOREM OriginalKept == Spec => []OriginalIsKept
<1>1. ConfigInv => OriginalIsKept
  BY DEF ConfigInv, OriginalIsKept, BackupInv, T
<1> QED BY <1>1, ConfigInvariant, PTL

(* A transaction that is about to report that it is done, or that it has   *)
(* restored the files and the service, tells the truth.                    *)
THEOREM ReportsTruth == Spec => []ReportIsTrue
<1>1. ConfigInv => ReportIsTrue
  <2> SUFFICES ASSUME ConfigInv PROVE ReportIsTrue
      OBVIOUS
  <2>1. todo = << >> => Pos = "end"
    BY DEF Pos
  <2> QED BY <2>1 DEF ConfigInv, ReportIsTrue, RunInv, CleanInv, ArmedInv, Holds, T, TypeOK
<1> QED BY <1>1, ConfigInvariant, PTL

(* What is written over while a transaction runs was seen by the user,     *)
(* written by the manager or backed up, unless others wrote it after the   *)
(* last comparison.                                                        *)
THEOREM EditsSurvive == Spec => EditsAreNotOverwritten
<1> DEFINE Kept == \A f \in Files :
                     file'[f] # file[f] /\ phase \in {"run", "clean"} =>
                       edits' # edits \/ f \in late \/ file[f] \in {before[f], after[f], Broken}
<1>1. ASSUME ConfigInv, [Next]_vars PROVE Kept
  <2> USE <1>1 DEF ConfigInv
  <2>1. ASSUME NEW g \in Files, Install(g) PROVE Kept
    <3>1. g \in T /\ Pos = "install" /\ phase = "run"
      BY <2>1, LoopMoves, StepsOf DEF Install, copies, TypeOK
    <3> QED BY <2>1, <3>1 DEF Install, RunInv, TypeOK
  <2>2. ASSUME NEW g \in Files, Restore(g) PROVE Kept
    <3>1. g \in T /\ Pos = "restore" /\ phase = "clean"
      BY <2>2, LoopMoves, StepsOf DEF Restore, copies, TypeOK
    <3>2. armed
      BY <2>2, <3>1 DEF Restore, DoesFile, At, Shape
    <3> QED BY <2>2, <3>1, <3>2 DEF Restore, CleanInv, TypeOK
  <2>3. ASSUME NEW step \in {"install", "restore"}, file' \in Torn(step) PROVE Kept
    <3>1. /\ Pos # step => file' = file
          /\ file' # file => phase \in {"run", "clean"} /\ armed
          /\ \A f \in Files : file'[f] # file[f] => f \in T
      BY <2>3, TornFile
    <3>2. Pos = "install" /\ phase = "run" =>
            \A f \in T : f \in late \/ file[f] \in {before[f], after[f]}
      BY DEF RunInv
    <3>3. armed /\ phase = "clean" =>
            \A f \in T : f \in late \/ file[f] \in {before[f], after[f], Broken}
      BY DEF CleanInv
    <3>4. phase = "run" /\ Pos = "restore" => FALSE
      BY StepsOf DEF TypeOK
    <3> QED BY <2>3, <3>1, <3>2, <3>3, <3>4
  <2>4. CASE StepFails \/ UndoFails \/ Kill
    BY <2>3, <2>4 DEF StepFails, UndoFails, Kill
  <2>5. ASSUME NEW g \in Files, NEW c \in Contents, HandEdits(g, c) PROVE Kept
    BY <2>5 DEF HandEdits, CopiesOK
  <2>6. CASE file' = file
    BY <2>6
  <2> HIDE DEF Kept
  <2>7. CASE User
    BY <2>6, <2>7 DEF User, Begin, Track, Collected, Confirm, Cancel
  <2>8. CASE Manager
    BY <2>1, <2>2, <2>4, <2>6, <2>8
       DEF Manager, Check, Backup, CheckFails, Arm, Stop, Start, Disarm, Restart, Exit
  <2>9. CASE Machine
    BY <2>4, <2>5, <2>6, <2>9 DEF Machine, ServiceCommand, Flaps
  <2>10. CASE UNCHANGED vars
    BY <2>6, <2>10 DEF vars
  <2> QED BY <2>7, <2>8, <2>9, <2>10 DEF Next
<1>2. ConfigInv /\ [Next]_vars => [Kept]_vars
  BY <1>1
<1> QED BY <1>2, ConfigInvariant, PTL DEF Spec, EditsAreNotOverwritten

(* The manager starts the service over the old files or over the new ones, *)
(* never over some of each (m_nodes_rollback and m_restore_files start     *)
(* nothing unless every file was put back).                                *)
THEOREM NoMixture == Spec => NoMixtureIsStarted
<1> DEFINE Clear == Starts => Holds(before) \/ Holds(after)
<1>1. ASSUME ConfigInv, [Next]_vars PROVE Clear
  <2> USE <1>1 DEF ConfigInv
  <2> SUFFICES ASSUME Starts PROVE Holds(before) \/ Holds(after)
      OBVIOUS
  <2>1. CASE At("start")
    <3>1. Pos = "start" /\ phase = "run"
      BY <2>1, StepsOf DEF At, Pos, Shape, TypeOK
    <3> QED BY <3>1 DEF RunInv, Holds, T
  <2>2. CASE At("restart")
    <3>1. Pos = "restart" /\ phase = "clean" /\ armed
      BY <2>2, StepsOf DEF At, Pos, Shape, TypeOK
    <3>2. CASE Restart
      <4>1. ok BY <3>2 DEF Restart, Starts
      <4> QED BY <3>1, <4>1 DEF CleanInv, Holds, T
    <3>3. CASE ~Restart
      <4>1. service' # service /\ service = "down" /\ phase' # "idle" /\ ~At("start")
        BY <2>2 DEF Starts, At
      <4>2. ~User
        BY <3>1, <4>1 DEF User, Begin, Track, Collected, Confirm, Cancel
      <4>3. ~Machine
        BY <3>1, <4>1 DEF Machine, Kill, Ends, ServiceCommand, Flaps, HandEdits
      <4>4. ~Manager
        BY <3>1, <3>3, <4>1
           DEF Manager, Check, Backup, Install, Restore, CheckFails, Arm, Stop, Start, Does,
               Disarm, StepFails, UndoFails, Exit
      <4>5. ~UNCHANGED vars
        BY <4>1 DEF vars
      <4> QED BY <4>2, <4>3, <4>4, <4>5 DEF Next
    <3> QED BY <3>2, <3>3
  <2> QED BY <2>1, <2>2 DEF Starts
<1>2. ConfigInv /\ [Next]_vars => [Clear]_vars
  BY <1>1
<1> QED BY <1>2, ConfigInvariant, PTL DEF Spec, NoMixtureIsStarted
=============================================================================
