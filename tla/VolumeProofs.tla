---------------------------- MODULE VolumeProofs ----------------------------
(***************************************************************************)
(* What is kept on the hidden volume: the logs, the fresh home and the state *)
(* file.  A save is atomic and durable for any number of commands, and     *)
(* commands that respect the lock do not lose what an earlier one recorded. *)
(***************************************************************************)
EXTENDS StateFile, Persona, Logs, TLAPS

(* The logs. *)
(* What the rotation overwrites next is nothing, or a file whose loss is told. *)
LogsInv ==
    /\ logAt \in [Numbers -> Nat] /\ lastWritten \in Seq(Nat) /\ today \in Nat
    /\ rotation \in 0 .. Retaining
    /\ \A n \in Numbers : logAt[n] \in 0 .. Len(lastWritten)
    /\ LossExcused
    /\ rotation < RetentionDays => logAt[rotation + 1] \in excused \cup {NoLog}
    /\ rotation = CreatingLog => logAt[0] \in excused \cup {NoLog}

(* The marks of a rotation are above every number, and apart. *)
LEMMA LogMarks ==
    /\ RetentionDays \in Nat /\ RetentionDays > 0 /\ NoLog = 0
    /\ LogsQuiet = RetentionDays + 1 /\ CreatingLog = RetentionDays + 2 /\ Retaining = RetentionDays + 3
    /\ 0 \in Numbers /\ 1 \in Numbers /\ \A n \in Int : n \in Numbers <=> 0 <= n /\ n <= RetentionDays
BY LogsAssumption DEF NoLog, LogsQuiet, CreatingLog, Retaining, Numbers

(* A rename loses no file but the one it lands on. *)
LEMMA RenameKeeps ==
  ASSUME logAt \in [Numbers -> Nat], NEW i \in Numbers, NEW j \in Numbers, i # j,
         logAt' = Renamed(i, j), LossExcused, logAt[j] \in excused' \cup {NoLog}, excused \subseteq excused',
         lastWritten' = lastWritten
  PROVE  LossExcused' /\ logAt' \in [Numbers -> Nat] /\ \A n \in Numbers : logAt'[n] \in {logAt[n], logAt[i], NoLog}
<1>1. /\ logAt' \in [Numbers -> Nat] /\ logAt'[j] = logAt[i] /\ logAt'[i] = NoLog
      /\ \A n \in Numbers \ {i, j} : logAt'[n] = logAt[n]
  BY Zenon DEF Renamed, NoLog
<1>2. ASSUME NEW f \in Made' PROVE f \in Kept' \cup excused'
  <2>1. f \in Kept \cup excused
    BY <1>2, Zenon DEF LossExcused, Made
  <2>2. CASE f \in Kept
    <3>1. PICK n \in Numbers : f = logAt[n] /\ f # NoLog
      BY <2>2, Zenon DEF Kept
    <3>. QED
      BY <1>1, <3>1, Zenon DEF Kept
  <2>. QED
    BY <2>1, <2>2, Zenon
<1>. QED
  BY <1>1, <1>2, Zenon DEF LossExcused

(* A new nails.log loses no file but the one it replaces. *)
LEMMA NewLive ==
  ASSUME logAt \in [Numbers -> Nat], lastWritten \in Seq(Nat), today \in Nat, LossExcused,
         logAt[0] \in excused \cup {NoLog}, excused \subseteq excused',
         lastWritten' = Append(lastWritten, today), logAt' = [logAt EXCEPT ![0] = Len(lastWritten) + 1],
         \A n \in Numbers : logAt[n] \in 0 .. Len(lastWritten)
  PROVE  /\ LossExcused' /\ logAt' \in [Numbers -> Nat] /\ lastWritten' \in Seq(Nat)
         /\ \A n \in Numbers : logAt'[n] \in 0 .. Len(lastWritten')
         /\ \A n \in Numbers \ {0} : logAt'[n] = logAt[n]
         /\ logAt'[0] = Len(lastWritten) + 1
<1>1. /\ Len(lastWritten) \in Nat /\ DOMAIN lastWritten = 1 .. Len(lastWritten)
      /\ lastWritten' \in Seq(Nat) /\ Len(lastWritten') = Len(lastWritten) + 1
      /\ DOMAIN lastWritten' = 1 .. Len(lastWritten) + 1
  OBVIOUS
<1>2. /\ logAt' \in [Numbers -> Nat] /\ logAt'[0] = Len(lastWritten) + 1
      /\ \A n \in Numbers \ {0} : logAt'[n] = logAt[n]
  BY <1>1, LogMarks
<1>3. \A n \in Numbers : logAt'[n] \in 0 .. Len(lastWritten')
  BY <1>1, <1>2
<1>4. ASSUME NEW f \in Made' PROVE f \in Kept' \cup excused'
  <2>1. f = Len(lastWritten) + 1 \/ f \in Made
    BY <1>1 DEF Made
  <2>2. CASE f = Len(lastWritten) + 1
    BY <1>1, <1>2, <2>2, LogMarks DEF Kept
  <2>3. CASE f \in Made
    <3>1. f \in Kept \cup excused
      BY <2>3, Zenon DEF LossExcused
    <3>2. CASE f \in Kept
      <4>1. PICK n \in Numbers : f = logAt[n] /\ f # NoLog
        BY <3>2, Zenon DEF Kept
      <4>. QED
        BY <1>2, <4>1, Zenon DEF Kept
    <3>. QED
      BY <3>1, <3>2, Zenon
  <2>. QED
    BY <2>1, <2>2, <2>3, Zenon
<1>. QED
  BY <1>1, <1>2, <1>3, <1>4, Zenon DEF LossExcused

(* Other commands and the days that pass. *)
LEMMA OpenStep ==
  ASSUME LogsInv, OpenLog \/ NextDay
  PROVE  LogsInv'
<1>1. CASE NextDay
  BY <1>1 DEF NextDay, LogsInv, LossExcused, Made, Kept
<1>2. CASE OpenLog /\ logAt[0] # NoLog
  <2>1. lastWritten' = [lastWritten EXCEPT ![logAt[0]] = today] /\ UNCHANGED <<logAt, excused, today, rotation>>
    BY <1>2, Zenon DEF OpenLog
  <2>2. lastWritten' \in Seq(Nat) /\ Len(lastWritten') = Len(lastWritten) /\ DOMAIN lastWritten' = DOMAIN lastWritten
    <3>1. logAt[0] \in 1 .. Len(lastWritten) /\ lastWritten \in Seq(Nat) /\ today \in Nat
      BY <1>2, LogMarks DEF LogsInv
    <3>. QED
      BY <2>1, <3>1
  <2>. QED
    BY <2>1, <2>2, Zenon DEF LogsInv, LossExcused, Made, Kept
<1>3. CASE OpenLog /\ logAt[0] = NoLog
  <2>1. /\ lastWritten' = Append(lastWritten, today) /\ logAt' = [logAt EXCEPT ![0] = Len(lastWritten) + 1]
        /\ excused' = (IF rotation = CreatingLog THEN excused \cup {Len(lastWritten) + 1} ELSE excused)
        /\ today' = today /\ rotation' = rotation
    BY <1>3, Zenon DEF OpenLog
  <2>2. /\ LossExcused' /\ logAt' \in [Numbers -> Nat] /\ lastWritten' \in Seq(Nat)
        /\ \A n \in Numbers : logAt'[n] \in 0 .. Len(lastWritten')
        /\ \A n \in Numbers \ {0} : logAt'[n] = logAt[n]
        /\ logAt'[0] = Len(lastWritten) + 1
    BY <1>3, <2>1, NewLive, Zenon DEF LogsInv
  <2>3. rotation < RetentionDays => logAt'[rotation + 1] \in excused' \cup {NoLog}
    BY <2>1, <2>2, LogMarks DEF LogsInv
  <2>. QED
    BY <2>1, <2>2, <2>3 DEF LogsInv
<1>. QED
  BY <1>1, <1>2, <1>3, Zenon

(* The rotation up to its last rename. *)
LEMMA RotateStep ==
  ASSUME LogsInv, BeginRotation \/ ShiftFile \/ MoveLive
  PROVE  LogsInv'
<1>1. CASE BeginRotation
  <2>1. /\ rotation' = RetentionDays - 1 /\ UNCHANGED <<logAt, lastWritten, today>>
        /\ excused' = excused \cup ({logAt[RetentionDays]} \ {NoLog})
    BY <1>1, Zenon DEF BeginRotation
  <2>2. /\ rotation' \in 0 .. Retaining /\ rotation' + 1 = RetentionDays /\ rotation' # CreatingLog
    BY <2>1, LogMarks
  <2>3. LossExcused'
    BY <2>1, Zenon DEF LogsInv, LossExcused, Made, Kept
  <2>. QED
    BY <2>1, <2>2, <2>3, Zenon DEF LogsInv
<1>2. CASE ShiftFile
  <2>1. /\ rotation \in 1 .. RetentionDays - 1 /\ rotation' = rotation - 1 /\ UNCHANGED <<lastWritten, today>>
        /\ rotation' \in 0 .. Retaining /\ rotation' # CreatingLog /\ rotation' + 1 = rotation
        /\ rotation \in Numbers /\ rotation + 1 \in Numbers /\ rotation # rotation + 1 /\ rotation < RetentionDays
    BY <1>2, LogMarks DEF ShiftFile
  <2>2. CASE logAt' = Renamed(rotation, rotation + 1) /\ excused' = excused
    <3>1. /\ LossExcused' /\ logAt' \in [Numbers -> Nat]
          /\ \A n \in Numbers : logAt'[n] \in {logAt[n], logAt[rotation], NoLog}
      BY <2>1, <2>2, RenameKeeps, Zenon DEF LogsInv
    <3>2. logAt'[rotation] = NoLog
      BY <2>1, <2>2, Zenon DEF Renamed, LogsInv
    <3>3. \A n \in Numbers : logAt'[n] \in 0 .. Len(lastWritten')
      <4>1. \A n \in Numbers : logAt[n] \in 0 .. Len(lastWritten) /\ 0 \in 0 .. Len(lastWritten)
        BY DEF LogsInv
      <4>. QED
        BY <2>1, <3>1, <4>1, Zenon DEF NoLog
    <3>. QED
      BY <2>1, <2>2, <3>1, <3>2, <3>3, Zenon DEF LogsInv
  <2>3. CASE excused' = excused \cup {logAt[rotation]} /\ logAt' = logAt
    <3>1. LossExcused'
      BY <2>1, <2>3, Zenon DEF LogsInv, LossExcused, Made, Kept
    <3>. QED
      BY <2>1, <2>3, <3>1, Zenon DEF LogsInv
  <2>4. CASE logAt[rotation] = NoLog /\ UNCHANGED <<logAt, excused>>
    <3>1. LossExcused'
      BY <2>1, <2>4, Zenon DEF LogsInv, LossExcused, Made, Kept
    <3>. QED
      BY <2>1, <2>4, <3>1, Zenon DEF LogsInv
  <2>. QED
    BY <1>2, <2>2, <2>3, <2>4, Zenon DEF ShiftFile
<1>3. CASE MoveLive
  <2>1. rotation = 0 /\ UNCHANGED <<lastWritten, today, excused>> /\ logAt[1] \in excused \cup {NoLog}
    BY <1>3, LogMarks DEF MoveLive, LogsInv
  <2>2. CASE logAt' = Renamed(0, 1) /\ rotation' = CreatingLog
    <3>1. /\ LossExcused' /\ logAt' \in [Numbers -> Nat]
          /\ \A n \in Numbers : logAt'[n] \in {logAt[n], logAt[0], NoLog}
      BY <2>1, <2>2, RenameKeeps, LogMarks DEF LogsInv
    <3>2. logAt'[0] = NoLog
      BY <2>2, LogMarks, Zenon DEF Renamed, LogsInv
    <3>3. \A n \in Numbers : logAt'[n] \in 0 .. Len(lastWritten')
      <4>1. NoLog \in 0 .. Len(lastWritten) /\ 0 \in Numbers
        BY LogMarks DEF LogsInv
      <4>2. \A n \in Numbers : logAt[n] \in 0 .. Len(lastWritten)
        BY Zenon DEF LogsInv
      <4>. QED
        BY <2>1, <3>1, <4>1, <4>2, Zenon
    <3>4. rotation' \in 0 .. Retaining /\ ~ (rotation' < RetentionDays)
      BY <2>2, LogMarks
    <3>. QED
      BY <2>1, <2>2, <3>1, <3>2, <3>3, <3>4, Zenon DEF LogsInv
  <2>3. CASE logAt' = logAt /\ rotation' = LogsQuiet
    <3>1. LossExcused'
      BY <2>1, <2>3, Zenon DEF LogsInv, LossExcused, Made, Kept
    <3>2. rotation' \in 0 .. Retaining /\ ~ (rotation' < RetentionDays) /\ rotation' # CreatingLog
      BY <2>3, LogMarks
    <3>. QED
      BY <2>1, <2>3, <3>1, <3>2, Zenon DEF LogsInv
  <2>. QED
    BY <1>3, <2>2, <2>3, Zenon DEF MoveLive
<1>. QED
  BY <1>1, <1>2, <1>3, Zenon

(* The new nails.log, its failure, and the retention. *)
LEMMA LastSteps ==
  ASSUME LogsInv, CreateLive \/ EnforceRetention
  PROVE  LogsInv'
<1>1. CASE CreateLive
  <2>1. rotation = CreatingLog /\ UNCHANGED <<today, excused>> /\ logAt[0] \in excused \cup {NoLog}
    BY <1>1, Zenon DEF CreateLive, LogsInv
  <2>2. CASE /\ lastWritten' = Append(lastWritten, today)
             /\ logAt' = [logAt EXCEPT ![0] = Len(lastWritten) + 1] /\ rotation' = Retaining
    <3>1. /\ LossExcused' /\ logAt' \in [Numbers -> Nat] /\ lastWritten' \in Seq(Nat)
          /\ \A n \in Numbers : logAt'[n] \in 0 .. Len(lastWritten')
      BY <2>1, <2>2, NewLive, Zenon DEF LogsInv
    <3>2. rotation' \in 0 .. Retaining /\ ~ (rotation' < RetentionDays) /\ rotation' # CreatingLog
      BY <2>2, LogMarks
    <3>. QED
      BY <2>1, <3>1, <3>2, Zenon DEF LogsInv
  <2>3. CASE (logAt' = Renamed(1, 0) \/ UNCHANGED logAt) /\ UNCHANGED lastWritten /\ rotation' = LogsQuiet
    <3>1. LossExcused' /\ logAt' \in [Numbers -> Nat]
          /\ \A n \in Numbers : logAt'[n] \in {logAt[n], logAt[1], NoLog}
      <4>1. CASE logAt' = Renamed(1, 0)
        BY <2>1, <2>3, <4>1, RenameKeeps, LogMarks DEF LogsInv
      <4>2. CASE UNCHANGED logAt
        BY <2>1, <2>3, <4>2, Zenon DEF LogsInv, LossExcused, Made, Kept
      <4>. QED
        BY <2>3, <4>1, <4>2, Zenon
    <3>2. rotation' \in 0 .. Retaining /\ ~ (rotation' < RetentionDays) /\ rotation' # CreatingLog
      BY <2>3, LogMarks
    <3>3. \A n \in Numbers : logAt'[n] \in 0 .. Len(lastWritten')
      <4>1. NoLog \in 0 .. Len(lastWritten) /\ 1 \in Numbers
        BY LogMarks DEF LogsInv
      <4>2. \A n \in Numbers : logAt[n] \in 0 .. Len(lastWritten)
        BY Zenon DEF LogsInv
      <4>. QED
        BY <2>3, <3>1, <4>1, <4>2, Zenon
    <3>. QED
      BY <2>1, <2>3, <3>1, <3>2, <3>3, Zenon DEF LogsInv
  <2>. QED
    BY <1>1, <2>2, <2>3, Zenon DEF CreateLive
<1>2. CASE EnforceRetention
  <2>1. PICK gone \in SUBSET Numbers :
          /\ logAt' = [n \in Numbers |-> IF n \in gone THEN NoLog ELSE logAt[n]]
          /\ excused' = excused \cup {logAt[n] : n \in gone}
    BY <1>2, Zenon DEF EnforceRetention
  <2>2. rotation' = LogsQuiet /\ UNCHANGED <<lastWritten, today>>
    BY <1>2, Zenon DEF EnforceRetention
  <2>3. /\ logAt' \in [Numbers -> Nat] /\ \A n \in Numbers : logAt'[n] \in {logAt[n], NoLog}
        /\ \A n \in Numbers : logAt[n] = logAt'[n] \/ logAt[n] \in excused'
    BY <2>1, LogMarks, Zenon DEF LogsInv
  <2>4. LossExcused'
    <3>1. ASSUME NEW f \in Made' PROVE f \in Kept' \cup excused'
      <4>1. f \in Kept \cup excused
        BY <2>2, <3>1, Zenon DEF LogsInv, LossExcused, Made
      <4>2. CASE f \in Kept
        <5>1. PICK n \in Numbers : f = logAt[n] /\ f # NoLog
          BY <4>2, Zenon DEF Kept
        <5>. QED
          BY <2>3, <5>1, Zenon DEF Kept
      <4>. QED
        BY <2>1, <4>1, <4>2, Zenon
    <3>. QED
      BY <3>1, Zenon DEF LossExcused
  <2>5. rotation' \in 0 .. Retaining /\ ~ (rotation' < RetentionDays) /\ rotation' # CreatingLog
    BY <2>2, LogMarks
  <2>6. \A n \in Numbers : logAt'[n] \in 0 .. Len(lastWritten')
    BY <2>2, <2>3, LogMarks, SMTT(30) DEF LogsInv
  <2>. QED
    BY <2>2, <2>3, <2>4, <2>5, <2>6, Zenon DEF LogsInv
<1>. QED
  BY <1>1, <1>2, Zenon

(* For any retention and any number of log files, whatever rename or write fails and
   whoever opens the log in between: a log file is lost only for a reason that is
   told (rotate_logs, enforce_retention). *)
THEOREM LogLossIsExcused == LogsSpec => []LossExcused
<1>1. LogsInit => LogsInv
  <2>. SUFFICES ASSUME LogsInit PROVE LogsInv
    BY Zenon
  <2>1. /\ logAt \in [Numbers -> Nat] /\ lastWritten \in Seq(Nat) /\ Len(lastWritten) = 0
        /\ \A n \in Numbers : logAt[n] = 0
    BY DEF LogsInit, NoLog
  <2>2. Made = {}
    BY <2>1 DEF Made
  <2>. QED
    BY <2>1, <2>2, LogMarks DEF LogsInit, LogsInv, LossExcused
<1>2. LogsInv /\ [LogsNext]_logVars => LogsInv'
  <2>1. LogsInv /\ UNCHANGED logVars => LogsInv'
    BY Zenon DEF logVars, LogsInv, LossExcused, Made, Kept
  <2>. QED
    BY <2>1, OpenStep, RotateStep, LastSteps, Zenon DEF LogsNext
<1>3. LogsInv => LossExcused
  BY Zenon DEF LogsInv
<1>. QED
  BY <1>1, <1>2, <1>3, PTL DEF LogsSpec

-----------------------------------------------------------------------------
(* The fresh home. *)
(* A plain home is one that was left, or the one an entry is about to mark. *)
HomeInv ==
    /\ upperHome \in {"absent", "plain", "opaque"} /\ homeStep \in {"decoy", "made", "session"}
    /\ homeStep = "made" => upperHome = "plain" /\ homeMode = "fresh"
    /\ upperHome = "plain" /\ homeStep # "made" => leftPlain
    /\ homeStep = "session" /\ homeMode = "fresh" => upperHome # "absent"

(* Over any number of entries, resets and changes of the mode, broken off anywhere:
   a session with a fresh home has an opaque one, unless a plain home was left
   (prepare_fresh_home). *)
THEOREM FreshHomeIsFresh == PersonaSpec => []FreshUnlessLeft
<1>1. PersonaInit => HomeInv
  BY Zenon DEF PersonaInit, HomeInv
<1>2. HomeInv /\ [PersonaNext]_homeVars => HomeInv'
  <2>. SUFFICES ASSUME HomeInv, [PersonaNext]_homeVars PROVE HomeInv'
    BY Zenon
  <2>. USE DEF HomeInv
  <2>1. CASE EnterHome
    BY <2>1, Zenon DEF EnterHome
  <2>2. CASE MarkOpaque
    BY <2>2, Zenon DEF MarkOpaque
  <2>3. CASE WriteHome \/ LeaveHome
    BY <2>3, Zenon DEF WriteHome, LeaveHome
  <2>4. CASE ResetHome \/ SwitchMode
    BY <2>4, Zenon DEF ResetHome, SwitchMode
  <2>5. CASE UNCHANGED homeVars
    BY <2>5, Zenon DEF homeVars
  <2>. QED
    BY <2>1, <2>2, <2>3, <2>4, <2>5, Zenon DEF PersonaNext
<1>3. HomeInv => FreshUnlessLeft
  BY Zenon DEF HomeInv, FreshUnlessLeft
<1>. QED
  BY <1>1, <1>2, <1>3, PTL DEF PersonaSpec

-----------------------------------------------------------------------------
(* Every file that exists is whole, and what is renamed was synced before. *)
WholeInv ==
    /\ NeverTorn
    /\ \A p \in Proc : ~mem[p].torn
    /\ \A p \in Proc : temp[p] # NoTemp => ~temp[p].val.torn
    /\ \A p \in Proc : pc[p] = "rename" /\ temp[p] # NoTemp => temp[p].synced

(* Files are numbered in the order of the renames, a command that waits for the
   directory waits for a file that is there, and nothing acknowledged is newer
   than what a power cut may leave. *)
OrderInv ==
    /\ shown.v <= saves /\ \A f \in after : f.v <= saves
    /\ \A p \in Proc : pc[p] = "flush" => mem[p].v <= shown.v
    /\ SavedSurvives

Saving == {"write", "sync", "rename", "flush"}

(* As long as nothing went wrong, the command that saves holds the lock, and what
   it is about to write has the timing if the file has it. *)
Holds(p) ==
    /\ pc[p] \in Saving \cup {"load"} => cmd[p] = "status" \/ lock = p
    /\ pc[p] \in Saving => cmd[p] # "status" /\ (shown.timed => mem[p].timed)
    /\ pc[p] \in {"sync", "rename"} /\ temp[p] # NoTemp => temp[p].val = mem[p]
    /\ pc[p] = "flush" => shown.timed = mem[p].timed
TimingInv ==
    hit = {} => /\ \A p \in Proc : Holds(p)
                /\ \A f \in after : f.v = shown.v => f.timed = shown.timed
                /\ TimingKept

USE StateFileAssumption, TempAssumption DEF FaultNames, CmdNames

(* StateFile::default() is a file. *)
LEMMA BlankFile == Blank \in File
BY Zenon DEF Blank, File

(* What record_entry and force_state make of a file is a file. *)
LEMMA AmendedFile ==
  ASSUME NEW c, NEW f \in File
  PROVE  /\ Amended(c, f) \in File
         /\ Amended(c, f).torn = f.torn
         /\ f.timed => Amended(c, f).timed
BY Zenon DEF Amended, File

(* The file a rename puts in place differs from the temporary one in its number. *)
LEMMA Numbered ==
  ASSUME NEW f \in File, NEW n \in Nat
  PROVE  LET g == [f EXCEPT !.v = n] IN
         g \in File /\ g.v = n /\ g.torn = f.torn /\ g.timed = f.timed
BY Zenon DEF File

(* What a power cut makes of a file that was not synced is still a file. *)
LEMMA Torn ==
  ASSUME NEW f \in File, NEW b \in BOOLEAN
  PROVE  LET g == [f EXCEPT !.torn = b] IN
         g \in File /\ g.v = f.v /\ g.torn = b /\ g.timed = f.timed
BY Zenon DEF File

(* The file of an activation's second save differs from its first in the state. *)
LEMMA Deactivated ==
  ASSUME NEW f \in File
  PROVE  LET g == [f EXCEPT !.state = "inactive"] IN
         g \in File /\ g.v = f.v /\ g.torn = f.torn /\ g.timed = f.timed
BY Zenon DEF File

(* A temporary file that is synced or ages stays one and keeps its content. *)
LEMMA SameTemp ==
  ASSUME NEW t \in Temp
  PROVE  /\ [t EXCEPT !.synced = TRUE] \in Temp /\ [t EXCEPT !.old = TRUE] \in Temp
         /\ [t EXCEPT !.synced = TRUE].val = t.val /\ [t EXCEPT !.synced = TRUE].synced
         /\ [t EXCEPT !.old = TRUE].val = t.val
         /\ [t EXCEPT !.old = TRUE].synced = t.synced
         /\ t.val \in File /\ t.synced \in BOOLEAN
BY Zenon DEF Temp

(* The end of a process keeps the rest well typed. *)
LEMMA TypeEnd ==
  ASSUME TypeOK, NEW p \in Proc, End(p)
  PROVE  /\ pc' \in [Proc -> PCs] /\ lock' \in Proc \cup {NoProc}
         /\ mem' \in [Proc -> File]
BY BlankFile, Zenon DEF TypeOK, End, PCs

(* Every step keeps the types. *)
LEMMA TypeStep == TypeOK /\ [Next]_vars => TypeOK'
<1> SUFFICES ASSUME TypeOK, [Next]_vars PROVE TypeOK'
  BY Zenon
<1>1. ASSUME NEW p \in Proc, Begin(p) PROVE TypeOK'
  BY <1>1 DEF TypeOK, Begin, Goto, PCs, disk
<1>2. ASSUME NEW p \in Proc, TryAcquire(p) PROVE TypeOK'
  <2>1. CASE End(p) BY <1>2, <2>1, TypeEnd, Zenon DEF TypeOK, TryAcquire, disk
  <2>2. CASE ~End(p) BY <1>2, <2>2, Zenon DEF TypeOK, TryAcquire, PCs, disk
  <2> QED BY <2>1, <2>2, Zenon
<1>3. ASSUME NEW p \in Proc, AcquireWithTimeout(p) PROVE TypeOK'
  BY <1>3, Zenon DEF TypeOK, AcquireWithTimeout, Goto, PCs, disk
<1>4. ASSUME NEW p \in Proc, LoadWithOutcome(p) PROVE TypeOK'
  <2>1. temp' \in [Proc -> Temp \cup {NoTemp}] BY <1>4, Zenon DEF TypeOK, LoadWithOutcome, Swept
  <2>2. hit' \in SUBSET FaultNames BY <1>4, Zenon DEF TypeOK, LoadWithOutcome
  <2>3. CASE End(p)
    BY <1>4, <2>1, <2>2, <2>3, TypeEnd, Zenon DEF TypeOK, LoadWithOutcome, disk
  <2>4. CASE ~End(p)
    <3>1. PICK f \in {shown, Blank} :
             mem' = [mem EXCEPT ![p] = Amended(cmd[p], f)] /\ Goto(p, "write")
      BY <1>4, <2>4, Zenon DEF LoadWithOutcome
    <3>2. Amended(cmd[p], f) \in File BY AmendedFile, BlankFile, Zenon DEF TypeOK
    <3>3. mem' \in [Proc -> File] BY <3>1, <3>2, Zenon DEF TypeOK
    <3> QED
      BY <1>4, <2>1, <2>2, <3>1, <3>3, Zenon DEF TypeOK, LoadWithOutcome, Goto, PCs, disk
  <2> QED BY <2>3, <2>4
<1>5. ASSUME NEW p \in Proc, WriteTemp(p) PROVE TypeOK'
  <2>1. temp' \in [Proc -> Temp \cup {NoTemp}]
    <3> DEFINE t == [val |-> mem[p], synced |-> FALSE, old |-> FALSE]
    <3>1. t \in Temp BY Zenon DEF TypeOK, Temp
    <3>2. \E u \in {t, NoTemp} : temp' = [temp EXCEPT ![p] = u]
      BY <1>5, Zenon DEF WriteTemp, SaveFails
    <3> HIDE DEF t
    <3> QED BY <3>1, <3>2 DEF TypeOK
  <2>2. CASE End(p) BY <1>5, <2>1, <2>2, TypeEnd, Zenon DEF TypeOK, WriteTemp, disk
  <2>3. CASE ~End(p)
    BY <1>5, <2>1, <2>3, Zenon DEF TypeOK, WriteTemp, SaveFails, Goto, PCs, disk
  <2> QED BY <2>2, <2>3
<1>6. ASSUME NEW p \in Proc, SyncTemp(p) PROVE TypeOK'
  <2>1. temp' \in [Proc -> Temp \cup {NoTemp}]
    <3> DEFINE t == [temp[p] EXCEPT !.synced = TRUE]
    <3>0. temp[p] # NoTemp => temp[p] \in Temp BY Zenon DEF TypeOK
    <3>1. temp[p] # NoTemp => t \in Temp BY <3>0, SameTemp, Zenon
    <3>2. \/ temp' = temp \/ temp' = [temp EXCEPT ![p] = NoTemp]
          \/ temp[p] # NoTemp /\ temp' = [temp EXCEPT ![p] = t]
      BY <1>6, Zenon DEF SyncTemp, SaveFails
    <3> HIDE DEF t
    <3> QED BY <3>1, <3>2 DEF TypeOK
  <2>2. CASE End(p) BY <1>6, <2>1, <2>2, TypeEnd, Zenon DEF TypeOK, SyncTemp, disk
  <2>3. CASE ~End(p)
    BY <1>6, <2>1, <2>3, Zenon DEF TypeOK, SyncTemp, SaveFails, Goto, PCs, disk
  <2> QED BY <2>2, <2>3
<1>7. ASSUME NEW p \in Proc, Rename(p) PROVE TypeOK'
  <2>1. temp' \in [Proc -> Temp \cup {NoTemp}] BY <1>7, Zenon DEF TypeOK, Rename, SaveFails
  <2>2. CASE End(p) /\ UNCHANGED disk
    BY <1>7, <2>1, <2>2, TypeEnd, Zenon DEF TypeOK, Rename, disk
  <2>3. CASE ~(End(p) /\ UNCHANGED disk)
    <3> DEFINE new == [temp[p].val EXCEPT !.v = saves + 1]
    <3>1. /\ temp[p] # NoTemp /\ saves' = saves + 1 /\ shown' = new
          /\ after' = after \cup {[new EXCEPT !.torn = ~temp[p].synced]}
          /\ mem' = [mem EXCEPT ![p] = new] /\ Goto(p, "flush")
      BY <1>7, <2>3, Zenon DEF Rename, SaveFails
    <3>2. temp[p] \in Temp /\ saves + 1 \in Nat BY <3>1 DEF TypeOK
    <3>3. new \in File BY <3>2, SameTemp, Numbered, Zenon
    <3>4. [new EXCEPT !.torn = ~temp[p].synced] \in File
      BY <3>2, <3>3, SameTemp, Torn, Zenon
    <3> HIDE DEF new
    <3> QED BY <1>7, <2>1, <3>1, <3>2, <3>3, <3>4, Zenon DEF TypeOK, Rename, Goto, PCs
  <2> QED BY <2>2, <2>3, Zenon
<1>8. ASSUME NEW p \in Proc, SyncDir(p) PROVE TypeOK'
  <2>1. after' \in SUBSET File /\ hit' \in SUBSET FaultNames BY <1>8, Zenon DEF TypeOK, SyncDir
  <2>2. acked' \in File BY <1>8, Zenon DEF TypeOK, SyncDir
  <2>3. CASE End(p) BY <1>8, <2>1, <2>2, <2>3, TypeEnd, Zenon DEF TypeOK, SyncDir
  <2>4. CASE ~End(p)
    <3>1. /\ mem' = [mem EXCEPT ![p] = [mem[p] EXCEPT !.state = "inactive"]]
          /\ Goto(p, "write")
      BY <1>8, <2>4, Zenon DEF SyncDir
    <3>2. [mem[p] EXCEPT !.state = "inactive"] \in File BY Deactivated, Zenon DEF TypeOK
    <3>3. mem' \in [Proc -> File] BY <3>1, <3>2, Zenon DEF TypeOK
    <3> QED BY <1>8, <2>1, <2>2, <3>1, <3>3, Zenon DEF TypeOK, SyncDir, Goto, PCs
  <2> QED BY <2>3, <2>4
<1>9. ASSUME NEW p \in Proc, Age(p) PROVE TypeOK'
  <2>1. temp' \in [Proc -> Temp \cup {NoTemp}]
    <3> DEFINE t == [temp[p] EXCEPT !.old = TRUE]
    <3>0. temp[p] # NoTemp => temp[p] \in Temp BY DEF TypeOK
    <3>1. temp[p] # NoTemp => t \in Temp BY <3>0, SameTemp, Zenon
    <3>2. temp[p] # NoTemp /\ temp' = [temp EXCEPT ![p] = t] BY <1>9, Zenon DEF Age
    <3> HIDE DEF t
    <3> QED BY <3>1, <3>2, Zenon DEF TypeOK
  <2> QED BY <1>9, <2>1, Zenon DEF TypeOK, Age, disk
<1>10. ASSUME NEW p \in Proc, Kill(p) PROVE TypeOK'
  BY <1>10, TypeEnd, Zenon DEF TypeOK, Kill, disk
<1>11. CASE PowerCut
  <2>1. temp' \in [Proc -> Temp \cup {NoTemp}] BY <1>11, Zenon DEF TypeOK, PowerCut
  <2>2. mem' \in [Proc -> File] BY <1>11, BlankFile, Zenon DEF PowerCut
  <2>3. pc' \in [Proc -> PCs] BY <1>11, Zenon DEF TypeOK, PowerCut, PCs
  <2> QED BY <1>11, <2>1, <2>2, <2>3 DEF TypeOK, PowerCut
<1>12. CASE UNCHANGED vars BY <1>12, Zenon DEF TypeOK, vars, disk
<1> QED
  BY <1>1, <1>2, <1>3, <1>4, <1>5, <1>6, <1>7, <1>8, <1>9, <1>10, <1>11, <1>12, Zenon
     DEF Next, Step

(* The state file, its temporaries and the commands keep their types, under every
   fault. *)
THEOREM FileTyped == Spec => []TypeOK
<1>1. Init => TypeOK BY BlankFile DEF Init, TypeOK, PCs
<1> QED BY <1>1, TypeStep, PTL DEF Spec

(* A process that ends leaves the other program counters and memories alone. *)
LEMMA EndOthers ==
  ASSUME TypeOK, NEW p \in Proc, End(p)
  PROVE  /\ pc'[p] = "done" /\ mem'[p] = Blank
         /\ \A q \in Proc \ {p} : pc'[q] = pc[q] /\ mem'[q] = mem[q]
BY Zenon DEF TypeOK, End

(* A command that goes on leaves the others where they are. *)
LEMMA GotoOthers ==
  ASSUME TypeOK, NEW p \in Proc, NEW l, Goto(p, l)
  PROVE  pc'[p] = l /\ \A q \in Proc \ {p} : pc'[q] = pc[q]
BY Zenon DEF TypeOK, Goto

(* A failed save leaves the file in place, removes the temporary file and ends
   the command. *)
LEMMA FailsOthers ==
  ASSUME TypeOK, NEW p \in Proc, SaveFails(p)
  PROVE  \A q \in Proc : /\ temp'[q] = IF q = p THEN NoTemp ELSE temp[q]
                         /\ pc'[q] = IF q = p THEN "done" ELSE pc[q]
                         /\ mem'[q] = IF q = p THEN Blank ELSE mem[q]
<1>1. End(p) /\ temp' = [temp EXCEPT ![p] = NoTemp] BY Zenon DEF SaveFails
<1> QED BY <1>1, EndOthers DEF TypeOK

(* What a rename that works does: the new file has the content of the temporary
   one and the next number, and joins the files a power cut may leave, torn if it
   was not synced. *)
LEMMA RenameEffect ==
  ASSUME TypeOK, NEW p \in Proc, Rename(p), ~(SaveFails(p) /\ UNCHANGED disk)
  PROVE  /\ temp[p] \in Temp /\ saves' = saves + 1
         /\ shown' \in File /\ shown'.v = saves + 1
         /\ shown'.torn = temp[p].val.torn /\ shown'.timed = temp[p].val.timed
         /\ \E cut \in File : /\ after' = after \cup {cut} /\ cut.v = saves + 1
                              /\ cut.torn = ~temp[p].synced
                              /\ cut.timed = temp[p].val.timed
         /\ \A q \in Proc : /\ temp'[q] = IF q = p THEN NoTemp ELSE temp[q]
                            /\ pc'[q] = IF q = p THEN "flush" ELSE pc[q]
                            /\ mem'[q] = IF q = p THEN shown' ELSE mem[q]
<1> DEFINE new == [temp[p].val EXCEPT !.v = saves + 1]
           cut == [new EXCEPT !.torn = ~temp[p].synced]
<1>1. /\ temp[p] # NoTemp /\ saves' = saves + 1 /\ shown' = new
      /\ after' = after \cup {cut} /\ temp' = [temp EXCEPT ![p] = NoTemp]
      /\ mem' = [mem EXCEPT ![p] = new] /\ Goto(p, "flush")
  BY Zenon DEF Rename
<1>2. temp[p] \in Temp /\ saves + 1 \in Nat BY <1>1 DEF TypeOK
<1>3. temp[p].val \in File /\ (~temp[p].synced) \in BOOLEAN BY <1>2, SameTemp, Zenon
<1>4. /\ new \in File /\ new.v = saves + 1
      /\ new.torn = temp[p].val.torn /\ new.timed = temp[p].val.timed
  BY <1>2, <1>3, Numbered, Zenon
<1> HIDE DEF new
<1>5. /\ cut \in File /\ cut.v = new.v
      /\ cut.torn = ~temp[p].synced /\ cut.timed = new.timed
  BY <1>3, <1>4, Torn, ZenonT(60)
<1> HIDE DEF cut
<1>6. \A q \in Proc : /\ temp'[q] = IF q = p THEN NoTemp ELSE temp[q]
                      /\ pc'[q] = IF q = p THEN "flush" ELSE pc[q]
                      /\ mem'[q] = IF q = p THEN new ELSE mem[q]
  BY <1>1, Zenon DEF TypeOK, Goto
<1> QED BY <1>1, <1>2, <1>4, <1>5, <1>6, Zenon

(* What the end of a save does to the command: it ends, or goes back with the
   same file but for the state. *)
LEMMA SyncDirEffect ==
  ASSUME TypeOK, NEW p \in Proc, SyncDir(p)
  PROVE  /\ pc'[p] \in {"done", "write"} /\ (mem'[p].torn => mem[p].torn)
         /\ pc'[p] = "write" => cmd[p] = "activate" /\ mem'[p].timed = mem[p].timed
         /\ \A q \in Proc \ {p} : pc'[q] = pc[q] /\ mem'[q] = mem[q]
<1>1. CASE End(p) BY <1>1, EndOthers DEF Blank
<1>2. CASE ~End(p)
  <2> DEFINE new == [mem[p] EXCEPT !.state = "inactive"]
  <2>1. cmd[p] = "activate" /\ mem' = [mem EXCEPT ![p] = new] /\ Goto(p, "write")
    BY <1>2, Zenon DEF SyncDir
  <2>2. mem[p] \in File BY Zenon DEF TypeOK
  <2>3. new.torn = mem[p].torn /\ new.timed = mem[p].timed BY <2>2, Deactivated, Zenon
  <2> HIDE DEF new
  <2>4. mem'[p] = new /\ \A q \in Proc \ {p} : mem'[q] = mem[q] BY <2>1, Zenon DEF TypeOK
  <2> QED BY <2>1, <2>3, <2>4, GotoOthers
<1> QED BY <1>1, <1>2, Zenon

(* What a step must not do to endanger the atomicity: it puts no other file in
   place, and brings no temporary file nearer to its rename. *)
LEMMA WholeQuiet ==
  ASSUME WholeInv,
         shown' \in after \cup {shown}, after' \subseteq after \cup {shown},
         \A q \in Proc : mem'[q] = mem[q] \/ ~mem'[q].torn,
         \A q \in Proc : temp'[q] \in {temp[q], NoTemp},
         \A q \in Proc : pc'[q] = "rename" => pc[q] = "rename"
  PROVE  WholeInv'
BY DEF WholeInv, NeverTorn

(* Every step keeps every file whole. *)
LEMMA WholeStep == TypeOK /\ WholeInv /\ [Next]_vars => WholeInv'
<1> SUFFICES ASSUME TypeOK, WholeInv, [Next]_vars PROVE WholeInv'
  BY Zenon
<1>0. ~Blank.torn BY Zenon DEF Blank
<1>1. ASSUME NEW p \in Proc, Begin(p) PROVE WholeInv'
  <2>1. \A q \in Proc : pc'[q] = "rename" => pc[q] = "rename"
    BY <1>1, GotoOthers DEF Begin
  <2> QED BY <1>1, <2>1, WholeQuiet, Zenon DEF Begin, disk
<1>2. ASSUME NEW p \in Proc, TryAcquire(p) PROVE WholeInv'
  <2>1. \A q \in Proc : /\ pc'[q] = "rename" => pc[q] = "rename"
                        /\ mem'[q] \in {mem[q], Blank}
    BY <1>2, EndOthers, Zenon DEF TryAcquire, TypeOK
  <2> QED BY <1>0, <1>2, <2>1, WholeQuiet, Zenon DEF TryAcquire, disk
<1>3. ASSUME NEW p \in Proc, AcquireWithTimeout(p) PROVE WholeInv'
  <2>1. \A q \in Proc : pc'[q] = "rename" => pc[q] = "rename"
    BY <1>3, GotoOthers DEF AcquireWithTimeout, TypeOK
  <2> QED BY <1>3, <2>1, WholeQuiet, Zenon DEF AcquireWithTimeout, disk
<1>4. ASSUME NEW p \in Proc, LoadWithOutcome(p) PROVE WholeInv'
  <2>1. \A q \in Proc : temp'[q] \in {temp[q], NoTemp} BY <1>4, Zenon DEF LoadWithOutcome, Swept
  <2>2. \A q \in Proc : /\ pc'[q] = "rename" => pc[q] = "rename"
                        /\ mem'[q] = mem[q] \/ ~mem'[q].torn
    <3>1. CASE End(p) BY <1>0, <3>1, EndOthers
    <3>2. CASE ~End(p)
      <4>1. PICK f \in {shown, Blank} :
               mem' = [mem EXCEPT ![p] = Amended(cmd[p], f)] /\ Goto(p, "write")
        BY <1>4, <3>2, Zenon DEF LoadWithOutcome
      <4>2. ~Amended(cmd[p], f).torn
        BY <1>0, BlankFile, AmendedFile DEF TypeOK, WholeInv, NeverTorn
      <4>3. mem'[p] = Amended(cmd[p], f) /\ \A q \in Proc \ {p} : mem'[q] = mem[q]
        BY <4>1, Zenon DEF TypeOK
      <4> QED BY <4>1, <4>2, <4>3, GotoOthers
    <3> QED BY <3>1, <3>2, Zenon
  <2> QED BY <1>4, <2>1, <2>2, WholeQuiet, Zenon DEF LoadWithOutcome, disk
<1>5. ASSUME NEW p \in Proc, WriteTemp(p) PROVE WholeInv'
  <2> DEFINE t == [val |-> mem[p], synced |-> FALSE, old |-> FALSE]
  <2>1. t.val = mem[p] BY Zenon
  <2>2. CASE SaveFails(p)
    <3>1. \A q \in Proc : /\ pc'[q] = "rename" => pc[q] = "rename"
                          /\ mem'[q] \in {mem[q], Blank}
      BY <2>2, EndOthers, Zenon DEF SaveFails
    <3>2. \A q \in Proc : temp'[q] \in {temp[q], NoTemp} BY <2>2, Zenon DEF SaveFails, TypeOK
    <3> QED BY <1>0, <1>5, <3>1, <3>2, WholeQuiet, Zenon DEF WriteTemp, disk
  <2>3. CASE ~SaveFails(p)
    <3>1. temp' = [temp EXCEPT ![p] = t] /\ Goto(p, "sync") /\ mem' = mem
      BY <1>5, <2>3, Zenon DEF WriteTemp
    <3> HIDE DEF t
    <3>2. temp'[p] = t /\ \A q \in Proc \ {p} : temp'[q] = temp[q] BY <3>1, Zenon DEF TypeOK
    <3>3. pc'[p] = "sync" /\ \A q \in Proc \ {p} : pc'[q] = pc[q] BY <3>1, GotoOthers, Zenon
    <3>4. shown' = shown /\ after' = after BY <1>5, Zenon DEF WriteTemp, disk
    <3> QED BY <2>1, <3>1, <3>2, <3>3, <3>4 DEF WholeInv, NeverTorn
  <2> QED BY <2>2, <2>3, Zenon
<1>6. ASSUME NEW p \in Proc, SyncTemp(p) PROVE WholeInv'
  <2> DEFINE t == [temp[p] EXCEPT !.synced = TRUE]
  <2>1. CASE SaveFails(p)
    <3>1. \A q \in Proc : /\ pc'[q] = "rename" => pc[q] = "rename"
                          /\ mem'[q] \in {mem[q], Blank}
      BY <2>1, EndOthers DEF SaveFails
    <3>2. \A q \in Proc : temp'[q] \in {temp[q], NoTemp} BY <2>1, SMTT(30) DEF SaveFails, TypeOK
    <3> QED BY <1>0, <1>6, <3>1, <3>2, WholeQuiet, Zenon DEF SyncTemp, disk
  <2>2. CASE ~SaveFails(p)
    <3>1. /\ Goto(p, "rename") /\ mem' = mem
          /\ temp' = IF temp[p] = NoTemp THEN temp ELSE [temp EXCEPT ![p] = t]
      BY <1>6, <2>2, Zenon DEF SyncTemp
    <3>2. temp[p] # NoTemp => temp[p] \in Temp BY Zenon DEF TypeOK
    <3>3. temp[p] # NoTemp => t.synced /\ t.val = temp[p].val BY <3>2, SameTemp, Zenon
    <3> HIDE DEF t
    <3>4. /\ temp[p] = NoTemp => temp'[p] = NoTemp
          /\ temp[p] # NoTemp => temp'[p] = t
          /\ \A q \in Proc \ {p} : temp'[q] = temp[q]
      BY <3>1, Zenon DEF TypeOK
    <3>5. \A q \in Proc \ {p} : pc'[q] = pc[q] BY <3>1, GotoOthers, Zenon
    <3>6. shown' = shown /\ after' = after BY <1>6, Zenon DEF SyncTemp, disk
    <3> QED BY <3>1, <3>3, <3>4, <3>5, <3>6 DEF WholeInv, NeverTorn
  <2> QED BY <2>1, <2>2
<1>7. ASSUME NEW p \in Proc, Rename(p) PROVE WholeInv'
  <2>1. CASE SaveFails(p) /\ UNCHANGED disk
    BY <1>0, <2>1, FailsOthers, WholeQuiet DEF disk
  <2>2. CASE ~(SaveFails(p) /\ UNCHANGED disk)
    <3>1. pc[p] = "rename" /\ temp[p] # NoTemp BY <1>7, <2>2, Zenon DEF Rename
    <3>2. temp[p].synced /\ ~temp[p].val.torn BY <3>1, Zenon DEF WholeInv
    <3>3. ~shown'.torn BY <1>7, <2>2, <3>2, RenameEffect, Zenon
    <3>4. \A f \in after' : ~f.torn
      <4>1. PICK cut \in File : after' = after \cup {cut} /\ cut.torn = ~temp[p].synced
        BY <1>7, <2>2, RenameEffect, Zenon
      <4>2. ~cut.torn BY <3>2, <4>1, Zenon
      <4> QED BY <4>1, <4>2, Zenon DEF WholeInv, NeverTorn
    <3>5. \A q \in Proc : /\ temp'[q] \in {temp[q], NoTemp}
                          /\ pc'[q] \in {pc[q], "flush"}
                          /\ mem'[q] \in {mem[q], shown'}
      BY <1>7, <2>2, RenameEffect, Zenon
    <3> QED BY <3>3, <3>4, <3>5, Zenon DEF WholeInv, NeverTorn
  <2> QED BY <2>1, <2>2, Zenon
<1>8. ASSUME NEW p \in Proc, SyncDir(p) PROVE WholeInv'
  <2>1. shown' = shown /\ after' \subseteq after /\ temp' = temp BY <1>8, Zenon DEF SyncDir
  <2> QED BY <1>8, <2>1, SyncDirEffect, WholeQuiet DEF WholeInv
<1>9. ASSUME NEW p \in Proc, Age(p) PROVE WholeInv'
  <2> DEFINE t == [temp[p] EXCEPT !.old = TRUE]
  <2>1. temp[p] # NoTemp /\ temp' = [temp EXCEPT ![p] = t] BY <1>9, Zenon DEF Age
  <2>2. temp[p] \in Temp BY <2>1, Zenon DEF TypeOK
  <2>3. t.val = temp[p].val /\ t.synced = temp[p].synced BY <2>2, SameTemp, Zenon
  <2> HIDE DEF t
  <2>4. temp'[p] = t /\ \A q \in Proc \ {p} : temp'[q] = temp[q] BY <2>1, Zenon DEF TypeOK
  <2>5. UNCHANGED <<shown, after, pc, mem>> BY <1>9, Zenon DEF Age, disk
  <2> QED BY <2>1, <2>3, <2>4, <2>5 DEF WholeInv, NeverTorn
<1>10. ASSUME NEW p \in Proc, Kill(p) PROVE WholeInv'
  BY <1>0, <1>10, EndOthers, WholeQuiet DEF Kill, disk
<1>11. CASE PowerCut
  <2>1. \A q \in Proc : /\ pc'[q] = "rename" => pc[q] = "rename"
                        /\ mem'[q] = Blank /\ temp'[q] \in {temp[q], NoTemp}
    BY <1>11, Zenon DEF PowerCut
  <2> QED BY <1>0, <1>11, <2>1, WholeQuiet, Zenon DEF PowerCut
<1>12. CASE UNCHANGED vars BY <1>12, WholeQuiet, ZenonT(60) DEF vars, disk
<1> QED
  BY <1>1, <1>2, <1>3, <1>4, <1>5, <1>6, <1>7, <1>8, <1>9, <1>10, <1>11, <1>12, Zenon
     DEF Next, Step

(* Every other step of a command leaves the files and their order alone, forgets
   no fault, and brings no command to the directory's fsync. *)
LEMMA QuietStep ==
  ASSUME TypeOK, NEW p \in Proc
  PROVE  \/ Begin(p) \/ TryAcquire(p) \/ AcquireWithTimeout(p) \/ LoadWithOutcome(p)
         \/ WriteTemp(p) \/ SyncTemp(p) \/ Age(p) \/ Kill(p)
         => /\ UNCHANGED <<disk, acked>> /\ hit \subseteq hit'
            /\ \A q \in Proc : pc'[q] = "flush" => pc[q] = "flush" /\ mem'[q] = mem[q]
<1> DEFINE Calm == \A q \in Proc : pc'[q] = "flush" => pc[q] = "flush" /\ mem'[q] = mem[q]
<1>1. ASSUME NEW l, l # "flush", Goto(p, l),
             \A q \in Proc \ {p} : mem'[q] = mem[q]
      PROVE  Calm
  BY <1>1, GotoOthers
<1>2. ASSUME End(p) PROVE Calm BY <1>2, EndOthers, Zenon
<1>3. ASSUME Begin(p) PROVE Calm BY <1>1, <1>3, Zenon DEF Begin
<1>4. ASSUME TryAcquire(p) PROVE Calm BY <1>2, <1>4, Zenon DEF TryAcquire, TypeOK
<1>5. ASSUME AcquireWithTimeout(p) PROVE Calm
  BY <1>1, <1>5, Zenon DEF AcquireWithTimeout, TypeOK
<1>6. ASSUME LoadWithOutcome(p) PROVE Calm
  <2>1. CASE End(p) BY <1>2, <2>1, Zenon
  <2>2. CASE ~End(p)
    <3>1. Goto(p, "write") /\ \E f : mem' = [mem EXCEPT ![p] = f]
      BY <1>6, <2>2, Zenon DEF LoadWithOutcome
    <3>2. \A q \in Proc \ {p} : mem'[q] = mem[q] BY <3>1, Zenon DEF TypeOK
    <3> QED BY <1>1, <3>1, <3>2, Zenon
  <2> QED BY <2>1, <2>2, Zenon
<1>7. ASSUME WriteTemp(p) PROVE Calm BY <1>1, <1>2, <1>7, Zenon DEF WriteTemp, SaveFails
<1>8. ASSUME SyncTemp(p) PROVE Calm BY <1>1, <1>2, <1>8, Zenon DEF SyncTemp, SaveFails
<1>9. ASSUME Age(p) PROVE Calm BY <1>9, Zenon DEF Age
<1>10. ASSUME Kill(p) PROVE Calm BY <1>2, <1>10, Zenon DEF Kill
<1> HIDE DEF Calm
<1>11. ASSUME LoadWithOutcome(p) PROVE hit \subseteq hit' BY <1>11, Zenon DEF LoadWithOutcome
<1>12. ASSUME Begin(p) PROVE hit \subseteq hit' BY <1>12, Zenon DEF Begin
<1>13. ASSUME TryAcquire(p) \/ AcquireWithTimeout(p) \/ WriteTemp(p) \/ SyncTemp(p) \/ Age(p)
              \/ Kill(p)
       PROVE  hit \subseteq hit'
  BY <1>13, Zenon DEF TryAcquire, AcquireWithTimeout, WriteTemp, SyncTemp, Age, Kill
<1>14. ASSUME Begin(p) \/ TryAcquire(p) \/ AcquireWithTimeout(p) \/ LoadWithOutcome(p)
       PROVE  UNCHANGED <<disk, acked>>
  BY <1>14, Zenon DEF Begin, TryAcquire, AcquireWithTimeout, LoadWithOutcome
<1>15. ASSUME WriteTemp(p) \/ SyncTemp(p) \/ Age(p) \/ Kill(p)
       PROVE  UNCHANGED <<disk, acked>>
  BY <1>15, Zenon DEF WriteTemp, SyncTemp, Age, Kill
<1> QED
  BY <1>3, <1>4, <1>5, <1>6, <1>7, <1>8, <1>9, <1>10, <1>11, <1>12, <1>13, <1>14, <1>15, Zenon
     DEF Calm

(* Every step keeps the order of the files. *)
LEMMA OrderStep == TypeOK /\ TypeOK' /\ OrderInv /\ [Next]_vars => OrderInv'
<1> SUFFICES ASSUME TypeOK, TypeOK', OrderInv, [Next]_vars PROVE OrderInv'
  BY Zenon
<1>0. /\ shown.v \in Nat /\ acked.v \in Nat /\ saves \in Nat /\ acked'.v \in Nat
      /\ \A q \in Proc : mem[q].v \in Nat
      /\ \A f \in after : f.v \in Nat
  BY DEF TypeOK, File
<1>1. ASSUME UNCHANGED <<disk, acked>>, hit \subseteq hit',
             \A q \in Proc : pc'[q] = "flush" => pc[q] = "flush" /\ mem'[q] = mem[q]
      PROVE  OrderInv'
  BY <1>1, Zenon DEF OrderInv, SavedSurvives, disk
<1>2. ASSUME NEW p \in Proc, Rename(p) PROVE OrderInv'
  <2>0. UNCHANGED <<acked, hit>> BY <1>2, Zenon DEF Rename
  <2>1. CASE SaveFails(p) /\ UNCHANGED disk BY <1>1, <2>0, <2>1, FailsOthers, Zenon
  <2>2. CASE ~(SaveFails(p) /\ UNCHANGED disk)
    <3>1. saves' = saves + 1 /\ shown'.v = saves + 1 BY <1>2, <2>2, RenameEffect, Zenon
    <3>2. PICK cut \in File : after' = after \cup {cut} /\ cut.v = saves + 1
      BY <1>2, <2>2, RenameEffect, Zenon
    <3>3. \A q \in Proc : /\ pc'[q] = IF q = p THEN "flush" ELSE pc[q]
                          /\ mem'[q] = IF q = p THEN shown' ELSE mem[q]
      BY <1>2, <2>2, RenameEffect, SMTT(30)
    <3>4. \A q \in Proc : pc'[q] = "flush" => mem'[q].v <= shown'.v
      BY <1>0, <3>1, <3>3, SMTT(30) DEF OrderInv
    <3>5. SavedSurvives' BY <1>0, <2>0, <3>1, <3>2 DEF OrderInv, SavedSurvives
    <3> QED BY <1>0, <3>1, <3>2, <3>4, <3>5 DEF OrderInv
  <2> QED BY <2>1, <2>2, Zenon
<1>3. ASSUME NEW p \in Proc, SyncDir(p) PROVE OrderInv'
  <2>1. shown' = shown /\ saves' = saves /\ after' \subseteq after BY <1>3, Zenon DEF SyncDir
  <2>2. \A q \in Proc : pc'[q] = "flush" => pc[q] = "flush" /\ mem'[q] = mem[q]
    BY <1>3, SyncDirEffect, Zenon
  <2>3. acked' \in {acked, mem[p]} /\ mem[p].v <= shown.v /\ hit \subseteq hit'
    BY <1>3, Zenon DEF SyncDir, OrderInv
  <2>4. "dirsync" \notin hit' => after' = {f \in after : f.v = shown.v}
    BY <1>3, Zenon DEF SyncDir
  <2>5. SavedSurvives' BY <1>0, <2>1, <2>3, <2>4, Zenon DEF OrderInv, SavedSurvives
  <2> QED BY <2>1, <2>2, <2>5, Zenon DEF OrderInv
<1>4. CASE PowerCut
  <2>1. shown' \in after /\ after' = {shown'} /\ UNCHANGED <<saves, acked, hit>>
    BY <1>4, Zenon DEF PowerCut
  <2>2. \A q \in Proc : pc'[q] # "flush" BY <1>4, Zenon DEF PowerCut
  <2> QED BY <2>1, <2>2, Zenon DEF OrderInv, SavedSurvives
<1>5. CASE UNCHANGED vars BY <1>1, <1>5, Zenon DEF vars
<1> QED BY <1>1, <1>2, <1>3, <1>4, <1>5, QuietStep, Zenon DEF Next, Step

(* A command another one's step does not touch still holds what it held. *)
LEMMA HoldsStays ==
  ASSUME NEW q \in Proc, Holds(q),
         pc'[q] = pc[q], mem'[q] = mem[q], cmd'[q] = cmd[q],
         temp'[q] # NoTemp => temp[q] # NoTemp /\ temp'[q].val = temp[q].val,
         shown' = shown, lock = q => lock' = q
  PROVE  Holds(q)'
BY Zenon DEF Holds, Saving

(* A sweep removes a temporary file or leaves it as it is. *)
LEMMA SweptTemp ==
  ASSUME TypeOK, NEW q \in Proc, temp' = Swept
  PROVE  temp'[q] \in {temp[q], NoTemp}
BY Zenon DEF TypeOK, Swept

(* While nothing goes wrong, every step of a command that puts no file in place
   leaves every command holding what it must. *)
LEMMA HoldsStep ==
  ASSUME TypeOK, WholeInv, NEW p \in Proc, hit' = {}, \A q \in Proc : Holds(q)
  PROVE  \/ Begin(p) \/ TryAcquire(p) \/ AcquireWithTimeout(p) \/ LoadWithOutcome(p)
         \/ WriteTemp(p) \/ SyncTemp(p) \/ Age(p) \/ Kill(p)
         => \A q \in Proc : Holds(q)'
<1> DEFINE All == \A q \in Proc : Holds(q)'
<1>0. p # NoProc /\ Holds(p) BY Zenon
<1>1. ASSUME End(p), UNCHANGED <<shown, cmd>>,
             \A q \in Proc \ {p} : temp'[q] \in {temp[q], NoTemp}
      PROVE  All
  <2>1. \A q \in Proc \ {p} : lock = q => lock' = q BY <1>1, Zenon DEF End
  <2>2. pc'[p] = "done" BY <1>1, EndOthers, Zenon
  <2>3. Holds(p)' BY <2>2, Zenon DEF Holds, Saving
  <2> QED BY <1>1, <2>1, <2>3, EndOthers, HoldsStays
<1>2. ASSUME Begin(p) PROVE All
  <2>1. PICK c \in Cmds : /\ cmd' = [cmd EXCEPT ![p] = c] /\ c # "emergency"
                          /\ Goto(p, IF c = "status" THEN "load" ELSE "lock")
    BY <1>2, Zenon DEF Begin
  <2>2. UNCHANGED <<shown, temp, mem, lock>> BY <1>2, <2>1, Zenon DEF Begin, disk, Goto
  <2>3. cmd'[p] = c /\ \A q \in Proc \ {p} : cmd'[q] = cmd[q] BY <2>1, Zenon DEF TypeOK
  <2>4. Holds(p)' BY <2>1, <2>3, GotoOthers DEF Holds, Saving
  <2> QED BY <2>1, <2>2, <2>3, <2>4, GotoOthers, HoldsStays, SMTT(30)
<1>3. ASSUME TryAcquire(p) PROVE All
  <2>0. UNCHANGED <<shown, temp, cmd>> BY <1>3, Zenon DEF TryAcquire, disk
  <2>1. CASE End(p) BY <1>1, <2>0, <2>1, Zenon
  <2>2. CASE ~End(p)
    <3>1. lock = NoProc /\ lock' = p /\ mem' = mem /\ pc' = [pc EXCEPT ![p] = "load"]
      BY <1>3, <2>2, Zenon DEF TryAcquire
    <3>2. pc'[p] = "load" /\ \A q \in Proc \ {p} : pc'[q] = pc[q] BY <3>1, Zenon DEF TypeOK
    <3>3. Holds(p)' BY <3>1, <3>2, Zenon DEF Holds, Saving
    <3> QED BY <2>0, <3>1, <3>2, <3>3, HoldsStays, Zenon
  <2> QED BY <2>1, <2>2, Zenon
<1>4. ASSUME AcquireWithTimeout(p) PROVE All
  <2>1. /\ lock = NoProc /\ lock' = p /\ pc' = [pc EXCEPT ![p] = "load"]
        /\ UNCHANGED <<shown, temp, cmd, mem>>
    BY <1>4, Zenon DEF AcquireWithTimeout, disk
  <2>2. pc'[p] = "load" /\ \A q \in Proc \ {p} : pc'[q] = pc[q] BY <2>1, Zenon DEF TypeOK
  <2>3. Holds(p)' BY <2>1, <2>2, Zenon DEF Holds, Saving
  <2> QED BY <2>1, <2>2, <2>3, HoldsStays, Zenon
<1>5. ASSUME LoadWithOutcome(p) PROVE All
  <2>0. UNCHANGED <<shown, cmd>> /\ pc[p] = "load"
        /\ \A q \in Proc : temp'[q] \in {temp[q], NoTemp}
    BY <1>5, SweptTemp, Zenon DEF LoadWithOutcome, disk
  <2>1. CASE End(p) BY <1>1, <2>0, <2>1, Zenon
  <2>2. CASE ~End(p)
    <3>1. /\ mem' = [mem EXCEPT ![p] = Amended(cmd[p], shown)]
          /\ Goto(p, "write") /\ cmd[p] # "status"
      BY <1>5, <2>2, Zenon DEF LoadWithOutcome
    <3>2. shown \in File BY Zenon DEF TypeOK
    <3>3. /\ mem'[p] = Amended(cmd[p], shown)
          /\ \A q \in Proc \ {p} : mem'[q] = mem[q]
      BY <3>1, Zenon DEF TypeOK
    <3>4. shown.timed => mem'[p].timed
      <4>1. shown.timed => Amended(cmd[p], shown).timed BY <3>2, AmendedFile, Zenon
      <4> QED BY <3>3, <4>1, Zenon
    <3>5. pc'[p] = "write" /\ lock' = lock /\ \A q \in Proc \ {p} : pc'[q] = pc[q]
      BY <3>1, GotoOthers, Zenon DEF Goto
    <3>6. Holds(p)' BY <1>0, <2>0, <3>1, <3>4, <3>5, Zenon DEF Holds, Saving
    <3> QED BY <2>0, <3>3, <3>5, <3>6, HoldsStays, Zenon
  <2> QED BY <2>1, <2>2
<1>6. ASSUME WriteTemp(p) PROVE All
  <2>0. UNCHANGED <<shown, cmd>> /\ pc[p] = "write" BY <1>6, Zenon DEF WriteTemp, disk
  <2>1. CASE SaveFails(p) BY <1>1, <2>0, <2>1, FailsOthers, Zenon DEF SaveFails
  <2>2. CASE ~SaveFails(p)
    <3> DEFINE new == [val |-> mem[p], synced |-> FALSE, old |-> FALSE]
    <3>1. temp' = [temp EXCEPT ![p] = new] /\ Goto(p, "sync") /\ mem' = mem
      BY <1>6, <2>2, Zenon DEF WriteTemp
    <3>2. new.val = mem[p] BY Zenon
    <3> HIDE DEF new
    <3>3. temp'[p] = new /\ \A q \in Proc \ {p} : temp'[q] = temp[q]
      BY <3>1, Zenon DEF TypeOK
    <3>4. pc'[p] = "sync" /\ lock' = lock /\ \A q \in Proc \ {p} : pc'[q] = pc[q]
      BY <3>1, GotoOthers, Zenon DEF Goto
    <3>5. Holds(p)' BY <1>0, <2>0, <3>1, <3>2, <3>3, <3>4, Zenon DEF Holds, Saving
    <3> QED BY <2>0, <3>1, <3>3, <3>4, <3>5, HoldsStays, Zenon
  <2> QED BY <2>1, <2>2
<1>7. ASSUME SyncTemp(p) PROVE All
  <2>0. UNCHANGED <<shown, cmd>> /\ pc[p] = "sync" BY <1>7, Zenon DEF SyncTemp, disk
  <2>1. CASE SaveFails(p) BY <1>1, <2>0, <2>1, FailsOthers, Zenon DEF SaveFails
  <2>2. CASE ~SaveFails(p)
    <3>1. /\ temp' = IF temp[p] = NoTemp THEN temp ELSE [temp EXCEPT ![p].synced = TRUE]
          /\ Goto(p, "rename") /\ mem' = mem
      BY <1>7, <2>2, Zenon DEF SyncTemp
    <3>2. \A q \in Proc : temp'[q] # NoTemp => temp[q] # NoTemp /\ temp'[q].val = temp[q].val
      BY <3>1 DEF TypeOK, Temp
    <3>4. pc'[p] = "rename" /\ lock' = lock /\ \A q \in Proc \ {p} : pc'[q] = pc[q]
      BY <3>1, GotoOthers, Zenon DEF Goto
    <3>5. Holds(p)' BY <1>0, <2>0, <3>1, <3>2, <3>4, Zenon DEF Holds, Saving
    <3> QED BY <2>0, <3>1, <3>2, <3>4, <3>5, HoldsStays, Zenon
  <2> QED BY <2>1, <2>2
<1>8. ASSUME Age(p) PROVE All
  <2>1. \A q \in Proc : temp'[q] # NoTemp => temp[q] # NoTemp /\ temp'[q].val = temp[q].val
    BY <1>8 DEF Age, TypeOK, Temp
  <2> QED BY <1>8, <2>1, HoldsStays, Zenon DEF Age, disk
<1>9. ASSUME Kill(p) PROVE All BY <1>1, <1>9, Zenon DEF Kill, disk
<1> HIDE DEF All
<1> QED BY <1>2, <1>3, <1>4, <1>5, <1>6, <1>7, <1>8, <1>9, Zenon DEF All

(* While nothing goes wrong, every step keeps the timing in the file. *)
LEMMA TimingStep ==
  TypeOK /\ TypeOK' /\ WholeInv /\ OrderInv /\ TimingInv /\ [Next]_vars => TimingInv'
<1> SUFFICES ASSUME TypeOK, TypeOK', WholeInv, OrderInv, TimingInv, [Next]_vars,
                    hit' = {}
             PROVE  /\ \A q \in Proc : Holds(q)'
                    /\ \A f \in after' : f.v = shown'.v => f.timed = shown'.timed
                    /\ acked'.timed => shown'.timed /\ \A f \in after' : f.timed
  BY Zenon DEF TimingInv, TimingKept
<1> DEFINE Goal == /\ \A q \in Proc : Holds(q)'
                   /\ \A f \in after' : f.v = shown'.v => f.timed = shown'.timed
                   /\ acked'.timed => shown'.timed /\ \A f \in after' : f.timed
<1>0. ASSUME hit = {}
      PROVE  /\ \A q \in Proc : Holds(q)
             /\ \A f \in after : f.v = shown.v => f.timed = shown.timed
             /\ acked.timed => shown.timed /\ \A f \in after : f.timed
  BY <1>0, Zenon DEF TimingInv, TimingKept
<1>1. ASSUME NEW p \in Proc,
             \/ Begin(p) \/ TryAcquire(p) \/ AcquireWithTimeout(p) \/ LoadWithOutcome(p)
             \/ WriteTemp(p) \/ SyncTemp(p) \/ Age(p) \/ Kill(p)
      PROVE  Goal
  <2>1. UNCHANGED <<disk, acked>> /\ hit = {} BY <1>1, QuietStep, Zenon
  <2>2. \A q \in Proc : Holds(q)' BY <1>0, <1>1, <2>1, HoldsStep, Zenon
  <2> QED BY <1>0, <2>1, <2>2, Zenon DEF disk
<1>2. ASSUME NEW p \in Proc, Rename(p) PROVE Goal
  <2>0. UNCHANGED <<cmd, acked>> /\ hit = {} /\ pc[p] = "rename" BY <1>2, Zenon DEF Rename
  <2>1. CASE SaveFails(p) /\ UNCHANGED disk
    <3>1. \A q \in Proc \ {p} : lock = q => lock' = q BY <2>1, Zenon DEF SaveFails, End
    <3>2. pc'[p] = "done" BY <2>1, FailsOthers, Zenon
    <3>3. Holds(p)' BY <3>2, Zenon DEF Holds, Saving
    <3>4. \A q \in Proc \ {p} : pc'[q] = pc[q] /\ mem'[q] = mem[q] /\ temp'[q] = temp[q]
      BY <2>1, FailsOthers
    <3>5. shown' = shown /\ after' = after BY <2>1, ZenonT(60) DEF disk
    <3>6. \A q \in Proc : Holds(q)'
      BY <1>0, <2>0, <3>1, <3>3, <3>4, <3>5, HoldsStays, SMTT(30)
    <3> QED BY <1>0, <2>0, <3>5, <3>6, Zenon
  <2>2. CASE ~(SaveFails(p) /\ UNCHANGED disk)
    <3>1. /\ temp[p] \in Temp /\ shown'.v = saves + 1
          /\ shown'.timed = temp[p].val.timed
      BY <1>2, <2>2, RenameEffect, Zenon
    <3>2. PICK cut \in File : /\ after' = after \cup {cut}
                              /\ cut.timed = temp[p].val.timed
      BY <1>2, <2>2, RenameEffect, ZenonT(40)
    <3>3. \A q \in Proc : /\ pc'[q] = IF q = p THEN "flush" ELSE pc[q]
                          /\ mem'[q] = IF q = p THEN shown' ELSE mem[q]
      BY <1>2, <2>2, RenameEffect
    <3>4. /\ lock = p /\ cmd[p] # "status" /\ temp[p].val = mem[p]
          /\ shown.timed => mem[p].timed
      BY <1>0, <2>0, <3>1, Zenon DEF Holds, Saving
    <3>5. lock' = lock BY <1>2, <2>2, Zenon DEF Rename, Goto
    <3>6. ASSUME NEW q \in Proc \ {p} PROVE Holds(q)'
      <4>1. pc[q] \notin Saving /\ (pc[q] = "load" => cmd[q] = "status")
        BY <1>0, <2>0, <3>4, Zenon DEF Holds, Saving
      <4> QED BY <2>0, <3>3, <4>1, Zenon DEF Holds, Saving
    <3>7. Holds(p)' BY <2>0, <3>3, <3>4, <3>5, Zenon DEF Holds, Saving
    <3>8. \A f \in after : f.v <= saves /\ f.v \in Nat BY DEF OrderInv, TypeOK, File
    <3>9. \A f \in after' : f.v = shown'.v => f.timed = shown'.timed
      <4>1. \A f \in after : f.v # shown'.v BY <3>1, <3>8 DEF TypeOK
      <4> QED BY <3>1, <3>2, <4>1, Zenon
    <3>10. acked'.timed => shown'.timed /\ \A f \in after' : f.timed
      BY <1>0, <2>0, <3>1, <3>2, <3>4, Zenon
    <3> QED BY <3>6, <3>7, <3>9, <3>10, Zenon
  <2> QED BY <2>1, <2>2, Zenon
<1>3. ASSUME NEW p \in Proc, SyncDir(p) PROVE Goal
  <2>0. /\ UNCHANGED <<shown, temp, cmd>> /\ hit = {} /\ pc[p] = "flush"
        /\ after' = {f \in after : f.v = shown.v} /\ acked' \in {acked, mem[p]}
    BY <1>3, Zenon DEF SyncDir
  <2>1. \A q \in Proc \ {p} : pc'[q] = pc[q] /\ mem'[q] = mem[q]
    BY <1>3, SyncDirEffect, Zenon
  <2>2. /\ pc'[p] \in {"done", "write"}
        /\ pc'[p] = "write" => cmd[p] = "activate" /\ mem'[p].timed = mem[p].timed
    BY <1>3, SyncDirEffect, Zenon
  <2>3. /\ lock = p /\ shown.timed = mem[p].timed BY <1>0, <2>0, Zenon DEF Holds, Saving
  <2>4. pc'[p] = "write" => lock' = lock
    <3>1. CASE End(p) BY <3>1, EndOthers, Zenon
    <3>2. CASE ~End(p) BY <1>3, <3>2, Zenon DEF SyncDir, Goto
    <3> QED BY <3>1, <3>2, Zenon
  <2>5. Holds(p)' BY <2>0, <2>2, <2>3, <2>4, Zenon DEF Holds, Saving
  <2>6. \A q \in Proc : Holds(q)' BY <1>0, <2>0, <2>1, <2>3, <2>5, HoldsStays, Zenon
  <2>7. \A f \in after' : f \in after /\ f.v = shown.v BY <2>0, Zenon
  <2>8. acked'.timed => shown.timed BY <1>0, <2>0, <2>3, Zenon
  <2> QED BY <1>0, <2>0, <2>6, <2>7, <2>8, Zenon
<1>4. ASSUME PowerCut PROVE Goal
  <2>1. shown' \in after /\ after' = {shown'} /\ acked' = acked /\ hit = {}
    BY <1>4, Zenon DEF PowerCut
  <2>2. \A q \in Proc : pc'[q] \in {"idle", "done"} BY <1>4, Zenon DEF PowerCut
  <2>3. \A q \in Proc : Holds(q)' BY <2>2, Zenon DEF Holds, Saving
  <2> QED BY <1>0, <2>1, <2>3, Zenon
<1>5. ASSUME UNCHANGED vars PROVE Goal
  <2>1. \A q \in Proc : Holds(q)' BY <1>0, <1>5, HoldsStays, Zenon DEF vars, disk
  <2> QED BY <1>0, <1>5, <2>1, Zenon DEF vars, disk
<1> HIDE DEF Goal
<1>6. Goal BY <1>1, <1>2, <1>3, <1>4, <1>5, Zenon DEF Next, Step
<1> QED BY <1>6, Zenon DEF Goal

(* SafeRoot::write_atomic puts state.json in place whole or not at all: whatever
   fails, and wherever a command is killed or the power is cut, no torn file can
   come to be under that name, for any number of commands. *)
THEOREM SaveAtomic == Spec => []NeverTorn
<1>1. Init => WholeInv
  BY DEF Init, WholeInv, NeverTorn, Blank
<1>2. WholeInv => NeverTorn BY Zenon DEF WholeInv
<1> QED BY <1>1, <1>2, FileTyped, WholeStep, PTL DEF Spec

(* The initial file is the newest there is. *)
LEMMA OrderStart == Init => OrderInv
BY DEF Init, OrderInv, SavedSurvives, Blank

(* StateFile::save is durable: a save that returned Ok is not undone by a power
   cut, a failed save or a kill, for any number of commands, as long as no fsync
   of the directory failed. *)
THEOREM SaveDurable == Spec => []SavedSurvives
<1>1. OrderInv => SavedSurvives BY Zenon DEF OrderInv
<1> QED BY <1>1, OrderStart, FileTyped, OrderStep, PTL DEF Spec

(* The lock makes load, amend and save one step: with it, and with no fault met,
   the timing record_entry wrote stays in the file whichever commands come after. *)
THEOREM TimingSafe == Spec => []TimingKept
<1>1. Init => WholeInv
  BY DEF Init, WholeInv, NeverTorn, Blank
<1>2. Init => TimingInv
  BY DEF Init, TimingInv, TimingKept, Holds, Saving, Blank
<1>3. TimingInv => TimingKept BY Zenon DEF TimingInv, TimingKept
<1> QED
  BY <1>1, <1>2, <1>3, OrderStart, FileTyped, WholeStep, OrderStep, TimingStep, PTL
     DEF Spec

=============================================================================
