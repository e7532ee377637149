--------------------------------- MODULE Logs ---------------------------------
(***************************************************************************)
(* The operation log on the hidden volume (nails-base/src/logging,         *)
(* nails-cli/src/cli/logging.rs): what a command asks before it opens the  *)
(* log, and the rotation, which renames numbered files one at a time while *)
(* other commands may open the log.                                        *)
(***************************************************************************)
EXTENDS Naturals, FiniteSets, FiniteSetsExt, Sequences

CONSTANTS
    RetentionDays,  \* retention_days: also the highest number a log gets
    MaxLogs,        \* log files made in all
    MaxDays         \* days that pass

ASSUME LogsAssumption == RetentionDays \in Nat \ {0} /\ MaxLogs \in Nat /\ MaxDays \in Nat

VARIABLES
    logAt,      \* the file at nails.log (0) and at each nails.log.N
    lastWritten,    \* the day each file was last written
    today,
    rotation,   \* the number a rotation moves next, or where it is otherwise
    excused     \* history: files whose loss the rotation reports or documents

logVars == <<logAt, lastWritten, today, rotation, excused>>

Numbers == 0 .. RetentionDays
NoLog == 0
LogsQuiet == RetentionDays + 1
CreatingLog == RetentionDays + 2
Retaining == RetentionDays + 3
Made == DOMAIN lastWritten
Kept == {logAt[n] : n \in Numbers} \ {NoLog}

LogsTypeOK ==
    /\ logAt \in [Numbers -> Made \cup {NoLog}] /\ today \in 0 .. MaxDays
    /\ rotation \in 0 .. Retaining /\ excused \subseteq Made
    /\ \A m, n \in Numbers : m # n /\ logAt[m] = logAt[n] => logAt[m] = NoLog

LogsInit ==
    /\ logAt = [n \in Numbers |-> NoLog] /\ lastWritten = <<>> /\ today = 0
    /\ rotation = LogsQuiet /\ excused = {}

-----------------------------------------------------------------------------
(* What a command asks before it logs. *)

(* clean_path: lexical; a ".." at the top goes nowhere.  A path is its     *)
(* components, taken from the first to the last.                           *)
DirName(path) == SubSeq(path, 1, Len(path) - 1)
CleanPath(path) ==
    MapThenFoldSet(LAMBDA c, done : CASE c = ".." -> IF done = <<>> THEN done ELSE DirName(done)
                                      [] c = "." -> done
                                      [] OTHER -> Append(done, c),
                   <<>>, LAMBDA i : path[i], Max, DOMAIN path)

Inside(path, dir) == Len(dir) <= Len(path) /\ SubSeq(path, 1, Len(dir)) = dir
ValidateLogPath(e) == Inside(CleanPath(e.log), CleanPath(e.root))

(* init_or_explain and init_file_layer: the answers that let a command log *)
InitFileLayer(e) ==
    CASE ~ e.configRead \/ e.unsupported -> "silent"
      [] ~ ValidateLogPath(e) -> "error"
      [] ~ e.attached -> "disabled"
      [] e.there = "link" -> "error"
      [] OTHER -> "logs"

(* Where the kernel takes a path that meets no link: the reference.        *)
Walk(path) ==
    LET go[n \in 0 .. Len(path)] ==
          IF n = 0 THEN <<>>
          ELSE IF path[n] = ".." THEN (IF go[n - 1] = <<>> THEN <<>> ELSE DirName(go[n - 1]))
          ELSE IF path[n] = "." THEN go[n - 1]
          ELSE go[n - 1] \o <<path[n]>>
    IN go[Len(path)]

(* A command that logs has its log directory at or below the hidden        *)
(* volume's root on an attached volume, whatever dots the configured path  *)
(* holds (LoggingManager::validate_log_path, init_or_explain).             *)
LogsInside(e) ==
    InitFileLayer(e) = "logs" => e.attached /\ Inside(Walk(e.log), Walk(e.root))

-----------------------------------------------------------------------------
(* A command opens the log with create and append.                         *)
OpenLog ==
    /\ logAt[0] = NoLog => Len(lastWritten) < MaxLogs
    /\ IF logAt[0] # NoLog
       THEN /\ lastWritten' = [lastWritten EXCEPT ![logAt[0]] = today]
            /\ UNCHANGED <<logAt, excused>>
       ELSE /\ lastWritten' = Append(lastWritten, today)
            /\ logAt' = [logAt EXCEPT ![0] = Len(lastWritten) + 1]
            \* the window in which the rotation has no nails.log
            /\ excused' = IF rotation = CreatingLog THEN excused \cup {Len(lastWritten) + 1} ELSE excused
    /\ UNCHANGED <<today, rotation>>

NextDay == today < MaxDays /\ today' = today + 1 /\ UNCHANGED <<logAt, lastWritten, rotation, excused>>

-----------------------------------------------------------------------------
(* rotate_logs: nails.log grew past the limit.                             *)
BeginRotation ==
    /\ rotation = LogsQuiet /\ logAt[0] # NoLog
    /\ rotation' = RetentionDays - 1
    \* "the oldest goes": what the highest number holds is overwritten
    /\ excused' = excused \cup ({logAt[RetentionDays]} \ {NoLog})
    /\ UNCHANGED <<logAt, lastWritten, today>>

Renamed(from, to) == [logAt EXCEPT ![to] = logAt[from], ![from] = NoLog]

(* The rename of nails.log.i; a failure is only warned about, and the next *)
(* rename lands on the file that did not move.                             *)
ShiftFile ==
    /\ rotation \in 1 .. RetentionDays - 1
    /\ \/ /\ logAt[rotation] # NoLog
          /\ logAt' = Renamed(rotation, rotation + 1) /\ UNCHANGED excused
       \/ /\ logAt[rotation] # NoLog
          /\ excused' = excused \cup {logAt[rotation]} /\ UNCHANGED logAt
       \/ logAt[rotation] = NoLog /\ UNCHANGED <<logAt, excused>>
    /\ rotation' = rotation - 1
    /\ UNCHANGED <<lastWritten, today>>

(* nails.log becomes nails.log.1, or the rotation ends.                    *)
MoveLive ==
    /\ rotation = 0
    /\ \/ logAt' = Renamed(0, 1) /\ rotation' = CreatingLog
       \/ UNCHANGED logAt /\ rotation' = LogsQuiet
    /\ UNCHANGED <<lastWritten, today, excused>>

(* The empty nails.log replaces whatever a command opened meanwhile; when  *)
(* it cannot be written, nails.log.1 goes back.                            *)
CreateLive ==
    /\ rotation = CreatingLog
    /\ \/ /\ Len(lastWritten) < MaxLogs
          /\ lastWritten' = Append(lastWritten, today)
          /\ logAt' = [logAt EXCEPT ![0] = Len(lastWritten) + 1] /\ rotation' = Retaining
       \/ /\ logAt' = Renamed(1, 0) \/ UNCHANGED logAt
          /\ UNCHANGED lastWritten /\ rotation' = LogsQuiet
    /\ UNCHANGED <<today, excused>>

(* enforce_retention: numbered files older than the retention go.          *)
Old(f) == today - lastWritten[f] > RetentionDays
EnforceRetention ==
    /\ rotation = Retaining /\ rotation' = LogsQuiet
    /\ \E gone \in SUBSET {n \in Numbers \ {0} : logAt[n] # NoLog /\ Old(logAt[n])} :
         /\ logAt' = [n \in Numbers |-> IF n \in gone THEN NoLog ELSE logAt[n]]
         /\ excused' = excused \cup {logAt[n] : n \in gone}
    /\ UNCHANGED <<lastWritten, today>>

LogsNext ==
    \/ OpenLog \/ NextDay \/ BeginRotation \/ ShiftFile \/ MoveLive \/ CreateLive \/ EnforceRetention

LogsSpec == LogsInit /\ [][LogsNext]_logVars

-----------------------------------------------------------------------------
(* A log file is gone only when it was the oldest, too old, could not be   *)
(* moved (which is warned about), or was opened in the instant the         *)
(* rotation had no nails.log ("reverse order to avoid overwriting",        *)
(* rotate_logs).                                                           *)
LossExcused == Made \subseteq Kept \cup excused

=============================================================================
