------------------------------ MODULE StateFile ------------------------------
(***************************************************************************)
(* The state file on the hidden volume: one atomic save is a temporary     *)
(* file, its fsync, the rename and the fsync of the directory, and a kill, *)
(* a power cut, a sweep of old temporaries or another command can come     *)
(* between any two.  Commands save under the state lock, except the ones   *)
(* that must not wait for it.                                              *)
(***************************************************************************)
EXTENDS Naturals, TLC

CONSTANTS
    Proc,     \* the command invocations of a behaviour
    Cmds,     \* the commands the operator uses
    Faults,   \* what may go wrong in a behaviour
    NoProc,   \* nobody holds the state lock
    NoTemp    \* a command has no temporary file on the volume

\* "io"      a write, fsync or rename of a save fails
\* "read"    the file cannot be read
\* "dirsync" the fsync of the directory fails, which the save ignores
\* "stall"   a save takes longer than STALE_TEMP_AGE, by suspend or clock step
\* "overlap" a command saves without the lock, beside its holder
\* "kill"    a command is killed, "power" the power is cut
FaultNames == {"io", "read", "dirsync", "stall", "overlap", "kill", "power"}
CmdNames == {"activate", "deactivate", "recover", "emergency", "status"}

ASSUME StateFileAssumption ==
    /\ Cmds \subseteq CmdNames /\ Faults \subseteq FaultNames
    /\ NoProc \notin Proc

\* What a file says: the session state, whether it has the timing of the last
\* activation, whether its content is torn, and which save it is.
File == [state : {"inactive", "active"}, timed : BOOLEAN, torn : BOOLEAN, v : Nat]
\* StateFile::default(), also what a missing or unusable file reads as.
Blank == [state |-> "inactive", timed |-> FALSE, torn |-> FALSE, v |-> 0]
Temp == [val : File, synced : BOOLEAN, old : BOOLEAN]

ASSUME TempAssumption == NoTemp \notin Temp

VARIABLES
    shown,    \* state.json as processes see it
    after,    \* the files a power cut may leave at that name
    temp,     \* per command: its temporary file on the volume
    lock,     \* who holds the state lock
    pc, cmd,  \* per command: where it is, and which command it is
    mem,      \* per command: the state file in its memory
    saves,    \* how many files were renamed into place
    acked,    \* the newest file whose save has returned Ok
    hit       \* the faults of this behaviour a save or load has met

disk  == <<shown, after, saves>>
vars  == <<disk, temp, lock, pc, cmd, mem, acked, hit>>

PCs == {"idle", "lock", "load", "write", "sync", "rename", "flush", "done"}
Working == {"lock", "load", "write", "sync", "rename", "flush"}

TypeOK ==
    /\ shown \in File /\ after \in SUBSET File /\ saves \in Nat /\ acked \in File
    /\ temp \in [Proc -> Temp \cup {NoTemp}]
    /\ lock \in Proc \cup {NoProc}
    /\ pc \in [Proc -> PCs]
    /\ cmd \in [Proc -> CmdNames \cup {"none"}]
    /\ mem \in [Proc -> File]
    /\ hit \in SUBSET FaultNames

Init ==
    /\ shown = Blank /\ after = {Blank} /\ saves = 0 /\ acked = Blank
    /\ temp = [p \in Proc |-> NoTemp]
    /\ lock = NoProc
    /\ pc = [p \in Proc |-> "idle"]
    /\ cmd = [p \in Proc |-> "none"]
    /\ mem = [p \in Proc |-> Blank]
    /\ hit = {}

May(f) == f \in Faults
Goto(p, l) == pc' = [pc EXCEPT ![p] = l] /\ UNCHANGED lock
\* The process ends, its memory with it, and the kernel drops its flock.
End(p) == /\ pc' = [pc EXCEPT ![p] = "done"]
          /\ lock' = IF lock = p THEN NoProc ELSE lock
          /\ mem' = [mem EXCEPT ![p] = Blank]

(* A command starts.  `emergency` and `status` take no lock. *)
Begin(p) ==
    /\ pc[p] = "idle"
    /\ \E c \in Cmds :
          /\ c = "emergency" => May("overlap")
          /\ cmd' = [cmd EXCEPT ![p] = c]
          /\ Goto(p, IF c \in {"emergency", "status"} THEN "load" ELSE "lock")
          /\ hit' = IF c = "emergency" THEN hit \cup {"overlap"} ELSE hit
    /\ UNCHANGED <<disk, temp, mem, acked>>

(* Variant: a lock that cannot be had is done without. *)
TryAcquireAnyway(p) ==
    /\ pc[p] = "lock" /\ cmd[p] # "recover"
    /\ pc' = [pc EXCEPT ![p] = "load"]
    /\ lock' = IF lock = NoProc THEN p ELSE lock
    /\ UNCHANGED <<disk, temp, cmd, mem, acked, hit>>

(* StateLock::try_acquire: a lock that is held, or whose file cannot be opened,
   refuses the command. *)
TryAcquire(p) ==
    /\ pc[p] = "lock" /\ cmd[p] # "recover"
    /\ \/ /\ lock = NoProc /\ lock' = p
          /\ pc' = [pc EXCEPT ![p] = "load"]
          /\ UNCHANGED mem
       \/ (lock # NoProc \/ May("io")) /\ End(p)
    /\ UNCHANGED <<disk, temp, cmd, acked, hit>>

(* StateLock::acquire_with_timeout: `recover` goes on without a lock it waited
   for in vain, or whose file it cannot open. *)
AcquireWithTimeout(p) ==
    /\ pc[p] = "lock" /\ cmd[p] = "recover"
    /\ \/ /\ lock = NoProc /\ lock' = p
          /\ pc' = [pc EXCEPT ![p] = "load"]
          /\ UNCHANGED hit
       \/ /\ lock # NoProc \/ May("io")
          /\ May("overlap")
          /\ Goto(p, "load")
          /\ hit' = hit \cup {"overlap"}
    /\ UNCHANGED <<disk, temp, cmd, mem, acked>>

\* remove_stale_temp_files: what is old goes, whoever it belongs to.
Swept == [q \in Proc |-> IF temp[q] # NoTemp /\ temp[q].old THEN NoTemp ELSE temp[q]]

\* What the command makes of the file it read, in record_entry or force_state.
Amended(c, f) ==
    IF c = "activate" THEN [f EXCEPT !.state = "active", !.timed = TRUE]
                      ELSE [f EXCEPT !.state = "inactive"]

(* StateFile::load_with_outcome, and what each command does with the outcome:
   `status` reports it, `activate` refuses a file it cannot trust, the others amend
   it for a save, if they do not fail or find nothing to record. *)
LoadWithOutcome(p) ==
    /\ pc[p] = "load"
    /\ temp' = Swept
    /\ \E trusted \in BOOLEAN :
          /\ trusted => ~shown.torn
          /\ ~trusted => shown.torn \/ May("read")
          /\ hit' = IF trusted THEN hit ELSE hit \cup {"read"}
          /\ \/ End(p)
             \/ /\ cmd[p] # "status" /\ (cmd[p] = "activate" => trusted)
                /\ mem' = [mem EXCEPT ![p] =
                              Amended(cmd[p], IF trusted THEN shown ELSE Blank)]
                /\ Goto(p, "write")
    /\ UNCHANGED <<disk, cmd, acked>>

\* The save fails and unlinks its temporary file; the command ends with it.
SaveFails(p) ==
    /\ temp' = [temp EXCEPT ![p] = NoTemp]
    /\ End(p)

(* SafeRoot::write_atomic creates the temporary file and writes the content. *)
WriteTemp(p) ==
    /\ pc[p] = "write"
    /\ \/ /\ temp' = [temp EXCEPT ![p] = [val |-> mem[p], synced |-> FALSE, old |-> FALSE]]
          /\ Goto(p, "sync") /\ UNCHANGED mem
       \/ May("io") /\ SaveFails(p)
    /\ UNCHANGED <<disk, cmd, acked, hit>>

(* Variant: the temporary file is not synced. *)
SyncTempNot(p) ==
    /\ pc[p] = "sync"
    /\ Goto(p, "rename")
    /\ UNCHANGED <<disk, temp, cmd, mem, acked, hit>>

(* ... syncs it, also when a sweep has unlinked it under the open handle ... *)
SyncTemp(p) ==
    /\ pc[p] = "sync"
    /\ \/ /\ temp' = IF temp[p] = NoTemp THEN temp
                     ELSE [temp EXCEPT ![p].synced = TRUE]
          /\ Goto(p, "rename") /\ UNCHANGED mem
       \/ May("io") /\ SaveFails(p)
    /\ UNCHANGED <<disk, cmd, acked, hit>>

(* ... renames it over state.json, which fails when it is gone ... *)
Rename(p) ==
    /\ pc[p] = "rename"
    /\ \/ /\ temp[p] # NoTemp
          /\ saves' = saves + 1
          /\ LET new == [temp[p].val EXCEPT !.v = saves + 1] IN
                /\ shown' = new
                /\ after' = after \cup {[new EXCEPT !.torn = ~temp[p].synced]}
                /\ mem' = [mem EXCEPT ![p] = new]
          /\ temp' = [temp EXCEPT ![p] = NoTemp]
          /\ Goto(p, "flush")
       \/ /\ temp[p] = NoTemp \/ May("io")
          /\ SaveFails(p)
          /\ UNCHANGED disk
    /\ UNCHANGED <<cmd, acked, hit>>

(* Variant: the directory is not synced. *)
SyncDirNot(p) ==
    /\ pc[p] = "flush"
    /\ acked' = IF mem[p].v > acked.v THEN mem[p] ELSE acked
    /\ End(p)
    /\ UNCHANGED <<disk, temp, cmd, hit>>

(* ... and syncs the directory, best effort.  The save has then returned Ok.  An
   activation whose soft-reboot cannot be enqueued saves once more, from memory. *)
SyncDir(p) ==
    /\ pc[p] = "flush"
    /\ \/ /\ after' = {f \in after : f.v = shown.v}
          /\ UNCHANGED hit
       \/ /\ May("dirsync")
          /\ hit' = hit \cup {"dirsync"}
          /\ UNCHANGED after
    /\ acked' = IF mem[p].v > acked.v THEN mem[p] ELSE acked
    /\ \/ End(p)
       \/ /\ cmd[p] = "activate" /\ mem[p].state = "active"
          /\ mem' = [mem EXCEPT ![p].state = "inactive"]
          /\ Goto(p, "write")
    /\ UNCHANGED <<shown, saves, temp, cmd>>

(* Time passes: a leftover grows older than STALE_TEMP_AGE, and the temporary
   file of a save that still runs only where the save is held up. *)
Age(p) ==
    /\ temp[p] # NoTemp /\ ~temp[p].old
    /\ pc[p] = "done" \/ May("stall")
    /\ temp' = [temp EXCEPT ![p].old = TRUE]
    /\ UNCHANGED <<disk, lock, pc, cmd, mem, acked, hit>>

(* SIGKILL, or the soft-reboot: the temporary file stays. *)
Kill(p) ==
    /\ May("kill") /\ pc[p] \in Working
    /\ End(p)
    /\ UNCHANGED <<disk, temp, cmd, acked, hit>>

(* The power is cut: no process is left, and any file that was not superseded
   for good may be what the volume holds. *)
PowerCut ==
    /\ May("power")
    /\ shown' \in after /\ after' = {shown'}
    /\ \E kept \in SUBSET Proc :
          temp' = [q \in Proc |-> IF q \in kept THEN temp[q] ELSE NoTemp]
    /\ lock' = NoProc
    /\ pc' = [q \in Proc |-> IF pc[q] = "idle" THEN "idle" ELSE "done"]
    /\ mem' = [q \in Proc |-> Blank]
    /\ UNCHANGED <<saves, cmd, acked, hit>>

Step(p) == \/ Begin(p) \/ TryAcquire(p) \/ AcquireWithTimeout(p) \/ LoadWithOutcome(p)
           \/ WriteTemp(p) \/ SyncTemp(p) \/ Rename(p) \/ SyncDir(p)
           \/ Age(p) \/ Kill(p)
Next == (\E p \in Proc : Step(p)) \/ PowerCut
Spec == Init /\ [][Next]_vars
\* Commands differ by name only.
Symmetry == Permutations(Proc)

(* "Either the old file or the complete new file exists, never a partial one":
   no power cut, whatever failed before, leaves a file that load_with_outcome
   would call corrupt. *)
NeverTorn == ~shown.torn /\ \A f \in after : ~f.torn

(* Once a save has returned Ok, no power cut brings back an older file, and no
   later save that fails or is killed undoes it, unless an fsync of the directory
   failed, which SafeRoot::write_atomic ignores. *)
SavedSurvives ==
    "dirsync" \notin hit => shown.v >= acked.v /\ \A f \in after : f.v >= acked.v

(* The timing of the last activation is "kept across deactivation": once saved it
   is in every file there is from then on, although each command writes the whole
   file from its own memory.  It takes the lock, a readable file and the fsyncs. *)
TimingKept ==
    hit = {} /\ acked.timed => shown.timed /\ \A f \in after : f.timed
==============================================================================
