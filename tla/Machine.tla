------------------------------- MODULE Machine -------------------------------
(***************************************************************************)
(* The host every `nails` command works on: which root PID 1 runs, what is *)
(* mounted at /run/nextroot, the session plan and the runtime directory in *)
(* /run, the units and kernel settings an entry changes, the record on the *)
(* hidden volume, the state lock, and the commands that run.  /run and the *)
(* kernel survive a soft-reboot; only the record survives a power cut.     *)
(***************************************************************************)
EXTENDS FiniteSets

CONSTANTS
    Proc,       \* the command invocations of a behaviour, each with its own pid
    Cmds,       \* the commands the operator uses
    Faults,     \* what may go wrong in a behaviour
    RunNoexec,  \* the decoy mounts /run noexec (Debian and Ubuntu do)
    Builds,     \* the activation builds a hidden NixOS system
    NoProc,     \* nobody holds the state lock
    NoPlan      \* there is no readable session plan

\* "step"    a step of a command fails (a mount, a build, a check, a write)
\* "save"    the state file cannot be saved
\* "reload"  systemctl daemon-reload fails
\* "enqueue" systemctl start refuses, or is cut short
\* "planwrite" the entry transition cannot write the plan
\* "precheck" the next root's init no longer resolves when PID 1 gets there, or
\*           the decoy's units cannot be masked
\* "lapse"   an arming outlives its 30 minutes
\* "cancel"  SIGINT or SIGTERM reaches an activation
\* "kill"    a command is killed between two of its steps
\* "power"   the power is cut
\* "plain"   somebody else asks for a soft-reboot
\* "skip"    activate --no-preflight
\* "overlap" a command starts, or stops waiting for the lock, while another runs
FaultNames == {"step", "save", "reload", "enqueue", "planwrite", "precheck",
               "lapse", "cancel", "kill", "power", "plain", "skip", "overlap"}
CmdNames == {"activate", "deactivate", "recover", "emergency"}

Plan == [owner   : Proc,
         armed   : {"none", "enter", "leave", "lapsed"},
         entered : BOOLEAN,
         noexec  : BOOLEAN,
         kernel  : {"decoy", "hidden"}]

ASSUME MachineAssumption ==
    /\ Cmds \subseteq CmdNames /\ Faults \subseteq FaultNames
    /\ RunNoexec \in BOOLEAN /\ Builds \in BOOLEAN
    /\ NoProc \notin Proc /\ NoPlan \notin Plan

VARIABLES
    root,       \* the root PID 1 runs: "decoy" or "hidden"
    nextroot,   \* what is mounted at /run/nextroot: "none", "hidden" or "decoy"
    pid1,       \* what PID 1 is doing
    rtdir,      \* the runtime directory exists, with the binary copy in it
    plan,       \* the session plan in it
    dropin,     \* the transition drop-in is in /run/systemd/system
    loaded,     \* PID 1 has the drop-in loaded
    masks,      \* the decoy units are masked in /run
    noexec,     \* /run is mounted noexec
    kernel,     \* whose helper paths the kernel has: "decoy" or "hidden"
    fixup,      \* the boot-record one-shot left for the decoy's first start
    record,     \* the state file: "inactive" or "active"
    refusal,    \* the hidden volume holds the record of a refused switch
    lock,       \* who holds the state lock
    pc, cmd,    \* per command: where it is, and which command it is
    opt,        \* per command: --no-preflight, or a power-off instead of a return
    mem,        \* per command: the plan in its memory
    cancel,     \* per command: its cancel flag
    todo        \* per command: what its rollback does after the runtime directory

stage   == <<root, nextroot, pid1>>
runtime == <<rtdir, plan>>
units   == <<dropin, loaded, masks>>
host    == <<noexec, kernel, fixup>>
volume  == <<record, refusal>>
local   == <<cmd, opt, mem, cancel, todo>>
vars    == <<stage, runtime, units, host, volume, lock, pc, local>>

Pids == {"up", "soft", "off", "transition", "switch"}
\* An activation walks through Building; Undoing is the rollback every failed
\* activation, `recover` and the decoy side of `emergency` run.
Building == {"preflight", "runtime", "noexec", "dropin", "mount", "build",
             "activate", "wayback", "arm", "record", "commit"}
Undoing  == {"undo", "units", "rtdir", "finish"}
Leaving  == {"inactive", "prep", "armleave", "enqueue", "unarm"}
Alarm    == {"signal", "kill"}
PCs == {"idle", "look", "done"} \cup Building \cup Undoing \cup Leaving \cup Alarm

TypeOK ==
    /\ root \in {"decoy", "hidden"}
    /\ nextroot \in {"none", "hidden", "decoy"}
    /\ pid1 \in Pids
    /\ rtdir \in BOOLEAN /\ plan \in Plan \cup {NoPlan}
    /\ dropin \in BOOLEAN /\ loaded \in BOOLEAN /\ masks \in BOOLEAN
    /\ noexec \in BOOLEAN /\ kernel \in {"decoy", "hidden"}
    /\ fixup \in {"none", "plain", "noexec"}
    /\ record \in {"inactive", "active"} /\ refusal \in BOOLEAN
    /\ lock \in Proc \cup {NoProc}
    /\ pc \in [Proc -> PCs]
    /\ cmd \in [Proc -> CmdNames \cup {"none"}]
    /\ opt \in [Proc -> BOOLEAN]
    /\ mem \in [Proc -> Plan \cup {NoPlan}]
    /\ cancel \in [Proc -> BOOLEAN]
    /\ todo \in [Proc -> SUBSET {"noexec", "reload", "record"}]

MachineInit ==
    /\ root = "decoy" /\ nextroot = "none" /\ pid1 = "up"
    /\ rtdir = FALSE /\ plan = NoPlan
    /\ dropin = FALSE /\ loaded = FALSE /\ masks = FALSE
    /\ noexec = RunNoexec /\ kernel = "decoy" /\ fixup = "none"
    /\ record = "inactive" /\ refusal = FALSE
    /\ lock = NoProc
    /\ pc = [p \in Proc |-> "idle"]
    /\ cmd = [p \in Proc |-> "none"]
    /\ opt = [p \in Proc |-> FALSE]
    /\ mem = [p \in Proc |-> NoPlan]
    /\ cancel = [p \in Proc |-> FALSE]
    /\ todo = [p \in Proc |-> {}]

------------------------------------------------------------------------------
Running(p) == pc[p] \notin {"idle", "done"}
May(f) == f \in Faults

(* Whether the plan's arming allows the switch in direction d now. *)
ArmedFor(d) == plan # NoPlan /\ plan.armed = d
OwnerAlive == plan # NoPlan /\ Running(plan.owner)

(* Where the machine is, from the live facts alone. *)
View ==
    CASE plan # NoPlan /\ root = "hidden"       -> "hidden"
      [] ArmedFor("enter") /\ OwnerAlive /\ root = "decoy" -> "entering"
      [] plan # NoPlan /\ root = "decoy" /\ ~(ArmedFor("enter") /\ OwnerAlive)
                                                -> "interrupted"
      [] plan = NoPlan /\ root = "hidden"       -> "hiddenWithoutPlan"
      [] plan = NoPlan /\ root = "decoy" /\ nextroot # "none" -> "interrupted"
      [] OTHER                                  -> "decoy"

(* Between commands: the decoy's first start is over and no command works
   without the lock. *)
Calm == /\ fixup = "none"
        /\ \A q \in Proc : Running(q) => lock = q
Starts(p, c, o) ==
    /\ pc[p] = "idle" /\ c \in Cmds
    /\ pid1 \in {"up", "soft", "off"}
    /\ cmd' = [cmd EXCEPT ![p] = c]
    /\ opt' = [opt EXCEPT ![p] = o]

Goto(p, l) == pc' = [pc EXCEPT ![p] = l]
(* The kernel frees the lock with the descriptors of a command that is gone. *)
Gone(P) ==
    /\ pc' = [p \in Proc |-> IF p \in P THEN "done" ELSE pc[p]]
    /\ lock' = IF lock \in P THEN NoProc ELSE lock
    /\ cmd' = [p \in Proc |-> IF p \in P THEN "none" ELSE cmd[p]]
    /\ opt' = [p \in Proc |-> IF p \in P THEN FALSE ELSE opt[p]]
    /\ mem' = [p \in Proc |-> IF p \in P THEN NoPlan ELSE mem[p]]
    /\ cancel' = [p \in Proc |-> IF p \in P THEN FALSE ELSE cancel[p]]
    /\ todo' = [p \in Proc |-> IF p \in P THEN {} ELSE todo[p]]
Exit(p) == Gone({p})

(* A power cut, or a power-off and the next boot: /run, the kernel and every
   process are new; the hidden volume keeps what was written. *)
PowerCycle ==
    /\ root' = "decoy" /\ nextroot' = "none" /\ pid1' = "up"
    /\ rtdir' = FALSE /\ plan' = NoPlan
    /\ dropin' = FALSE /\ loaded' = FALSE /\ masks' = FALSE
    /\ noexec' = RunNoexec /\ kernel' = "decoy" /\ fixup' = "none"
    /\ Gone({p \in Proc : Running(p)})
    /\ UNCHANGED volume

(* `systemctl start` of target t: "done" once enqueued, "refused", or "unknown"
   when the call was cut short and PID 1 may or may not have the job.  It never
   cancels a job already there: PID 1 then has both, and either may end first. *)
StartTarget(t, outcome) ==
    \/ outcome = "done" /\ pid1' \in IF pid1 = "up" THEN {t} ELSE {t, pid1}
    \/ outcome = "refused" /\ May("enqueue") /\ pid1' = pid1
    \/ outcome = "unknown" /\ May("enqueue") /\ pid1' \in {t, pid1}

-----------------------------------------------------------------------------
(***************************************************************************)
(* The cleanup a decoy gets after an entry that did not happen: the steps  *)
(* of entry::rollback, which the failed activation and `recover` run, and  *)
(* of the decoy side of `emergency`, which runs them in the same order.    *)
(* Each step is an action, so a kill or another command can come between.  *)
(***************************************************************************)
(* Fail over to the rollback; afterwards, when the runtime directory is gone,
   do what is in t. *)
RollBack(p, t) ==
    /\ Goto(p, "undo")
    /\ todo' = [todo EXCEPT ![p] = t]

(* Variant: the rollback leaves the next root to the very end. *)
UndoDetachLate(p) ==
    /\ pc[p] = "undo"
    /\ mem' = [mem EXCEPT ![p] = plan]
    /\ Goto(p, "units")
    /\ UNCHANGED <<stage, runtime, units, host, volume, lock, cmd, opt, cancel, todo>>

(* Read the plan (an emergency has read it already) and detach /run/nextroot. *)
UndoDetach(p) ==
    /\ pc[p] = "undo"
    /\ mem' = [mem EXCEPT ![p] = IF cmd[p] = "emergency" THEN mem[p] ELSE plan]
    /\ nextroot' = "none"
    /\ Goto(p, "units")
    /\ UNCHANGED <<root, pid1, runtime, units, host, volume, lock, cmd, opt, cancel, todo>>

(* Variant: the kernel's helper paths are forgotten. *)
UndoUnitsOnly(p) ==
    /\ pc[p] = "units"
    /\ dropin' = FALSE
    /\ masks' = (masks /\ mem[p] = NoPlan)
    /\ Goto(p, "rtdir")
    /\ UNCHANGED <<stage, runtime, loaded, host, volume, lock, local>>

(* Remove the drop-in; with a plan, also the masks, and give the kernel back
   the helper paths the plan recorded.  An emergency reloads PID 1 only when it
   removed something PID 1 may have loaded. *)
UndoUnits(p) ==
    /\ pc[p] = "units"
    /\ dropin' = FALSE
    /\ masks' = (masks /\ mem[p] = NoPlan)
    /\ kernel' = IF mem[p] = NoPlan THEN kernel ELSE mem[p].kernel
    /\ todo' = IF cmd[p] = "emergency" /\ ~dropin /\ ~masks
               THEN [todo EXCEPT ![p] = @ \ {"reload"}] ELSE todo
    /\ Goto(p, "rtdir")
    /\ UNCHANGED <<stage, runtime, loaded, noexec, fixup, volume, lock, cmd, opt, mem, cancel>>

(* Remove the runtime directory, the plan with it.  An emergency that was asked
   for a power action dispatches it next. *)
UndoRuntime(p) ==
    /\ pc[p] = "rtdir"
    /\ rtdir' = FALSE /\ plan' = NoPlan
    /\ Goto(p, IF cmd[p] = "emergency" /\ opt[p] THEN "enqueue" ELSE "finish")
    /\ UNCHANGED <<stage, units, host, volume, lock, local>>

(* Variant: the flag is read from the plan on disk, which is gone by now. *)
UndoNoexecReread(p) ==
    /\ pc[p] = "finish" /\ "noexec" \in todo[p]
    /\ noexec' = (noexec \/ (plan # NoPlan /\ plan.noexec))
    /\ todo' = [todo EXCEPT ![p] = @ \ {"noexec"}]
    /\ UNCHANGED <<stage, runtime, units, kernel, fixup, volume, lock, pc, cmd, opt, mem, cancel>>

(* Set noexec on /run again where the plan says the entry cleared it. *)
UndoNoexec(p) ==
    /\ pc[p] = "finish" /\ "noexec" \in todo[p]
    /\ noexec' = (noexec \/ (mem[p] # NoPlan /\ mem[p].noexec))
    /\ todo' = [todo EXCEPT ![p] = @ \ {"noexec"}]
    /\ UNCHANGED <<stage, runtime, units, kernel, fixup, volume, lock, pc, cmd, opt, mem, cancel>>

(* Reload PID 1, best effort. *)
UndoReload(p) ==
    /\ pc[p] = "finish" /\ "noexec" \notin todo[p] /\ "reload" \in todo[p]
    /\ \/ loaded' = dropin
       \/ May("reload") /\ loaded' = loaded
    /\ todo' = [todo EXCEPT ![p] = @ \ {"reload"}]
    /\ UNCHANGED <<stage, runtime, dropin, masks, host, volume, lock, pc, cmd, opt, mem, cancel>>

(* Record the session as inactive, best effort, and exit. *)
UndoExit(p) ==
    /\ pc[p] = "finish" /\ todo[p] \subseteq {"record"}
    /\ \/ record' = IF "record" \in todo[p] THEN "inactive" ELSE record
       \/ May("save") /\ record' = record
    /\ Exit(p)
    /\ UNCHANGED <<stage, runtime, units, host, refusal>>

Undo(p) == \/ UndoDetach(p) \/ UndoUnits(p) \/ UndoRuntime(p)
           \/ UndoNoexec(p) \/ UndoReload(p) \/ UndoExit(p)
=============================================================================
