---------------------------- MODULE SafetyProofs ---------------------------
(***************************************************************************)
(* Proofs about the session lifecycle, for any number of commands and for  *)
(* every combination of faults the theorems admit: the types, and that     *)
(* what is staged for a switch is guarded at every step, when commands     *)
(* respect the state lock.                                                 *)
(***************************************************************************)
EXTENDS Lifecycle, TLAPS

(* Where a command has a plan in its memory. *)
PlanInMemory == {"noexec", "dropin", "mount", "build", "activate", "wayback", "arm",
                 "record", "commit", "inactive", "prep", "armleave", "unarm"}
PlanKept(p) == \/ pc[p] \in PlanInMemory
               \/ pc[p] = "enqueue" /\ cmd[p] = "deactivate"

(* TypeOK in three parts: the machine, its flags, and the commands. *)
HostOK ==
    /\ root \in {"decoy", "hidden"}
    /\ nextroot \in {"none", "hidden", "decoy"}
    /\ pid1 \in Pids
    /\ plan \in Plan \cup {NoPlan}
    /\ kernel \in {"decoy", "hidden"}
    /\ fixup \in {"none", "plain", "noexec"}
    /\ record \in {"inactive", "active"}
FlagsOK ==
    /\ rtdir \in BOOLEAN /\ dropin \in BOOLEAN /\ loaded \in BOOLEAN
    /\ masks \in BOOLEAN /\ noexec \in BOOLEAN /\ refusal \in BOOLEAN
CommandsOK ==
    /\ lock \in Proc \cup {NoProc}
    /\ pc \in [Proc -> PCs]
    /\ cmd \in [Proc -> CmdNames \cup {"none"}]
    /\ opt \in [Proc -> BOOLEAN]
    /\ mem \in [Proc -> Plan \cup {NoPlan}]
    /\ cancel \in [Proc -> BOOLEAN]
    /\ todo \in [Proc -> SUBSET {"noexec", "reload", "record"}]
    /\ \A p \in Proc : PlanKept(p) => mem[p] \in Plan
TypeInv == HostOK /\ FlagsOK /\ CommandsOK

USE MachineAssumption DEF FaultNames, CmdNames

(* The decoy as it boots is well typed. *)
LEMMA TypeInit == MachineInit => TypeInv
<1> SUFFICES ASSUME MachineInit PROVE TypeInv
  BY Zenon
<1>1. HostOK BY Zenon DEF MachineInit, HostOK, Pids
<1>2. FlagsOK BY Zenon DEF MachineInit, FlagsOK
<1>3. CommandsOK
  BY Zenon DEF MachineInit, CommandsOK, PCs, PlanKept, PlanInMemory
<1> QED BY <1>1, <1>2, <1>3, Zenon DEF TypeInv

(* Commands that end, by themselves or with their process, leave the rest of
   the command state well typed. *)
LEMMA TypeGone ==
  ASSUME CommandsOK, NEW P \in SUBSET Proc, Gone(P)
  PROVE  CommandsOK'
<1> USE DEF CommandsOK, Gone
<1>1. lock' \in Proc \cup {NoProc} BY Zenon
<1>2. pc' \in [Proc -> PCs] BY Zenon DEF PCs
<1>3. cmd' \in [Proc -> CmdNames \cup {"none"}] BY Zenon
<1>4. opt' \in [Proc -> BOOLEAN] BY Zenon
<1>5. mem' \in [Proc -> Plan \cup {NoPlan}] BY Zenon
<1>6. cancel' \in [Proc -> BOOLEAN] BY Zenon
<1>7. todo' \in [Proc -> SUBSET {"noexec", "reload", "record"}] BY Zenon
<1>8. \A p \in Proc : PlanKept(p)' => mem'[p] \in Plan BY Zenon DEF PlanKept, PlanInMemory
<1> QED BY <1>1, <1>2, <1>3, <1>4, <1>5, <1>6, <1>7, <1>8, Zenon

(* Every step of `activate` keeps the types, and a plan in memory wherever a
   later step uses it. *)
LEMMA TypeActivate ==
  ASSUME TypeInv, NEW p \in Proc, Activate(p)
  PROVE  TypeInv'
<1> USE DEF TypeInv, stage, runtime, units, host, volume, local
<1>1. CASE ActivateBegin(p)
  <2>1. HostOK' BY <1>1 DEF ActivateBegin, HostOK, Plan, Pids
  <2>2. FlagsOK' BY <1>1, Zenon DEF ActivateBegin, FlagsOK
  <2>3. CommandsOK'
    BY <1>1 DEF ActivateBegin, CommandsOK, Starts, Goto, PCs, Building, Undoing,
       Leaving, Alarm, PlanKept, PlanInMemory
  <2> QED BY <2>1, <2>2, <2>3, Zenon
<1>2. CASE Preflight(p)
  <2>1. HostOK' BY <1>2 DEF Preflight, HostOK, Plan, Pids
  <2>2. FlagsOK' BY <1>2, Zenon DEF Preflight, FlagsOK
  <2>3. CommandsOK'
    <3>1. CASE Exit(p) BY <3>1, TypeGone, Zenon DEF Exit
    <3>2. CASE ~Exit(p)
      BY <1>2, <3>2 DEF Preflight, CommandsOK, View, ArmedFor, Goto, PCs, Building,
         Undoing, Leaving, Alarm, PlanKept, PlanInMemory
    <3> QED BY <3>1, <3>2, Zenon
  <2> QED BY <2>1, <2>2, <2>3
<1>3. CASE WriteRuntime(p)
  <2> DEFINE new == [owner |-> p, armed |-> "none", entered |-> FALSE,
                     noexec |-> noexec, kernel |-> kernel]
  <2>0. new \in Plan BY Zenon DEF HostOK, FlagsOK, Plan
  <2>1a. \/ plan' = new /\ mem' = [mem EXCEPT ![p] = new] /\ StepOk(p, "noexec")
         \/ plan' = plan /\ mem' = mem /\ RollBack(p, Undone)
    BY <1>3, Zenon DEF WriteRuntime
  <2> HIDE DEF new
  <2>1. HostOK' BY <1>3, <2>0, <2>1a, Zenon DEF WriteRuntime, HostOK
  <2>2. FlagsOK' BY <1>3, Zenon DEF WriteRuntime, FlagsOK
  <2>3. CommandsOK'
    BY <1>3, <2>0, <2>1a DEF WriteRuntime, CommandsOK, StepOk, Goto, RollBack, Undone,
       PCs, Building, Undoing, PlanKept, PlanInMemory
  <2> QED BY <2>1, <2>2, <2>3
<1>4. CASE ClearNoexec(p)
  <2>1. HostOK' BY <1>4 DEF ClearNoexec, HostOK, Plan, Pids
  <2>2. FlagsOK' BY <1>4, Zenon DEF ClearNoexec, FlagsOK
  <2>3. CommandsOK'
    BY <1>4 DEF ClearNoexec, CommandsOK, StepOk, Goto, RollBack, Undone, PCs,
       Building, Undoing, Leaving, Alarm, PlanKept, PlanInMemory
  <2> QED BY <2>1, <2>2, <2>3
<1>5. CASE InstallDropin(p)
  <2>1. HostOK' BY <1>5 DEF InstallDropin, HostOK, Plan, Pids
  <2>2. FlagsOK' BY <1>5, Zenon DEF InstallDropin, FlagsOK
  <2>3. CommandsOK'
    <3>1. \/ StepOk(p, "mount")
          \/ RollBack(p, Reloaded)
          \/ RollBack(p, Undone)
      BY <1>5, Zenon DEF InstallDropin, Checked
    <3>2. UNCHANGED <<root, plan, lock, cmd, opt, mem, cancel>> /\ pc[p] = "dropin"
      BY <1>5, Zenon DEF InstallDropin, stage, runtime
    <3> QED BY <3>1, <3>2 DEF CommandsOK, StepOk, Goto, RollBack, Undone, Reloaded,
       PCs, Building, Undoing, Leaving, Alarm, PlanKept, PlanInMemory
  <2> QED BY <2>1, <2>2, <2>3
<1>6. CASE MountNextroot(p)
  <2>1. HostOK'
    <3>1. nextroot' \in {nextroot, "hidden"} BY <1>6, Zenon DEF MountNextroot
    <3> QED BY <1>6, <3>1, Zenon DEF MountNextroot, HostOK
  <2>2. FlagsOK' BY <1>6, Zenon DEF MountNextroot, FlagsOK
  <2>3. CommandsOK'
    <3>1. \/ \E l \in {"build", "wayback"} : StepOk(p, l)
          \/ RollBack(p, Reloaded)
      BY <1>6, Zenon DEF MountNextroot, Checked
    <3> QED
      BY <1>6, <3>1 DEF MountNextroot, CommandsOK, StepOk, Goto, RollBack, Reloaded,
         PCs, Building, Undoing, PlanKept, PlanInMemory
  <2> QED BY <2>1, <2>2, <2>3
<1>7. CASE BuildSystem(p)
  <2>1. HostOK' BY <1>7 DEF BuildSystem, HostOK, Plan, Pids
  <2>2. FlagsOK' BY <1>7, Zenon DEF BuildSystem, FlagsOK
  <2>3. CommandsOK'
    BY <1>7 DEF BuildSystem, CommandsOK, Checked, StepOk, Goto, RollBack, Reloaded,
       PCs, Building, Undoing, Leaving, Alarm, PlanKept, PlanInMemory
  <2> QED BY <2>1, <2>2, <2>3
<1>8. CASE ActivateSystem(p)
  <2>1. HostOK' BY <1>8 DEF ActivateSystem, HostOK, Plan, Pids
  <2>2. FlagsOK' BY <1>8, Zenon DEF ActivateSystem, FlagsOK
  <2>3. CommandsOK'
    BY <1>8 DEF ActivateSystem, CommandsOK, Checked, StepOk, Goto, RollBack, Reloaded,
       PCs, Building, Undoing, Leaving, Alarm, PlanKept, PlanInMemory
  <2> QED BY <2>1, <2>2, <2>3
<1>9. CASE WayBack(p)
  <2>1. HostOK' BY <1>9 DEF WayBack, HostOK, Plan, Pids
  <2>2. FlagsOK' BY <1>9, Zenon DEF WayBack, FlagsOK
  <2>3. CommandsOK'
    BY <1>9 DEF WayBack, CommandsOK, Checked, StepOk, Goto, RollBack, Reloaded, PCs,
       Building, Undoing, Leaving, Alarm, PlanKept, PlanInMemory
  <2> QED BY <2>1, <2>2, <2>3
<1>10. CASE ArmEnter(p)
  <2>1. HostOK'
    BY <1>10 DEF ArmEnter, HostOK, CommandsOK, PlanKept, PlanInMemory, Plan, Pids
  <2>2. FlagsOK' BY <1>10, Zenon DEF ArmEnter, FlagsOK
  <2>3. CommandsOK'
    BY <1>10, SMTT(30) DEF ArmEnter, CommandsOK, StepOk, Goto, RollBack, Reloaded, PCs,
       Building, Undoing, Leaving, Alarm, PlanKept, PlanInMemory, Plan, HostOK
  <2> QED BY <2>1, <2>2, <2>3
<1>11. CASE RecordEntry(p)
  <2>1. HostOK' BY <1>11 DEF RecordEntry, HostOK, Plan, Pids
  <2>2. FlagsOK' BY <1>11, Zenon DEF RecordEntry, FlagsOK
  <2>3. CommandsOK'
    BY <1>11 DEF RecordEntry, CommandsOK, StepOk, Goto, RollBack, Reloaded, PCs,
       Building, Undoing, Leaving, Alarm, PlanKept, PlanInMemory
  <2> QED BY <2>1, <2>2, <2>3
<1>12. CASE Commit(p)
  <2>1. HostOK' BY <1>12 DEF Commit, HostOK, Plan, Pids, StartTarget
  <2>2. FlagsOK' BY <1>12, Zenon DEF Commit, FlagsOK
  <2>3. CommandsOK'
    <3>1. CASE Exit(p) BY <3>1, TypeGone DEF Exit
    <3>2. CASE ~Exit(p)
      BY <1>12, <3>2, SMTT(30) DEF Commit, CommandsOK, RollBack, Goto, Unrecorded, PCs,
         Building, Undoing, Leaving, Alarm, PlanKept, PlanInMemory
    <3> QED BY <3>1, <3>2
  <2> QED BY <2>1, <2>2, <2>3
<1> QED
  BY <1>1, <1>2, <1>3, <1>4, <1>5, <1>6, <1>7, <1>8, <1>9, <1>10, <1>11, <1>12, Zenon DEF
     Activate

(* Every step of the rollback keeps the types. *)
LEMMA TypeUndo ==
  ASSUME TypeInv, NEW p \in Proc, Undo(p)
  PROVE  TypeInv'
<1> USE DEF TypeInv, stage, runtime, units, host, volume, local
<1>1. CASE UndoDetach(p)
  <2>1. HostOK' BY <1>1 DEF UndoDetach, HostOK, Plan, Pids
  <2>2. FlagsOK' BY <1>1, Zenon DEF UndoDetach, FlagsOK
  <2>3. CommandsOK'
    BY <1>1, SMTT(30) DEF UndoDetach, CommandsOK, Goto, PCs, Building, Undoing, Leaving, Alarm,
       PlanKept, PlanInMemory, Plan, HostOK
  <2> QED BY <2>1, <2>2, <2>3
<1>2. CASE UndoUnits(p)
  <2>1. HostOK'
    BY <1>2 DEF UndoUnits, HostOK, CommandsOK, PlanKept, PlanInMemory, Plan, Pids
  <2>2. FlagsOK' BY <1>2, Zenon DEF UndoUnits, FlagsOK
  <2>3. CommandsOK'
    BY <1>2 DEF UndoUnits, CommandsOK, Goto, PCs, Building, Undoing, Leaving, Alarm,
       PlanKept, PlanInMemory
  <2> QED BY <2>1, <2>2, <2>3
<1>3. CASE UndoRuntime(p)
  <2>1. HostOK' BY <1>3 DEF UndoRuntime, HostOK, Plan, Pids
  <2>2. FlagsOK' BY <1>3, Zenon DEF UndoRuntime, FlagsOK
  <2>3. CommandsOK'
    BY <1>3, SMTT(30) DEF UndoRuntime, CommandsOK, Goto, PCs, Building, Undoing, Leaving, Alarm,
       PlanKept, PlanInMemory
  <2> QED BY <2>1, <2>2, <2>3
<1>4. CASE UndoNoexec(p)
  <2>1. HostOK'
    BY <1>4 DEF UndoNoexec, HostOK, CommandsOK, PlanKept, PlanInMemory, Plan, Pids
  <2>2. FlagsOK' BY <1>4, Zenon DEF UndoNoexec, FlagsOK
  <2>3. CommandsOK'
    BY <1>4, Zenon DEF UndoNoexec, CommandsOK, PCs, Building, Undoing, Leaving, Alarm,
       PlanKept, PlanInMemory
  <2> QED BY <2>1, <2>2, <2>3
<1>5. CASE UndoReload(p)
  <2>1. HostOK' BY <1>5 DEF UndoReload, HostOK, Plan, Pids
  <2>2. FlagsOK' BY <1>5, Zenon DEF UndoReload, FlagsOK
  <2>3. CommandsOK'
    BY <1>5, Zenon DEF UndoReload, CommandsOK, PCs, Building, Undoing, Leaving, Alarm,
       PlanKept, PlanInMemory
  <2> QED BY <2>1, <2>2, <2>3
<1>6. CASE UndoExit(p)
  <2>1. HostOK' BY <1>6 DEF UndoExit, HostOK, Plan, Pids
  <2>2. FlagsOK' BY <1>6, Zenon DEF UndoExit, FlagsOK
  <2>3. CommandsOK' BY <1>6, TypeGone, Zenon DEF UndoExit, Exit
  <2> QED BY <2>1, <2>2, <2>3
<1> QED BY <1>1, <1>2, <1>3, <1>4, <1>5, <1>6, Zenon DEF Undo

(* Every step of `deactivate`, `emergency` and `recover` keeps the types. *)
LEMMA TypeWayOut ==
  ASSUME TypeInv, NEW p \in Proc, WayOut(p)
  PROVE  TypeInv'
<1> USE DEF TypeInv, stage, runtime, units, host, volume, local
<1>1. CASE DeactivateBegin(p)
  <2>1. HostOK' BY <1>1 DEF DeactivateBegin, HostOK, Plan, Pids
  <2>2. FlagsOK' BY <1>1, Zenon DEF DeactivateBegin, FlagsOK
  <2>3. CommandsOK'
    BY <1>1 DEF DeactivateBegin, CommandsOK, View, ArmedFor, Options, Starts, Goto,
       PCs, Building, Undoing, Leaving, Alarm, PlanKept, PlanInMemory, Plan, HostOK
  <2> QED BY <2>1, <2>2, <2>3
<1>2. CASE RecordInactive(p)
  <2>1. HostOK' BY <1>2 DEF RecordInactive, HostOK, Plan, Pids
  <2>2. FlagsOK' BY <1>2, Zenon DEF RecordInactive, FlagsOK
  <2>3. CommandsOK'
    <3>1. CASE Exit(p) BY <3>1, TypeGone DEF Exit
    <3>2. CASE ~Exit(p)
      BY <1>2, <3>2, SMTT(30) DEF RecordInactive, CommandsOK, Goto, PCs, Building, Undoing,
         Leaving, Alarm, PlanKept, PlanInMemory
    <3> QED BY <3>1, <3>2
  <2> QED BY <2>1, <2>2, <2>3
<1>3. CASE EnqueueLeave(p)
  <2>1. HostOK' BY <1>3 DEF EnqueueLeave, HostOK, Plan, Pids, StartTarget
  <2>2. FlagsOK' BY <1>3, Zenon DEF EnqueueLeave, FlagsOK
  <2>3. CommandsOK'
    <3>1. CASE Exit(p) BY <3>1, TypeGone DEF Exit
    <3>2. CASE Goto(p, "unarm") /\ UNCHANGED <<lock, local>>
      BY <1>3, <3>2 DEF EnqueueLeave, CommandsOK, Goto, PCs, Leaving, PlanKept,
         PlanInMemory
    <3> QED BY <1>3, <3>1, <3>2, Zenon DEF EnqueueLeave
  <2> QED BY <2>1, <2>2, <2>3
<1>4. CASE Unarm(p)
  <2>1. HostOK'
    BY <1>4 DEF Unarm, HostOK, CommandsOK, PlanKept, PlanInMemory, Plan, Pids
  <2>2. FlagsOK' BY <1>4, Zenon DEF Unarm, FlagsOK
  <2>3. CommandsOK' BY <1>4, TypeGone, Zenon DEF Unarm, Exit
  <2> QED BY <2>1, <2>2, <2>3
<1>5. CASE EmergencyBegin(p)
  <2>1. HostOK' BY <1>5 DEF EmergencyBegin, HostOK, Plan, Pids
  <2>2. FlagsOK' BY <1>5, Zenon DEF EmergencyBegin, FlagsOK
  <2>3. CommandsOK'
    BY <1>5, SMTT(30) DEF EmergencyBegin, CommandsOK, Options, Starts, Goto, PCs, Building,
       Undoing, Leaving, Alarm, PlanKept, PlanInMemory, Plan, HostOK
  <2> QED BY <2>1, <2>2, <2>3
<1>6. CASE SignalOwner(p)
  <2>1. HostOK' BY <1>6 DEF SignalOwner, HostOK, Plan, Pids
  <2>2. FlagsOK' BY <1>6, Zenon DEF SignalOwner, FlagsOK
  <2>3. CommandsOK'
    BY <1>6, SMTT(30) DEF SignalOwner, CommandsOK, RollBack, Goto, PCs, Building, Undoing,
       Leaving, Alarm, PlanKept, PlanInMemory
  <2> QED BY <2>1, <2>2, <2>3
<1>7. CASE EnqueueEmergency(p)
  <2>1. HostOK' BY <1>7 DEF EnqueueEmergency, HostOK, Plan, Pids, StartTarget
  <2>2. FlagsOK' BY <1>7, Zenon DEF EnqueueEmergency, FlagsOK
  <2>3. CommandsOK'
    BY <1>7 DEF EnqueueEmergency, CommandsOK, Goto, PCs, Building, Undoing, Leaving,
       Alarm, PlanKept, PlanInMemory
  <2> QED BY <2>1, <2>2, <2>3
<1>8. CASE KernelPowerOff(p)
  <2>1. HostOK' BY <1>8, Zenon DEF KernelPowerOff, HostOK, Plan, Pids, PowerCycle
  <2>2. FlagsOK' BY <1>8, Zenon DEF KernelPowerOff, FlagsOK, PowerCycle
  <2>3. CommandsOK' BY <1>8, TypeGone, Zenon DEF KernelPowerOff, PowerCycle
  <2> QED BY <2>1, <2>2, <2>3
<1>9. CASE KillUserspace(p)
  <2>1. HostOK' BY <1>9 DEF KillUserspace, HostOK, Plan, Pids
  <2>2. FlagsOK' BY <1>9, Zenon DEF KillUserspace, FlagsOK
  <2>3. CommandsOK'
    BY <1>9, ZenonT(60) DEF KillUserspace, CommandsOK, PCs, Building, Undoing, Leaving, Alarm,
       PlanKept, PlanInMemory
  <2> QED BY <2>1, <2>2, <2>3
<1>10. CASE RecoverBegin(p)
  <2>1. HostOK' BY <1>10 DEF RecoverBegin, HostOK, Plan, Pids
  <2>2. FlagsOK' BY <1>10, Zenon DEF RecoverBegin, FlagsOK
  <2>3. CommandsOK'
    BY <1>10, SMTT(30) DEF RecoverBegin, CommandsOK, Starts, Goto, PCs, Building, Undoing,
       Leaving, Alarm, PlanKept, PlanInMemory
  <2> QED BY <2>1, <2>2, <2>3
<1>11. CASE RecoverLook(p)
  <2>1. HostOK' BY <1>11 DEF RecoverLook, HostOK, Plan, Pids
  <2>2. FlagsOK' BY <1>11, Zenon DEF RecoverLook, FlagsOK
  <2>3. CommandsOK'
    <3>1. CASE Exit(p) BY <3>1, TypeGone DEF Exit
    <3>2. CASE ~Exit(p)
      BY <1>11, <3>2, SMTT(30) DEF RecoverLook, CommandsOK, View, ArmedFor, RollBack, Goto, PCs,
         Building, Undoing, Leaving, Alarm, PlanKept, PlanInMemory
    <3> QED BY <3>1, <3>2
  <2> QED BY <2>1, <2>2, <2>3
<1>12. CASE MountDecoyRoot(p)
  <2>1. HostOK' BY <1>12 DEF MountDecoyRoot, HostOK, Plan, Pids
  <2>2. FlagsOK' BY <1>12, Zenon DEF MountDecoyRoot, FlagsOK
  <2>3. CommandsOK'
    <3>1. CASE Exit(p) BY <3>1, TypeGone DEF Exit
    <3>2. CASE ~Exit(p)
      <4>1. pc[p] = "prep" /\ mem[p] \in Plan
        BY <1>12, Zenon DEF MountDecoyRoot, CommandsOK, PlanKept, PlanInMemory
      <4>2. /\ lock' = lock /\ cmd' = cmd /\ mem' = mem /\ cancel' = cancel /\ todo' = todo
            /\ \E l \in {"armleave", "enqueue"} : Goto(p, l)
        BY <1>12, <3>2, Zenon DEF MountDecoyRoot
      <4>3. opt' \in [Proc -> BOOLEAN]
        BY <1>12, <3>2, Zenon DEF MountDecoyRoot, CommandsOK
      <4>4. PICK l \in {"armleave", "enqueue"} : Goto(p, l) BY <4>2, Zenon
      <4>5. pc' \in [Proc -> PCs] BY <4>4, Zenon DEF CommandsOK, Goto, PCs, Leaving, Alarm
      <4>6. \A q \in Proc : PlanKept(q)' => mem'[q] \in Plan
        <5>1. \A q \in Proc \ {p} : pc'[q] = pc[q] BY <4>4, SMTT(30) DEF CommandsOK, Goto
        <5> QED BY <4>1, <4>2, <5>1, Zenon DEF CommandsOK, PlanKept
      <4> QED BY <4>2, <4>3, <4>5, <4>6, Zenon DEF CommandsOK
    <3> QED BY <3>1, <3>2
  <2> QED BY <2>1, <2>2, <2>3
<1>13. CASE ArmLeave(p)
  <2>1. HostOK'
    BY <1>13 DEF ArmLeave, HostOK, CommandsOK, PlanKept, PlanInMemory, Plan, Pids
  <2>2. FlagsOK' BY <1>13, Zenon DEF ArmLeave, FlagsOK
  <2>3. CommandsOK'
    <3> DEFINE new == [mem[p] EXCEPT !.armed = "leave"]
    <3>1. new \in Plan BY <1>13 DEF ArmLeave, CommandsOK, PlanKept, PlanInMemory, Plan
    <3>2. mem' = [mem EXCEPT ![p] = new] BY <1>13, Zenon DEF ArmLeave
    <3>3. \E l \in {"enqueue", "unarm"} : Goto(p, l) BY <1>13, Zenon DEF ArmLeave
    <3>4. opt' \in {opt, [opt EXCEPT ![p] = TRUE]} BY <1>13, Zenon DEF ArmLeave
    <3> HIDE DEF new
    <3>5. opt' \in [Proc -> BOOLEAN] BY <3>4, Zenon DEF CommandsOK
    <3>6. pc' \in [Proc -> PCs] BY <3>3, Zenon DEF CommandsOK, Goto, PCs, Leaving
    <3>7. mem' \in [Proc -> Plan \cup {NoPlan}] /\ \A q \in Proc : PlanKept(q)' => mem'[q] \in Plan
      BY <1>13, <3>1, <3>2, <3>3 DEF ArmLeave, CommandsOK, Goto, PlanKept,
         PlanInMemory
    <3> QED BY <1>13, <3>5, <3>6, <3>7, Zenon DEF ArmLeave, CommandsOK
  <2> QED BY <2>1, <2>2, <2>3
<1> QED
  BY <1>1, <1>2, <1>3, <1>4, <1>5, <1>6, <1>7, <1>8, <1>9, <1>10, <1>11, <1>12, <1>13, Zenon
     DEF WayOut, Deactivate, Emergency, Recover

(* What the transition gives back is what the plan recorded, of the right
   type. *)
LEMMA TypeGiveBack ==
  ASSUME HostOK, FlagsOK, plan # NoPlan, GiveBack
  PROVE  /\ kernel' \in {"decoy", "hidden"} /\ plan' = NoPlan
         /\ rtdir' \in BOOLEAN /\ dropin' \in BOOLEAN /\ loaded' \in BOOLEAN
         /\ masks' \in BOOLEAN
BY Zenon DEF GiveBack, HostOK, FlagsOK, Plan

(* A refused switch keeps the types, cleaning up or not (transition::disarm).
   *)
LEMMA TypeDisarm ==
  ASSUME HostOK, FlagsOK, plan # NoPlan, Disarm, pid1' \in Pids, UNCHANGED <<root,
         record>>
  PROVE  HostOK' /\ FlagsOK'
<1> USE DEF runtime, units
<1>1. refusal' \in BOOLEAN BY Zenon DEF Disarm, FlagsOK
<1>2. CASE plan.entered
  <2>1. HostOK' BY <1>2, Zenon DEF Disarm, HostOK
  <2>2. FlagsOK' BY <1>1, <1>2, Zenon DEF Disarm, FlagsOK
  <2> QED BY <2>1, <2>2, Zenon
<1>3. CASE ~plan.entered
  <2>1. noexec' \in BOOLEAN BY <1>3, Zenon DEF Disarm, FlagsOK
  <2>2. HostOK' BY <1>3, TypeGiveBack, Zenon DEF Disarm, HostOK
  <2>3. FlagsOK' BY <1>1, <1>3, <2>1, TypeGiveBack, Zenon DEF Disarm, FlagsOK
  <2> QED BY <2>2, <2>3
<1> QED BY <1>2, <1>3, Zenon

(* The entry transition keeps the types, also when it refuses
   (transition::enter). *)
LEMMA TypeEnter ==
  ASSUME HostOK, FlagsOK, plan # NoPlan, EnterSession, pid1' \in Pids,
         UNCHANGED <<root, record>>
  PROVE  HostOK' /\ FlagsOK'
<1>1. CASE Disarm BY <1>1, TypeDisarm, Zenon
<1>2. CASE ~Disarm
  <2>1. [plan EXCEPT !.armed = "none", !.entered = TRUE] \in Plan BY Zenon DEF HostOK, Plan
  <2>2. plan' \in Plan BY <1>2, <2>1, Zenon DEF EnterSession, HostOK
  <2>3. HostOK' BY <1>2, <2>2, Zenon DEF EnterSession, HostOK, host
  <2>4. FlagsOK' BY <1>2, Zenon DEF EnterSession, FlagsOK, host
  <2> QED BY <2>3, <2>4
<1> QED BY <1>1, <1>2, Zenon

(* The return transition keeps the types, also when it refuses
   (transition::leave). *)
LEMMA TypeLeave ==
  ASSUME HostOK, FlagsOK, plan # NoPlan, LeaveSession, pid1' \in Pids,
         UNCHANGED <<root, record>>
  PROVE  HostOK' /\ FlagsOK'
<1>1. CASE Disarm BY <1>1, TypeDisarm
<1>2. CASE ~Disarm
  <2>1. GiveBack /\ UNCHANGED <<nextroot, refusal>> BY <1>2, Zenon DEF LeaveSession
  <2>2. fixup' \in {"none", "plain", "noexec"} BY <1>2, Zenon DEF LeaveSession, HostOK
  <2>3. noexec' \in BOOLEAN BY <1>2, Zenon DEF LeaveSession, FlagsOK
  <2>4. HostOK' BY <2>1, <2>2, TypeGiveBack, Zenon DEF HostOK
  <2>5. FlagsOK' BY <2>1, <2>3, TypeGiveBack, Zenon DEF FlagsOK
  <2> QED BY <2>4, <2>5
<1> QED BY <1>1, <1>2

(* The transition step keeps the types, whichever way it goes. *)
LEMMA TypeTransition ==
  ASSUME TypeInv, TransitionStep
  PROVE  TypeInv'
<1> USE DEF TypeInv
<1>1. CommandsOK'
  BY Zenon DEF TransitionStep, local, CommandsOK, PlanKept
<1>2. pid1' \in Pids /\ UNCHANGED <<root, record>> BY Zenon DEF TransitionStep, Pids
<1>3. CASE plan # NoPlan /\ (EnterSession \/ LeaveSession \/ Disarm)
  BY <1>1, <1>2, <1>3, TypeEnter, TypeLeave, TypeDisarm, Zenon
<1>4. CASE UNCHANGED <<nextroot, runtime, units, host, refusal>>
  <2>1. HostOK' BY <1>2, <1>4, Zenon DEF HostOK, runtime, host
  <2>2. FlagsOK' BY <1>4, Zenon DEF FlagsOK, runtime, units, host
  <2> QED BY <1>1, <2>1, <2>2, Zenon
<1> QED BY <1>3, <1>4, Zenon DEF TransitionStep

(* So do signals, PID 1, the power and the clock. *)
LEMMA TypeSurroundings ==
  ASSUME TypeInv, \/ \E p \in Proc : Cancel(p) \/ Stopped(p)
                  \/ AllStopped \/ Switch \/ Reconcile
                  \/ PowerOff \/ PlainSoftReboot \/ ArmLapses
  PROVE  TypeInv'
<1> USE DEF TypeInv, stage, runtime, units, host, volume, local
<1>1. ASSUME NEW p \in Proc, Cancel(p) PROVE TypeInv'
  BY <1>1 DEF Cancel, HostOK, FlagsOK, CommandsOK, PlanKept
<1>2. ASSUME NEW p \in Proc, Stopped(p) PROVE TypeInv'
  BY <1>2, TypeGone, SMTT(30) DEF Stopped, Exit, HostOK, FlagsOK
<1>3. CASE AllStopped
  BY <1>3 DEF AllStopped, HostOK, FlagsOK, CommandsOK, PlanKept, Pids
<1>4. CASE Switch
  <2>1. HostOK' BY <1>4, Zenon DEF Switch, HostOK, Pids
  <2>2. FlagsOK' /\ CommandsOK' BY <1>4, Zenon DEF Switch, FlagsOK, CommandsOK, PlanKept
  <2> QED BY <2>1, <2>2, Zenon
<1>5. CASE Reconcile
  <2>1. HostOK' /\ CommandsOK' BY <1>5, Zenon DEF Reconcile, HostOK, CommandsOK, PlanKept
  <2>2. FlagsOK' BY <1>5, Zenon DEF Reconcile, FlagsOK
  <2> QED BY <2>1, <2>2, Zenon
<1>6. CASE PowerCycle
  <2>1. HostOK' BY <1>6, Zenon DEF PowerCycle, HostOK, Pids
  <2>2. FlagsOK' BY <1>6, Zenon DEF PowerCycle, FlagsOK
  <2>3. CommandsOK' BY <1>6, TypeGone, Zenon DEF PowerCycle
  <2> QED BY <2>1, <2>2, <2>3, Zenon
<1>7. CASE PlainSoftReboot
  BY <1>7 DEF PlainSoftReboot, HostOK, FlagsOK, CommandsOK, PlanKept, Pids
<1>8. CASE ArmLapses
  <2>1. plan' \in Plan BY <1>8, Zenon DEF ArmLapses, HostOK, Plan
  <2> QED BY <1>8, <2>1 DEF ArmLapses, HostOK, FlagsOK, CommandsOK, PlanKept
<1> QED BY <1>1, <1>2, <1>3, <1>4, <1>5, <1>6, <1>7, <1>8, Zenon DEF PowerOff

(* TypeInv is inductive. *)
LEMMA TypeStep == TypeInv /\ [Next]_vars => TypeInv'
<1> SUFFICES ASSUME TypeInv, [Next]_vars PROVE TypeInv'
  BY Zenon
<1>1. CASE UNCHANGED vars
  BY <1>1 DEF vars, stage, runtime, units, host, volume, local, TypeInv, HostOK,
     FlagsOK, CommandsOK, PlanKept
<1>2. ASSUME NEW p \in Proc, Command(p) PROVE TypeInv'
  BY <1>2, TypeActivate, TypeUndo, TypeWayOut, Zenon DEF Command
<1>3. CASE Next
  BY <1>2, <1>3, TypeTransition, TypeSurroundings, Zenon DEF Next, Pid1
<1> QED BY <1>1, <1>3, Zenon

(* Every value stays in its type, for any number of commands and any faults:
   in particular the state file only ever holds a state the code records
   (SystemState), and no step reads a plan it does not have in memory. *)
THEOREM TypeCorrect == Spec => []TypeOK
<1>1. TypeInv => TypeOK BY Zenon DEF TypeInv, HostOK, FlagsOK, CommandsOK, TypeOK
<1> QED BY <1>1, TypeInit, TypeStep, PTL DEF Spec

------------------------------------------------------------------------------
(* What is staged is guarded. *)

(* One command at a time, and no emergency, which takes no lock. *)
Orderly == "overlap" \notin Faults /\ "emergency" \notin Cmds

(* What a running command can rely on where it is. *)
Station(p) ==
    /\ lock = p /\ fixup = "none" /\ pid1 \in {"up", "soft", "off"}
    /\ cmd[p] # "emergency" /\ pc[p] \notin Alarm
    /\ pc[p] \in Building \cup Undoing => root = "decoy"
    /\ pc[p] \in Leaving => root = "hidden" /\ cmd[p] = "deactivate" /\ plan # NoPlan
    /\ pc[p] \in {"noexec", "dropin", "mount", "units", "rtdir", "finish"}
          => nextroot = "none"
    /\ pc[p] \in {"noexec", "dropin", "mount"} => rtdir /\ plan # NoPlan
    /\ pc[p] = "noexec" => mem[p].noexec = noexec
    /\ pc[p] \in {"dropin", "mount"} => ~noexec
    /\ pc[p] = "mount" => dropin /\ loaded

(* What is staged is guarded, on either side, until the step has decided. *)
Guarded == nextroot # "none" /\ pid1 # "switch" => Equipped
(* The other root is staged, never the one that runs; a one-shot left for the
   decoy's first start means nothing is staged there. *)
Sides == /\ nextroot # root
         /\ fixup # "none" /\ root = "decoy" => nextroot = "none"
(* On the decoy, and on the way to it, the plan is never armed for leaving. *)
ArmedSide == plan # NoPlan /\ (root = "decoy" \/ Returning) => plan.armed # "leave"
(* The switch into the hidden root finds masks and gear; a hidden root that has
   its plan keeps its gear. *)
Entering == pid1 = "switch" /\ nextroot = "hidden" => Equipped /\ masks
HiddenKept == root = "hidden" /\ plan # NoPlan => Equipped

SafeInv == /\ \A p \in Proc : Running(p) => Station(p)
           /\ Guarded /\ Sides /\ ArmedSide /\ Entering /\ HiddenKept

(* The booted decoy satisfies the invariant. *)
LEMMA SafeInit == MachineInit => SafeInv
BY DEF MachineInit, SafeInv, Running, Guarded, Sides, ArmedSide, Entering, HiddenKept,
   Returning

(* The lock admits one command: two that run are the same. *)
LEMMA Solo ==
  ASSUME SafeInv, NEW p \in Proc, Running(p), NEW q \in Proc, Running(q)
  PROVE  q = p
BY Zenon DEF SafeInv, Station

(* While one command works, none of the others comes to life. *)
LEMMA SoloStays ==
  ASSUME SafeInv, NEW p \in Proc, Running(p), CommandsOK,
         (\E l : Goto(p, l)) \/ Exit(p) \/ UNCHANGED pc
  PROVE  \A q \in Proc \ {p} : ~Running(q)'
<1> SUFFICES ASSUME NEW q \in Proc \ {p} PROVE ~Running(q)'
  BY Zenon
<1>1. ~Running(q) BY Solo, Zenon
<1>2. pc'[q] \in {pc[q], "done"}
  <2>1. CASE \E l : Goto(p, l) BY <2>1, Zenon DEF Goto, CommandsOK
  <2>2. CASE Exit(p) BY <2>2, Zenon DEF Exit, Gone
  <2> QED BY <2>1, <2>2, Zenon
<1> QED BY <1>1, <1>2, Zenon DEF Running

(* A command that exits no longer runs. *)
LEMMA ExitEnds ==
  ASSUME NEW p \in Proc, Exit(p)
  PROVE  ~Running(p)'
BY Zenon DEF Exit, Gone, Running

(* Every step of entry::build, the record and the commit preserve the
   invariant: the plan, the executable /run and the drop-in are there before
   the mount. *)
LEMMA SafeActivate ==
  ASSUME TypeInv, TypeInv', SafeInv, NEW p \in Proc
  PROVE  Preflight(p) \/ WriteRuntime(p) \/ ClearNoexec(p)
           \/ InstallDropin(p) \/ MountNextroot(p) \/ BuildSystem(p)
           \/ ActivateSystem(p) \/ WayBack(p) \/ ArmEnter(p)
           \/ RecordEntry(p) \/ Commit(p)
           => SafeInv'
<1>0. CommandsOK BY Zenon DEF TypeInv
<1>1. ASSUME Preflight(p) PROVE SafeInv'
  <2>1. Running(p) BY <1>1, Zenon DEF Preflight, Running
  <2>2. Station(p) BY <2>1, Zenon DEF SafeInv
  <2>3. \A q \in Proc \ {p} : ~Running(q)'
    <3>1. (\E l : Goto(p, l)) \/ Exit(p) \/ UNCHANGED pc
      BY <1>1, Zenon DEF Preflight, local
    <3> QED BY <1>0, <2>1, <3>1, SoloStays, Zenon
  <2> USE DEF TypeInv, stage, runtime, units, host, volume, local
  <2>4. Running(p)' => Station(p)'
    <3>1. CASE Exit(p) BY <3>1, ExitEnds, Zenon
    <3>2. CASE ~Exit(p)
      BY <1>1, <2>2, <3>2 DEF Preflight, Station, Running, Building, Undoing, Leaving,
         Alarm, CommandsOK, FlagsOK, View, ArmedFor, Goto
    <3> QED BY <3>1, <3>2, Zenon
  <2>5. (Guarded /\ Sides /\ ArmedSide /\ Entering /\ HiddenKept)'
    BY <1>1, <2>2, Zenon DEF Preflight, Station, Building, Undoing, Leaving, SafeInv,
       Guarded, Sides, ArmedSide, Entering, HiddenKept, Returning, Equipped, StepRuns,
       HostOK, FlagsOK, CommandsOK, PlanKept, PlanInMemory, View, ArmedFor, Goto
  <2> QED BY <2>3, <2>4, <2>5, Zenon DEF SafeInv
<1>2. ASSUME WriteRuntime(p) PROVE SafeInv'
  <2>1. Running(p) BY <1>2, Zenon DEF WriteRuntime, Running
  <2>2. Station(p) BY <2>1 DEF SafeInv
  <2>3. \A q \in Proc \ {p} : ~Running(q)'
    <3>1. (\E l : Goto(p, l)) \/ Exit(p) \/ UNCHANGED pc
      BY <1>2, Zenon DEF WriteRuntime, StepOk, RollBack, local
    <3> QED BY <1>0, <2>1, <3>1, SoloStays
  <2> USE DEF TypeInv, stage, runtime, units, host, volume, local
  <2> DEFINE new == [owner |-> p, armed |-> "none", entered |-> FALSE,
                     noexec |-> noexec, kernel |-> kernel]
  <2>a. new \in Plan /\ new.armed = "none" /\ new.noexec = noexec
    BY Zenon DEF HostOK, FlagsOK, Plan
  <2>b. \/ plan' = new /\ mem' = [mem EXCEPT ![p] = new] /\ StepOk(p, "noexec")
        \/ plan' = plan /\ RollBack(p, Undone)
    BY <1>2, Zenon DEF WriteRuntime
  <2> HIDE DEF new
  <2>4a. \/ plan' # NoPlan /\ plan'.armed = "none" /\ plan'.noexec = noexec /\ mem'[p] = plan'
         \/ plan' = plan /\ Goto(p, "undo")
    BY <2>a, <2>b DEF RollBack, CommandsOK
  <2>4. Running(p)' => Station(p)'
    <3>1. CASE RollBack(p, Undone)
      BY <1>2, <2>2, <3>1, Zenon DEF WriteRuntime, Station, RollBack, Goto, CommandsOK,
         Building, Undoing, Leaving, Alarm
    <3>2. CASE StepOk(p, "noexec")
      <4>1. pc'[p] = "noexec" BY <3>2, Zenon DEF StepOk, Goto, CommandsOK
      <4>2. ~RollBack(p, Undone) BY <4>1 DEF RollBack, Goto, CommandsOK
      <4> QED
        BY <1>2, <2>2, <2>4a, <4>1, <4>2, Zenon DEF WriteRuntime, Station, Goto, CommandsOK,
           Building, Undoing, Leaving, Alarm
    <3> QED BY <1>2, <3>1, <3>2, Zenon DEF WriteRuntime
  <2>5. (Guarded /\ Sides /\ ArmedSide /\ Entering /\ HiddenKept)'
    <3>1. CASE nextroot = "none"
      BY <1>2, <2>2, <2>4a, <3>1, Zenon DEF WriteRuntime, Station, Building, Undoing,
         Leaving, SafeInv, Guarded, Sides, ArmedSide, Entering, HiddenKept, Returning,
         Equipped, StepRuns, HostOK, FlagsOK
    <3>2. CASE nextroot # "none"
      <4>1. plan' = plan /\ (rtdir' = rtdir \/ rtdir') BY <1>2, <3>2, Zenon DEF WriteRuntime
      <4> QED
        BY <1>2, <2>2, <3>2, <4>1, Zenon DEF WriteRuntime, Station, Building, Undoing,
           Leaving, SafeInv, Guarded, Sides, ArmedSide, Entering, HiddenKept,
           Returning, Equipped, StepRuns, HostOK, FlagsOK
    <3> QED BY <3>1, <3>2, Zenon
  <2> QED BY <2>3, <2>4, <2>5 DEF SafeInv
<1>3. ASSUME ClearNoexec(p) PROVE SafeInv'
  <2>1. Running(p) BY <1>3, Zenon DEF ClearNoexec, Running
  <2>2. Station(p) BY <2>1 DEF SafeInv
  <2>3. \A q \in Proc \ {p} : ~Running(q)'
    <3>1. (\E l : Goto(p, l)) \/ Exit(p) \/ UNCHANGED pc
      BY <1>3, ZenonT(60) DEF ClearNoexec, StepOk, RollBack, local
    <3> QED BY <1>0, <2>1, <3>1, SoloStays
  <2> USE DEF TypeInv, stage, runtime, units, host, volume, local
  <2>4. Running(p)' => Station(p)'
    BY <1>3, <2>2 DEF ClearNoexec, Station, Running, Building, Undoing, Leaving,
       Alarm, Exit, Gone, CommandsOK, HostOK, FlagsOK, Guarded, SafeInv, StepOk, Goto,
       RollBack
  <2>5. (Guarded /\ Sides /\ ArmedSide /\ Entering /\ HiddenKept)'
    BY <1>3, <2>2, Zenon DEF ClearNoexec, Station, Building, Undoing, Leaving, SafeInv,
       Guarded, Sides, ArmedSide, Entering, HiddenKept, Returning, Equipped, StepRuns,
       HostOK, FlagsOK, CommandsOK, PlanKept, PlanInMemory, StepOk, Goto, RollBack
  <2> QED BY <2>3, <2>4, <2>5 DEF SafeInv
<1>4. ASSUME InstallDropin(p) PROVE SafeInv'
  <2>1. Running(p) BY <1>4, Zenon DEF InstallDropin, Running
  <2>2. Station(p) BY <2>1 DEF SafeInv
  <2>3. \A q \in Proc \ {p} : ~Running(q)'
    <3>1. (\E l : Goto(p, l)) \/ Exit(p) \/ UNCHANGED pc
      BY <1>4, ZenonT(60) DEF InstallDropin, Checked, StepOk, RollBack, local
    <3> QED BY <1>0, <2>1, <3>1, SoloStays
  <2> USE DEF TypeInv, stage, runtime, units, host, volume, local
  <2>4. Running(p)' => Station(p)'
    <3>1. \/ StepOk(p, "mount") /\ dropin' = TRUE /\ loaded' = TRUE
          \/ RollBack(p, Reloaded)
          \/ RollBack(p, Undone)
      BY <1>4, Zenon DEF InstallDropin, Checked
    <3>2. UNCHANGED <<stage, runtime, host, lock, cmd, mem>> /\ pc[p] = "dropin"
      BY <1>4, Zenon DEF InstallDropin
    <3> QED BY <2>2, <3>1, <3>2 DEF Station, Running, Building, Undoing, Leaving,
       Alarm, CommandsOK, StepOk, Goto, RollBack
  <2>5. (Guarded /\ Sides /\ ArmedSide /\ Entering /\ HiddenKept)'
    BY <1>4, <2>2, Zenon DEF InstallDropin, Station, Building, Undoing, Leaving, SafeInv,
       Guarded, Sides, ArmedSide, Entering, HiddenKept, Returning, Equipped, StepRuns,
       HostOK, FlagsOK, CommandsOK, PlanKept, PlanInMemory, Checked, StepOk, Goto,
       RollBack
  <2> QED BY <2>3, <2>4, <2>5 DEF SafeInv
<1>5. ASSUME MountNextroot(p) PROVE SafeInv'
  <2>1. Running(p) BY <1>5, Zenon DEF MountNextroot, Running
  <2>2. Station(p) BY <2>1 DEF SafeInv
  <2>3. \A q \in Proc \ {p} : ~Running(q)'
    <3>1. (\E l : Goto(p, l)) \/ Exit(p) \/ UNCHANGED pc
      BY <1>5, Zenon DEF MountNextroot, Checked, StepOk, RollBack, local
    <3> QED BY <1>0, <2>1, <3>1, SoloStays
  <2> USE DEF TypeInv, stage, runtime, units, host, volume, local
  <2>4. Running(p)' => Station(p)'
    <3>1. \E l \in {"build", "wayback", "undo"} : Goto(p, l)
      BY <1>5, Zenon DEF MountNextroot, Checked, StepOk, RollBack
    <3> QED
      BY <1>5, <2>2, <3>1, ZenonT(60) DEF MountNextroot, Station, Goto, CommandsOK, Building,
         Undoing, Leaving, Alarm
  <2>5. (Guarded /\ Sides /\ ArmedSide /\ Entering /\ HiddenKept)'
    BY <1>5, <2>2, Zenon DEF MountNextroot, Station, Building, Undoing, Leaving, SafeInv,
       Guarded, Sides, ArmedSide, Entering, HiddenKept, Returning, Equipped, StepRuns,
       HostOK, FlagsOK, CommandsOK, PlanKept, PlanInMemory, Checked, StepOk, Goto,
       RollBack
  <2> QED BY <2>3, <2>4, <2>5 DEF SafeInv
<1>6. ASSUME BuildSystem(p) PROVE SafeInv'
  <2>1. Running(p) BY <1>6, Zenon DEF BuildSystem, Running
  <2>2. Station(p) BY <2>1 DEF SafeInv
  <2>3. \A q \in Proc \ {p} : ~Running(q)'
    <3>1. (\E l : Goto(p, l)) \/ Exit(p) \/ UNCHANGED pc
      BY <1>6, ZenonT(60) DEF BuildSystem, Checked, StepOk, RollBack, local
    <3> QED BY <1>0, <2>1, <3>1, SoloStays
  <2> USE DEF TypeInv, stage, runtime, units, host, volume, local
  <2>4. Running(p)' => Station(p)'
    BY <1>6, <2>2 DEF BuildSystem, Station, Running, Building, Undoing, Leaving,
       Alarm, Exit, Gone, CommandsOK, HostOK, FlagsOK, Guarded, SafeInv, Checked,
       StepOk, Goto, RollBack
  <2>5. (Guarded /\ Sides /\ ArmedSide /\ Entering /\ HiddenKept)'
    BY <1>6, <2>2, Zenon DEF BuildSystem, Station, Building, Undoing, Leaving, SafeInv,
       Guarded, Sides, ArmedSide, Entering, HiddenKept, Returning, Equipped, StepRuns,
       HostOK, FlagsOK, CommandsOK, PlanKept, PlanInMemory, Checked, StepOk, Goto,
       RollBack
  <2> QED BY <2>3, <2>4, <2>5 DEF SafeInv
<1>7. ASSUME ActivateSystem(p) PROVE SafeInv'
  <2>1. Running(p) BY <1>7, Zenon DEF ActivateSystem, Running
  <2>2. Station(p) BY <2>1 DEF SafeInv
  <2>3. \A q \in Proc \ {p} : ~Running(q)'
    <3>1. (\E l : Goto(p, l)) \/ Exit(p) \/ UNCHANGED pc
      BY <1>7, ZenonT(60) DEF ActivateSystem, Checked, StepOk, RollBack, local
    <3> QED BY <1>0, <2>1, <3>1, SoloStays
  <2> USE DEF TypeInv, stage, runtime, units, host, volume, local
  <2>4. Running(p)' => Station(p)'
    BY <1>7, <2>2 DEF ActivateSystem, Station, Running, Building, Undoing, Leaving,
       Alarm, Exit, Gone, CommandsOK, HostOK, FlagsOK, Guarded, SafeInv, Checked,
       StepOk, Goto, RollBack
  <2>5. (Guarded /\ Sides /\ ArmedSide /\ Entering /\ HiddenKept)'
    BY <1>7, <2>2, Zenon DEF ActivateSystem, Station, Building, Undoing, Leaving, SafeInv,
       Guarded, Sides, ArmedSide, Entering, HiddenKept, Returning, Equipped, StepRuns,
       HostOK, FlagsOK, CommandsOK, PlanKept, PlanInMemory, Checked, StepOk, Goto,
       RollBack
  <2> QED BY <2>3, <2>4, <2>5 DEF SafeInv
<1>8. ASSUME WayBack(p) PROVE SafeInv'
  <2>1. Running(p) BY <1>8, Zenon DEF WayBack, Running
  <2>2. Station(p) BY <2>1 DEF SafeInv
  <2>3. \A q \in Proc \ {p} : ~Running(q)'
    <3>1. (\E l : Goto(p, l)) \/ Exit(p) \/ UNCHANGED pc
      BY <1>8, ZenonT(60) DEF WayBack, Checked, StepOk, RollBack, local
    <3> QED BY <1>0, <2>1, <3>1, SoloStays
  <2> USE DEF TypeInv, stage, runtime, units, host, volume, local
  <2>4. Running(p)' => Station(p)'
    BY <1>8, <2>2 DEF WayBack, Station, Running, Building, Undoing, Leaving, Alarm,
       Exit, Gone, CommandsOK, HostOK, FlagsOK, Guarded, SafeInv, Checked, StepOk,
       Goto, RollBack
  <2>5. (Guarded /\ Sides /\ ArmedSide /\ Entering /\ HiddenKept)'
    BY <1>8, <2>2, Zenon DEF WayBack, Station, Building, Undoing, Leaving, SafeInv, Guarded,
       Sides, ArmedSide, Entering, HiddenKept, Returning, Equipped, StepRuns, HostOK,
       FlagsOK, CommandsOK, PlanKept, PlanInMemory, Checked, StepOk, Goto, RollBack
  <2> QED BY <2>3, <2>4, <2>5 DEF SafeInv
<1>9. ASSUME ArmEnter(p) PROVE SafeInv'
  <2>1. Running(p) BY <1>9, Zenon DEF ArmEnter, Running
  <2>2. Station(p) BY <2>1 DEF SafeInv
  <2>3. \A q \in Proc \ {p} : ~Running(q)'
    <3>1. (\E l : Goto(p, l)) \/ Exit(p) \/ UNCHANGED pc
      BY <1>9, Zenon DEF ArmEnter, StepOk, RollBack, local
    <3> QED BY <1>0, <2>1, <3>1, SoloStays
  <2> USE DEF TypeInv, stage, runtime, units, host, volume, local
  <2>4. Running(p)' => Station(p)'
    BY <1>9, <2>2 DEF ArmEnter, Station, Running, Building, Undoing, Leaving, Alarm,
       Exit, Gone, CommandsOK, HostOK, FlagsOK, Guarded, SafeInv, StepOk, Goto,
       RollBack
  <2>5. (Guarded /\ Sides /\ ArmedSide /\ Entering /\ HiddenKept)'
    <3> DEFINE new == [mem[p] EXCEPT !.armed = "enter"]
    <3>a. new \in Plan /\ new.armed = "enter"
      BY <1>9 DEF ArmEnter, CommandsOK, PlanKept, PlanInMemory, Plan
    <3>b. plan' \in {plan, new} BY <1>9 DEF ArmEnter, CommandsOK
    <3> HIDE DEF new
    <3>1. plan' = plan \/ (plan' # NoPlan /\ plan'.armed = "enter") BY <3>a, <3>b, Zenon
    <3> QED
      BY <1>9, <2>2, <3>1, Zenon DEF ArmEnter, Station, Building, Undoing, Leaving, SafeInv,
         Guarded, Sides, ArmedSide, Entering, HiddenKept, Returning, Equipped,
         StepRuns, HostOK, FlagsOK
  <2> QED BY <2>3, <2>4, <2>5 DEF SafeInv
<1>10. ASSUME RecordEntry(p) PROVE SafeInv'
  <2>1. Running(p) BY <1>10, Zenon DEF RecordEntry, Running
  <2>2. Station(p) BY <2>1 DEF SafeInv
  <2>3. \A q \in Proc \ {p} : ~Running(q)'
    <3>1. (\E l : Goto(p, l)) \/ Exit(p) \/ UNCHANGED pc
      BY <1>10, ZenonT(60) DEF RecordEntry, StepOk, RollBack, local
    <3> QED BY <1>0, <2>1, <3>1, SoloStays
  <2> USE DEF TypeInv, stage, runtime, units, host, volume, local
  <2>4. Running(p)' => Station(p)'
    BY <1>10, <2>2 DEF RecordEntry, Station, Running, Building, Undoing, Leaving,
       Alarm, Exit, Gone, CommandsOK, HostOK, FlagsOK, Guarded, SafeInv, StepOk, Goto,
       RollBack
  <2>5. (Guarded /\ Sides /\ ArmedSide /\ Entering /\ HiddenKept)'
    BY <1>10, <2>2, Zenon DEF RecordEntry, Station, Building, Undoing, Leaving, SafeInv,
       Guarded, Sides, ArmedSide, Entering, HiddenKept, Returning, Equipped, StepRuns,
       HostOK, FlagsOK, CommandsOK, PlanKept, PlanInMemory, StepOk, Goto, RollBack
  <2> QED BY <2>3, <2>4, <2>5 DEF SafeInv
<1>11. ASSUME Commit(p) PROVE SafeInv'
  <2>1. Running(p) BY <1>11, Zenon DEF Commit, Running
  <2>2. Station(p) BY <2>1 DEF SafeInv
  <2>3. \A q \in Proc \ {p} : ~Running(q)'
    <3>1. (\E l : Goto(p, l)) \/ Exit(p) \/ UNCHANGED pc
      BY <1>11, Zenon DEF Commit, RollBack, local
    <3> QED BY <1>0, <2>1, <3>1, SoloStays
  <2> USE DEF TypeInv, stage, runtime, units, host, volume, local
  <2>4. Running(p)' => Station(p)'
    <3>1. CASE Exit(p) BY <3>1, ExitEnds, SMTT(30)
    <3>2. CASE ~Exit(p)
      BY <1>11, <2>2, <3>2 DEF Commit, Station, Running, Building, Undoing, Leaving,
         Alarm, CommandsOK, FlagsOK, StartTarget, RollBack, Goto
    <3> QED BY <3>1, <3>2
  <2>5. (Guarded /\ Sides /\ ArmedSide /\ Entering /\ HiddenKept)'
    BY <1>11, <2>2, Zenon DEF Commit, Station, Building, Undoing, Leaving, SafeInv, Guarded,
       Sides, ArmedSide, Entering, HiddenKept, Returning, Equipped, StepRuns, HostOK,
       FlagsOK, CommandsOK, PlanKept, PlanInMemory, StartTarget, RollBack, Goto
  <2> QED BY <2>3, <2>4, <2>5 DEF SafeInv
<1> QED BY <1>1, <1>2, <1>3, <1>4, <1>5, <1>6, <1>7, <1>8, <1>9, <1>10, <1>11, Zenon

(* Every step of entry::rollback preserves the invariant: the detach comes
   before what guarded the mount goes. *)
LEMMA SafeUndo ==
  ASSUME TypeInv, TypeInv', SafeInv, NEW p \in Proc
  PROVE  UndoDetach(p) \/ UndoUnits(p) \/ UndoRuntime(p)
           \/ UndoNoexec(p) \/ UndoReload(p) \/ UndoExit(p)
           => SafeInv'
<1>0. CommandsOK BY DEF TypeInv
<1>1. ASSUME UndoDetach(p) PROVE SafeInv'
  <2>1. Running(p) BY <1>1, Zenon DEF UndoDetach, Running
  <2>2. Station(p) BY <2>1 DEF SafeInv
  <2>3. \A q \in Proc \ {p} : ~Running(q)'
    <3>1. (\E l : Goto(p, l)) \/ Exit(p) \/ UNCHANGED pc
      BY <1>1, Zenon DEF UndoDetach, local
    <3> QED BY <1>0, <2>1, <3>1, SoloStays
  <2> USE DEF TypeInv, stage, runtime, units, host, volume, local
  <2>4. Running(p)' => Station(p)'
    BY <1>1, <2>2, ZenonT(60)
        DEF UndoDetach, Station, Running, Building, Undoing, Leaving, Alarm,
       Exit, Gone, CommandsOK, HostOK, FlagsOK, Guarded, SafeInv, Goto
  <2>5. (Guarded /\ Sides /\ ArmedSide /\ Entering /\ HiddenKept)'
    BY <1>1, <2>2, Zenon DEF UndoDetach, Station, Building, Undoing, Leaving, SafeInv,
       Guarded, Sides, ArmedSide, Entering, HiddenKept, Returning, Equipped, StepRuns,
       HostOK, FlagsOK, CommandsOK, PlanKept, PlanInMemory, Goto
  <2> QED BY <2>3, <2>4, <2>5 DEF SafeInv
<1>2. ASSUME UndoUnits(p) PROVE SafeInv'
  <2>1. Running(p) BY <1>2, Zenon DEF UndoUnits, Running
  <2>2. Station(p) BY <2>1 DEF SafeInv
  <2>3. \A q \in Proc \ {p} : ~Running(q)'
    <3>1. (\E l : Goto(p, l)) \/ Exit(p) \/ UNCHANGED pc
      BY <1>2, Zenon DEF UndoUnits, local
    <3> QED BY <1>0, <2>1, <3>1, SoloStays
  <2> USE DEF TypeInv, stage, runtime, units, host, volume, local
  <2>4. Running(p)' => Station(p)'
    BY <1>2, <2>2, ZenonT(60) DEF UndoUnits, Station, Running, Building, Undoing, Leaving, Alarm,
       Exit, Gone, CommandsOK, HostOK, FlagsOK, Guarded, SafeInv, Goto
  <2>5. (Guarded /\ Sides /\ ArmedSide /\ Entering /\ HiddenKept)'
    BY <1>2, <2>2, Zenon DEF UndoUnits, Station, Building, Undoing, Leaving, SafeInv,
       Guarded, Sides, ArmedSide, Entering, HiddenKept, Returning, Equipped, StepRuns,
       HostOK, FlagsOK, CommandsOK, PlanKept, PlanInMemory, Goto
  <2> QED BY <2>3, <2>4, <2>5 DEF SafeInv
<1>3. ASSUME UndoRuntime(p) PROVE SafeInv'
  <2>1. Running(p) BY <1>3, Zenon DEF UndoRuntime, Running
  <2>2. Station(p) BY <2>1 DEF SafeInv
  <2>3. \A q \in Proc \ {p} : ~Running(q)'
    <3>1. (\E l : Goto(p, l)) \/ Exit(p) \/ UNCHANGED pc
      BY <1>3, Zenon DEF UndoRuntime, local
    <3> QED BY <1>0, <2>1, <3>1, SoloStays
  <2> USE DEF TypeInv, stage, runtime, units, host, volume, local
  <2>4. Running(p)' => Station(p)'
    BY <1>3, <2>2, ZenonT(60) DEF UndoRuntime, Station, Running, Building, Undoing, Leaving,
       Alarm, Exit, Gone, CommandsOK, HostOK, FlagsOK, Guarded, SafeInv, Goto
  <2>5. (Guarded /\ Sides /\ ArmedSide /\ Entering /\ HiddenKept)'
    BY <1>3, <2>2, Zenon DEF UndoRuntime, Station, Building, Undoing, Leaving, SafeInv,
       Guarded, Sides, ArmedSide, Entering, HiddenKept, Returning, Equipped, StepRuns,
       HostOK, FlagsOK, CommandsOK, PlanKept, PlanInMemory, Goto
  <2> QED BY <2>3, <2>4, <2>5 DEF SafeInv
<1>4. ASSUME UndoNoexec(p) PROVE SafeInv'
  <2>1. Running(p) BY <1>4, Zenon DEF UndoNoexec, Running
  <2>2. Station(p) BY <2>1 DEF SafeInv
  <2>3. \A q \in Proc \ {p} : ~Running(q)'
    <3>1. (\E l : Goto(p, l)) \/ Exit(p) \/ UNCHANGED pc
      BY <1>4, Zenon DEF UndoNoexec, local
    <3> QED BY <1>0, <2>1, <3>1, SoloStays
  <2> USE DEF TypeInv, stage, runtime, units, host, volume, local
  <2>4. Running(p)' => Station(p)'
    BY <1>4, <2>2, Zenon
        DEF UndoNoexec, Station, Running, Building, Undoing, Leaving, Alarm,
       Exit, Gone, CommandsOK, HostOK, FlagsOK, Guarded, SafeInv
  <2>5. (Guarded /\ Sides /\ ArmedSide /\ Entering /\ HiddenKept)'
    BY <1>4, <2>2, Zenon DEF UndoNoexec, Station, Building, Undoing, Leaving, SafeInv,
       Guarded, Sides, ArmedSide, Entering, HiddenKept, Returning, Equipped, StepRuns,
       HostOK, FlagsOK, CommandsOK, PlanKept, PlanInMemory
  <2> QED BY <2>3, <2>4, <2>5 DEF SafeInv
<1>5. ASSUME UndoReload(p) PROVE SafeInv'
  <2>1. Running(p) BY <1>5, Zenon DEF UndoReload, Running
  <2>2. Station(p) BY <2>1 DEF SafeInv
  <2>3. \A q \in Proc \ {p} : ~Running(q)'
    <3>1. (\E l : Goto(p, l)) \/ Exit(p) \/ UNCHANGED pc
      BY <1>5, Zenon DEF UndoReload, local
    <3> QED BY <1>0, <2>1, <3>1, SoloStays
  <2> USE DEF TypeInv, stage, runtime, units, host, volume, local
  <2>4. Running(p)' => Station(p)'
    BY <1>5, <2>2, Zenon DEF UndoReload, Station, Running, Building, Undoing, Leaving, Alarm,
       Exit, Gone, CommandsOK, HostOK, FlagsOK, Guarded, SafeInv
  <2>5. (Guarded /\ Sides /\ ArmedSide /\ Entering /\ HiddenKept)'
    BY <1>5, <2>2, Zenon DEF UndoReload, Station, Building, Undoing, Leaving, SafeInv,
       Guarded, Sides, ArmedSide, Entering, HiddenKept, Returning, Equipped, StepRuns,
       HostOK, FlagsOK, CommandsOK, PlanKept, PlanInMemory
  <2> QED BY <2>3, <2>4, <2>5 DEF SafeInv
<1>6. ASSUME UndoExit(p) PROVE SafeInv'
  <2>1. Running(p) BY <1>6, Zenon DEF UndoExit, Running
  <2>2. Station(p) BY <2>1 DEF SafeInv
  <2>3. \A q \in Proc \ {p} : ~Running(q)'
    <3>1. (\E l : Goto(p, l)) \/ Exit(p) \/ UNCHANGED pc
      BY <1>6, Zenon DEF UndoExit, local
    <3> QED BY <1>0, <2>1, <3>1, SoloStays
  <2> USE DEF TypeInv, stage, runtime, units, host, volume, local
  <2>4. Running(p)' => Station(p)'
    <3>1. CASE Exit(p) BY <3>1, ExitEnds
    <3>2. CASE ~Exit(p)
      BY <1>6, <2>2, <3>2, Zenon DEF UndoExit, Station, Running, Building, Undoing, Leaving,
         Alarm, CommandsOK, FlagsOK
    <3> QED BY <3>1, <3>2
  <2>5. (Guarded /\ Sides /\ ArmedSide /\ Entering /\ HiddenKept)'
    BY <1>6, <2>2, Zenon DEF UndoExit, Station, Building, Undoing, Leaving, SafeInv, Guarded,
       Sides, ArmedSide, Entering, HiddenKept, Returning, Equipped, StepRuns, HostOK,
       FlagsOK, CommandsOK, PlanKept, PlanInMemory
  <2> QED BY <2>3, <2>4, <2>5 DEF SafeInv
<1> QED BY <1>1, <1>2, <1>3, <1>4, <1>5, <1>6, Zenon

(* The steps of `deactivate` and of `recover` preserve the invariant. *)
LEMMA SafeWayOut ==
  ASSUME TypeInv, TypeInv', SafeInv, NEW p \in Proc
  PROVE  RecordInactive(p) \/ EnqueueLeave(p) \/ Unarm(p)
           \/ RecoverLook(p) \/ MountDecoyRoot(p) \/ ArmLeave(p)
           => SafeInv'
<1>0. CommandsOK BY DEF TypeInv
<1>1. ASSUME RecordInactive(p) PROVE SafeInv'
  <2>1. Running(p) BY <1>1, Zenon DEF RecordInactive, Running
  <2>2. Station(p) BY <2>1 DEF SafeInv
  <2>3. \A q \in Proc \ {p} : ~Running(q)'
    <3>1. (\E l : Goto(p, l)) \/ Exit(p) \/ UNCHANGED pc
      BY <1>1, ZenonT(60) DEF RecordInactive, local
    <3> QED BY <1>0, <2>1, <3>1, SoloStays
  <2> USE DEF TypeInv, stage, runtime, units, host, volume, local
  <2>4. Running(p)' => Station(p)'
    <3>1. CASE Exit(p) BY <3>1, ExitEnds
    <3>2. CASE ~Exit(p)
      BY <1>1, <2>2, <3>2 DEF RecordInactive, Station, Running, Building, Undoing,
         Leaving, Alarm, CommandsOK, FlagsOK, Goto
    <3> QED BY <3>1, <3>2
  <2>5. (Guarded /\ Sides /\ ArmedSide /\ Entering /\ HiddenKept)'
    BY <1>1, <2>2, Zenon DEF RecordInactive, Station, Building, Undoing, Leaving, SafeInv,
       Guarded, Sides, ArmedSide, Entering, HiddenKept, Returning, Equipped, StepRuns,
       HostOK, FlagsOK, CommandsOK, PlanKept, PlanInMemory, Goto
  <2> QED BY <2>3, <2>4, <2>5 DEF SafeInv
<1>2. ASSUME EnqueueLeave(p) PROVE SafeInv'
  <2>1. Running(p) BY <1>2, Zenon DEF EnqueueLeave, Running
  <2>2. Station(p) BY <2>1 DEF SafeInv
  <2>3. \A q \in Proc \ {p} : ~Running(q)'
    <3>1. (\E l : Goto(p, l)) \/ Exit(p) \/ UNCHANGED pc
      BY <1>2, ZenonT(60) DEF EnqueueLeave, local
    <3> QED BY <1>0, <2>1, <3>1, SoloStays
  <2> USE DEF TypeInv, stage, runtime, units, host, volume, local
  <2>4. Running(p)' => Station(p)'
    <3>1. CASE Exit(p) BY <3>1, ExitEnds
    <3>2. CASE ~Exit(p)
      BY <1>2, <2>2, <3>2, SMTT(30) DEF EnqueueLeave, Station, Running, Building, Undoing,
         Leaving, Alarm, CommandsOK, FlagsOK, StartTarget, Goto
    <3> QED BY <3>1, <3>2
  <2>5. (Guarded /\ Sides /\ ArmedSide /\ Entering /\ HiddenKept)'
    BY <1>2, <2>2 DEF EnqueueLeave, Station, Building, Undoing, Leaving, SafeInv,
       Guarded, Sides, ArmedSide, Entering, HiddenKept, Returning, Equipped, StepRuns,
       HostOK, FlagsOK, CommandsOK, PlanKept, PlanInMemory, StartTarget, Goto
  <2> QED BY <2>3, <2>4, <2>5 DEF SafeInv
<1>3. ASSUME Unarm(p) PROVE SafeInv'
  <2>1. Running(p) BY <1>3, Zenon DEF Unarm, Running
  <2>2. Station(p) BY <2>1 DEF SafeInv
  <2>3. \A q \in Proc \ {p} : ~Running(q)'
    <3>1. (\E l : Goto(p, l)) \/ Exit(p) \/ UNCHANGED pc
      BY <1>3, Zenon DEF Unarm, local
    <3> QED BY <1>0, <2>1, <3>1, SoloStays
  <2> USE DEF TypeInv, stage, runtime, units, host, volume, local
  <2>4. Running(p)' => Station(p)'
    <3>1. CASE Exit(p) BY <3>1, ExitEnds
    <3>2. CASE ~Exit(p)
      BY <1>3, <2>2, <3>2, Zenon DEF Unarm, Station, Running, Building, Undoing, Leaving,
         Alarm, CommandsOK, FlagsOK
    <3> QED BY <3>1, <3>2
  <2>5. (Guarded /\ Sides /\ ArmedSide /\ Entering /\ HiddenKept)'
    <3> DEFINE new == [mem[p] EXCEPT !.armed = "none"]
    <3>a. new \in Plan /\ new.armed = "none"
      BY <1>3 DEF Unarm, CommandsOK, PlanKept, PlanInMemory, Plan
    <3>b. plan' \in {plan, new} BY <1>3, Zenon DEF Unarm
    <3> HIDE DEF new
    <3>1. plan' = plan \/ (plan' # NoPlan /\ plan'.armed = "none") BY <3>a, <3>b, Zenon
    <3> QED
      BY <1>3, <2>2, <3>1, Zenon DEF Unarm, Station, Building, Undoing, Leaving, SafeInv,
         Guarded, Sides, ArmedSide, Entering, HiddenKept, Returning, Equipped,
         StepRuns, HostOK, FlagsOK
  <2> QED BY <2>3, <2>4, <2>5 DEF SafeInv
<1>4. ASSUME RecoverLook(p) PROVE SafeInv'
  <2>1. Running(p) BY <1>4, Zenon DEF RecoverLook, Running
  <2>2. Station(p) BY <2>1 DEF SafeInv
  <2>3. \A q \in Proc \ {p} : ~Running(q)'
    <3>1. (\E l : Goto(p, l)) \/ Exit(p) \/ UNCHANGED pc
      BY <1>4, Zenon DEF RecoverLook, RollBack, local
    <3> QED BY <1>0, <2>1, <3>1, SoloStays
  <2> USE DEF TypeInv, stage, runtime, units, host, volume, local
  <2>4. Running(p)' => Station(p)'
    <3>1. CASE Exit(p) BY <3>1, ExitEnds
    <3>2. CASE ~Exit(p)
      BY <1>4, <2>2, <3>2 DEF RecoverLook, Station, Running, Building, Undoing,
         Leaving, Alarm, CommandsOK, FlagsOK, View, ArmedFor, RollBack, Goto
    <3> QED BY <3>1, <3>2
  <2>5. (Guarded /\ Sides /\ ArmedSide /\ Entering /\ HiddenKept)'
    BY <1>4, <2>2, Zenon DEF RecoverLook, Station, Building, Undoing, Leaving, SafeInv,
       Guarded, Sides, ArmedSide, Entering, HiddenKept, Returning, Equipped, StepRuns,
       HostOK, FlagsOK, CommandsOK, PlanKept, PlanInMemory, View, ArmedFor, RollBack,
       Goto
  <2> QED BY <2>3, <2>4, <2>5 DEF SafeInv
<1>5. ASSUME MountDecoyRoot(p) PROVE SafeInv'
  <2>1. Running(p) BY <1>5, Zenon DEF MountDecoyRoot, Running
  <2>2. Station(p) BY <2>1 DEF SafeInv
  <2>3. \A q \in Proc \ {p} : ~Running(q)'
    <3>1. (\E l : Goto(p, l)) \/ Exit(p) \/ UNCHANGED pc
      BY <1>5, ZenonT(60) DEF MountDecoyRoot, local
    <3> QED BY <1>0, <2>1, <3>1, SoloStays
  <2> USE DEF TypeInv, stage, runtime, units, host, volume, local
  <2>4. Running(p)' => Station(p)'
    <3>1. CASE Exit(p) BY <3>1, ExitEnds
    <3>2. CASE ~Exit(p)
      BY <1>5, <2>2, <3>2 DEF MountDecoyRoot, Station, Running, Building, Undoing,
         Leaving, Alarm, CommandsOK, FlagsOK, Goto
    <3> QED BY <3>1, <3>2
  <2>5. (Guarded /\ Sides /\ ArmedSide /\ Entering /\ HiddenKept)'
    BY <1>5, <2>2, Zenon DEF MountDecoyRoot, Station, Building, Undoing, Leaving, SafeInv,
       Guarded, Sides, ArmedSide, Entering, HiddenKept, Returning, Equipped, StepRuns,
       HostOK, FlagsOK, CommandsOK, PlanKept, PlanInMemory, Goto
  <2> QED BY <2>3, <2>4, <2>5 DEF SafeInv
<1>6. ASSUME ArmLeave(p) PROVE SafeInv'
  <2>1. Running(p) BY <1>6, Zenon DEF ArmLeave, Running
  <2>2. Station(p) BY <2>1 DEF SafeInv
  <2>3. \A q \in Proc \ {p} : ~Running(q)'
    <3>1. (\E l : Goto(p, l)) \/ Exit(p) \/ UNCHANGED pc
      BY <1>6, Zenon DEF ArmLeave, local
    <3> QED BY <1>0, <2>1, <3>1, SoloStays
  <2> USE DEF TypeInv, stage, runtime, units, host, volume, local
  <2>4. Running(p)' => Station(p)'
    <3>1. \E l \in {"enqueue", "unarm"} : Goto(p, l) BY <1>6, Zenon DEF ArmLeave
    <3>2. plan' # NoPlan
      BY <1>6, <2>2, SMTT(30) DEF ArmLeave, CommandsOK, PlanKept, PlanInMemory, Plan, Station,
         Leaving
    <3> QED
      BY <1>6, <2>2, <3>1, <3>2 DEF ArmLeave, Station, Goto, CommandsOK, Building,
         Undoing, Leaving, Alarm
  <2>5. (Guarded /\ Sides /\ ArmedSide /\ Entering /\ HiddenKept)'
    BY <1>6, <2>2 DEF ArmLeave, Station, Building, Undoing, Leaving, SafeInv, Guarded,
       Sides, ArmedSide, Entering, HiddenKept, Returning, Equipped, StepRuns, HostOK,
       FlagsOK, CommandsOK, PlanKept, PlanInMemory, Goto
  <2> QED BY <2>3, <2>4, <2>5 DEF SafeInv
<1> QED BY <1>1, <1>2, <1>3, <1>4, <1>5, <1>6, Zenon

(* A command that takes the lock starts from a machine nobody else works on.
   *)
LEMMA SafeStart ==
  ASSUME Orderly, TypeInv, SafeInv, NEW p \in Proc,
         ActivateBegin(p) \/ DeactivateBegin(p) \/ RecoverBegin(p)
  PROVE  SafeInv'
<1> USE DEF TypeInv, stage, runtime, units, host, volume
<1>1. lock = NoProc /\ Calm
  BY Zenon DEF ActivateBegin, DeactivateBegin, RecoverBegin, Orderly, May
<1>2. \A q \in Proc : ~Running(q) BY <1>1, Zenon DEF Calm
<1>3. /\ fixup = "none" /\ lock' = p /\ pid1 \in {"up", "soft", "off"}
      /\ UNCHANGED <<stage, runtime, units, host>>
  BY <1>1, Zenon DEF Calm, ActivateBegin, DeactivateBegin, RecoverBegin, Starts
<1>4. \A q \in Proc \ {p} : ~Running(q)'
  <2>1. \A q \in Proc \ {p} : pc'[q] = pc[q]
    BY Zenon DEF ActivateBegin, DeactivateBegin, RecoverBegin, Goto, CommandsOK
  <2> QED BY <1>2, <2>1, Zenon DEF Running
<1>5. Station(p)'
  <2>1. CASE ActivateBegin(p)
    BY <1>3, <2>1, Zenon DEF ActivateBegin, Starts, Goto, CommandsOK, Station, Building,
       Undoing, Leaving, Alarm
  <2>2. CASE DeactivateBegin(p)
    <3>1. root = "hidden" /\ plan # NoPlan
      BY <2>2, Zenon DEF DeactivateBegin, View, HostOK
    <3> QED
      BY <1>3, <2>2, <3>1, Zenon DEF DeactivateBegin, Starts, Goto, CommandsOK, Station,
         Building, Undoing, Leaving, Alarm
  <2>3. CASE RecoverBegin(p)
    BY <1>3, <2>3, Zenon DEF RecoverBegin, Starts, Goto, CommandsOK, Station, Building,
       Undoing, Leaving, Alarm
  <2> QED BY <2>1, <2>2, <2>3, Zenon
<1>6. (Guarded /\ Sides /\ ArmedSide /\ Entering /\ HiddenKept)'
  BY <1>3, Zenon DEF SafeInv, Guarded, Sides, ArmedSide, Entering, HiddenKept, Returning,
     Equipped, StepRuns
<1> QED BY <1>4, <1>5, <1>6, Zenon DEF SafeInv

(* Without emergencies nothing ever is where an emergency would be. *)
LEMMA NoEmergency ==
  ASSUME Orderly, SafeInv, NEW p \in Proc
  PROVE  ~Emergency(p)
<1>1. ASSUME pc[p] \in Alarm \/ cmd[p] = "emergency" PROVE ~Running(p)
  BY <1>1, Zenon DEF SafeInv, Station
<1>2. ~EmergencyBegin(p) BY Zenon DEF EmergencyBegin, Starts, Orderly
<1>3. ~SignalOwner(p) /\ ~KillUserspace(p)
  BY <1>1, Zenon DEF SignalOwner, KillUserspace, Alarm, Running
<1>4. ~EnqueueEmergency(p) /\ ~KernelPowerOff(p)
  BY <1>1, Zenon DEF EnqueueEmergency, KernelPowerOff, Running
<1> QED BY <1>2, <1>3, <1>4, Zenon DEF Emergency

(* Hence every step of a command preserves the invariant. *)
LEMMA SafeCommand ==
  ASSUME Orderly, TypeInv, TypeInv', SafeInv, NEW p \in Proc, Command(p)
  PROVE  SafeInv'
BY NoEmergency, SafeStart, SafeActivate, SafeUndo, SafeWayOut, Zenon DEF Command, Activate,
   Undo, WayOut, Deactivate, Recover

(* The transition step preserves the invariant: it enters masked and equipped,
   leaves, or detaches. *)
LEMMA SafeTransition ==
  ASSUME TypeInv, TypeInv', SafeInv, TransitionStep
  PROVE  SafeInv'
<1> USE DEF TypeInv, runtime, units, host, local
<1>1. \A q \in Proc : ~Running(q) BY Zenon DEF TransitionStep, SafeInv, Station
<1>2. \A q \in Proc : ~Running(q)' BY <1>1, Zenon DEF TransitionStep, Running
<1>3. pid1 = "transition" /\ pid1' = "switch" /\ root' = root BY Zenon DEF TransitionStep
<1>4. Guarded' BY <1>3, Zenon DEF Guarded
<1>5. (Sides /\ ArmedSide /\ Entering /\ HiddenKept)'
  <2> USE DEF Sides, ArmedSide, Entering, HiddenKept, Returning, Equipped, StepRuns
  <2>1. CASE nextroot = "none"
    BY <1>3, <2>1 DEF TransitionStep, SafeInv
  <2>2. CASE nextroot # "none" /\ Disarm
    <3>1. nextroot' = "none" /\ fixup' = fixup BY <2>2, Zenon DEF Disarm
    <3>2. CASE plan.entered BY <1>3, <2>2, <3>1, <3>2, Zenon DEF Disarm, SafeInv, HostOK
    <3>3. CASE ~plan.entered
      BY <1>3, <2>2, <3>1, <3>3, Zenon DEF Disarm, GiveBack, SafeInv, HostOK
    <3> QED BY <3>2, <3>3, Zenon
  <2>3. CASE nextroot # "none" /\ ~Disarm /\ EnterSession
    <3>1. Equipped BY <1>3, <2>3, Zenon DEF SafeInv, Guarded
    <3>2. plan' # NoPlan /\ plan'.armed # "leave"
      <4>1. plan \in Plan /\ plan.armed = "enter"
        BY <2>3, Zenon DEF EnterSession, ArmedFor, HostOK
      <4> DEFINE new == [plan EXCEPT !.armed = "none", !.entered = TRUE]
      <4>2. new \in Plan /\ new.armed = "none" BY <4>1, Zenon DEF Plan
      <4>3. plan' \in {plan, new} BY <2>3, Zenon DEF EnterSession
      <4> HIDE DEF new
      <4> QED BY <4>1, <4>2, <4>3, Zenon
    <3>3. masks' /\ UNCHANGED <<nextroot, rtdir, dropin, loaded, host>>
      BY <2>3, Zenon DEF EnterSession
    <3> QED BY <1>3, <2>3, <3>1, <3>2, <3>3, Zenon DEF SafeInv
  <2>4. CASE nextroot # "none" /\ ~Disarm /\ LeaveSession
    <3>1. root = "hidden" /\ nextroot = "decoy"
      BY <2>4, Zenon DEF LeaveSession, ArmedFor, SafeInv, HostOK
    <3> QED BY <1>3, <2>4, <3>1, Zenon DEF LeaveSession, GiveBack, SafeInv
  <2>5. nextroot # "none" => EnterSession \/ LeaveSession \/ Disarm
    BY <1>3, Zenon DEF TransitionStep, SafeInv, Guarded
  <2> QED BY <2>1, <2>2, <2>3, <2>4, <2>5, Zenon
<1> QED BY <1>2, <1>4, <1>5, Zenon DEF SafeInv

(* So do signals and kills at any point, PID 1, power cuts, plain soft-reboots
   and lapsing armings. *)
LEMMA SafeSurroundings ==
  ASSUME TypeInv, TypeInv', SafeInv,
         \/ \E p \in Proc : Cancel(p) \/ Stopped(p)
         \/ AllStopped \/ Switch \/ Reconcile
         \/ PowerOff \/ PlainSoftReboot \/ ArmLapses
  PROVE  SafeInv'
<1> USE DEF TypeInv, stage, runtime, units, host, volume, local
<1> DEFINE Rest == Guarded /\ Sides /\ ArmedSide /\ Entering /\ HiddenKept
<1>1. ASSUME NEW p \in Proc, Cancel(p) PROVE SafeInv'
  BY <1>1, ZenonT(60) DEF Cancel, SafeInv, Running, Station, Guarded, Sides, ArmedSide, Entering,
     HiddenKept, Returning, Equipped, StepRuns
<1>2. ASSUME NEW p \in Proc, Stopped(p) PROVE SafeInv'
  <2>1. \A q \in Proc : ~Running(q)'
    <3>1. \A q \in Proc \ {p} : ~Running(q)' BY <1>2, SoloStays, Zenon DEF Stopped
    <3> QED BY <1>2, <3>1, ExitEnds, Zenon DEF Stopped
  <2>2. Rest'
    BY <1>2, Zenon DEF Stopped, SafeInv, Guarded, Sides, ArmedSide, Entering, HiddenKept,
       Returning, Equipped, StepRuns
  <2> QED BY <2>1, <2>2, Zenon DEF SafeInv
<1>3. CASE AllStopped
  <2>1. \A q \in Proc : ~Running(q)' BY <1>3, Zenon DEF AllStopped, Running
  <2>2. Rest'
    BY <1>3, Zenon DEF AllStopped, SafeInv, Guarded, Sides, ArmedSide, Entering, HiddenKept,
       Returning, Equipped, StepRuns
  <2> QED BY <2>1, <2>2, Zenon DEF SafeInv
<1>4. CASE Switch
  <2>1. \A q \in Proc : ~Running(q) BY <1>4, Zenon DEF Switch, SafeInv, Station
  <2>2. \A q \in Proc : ~Running(q)' BY <1>4, <2>1, Zenon DEF Switch, Running
  <2>3. (Guarded /\ Sides)' BY <1>4, Zenon DEF Switch, Guarded, Sides, HostOK
  <2>4. (ArmedSide /\ Entering)'
    BY <1>4, Zenon DEF Switch, SafeInv, ArmedSide, Entering, Returning, HostOK
  <2>5. HiddenKept'
    BY <1>4, Zenon DEF Switch, SafeInv, Entering, HiddenKept, Equipped, StepRuns, HostOK
  <2> QED BY <2>2, <2>3, <2>4, <2>5, Zenon DEF SafeInv
<1>5. CASE Reconcile
  <2>1. \A q \in Proc : ~Running(q) BY <1>5, Zenon DEF Reconcile, SafeInv, Station
  <2>2. \A q \in Proc : ~Running(q)' BY <1>5, <2>1, Zenon DEF Reconcile, Running
  <2>3. Rest'
    BY <1>5, Zenon DEF Reconcile, SafeInv, Guarded, Sides, ArmedSide, Entering, HiddenKept,
       Returning, Equipped, StepRuns
  <2> QED BY <2>2, <2>3 DEF SafeInv
<1>6. CASE PowerCycle
  <2>1. \A q \in Proc : ~Running(q)' BY <1>6, Zenon DEF PowerCycle, Gone, Running
  <2>2. Rest' BY <1>6, Zenon DEF PowerCycle, Guarded, Sides, ArmedSide, Entering, HiddenKept
  <2> QED BY <2>1, <2>2 DEF SafeInv
<1>7. CASE PlainSoftReboot
  BY <1>7, ZenonT(60) DEF PlainSoftReboot, SafeInv, Running, Station, Guarded, Sides, ArmedSide,
     Entering, HiddenKept, Returning, Equipped, StepRuns
<1>8. CASE ArmLapses
  <2> DEFINE new == [plan EXCEPT !.armed = "lapsed"]
  <2>1. new \in Plan /\ new.armed = "lapsed" /\ plan' = new
    BY <1>8, Zenon DEF ArmLapses, HostOK, Plan
  <2> HIDE DEF new
  <2>2. plan' # NoPlan /\ plan'.armed # "leave" /\ plan # NoPlan
    BY <1>8, <2>1, Zenon DEF ArmLapses
  <2>3. \A q \in Proc : Running(q)' => Station(q)'
    BY <1>8, <2>2 DEF ArmLapses, SafeInv, Running, Station
  <2>4. Rest'
    BY <1>8, <2>2, Zenon DEF ArmLapses, SafeInv, Guarded, Sides, ArmedSide, Entering,
       HiddenKept, Returning, Equipped, StepRuns
  <2> QED BY <2>3, <2>4, Zenon DEF SafeInv
<1> QED BY <1>1, <1>2, <1>3, <1>4, <1>5, <1>6, <1>7, <1>8, Zenon DEF PowerOff

(* SafeInv is inductive relative to TypeInv. *)
LEMMA SafeStep ==
  ASSUME Orderly
  PROVE  TypeInv /\ TypeInv' /\ SafeInv /\ [Next]_vars => SafeInv'
<1> SUFFICES ASSUME TypeInv, TypeInv', SafeInv, [Next]_vars PROVE SafeInv'
  BY Zenon
<1>1. CASE UNCHANGED vars
  BY <1>1, ZenonT(60) DEF vars, stage, runtime, units, host, volume, local, SafeInv, Running,
     Station, Guarded, Sides, ArmedSide, Entering, HiddenKept, Returning, Equipped,
     StepRuns
<1>2. ASSUME NEW p \in Proc, Command(p) PROVE SafeInv'
  BY <1>2, SafeCommand, Zenon
<1>3. CASE Next
  BY <1>2, <1>3, SafeTransition, SafeSurroundings, Zenon DEF Next, Pid1
<1> QED BY <1>1, <1>3, Zenon

(* Commands that respect the lock keep the whole entry protocol intact:
   whatever fails, is killed or is powered off, at any step, the invariant
   holds (entry::build, entry::rollback and transition::run between them). *)
THEOREM Safe ==
  ASSUME Orderly
  PROVE  Spec => [](TypeInv /\ SafeInv)
BY TypeInit, SafeInit, TypeStep, SafeStep, PTL DEF Spec

(* Whatever fails or is killed while an entry is prepared or rolled back, a
   next root is staged on the decoy only while the transition step that judges
   it can run (entry::build, entry::rollback). *)
THEOREM EntryGuarded ==
  ASSUME Orderly
  PROVE  Spec => []StagedGuarded
<1>1. TypeInv /\ SafeInv => StagedGuarded BY Zenon DEF SafeInv, Guarded, StagedGuarded
<1> QED BY <1>1, Safe, PTL

(* PID 1 changes its root by the switch or through a power cycle only. *)
LEMMA RootChanges ==
  ASSUME Next, root' # root
  PROVE  Switch \/ PowerCycle
<1> USE DEF stage
<1> SUFFICES ASSUME ~PowerCycle PROVE Switch
  BY Zenon
<1>1. \A p \in Proc : ~Activate(p)
  BY Zenon DEF Activate, ActivateBegin, Preflight, WriteRuntime, ClearNoexec, InstallDropin,
     MountNextroot, BuildSystem, ActivateSystem, WayBack, ArmEnter, RecordEntry,
     Commit
<1>2. \A p \in Proc : ~WayOut(p)
  BY ZenonT(60) DEF WayOut, Deactivate, Emergency, Recover, DeactivateBegin, RecordInactive,
     EnqueueLeave, Unarm, EmergencyBegin, SignalOwner, EnqueueEmergency,
     KernelPowerOff, KillUserspace, RecoverBegin, RecoverLook, MountDecoyRoot,
     ArmLeave
<1>3. \A p \in Proc : ~Undo(p)
  BY DEF Undo, UndoDetach, UndoUnits, UndoRuntime, UndoNoexec, UndoReload, UndoExit
<1>4. \A p \in Proc : ~Cancel(p) /\ ~Stopped(p) BY Zenon DEF Cancel, Stopped
<1>5. ~AllStopped /\ ~TransitionStep /\ ~Reconcile /\ ~PlainSoftReboot /\ ~ArmLapses
  BY Zenon DEF AllStopped, TransitionStep, Reconcile, PlainSoftReboot, ArmLapses
<1> QED BY <1>1, <1>2, <1>3, <1>4, <1>5, Zenon DEF Next, Command, Pid1, PowerOff

(* The hidden root is never entered without the masks on the decoy's units,
   whatever fails or is killed on the way (transition::enter). *)
THEOREM EntryMasked ==
  ASSUME Orderly
  PROVE  Spec => NeverEnterWithoutMasks
<1>1. TypeInv /\ SafeInv /\ [Next]_vars => [root = "decoy" /\ root' = "hidden" => masks]_vars
  <2> SUFFICES ASSUME SafeInv, Next, root = "decoy", root' = "hidden" PROVE masks
    BY Zenon
  <2>1. Switch BY RootChanges, Zenon DEF PowerCycle
  <2> QED BY <2>1, Zenon DEF Switch, SafeInv, Entering
<1> QED BY <1>1, Safe, PTL DEF Spec, NeverEnterWithoutMasks

==============================================================================
