--------------------------- MODULE PromiseProofs ---------------------------
(***************************************************************************)
(* Nothing takes the way back away, however commands race one another and  *)
(* under every fault; and the session keeps its promise: entered guarded,  *)
(* left clean, and ready to be left all the time in between.               *)
(***************************************************************************)
EXTENDS SafetyProofs

(* The steps before the plan is armed. *)
Unarmed == {"noexec", "dropin", "mount", "build", "activate", "wayback", "arm"}
(* Where a command works on the decoy only. *)
OnDecoyOnly == Building \cup {"signal", "undo", "units", "rtdir"}

(* What holds of each command: none runs once PID 1 is past the stop, building
   and cleaning up happen on the decoy, a command in the hidden session owes at
   most the record, the plan in the memory of one that leaves says what the plan
   on disk says of the entry, and what is armed for entering was not entered. *)
Kept(p) ==
    /\ pid1 \in {"transition", "switch"} => ~Running(p)
    /\ pc[p] \in OnDecoyOnly => root = "decoy"
    /\ ~Running(p) \/ root = "hidden" => todo[p] \subseteq {"record"}
    /\ root = "hidden" /\ pc[p] \in Leaving /\ mem[p] # NoPlan
          => plan # NoPlan /\ plan.entered = mem[p].entered
    /\ mem[p] # NoPlan /\ mem[p].entered => mem[p].armed # "enter"
    /\ pc[p] \in Unarmed => ~mem[p].entered
(* What holds of the machine: the hidden root is not staged over itself, and a
   plan that was entered is not armed for entering again. *)
Staged == /\ root = "hidden" => nextroot # "hidden"
          /\ plan # NoPlan /\ plan.entered => plan.armed # "enter"
WayInv == Staged /\ \A p \in Proc : Kept(p)

USE MachineAssumption DEF FaultNames, CmdNames

(* The booted decoy satisfies the invariant. *)
LEMMA WayInit == MachineInit => WayInv
BY DEF MachineInit, WayInv, Kept, Staged, OnDecoyOnly, Building, Running, Leaving, Unarmed

(* A step of p leaves the others where they are and PID 1 before its stop. *)
Frame(p) ==
    /\ root' = root
    /\ pid1' \in {"transition", "switch"} => pid1 \in {"transition", "switch"}
    /\ \A q \in Proc \ {p} : pc'[q] = pc[q] /\ mem'[q] = mem[q] /\ todo'[q] = todo[q]

(* Such a step is good when it is good for p and for the machine, and a plan it
   writes in the hidden session says the same of the entry. *)
LEMMA OneStep ==
  ASSUME WayInv, NEW p \in Proc, Frame(p), Kept(p)', Staged',
         \/ root = "decoy"
         \/ plan' = plan
         \/ plan # NoPlan /\ plan' # NoPlan /\ plan'.entered = plan.entered
  PROVE  WayInv'
<1> SUFFICES ASSUME NEW q \in Proc \ {p} PROVE Kept(q)'
  BY Zenon DEF WayInv
<1>1. Kept(q) BY Zenon DEF WayInv
<1> QED BY <1>1 DEF Frame, Kept, Running, OnDecoyOnly, Building, Leaving, Unarmed

(* A command that exits leaves the others alone. *)
LEMMA Exits ==
  ASSUME CommandsOK, NEW p \in Proc, Exit(p)
  PROVE  /\ \A q \in Proc \ {p} : pc'[q] = pc[q] /\ mem'[q] = mem[q] /\ todo'[q] = todo[q]
         /\ pc'[p] = "done" /\ mem'[p] = NoPlan /\ todo'[p] = {}
BY Zenon DEF CommandsOK, Exit, Gone

(* A command that exits is good for the invariant. *)
LEMMA ExitStep ==
  ASSUME TypeInv, WayInv, NEW p \in Proc, Exit(p), root' = root, Staged',
         pid1' \in {"transition", "switch"} => pid1 \in {"transition", "switch"},
         \/ root = "decoy"
         \/ plan' = plan
         \/ plan # NoPlan /\ plan' # NoPlan /\ plan'.entered = plan.entered
  PROVE  WayInv'
<1>1. Frame(p) BY Exits, Zenon DEF Frame, TypeInv
<1>2. Kept(p)'
  BY Exits, Zenon DEF TypeInv, Kept, Running, OnDecoyOnly, Building, Leaving, Unarmed
<1> QED BY <1>1, <1>2, OneStep, Zenon

(* Every step of `activate` works on the decoy, and what it arms was not entered. *)
LEMMA WayActivate ==
  ASSUME TypeInv, WayInv, NEW p \in Proc
  PROVE  Preflight(p) \/ WriteRuntime(p) \/ ClearNoexec(p) \/ InstallDropin(p) \/
         MountNextroot(p) \/ BuildSystem(p) \/ ActivateSystem(p) \/ WayBack(p) \/
         ArmEnter(p) \/ RecordEntry(p) \/ Commit(p) => WayInv'
<1> USE DEF TypeInv, stage, runtime, units, host, volume, local
<1>k. Kept(p) BY Zenon DEF WayInv
<1>s. Staged BY Zenon DEF WayInv
<1>1. ASSUME Preflight(p) PROVE WayInv'
  <2>1. CASE Exit(p)
    BY <1>1, <2>1, ExitStep, <1>k, Zenon DEF Preflight, Staged, WayInv, Kept, Running
  <2>2. CASE ~Exit(p)
    <3>1. Frame(p)
      BY <1>1, <2>2, Zenon DEF Preflight, Goto, Frame, CommandsOK
    <3>2. Kept(p)'
      BY <1>1, <2>2, <1>k DEF Preflight, Goto, Kept, Running, OnDecoyOnly, Building,
         Leaving, Unarmed, CommandsOK
    <3>3. Staged'
      BY <1>1, <2>2, <1>s, Zenon DEF Preflight, Staged
    <3> QED
      BY <1>1, <2>2, <3>1, <3>2, <3>3, OneStep, Zenon DEF Preflight
  <2> QED BY <2>1, <2>2, Zenon
<1>2. ASSUME WriteRuntime(p) PROVE WayInv'
  <2> DEFINE new == [owner |-> p, armed |-> "none", entered |-> FALSE,
                     noexec |-> noexec, kernel |-> kernel]
  <2>a. new \in Plan /\ new.armed = "none" /\ ~new.entered
    BY Zenon DEF HostOK, FlagsOK, Plan
  <2>b. \/ plan' = new /\ mem' = [mem EXCEPT ![p] = new] /\ StepOk(p, "noexec")
        \/ plan' = plan /\ mem' = mem /\ RollBack(p, Undone)
    BY <1>2, Zenon DEF WriteRuntime
  <2> HIDE DEF new
  <2>1. Frame(p)
    BY <1>2, <2>b, SMTT(30) DEF WriteRuntime, StepOk, Goto, RollBack, Frame, CommandsOK
  <2>2. Kept(p)'
    BY <1>2, <1>k, <2>a, <2>b DEF WriteRuntime, StepOk, Goto, RollBack, Undone, CommandsOK,
       Kept, Running, OnDecoyOnly, Building, Leaving, Unarmed
  <2>3. Staged'
    BY <1>2, <1>k, <1>s, <2>a, <2>b, Zenon
        DEF WriteRuntime, Staged, Kept, OnDecoyOnly, Building
  <2> QED
    BY <1>2, <1>k, <2>1, <2>2, <2>3, OneStep, Zenon DEF WriteRuntime, Kept, OnDecoyOnly, Building
<1>3. ASSUME ClearNoexec(p) PROVE WayInv'
  <2>1. Frame(p)
    BY <1>3, SMTT(30) DEF ClearNoexec, StepOk, Goto, RollBack, Undone, Frame, CommandsOK
  <2>2. Kept(p)'
    BY <1>3, <1>k DEF ClearNoexec, StepOk, Goto, RollBack, Undone, Kept, Running,
       OnDecoyOnly, Building, Leaving, Unarmed, CommandsOK
  <2>3. Staged'
    BY <1>3, <1>s, Zenon DEF ClearNoexec, Staged
  <2> QED
    BY <1>3, <2>1, <2>2, <2>3, OneStep, Zenon DEF ClearNoexec
<1>4. ASSUME InstallDropin(p) PROVE WayInv'
  <2>1. Frame(p)
    BY <1>4, ZenonT(60) DEF InstallDropin, Checked, StepOk, Goto, RollBack, Reloaded, Frame, CommandsOK
  <2>2. Kept(p)'
    BY <1>4, <1>k, ZenonT(60) DEF InstallDropin, Checked, StepOk, Goto, RollBack, Reloaded, Kept,
       Running, OnDecoyOnly, Building, Leaving, Unarmed, CommandsOK
  <2>3. Staged'
    BY <1>4, <1>s, Zenon DEF InstallDropin, Staged
  <2> QED
    BY <1>4, <2>1, <2>2, <2>3, OneStep, Zenon DEF InstallDropin
<1>5. ASSUME MountNextroot(p) PROVE WayInv'
  <2>1. Frame(p)
    BY <1>5, Zenon DEF MountNextroot, Checked, StepOk, Goto, RollBack, Reloaded, Frame,
       CommandsOK
  <2>2. Kept(p)'
    BY <1>5, <1>k, ZenonT(60) DEF MountNextroot, Checked, StepOk, Goto, RollBack, Reloaded, Kept,
       Running, OnDecoyOnly, Building, Leaving, Unarmed, CommandsOK
  <2>3. Staged'
    BY <1>5, <1>k, <1>s, Zenon DEF MountNextroot, Staged, Kept, OnDecoyOnly, Building
  <2> QED
    BY <1>5, <2>1, <2>2, <2>3, OneStep, Zenon DEF MountNextroot
<1>6. ASSUME BuildSystem(p) PROVE WayInv'
  <2>1. Frame(p)
    BY <1>6, SMTT(30) DEF BuildSystem, Checked, StepOk, Goto, RollBack, Reloaded, Frame, CommandsOK
  <2>2. Kept(p)'
    BY <1>6, <1>k DEF BuildSystem, Checked, StepOk, Goto, RollBack, Reloaded, Kept, Running,
       OnDecoyOnly, Building, Leaving, Unarmed, CommandsOK
  <2>3. Staged'
    BY <1>6, <1>s, Zenon DEF BuildSystem, Staged
  <2> QED
    BY <1>6, <2>1, <2>2, <2>3, OneStep, Zenon DEF BuildSystem
<1>7. ASSUME ActivateSystem(p) PROVE WayInv'
  <2>1. Frame(p)
    BY <1>7, SMTT(30) DEF ActivateSystem, Checked, StepOk, Goto, RollBack, Reloaded, Frame, CommandsOK
  <2>2. Kept(p)'
    BY <1>7, <1>k DEF ActivateSystem, Checked, StepOk, Goto, RollBack, Reloaded, Kept,
       Running, OnDecoyOnly, Building, Leaving, Unarmed, CommandsOK
  <2>3. Staged'
    BY <1>7, <1>s, Zenon DEF ActivateSystem, Staged
  <2> QED
    BY <1>7, <2>1, <2>2, <2>3, OneStep, Zenon DEF ActivateSystem
<1>8. ASSUME WayBack(p) PROVE WayInv'
  <2>1. Frame(p)
    BY <1>8, Zenon DEF WayBack, Checked, StepOk, Goto, RollBack, Reloaded, Frame, CommandsOK
  <2>2. Kept(p)'
    BY <1>8, <1>k DEF WayBack, Checked, StepOk, Goto, RollBack, Reloaded, Kept, Running,
       OnDecoyOnly, Building, Leaving, Unarmed, CommandsOK
  <2>3. Staged'
    BY <1>8, <1>s, Zenon DEF WayBack, Staged
  <2> QED
    BY <1>8, <2>1, <2>2, <2>3, OneStep, Zenon DEF WayBack
<1>9. ASSUME ArmEnter(p) PROVE WayInv'
  <2> DEFINE new == [mem[p] EXCEPT !.armed = "enter"]
  <2>a. new # NoPlan /\ new.armed = "enter" /\ new.entered = mem[p].entered
    BY <1>9 DEF ArmEnter, CommandsOK, PlanKept, PlanInMemory, Plan
  <2>b. \/ plan' = new /\ mem' = [mem EXCEPT ![p] = new] /\ StepOk(p, "record")
        \/ plan' = plan /\ mem' = mem /\ RollBack(p, Reloaded)
    BY <1>9, Zenon DEF ArmEnter, CommandsOK
  <2> HIDE DEF new
  <2>1. Frame(p)
    BY <1>9, <2>b DEF ArmEnter, StepOk, Goto, RollBack, Frame, CommandsOK
  <2>2. Kept(p)'
    BY <1>9, <1>k, <2>a, <2>b DEF ArmEnter, StepOk, Goto, RollBack, Reloaded, CommandsOK,
       Kept, Running, OnDecoyOnly, Building, Leaving, Unarmed
  <2>3. Staged'
    BY <1>9, <1>k, <1>s, <2>a, <2>b, Zenon DEF ArmEnter, Staged, Kept, OnDecoyOnly, Building,
       Unarmed
  <2> QED
    BY <1>9, <1>k, <2>1, <2>2, <2>3, OneStep, Zenon DEF ArmEnter, Kept, OnDecoyOnly, Building
<1>10. ASSUME RecordEntry(p) PROVE WayInv'
  <2>1. Frame(p)
    BY <1>10, SMTT(30) DEF RecordEntry, StepOk, Goto, RollBack, Reloaded, Frame, CommandsOK
  <2>2. Kept(p)'
    BY <1>10, <1>k DEF RecordEntry, StepOk, Goto, RollBack, Reloaded, Kept, Running,
       OnDecoyOnly, Building, Leaving, Unarmed, CommandsOK
  <2>3. Staged'
    BY <1>10, <1>s, Zenon DEF RecordEntry, Staged
  <2> QED
    BY <1>10, <2>1, <2>2, <2>3, OneStep, Zenon DEF RecordEntry
<1>11. ASSUME Commit(p) PROVE WayInv'
  <2>1. CASE Exit(p)
    BY <1>11, <2>1, ExitStep, <1>k DEF Commit, StartTarget, Staged, WayInv, Kept, Running
  <2>2. CASE ~Exit(p)
    <3>1. Frame(p)
      BY <1>11, <2>2, <1>k, SMTT(30) DEF Commit, StartTarget, Goto, RollBack, Unrecorded, Frame,
         CommandsOK, Kept, Running
    <3>2. Kept(p)'
      BY <1>11, <2>2, <1>k DEF Commit, StartTarget, Goto, RollBack, Unrecorded, Kept,
         Running, OnDecoyOnly, Building, Leaving, Unarmed, CommandsOK
    <3>3. Staged'
      BY <1>11, <2>2, <1>s, Zenon DEF Commit, Staged
    <3> QED
      BY <1>11, <2>2, <3>1, <3>2, <3>3, OneStep, Zenon DEF Commit
  <2> QED BY <2>1, <2>2, SMTT(30)
<1> QED BY <1>1, <1>2, <1>3, <1>4, <1>5, <1>6, <1>7, <1>8, <1>9, <1>10, <1>11, Zenon

(* Every step of the cleanup that changes more than the record works on the decoy. *)
LEMMA WayUndo ==
  ASSUME TypeInv, WayInv, NEW p \in Proc
  PROVE  UndoDetach(p) \/ UndoUnits(p) \/ UndoRuntime(p) \/ UndoNoexec(p) \/
         UndoReload(p) \/ UndoExit(p) => WayInv'
<1> USE DEF TypeInv, stage, runtime, units, host, volume, local
<1>k. Kept(p) BY DEF WayInv
<1>s. Staged BY DEF WayInv
<1>1. ASSUME UndoDetach(p) PROVE WayInv'
  <2>1. Frame(p)
    BY <1>1 DEF UndoDetach, Goto, Frame, CommandsOK
  <2>2. Kept(p)'
    <3>1. mem'[p] \in {mem[p], plan} /\ pc'[p] = "units"
      BY <1>1, Zenon DEF UndoDetach, Goto, CommandsOK
    <3> QED
      BY <1>1, <1>k, <1>s, <3>1, Zenon DEF UndoDetach, Staged, Kept, Running, OnDecoyOnly,
         Building, Leaving, Unarmed
  <2>3. Staged' BY <1>1, <1>s, Zenon DEF UndoDetach, Staged
  <2> QED BY <1>1, <2>1, <2>2, <2>3, OneStep, Zenon DEF UndoDetach
<1>2. ASSUME UndoUnits(p) PROVE WayInv'
  <2>1. Frame(p)
    BY <1>2, Zenon DEF UndoUnits, Goto, Frame, CommandsOK
  <2>2. Kept(p)'
    BY <1>2, <1>k, Zenon DEF UndoUnits, Goto, Kept, Running, OnDecoyOnly, Building, Leaving,
       Unarmed, CommandsOK
  <2>3. Staged'
    BY <1>2, <1>s, Zenon DEF UndoUnits, Staged
  <2> QED
    BY <1>2, <2>1, <2>2, <2>3, OneStep, Zenon DEF UndoUnits
<1>3. ASSUME UndoRuntime(p) PROVE WayInv'
  <2>1. Frame(p)
    BY <1>3, Zenon DEF UndoRuntime, Goto, Frame, CommandsOK
  <2>2. Kept(p)'
    BY <1>3, <1>k DEF UndoRuntime, Goto, Kept, Running, OnDecoyOnly, Building, Leaving,
       Unarmed, CommandsOK
  <2>3. Staged'
    BY <1>3, <1>s, Zenon DEF UndoRuntime, Staged
  <2> QED
    BY <1>3, <1>k, <2>1, <2>2, <2>3, OneStep, Zenon DEF UndoRuntime, Kept, OnDecoyOnly, Building
<1>4. ASSUME UndoNoexec(p) PROVE WayInv'
  <2>1. Frame(p)
    BY <1>4, SMTT(30) DEF UndoNoexec, Frame, CommandsOK
  <2>2. Kept(p)'
    BY <1>4, <1>k DEF UndoNoexec, Kept, Running, OnDecoyOnly, Building, Leaving, Unarmed,
       CommandsOK
  <2>3. Staged'
    BY <1>4, <1>s, Zenon DEF UndoNoexec, Staged
  <2> QED
    BY <1>4, <2>1, <2>2, <2>3, OneStep, Zenon DEF UndoNoexec
<1>5. ASSUME UndoReload(p) PROVE WayInv'
  <2>1. Frame(p)
    BY <1>5, Zenon DEF UndoReload, Frame, CommandsOK
  <2>2. Kept(p)'
    BY <1>5, <1>k DEF UndoReload, Kept, Running, OnDecoyOnly, Building, Leaving, Unarmed,
       CommandsOK
  <2>3. Staged'
    BY <1>5, <1>s, Zenon DEF UndoReload, Staged
  <2> QED
    BY <1>5, <2>1, <2>2, <2>3, OneStep, Zenon DEF UndoReload
<1>6. ASSUME UndoExit(p) PROVE WayInv'
  <2>1. Exit(p)
    BY <1>6, Zenon DEF UndoExit
  <2> QED
    BY <1>6, <2>1, ExitStep, <1>k, <1>s, Zenon DEF UndoExit, Staged, Kept, Running, HostOK,
       CommandsOK, PlanKept, PlanInMemory
<1> QED BY <1>1, <1>2, <1>3, <1>4, <1>5, <1>6, Zenon

(* The ways out write back a plan that says the same of the entry. *)
LEMMA WayLeave ==
  ASSUME TypeInv, WayInv, NEW p \in Proc
  PROVE  RecordInactive(p) \/ SignalOwner(p) \/ MountDecoyRoot(p) \/ ArmLeave(p) \/
         EnqueueLeave(p) \/ Unarm(p) \/ EnqueueEmergency(p) \/ RecoverLook(p) => WayInv'
<1> USE DEF TypeInv, stage, runtime, units, host, volume, local
<1>k. Kept(p) BY DEF WayInv
<1>s. Staged BY DEF WayInv
<1>1. ASSUME RecordInactive(p) PROVE WayInv'
  <2>1. CASE Exit(p)
    BY <1>1, <2>1, ExitStep, <1>k, Zenon DEF RecordInactive, Staged, WayInv, Kept, Running
  <2>2. CASE ~Exit(p)
    <3>1. Frame(p)
      BY <1>1, <2>2, Zenon DEF RecordInactive, Goto, Frame, CommandsOK
    <3>2. Kept(p)'
      BY <1>1, <2>2, <1>k DEF RecordInactive, Goto, Kept, Running, OnDecoyOnly, Building,
         Leaving, Unarmed, CommandsOK
    <3>3. Staged'
      BY <1>1, <2>2, <1>s, Zenon DEF RecordInactive, Staged
    <3> QED
      BY <1>1, <2>2, <3>1, <3>2, <3>3, OneStep, Zenon DEF RecordInactive
  <2> QED BY <2>1, <2>2
<1>2. ASSUME SignalOwner(p) PROVE WayInv'
  <2>1. Frame(p)
    BY <1>2, Zenon DEF SignalOwner, RollBack, Goto, Frame, CommandsOK
  <2>2. Kept(p)'
    BY <1>2, <1>k DEF SignalOwner, RollBack, Goto, Kept, Running, OnDecoyOnly, Building,
       Leaving, Unarmed, CommandsOK
  <2>3. Staged'
    BY <1>2, <1>s, Zenon DEF SignalOwner, Staged
  <2> QED
    BY <1>2, <2>1, <2>2, <2>3, OneStep, Zenon DEF SignalOwner
<1>3. ASSUME MountDecoyRoot(p) PROVE WayInv'
  <2>1. CASE Exit(p)
    BY <1>3, <2>1, ExitStep, <1>k, Zenon DEF MountDecoyRoot, Staged, WayInv, Kept, Running
  <2>2. CASE ~Exit(p)
    <3>1. Frame(p)
      BY <1>3, <2>2, Zenon DEF MountDecoyRoot, Goto, Frame, CommandsOK
    <3>2. Kept(p)'
      BY <1>3, <2>2, <1>k DEF MountDecoyRoot, Goto, Kept, Running, OnDecoyOnly, Building,
         Leaving, Unarmed, CommandsOK
    <3>3. Staged'
      BY <1>3, <2>2, <1>s, Zenon DEF MountDecoyRoot, Staged
    <3> QED
      BY <1>3, <2>2, <3>1, <3>2, <3>3, OneStep, Zenon DEF MountDecoyRoot
  <2> QED BY <2>1, <2>2
<1>4. ASSUME ArmLeave(p) PROVE WayInv'
  <2> DEFINE new == [mem[p] EXCEPT !.armed = "leave"]
  <2>a. mem[p] # NoPlan /\ new # NoPlan /\ new.armed = "leave" /\ new.entered = mem[p].entered
    BY <1>4 DEF ArmLeave, CommandsOK, PlanKept, PlanInMemory, Plan
  <2>b. mem' = [mem EXCEPT ![p] = new] /\ plan' \in {plan, new}
    BY <1>4, Zenon DEF ArmLeave, CommandsOK
  <2> HIDE DEF new
  <2>c. \E l \in {"enqueue", "unarm"} : Goto(p, l)
    BY <1>4, Zenon DEF ArmLeave
  <2>d. root = "decoy" \/ plan' = plan \/ (plan # NoPlan /\ plan' # NoPlan /\ plan'.entered = plan.entered)
    BY <1>4, <1>k, <2>a, <2>b, Zenon DEF ArmLeave, Kept, Leaving, HostOK
  <2>1. Frame(p)
    BY <1>4, <2>b, <2>c DEF ArmLeave, Goto, Frame, CommandsOK
  <2>2. Kept(p)'
    <3>1. pc'[p] \in {"enqueue", "unarm"} /\ mem'[p] = new /\ todo'[p] = todo[p]
      BY <1>4, <2>b, <2>c DEF ArmLeave, Goto, CommandsOK
    <3> QED
      BY <1>4, <1>k, <2>a, <2>b, <3>1, Zenon DEF ArmLeave, Kept, Running, OnDecoyOnly, Building,
         Leaving, Unarmed
  <2>3. Staged'
    BY <1>4, <1>k, <1>s, <2>a, <2>b, Zenon DEF ArmLeave, Staged
  <2> QED BY <2>d, <2>1, <2>2, <2>3, OneStep, Zenon
<1>5. ASSUME EnqueueLeave(p) PROVE WayInv'
  <2>1. CASE Exit(p)
    BY <1>5, <2>1, ExitStep, <1>k, ZenonT(60)
        DEF EnqueueLeave, StartTarget, Staged, WayInv, Kept,
       Running
  <2>2. CASE ~Exit(p)
    <3>1. Frame(p)
      BY <1>5, <2>2, <1>k, SMTT(30) DEF EnqueueLeave, StartTarget, Goto, Frame, CommandsOK, Kept,
         Running
    <3>2. Kept(p)'
      BY <1>5, <2>2, <1>k DEF EnqueueLeave, StartTarget, Goto, Kept, Running, OnDecoyOnly,
         Building, Leaving, Unarmed, CommandsOK
    <3>3. Staged'
      BY <1>5, <2>2, <1>s, Zenon DEF EnqueueLeave, Staged
    <3> QED
      BY <1>5, <2>2, <3>1, <3>2, <3>3, OneStep, Zenon DEF EnqueueLeave
  <2> QED BY <2>1, <2>2
<1>6. ASSUME Unarm(p) PROVE WayInv'
  <2> DEFINE new == [mem[p] EXCEPT !.armed = "none"]
  <2>a. mem[p] # NoPlan /\ new # NoPlan /\ new.armed = "none" /\ new.entered = mem[p].entered
    BY <1>6 DEF Unarm, CommandsOK, PlanKept, PlanInMemory, Plan
  <2>b. plan' \in {plan, new} /\ Exit(p) BY <1>6, Zenon DEF Unarm
  <2> HIDE DEF new
  <2>1. root = "decoy" \/ plan' = plan \/ (plan # NoPlan /\ plan' # NoPlan /\ plan'.entered = plan.entered)
    BY <1>6, <1>k, <2>a, <2>b, Zenon DEF Unarm, Kept, Leaving, HostOK
  <2>2. Staged' BY <1>6, <1>s, <2>a, <2>b, Zenon DEF Unarm, Staged
  <2> QED BY <1>6, <2>b, <2>1, <2>2, ExitStep, Zenon DEF Unarm
<1>7. ASSUME EnqueueEmergency(p) PROVE WayInv'
  <2>1. Frame(p)
    BY <1>7, <1>k, SMTT(30) DEF EnqueueEmergency, StartTarget, Goto, Frame, CommandsOK, Kept, Running
  <2>2. Kept(p)'
    BY <1>7, <1>k DEF EnqueueEmergency, StartTarget, Goto, Kept, Running, OnDecoyOnly,
       Building, Leaving, Unarmed, CommandsOK
  <2>3. Staged'
    BY <1>7, <1>s, Zenon DEF EnqueueEmergency, Staged
  <2> QED
    BY <1>7, <2>1, <2>2, <2>3, OneStep, Zenon DEF EnqueueEmergency
<1>8. ASSUME RecoverLook(p) PROVE WayInv'
  <2>1. CASE Exit(p)
    BY <1>8, <2>1, ExitStep, <1>k, Zenon DEF RecoverLook, Staged, WayInv, Kept, Running
  <2>2. CASE ~Exit(p)
    <3>1. Frame(p)
      BY <1>8, <2>2, SMTT(30) DEF RecoverLook, RollBack, Goto, View, ArmedFor, OwnerAlive, Frame,
         CommandsOK
    <3>2. Kept(p)'
      BY <1>8, <2>2, <1>k DEF RecoverLook, RollBack, Goto, View, ArmedFor, OwnerAlive, Kept,
         Running, OnDecoyOnly, Building, Leaving, Unarmed, CommandsOK
    <3>3. Staged'
      BY <1>8, <2>2, <1>s, Zenon DEF RecoverLook, Staged
    <3> QED
      BY <1>8, <2>2, <3>1, <3>2, <3>3, OneStep, Zenon DEF RecoverLook
  <2> QED BY <2>1, <2>2
<1> QED BY <1>1, <1>2, <1>3, <1>4, <1>5, <1>6, <1>7, <1>8, Zenon

(* Every command starts before PID 1 has stopped the others, on the side it is for. *)
LEMMA WayBegin ==
  ASSUME TypeInv, WayInv, NEW p \in Proc
  PROVE  ActivateBegin(p) \/ DeactivateBegin(p) \/ EmergencyBegin(p) \/ RecoverBegin(p)
         => WayInv'
<1> USE DEF TypeInv, stage, runtime, units, host, volume, local
<1>k. Kept(p) BY DEF WayInv
<1>s. Staged BY DEF WayInv
<1>1. ASSUME ActivateBegin(p) PROVE WayInv'
  <2>1. Frame(p)
    BY <1>1, SMTT(30) DEF ActivateBegin, Starts, Goto, Frame, CommandsOK
  <2>2. Kept(p)'
    BY <1>1, <1>k DEF ActivateBegin, Starts, Goto, Kept, Running, OnDecoyOnly, Building,
       Leaving, Unarmed, CommandsOK
  <2>3. Staged'
    BY <1>1, <1>s, Zenon DEF ActivateBegin, Staged
  <2> QED
    BY <1>1, <2>1, <2>2, <2>3, OneStep, Zenon DEF ActivateBegin
<1>2. ASSUME DeactivateBegin(p) PROVE WayInv'
  <2>1. /\ pc[p] = "idle" /\ pid1 \in {"up", "soft", "off"}
        /\ pc'[p] \in {"inactive"} /\ mem'[p] = plan
    BY <1>2 DEF DeactivateBegin, Starts, Goto, CommandsOK
  <2>2. Frame(p)
    BY <1>2, SMTT(30) DEF DeactivateBegin, Starts, Goto, Frame, CommandsOK
  <2>3. Kept(p)'
    BY <1>2, <1>k, <1>s, <2>1 DEF DeactivateBegin, Staged, Kept, Running, OnDecoyOnly,
       Building, Leaving, Unarmed, HostOK
  <2>4. Staged' BY <1>2, <1>s, Zenon DEF DeactivateBegin, Staged
  <2> QED BY <1>2, <2>2, <2>3, <2>4, OneStep, Zenon DEF DeactivateBegin
<1>3. ASSUME EmergencyBegin(p) PROVE WayInv'
  <2>1. /\ pc[p] = "idle" /\ pid1 \in {"up", "soft", "off"} /\ mem'[p] = plan
        /\ pc'[p] \in (IF root = "decoy" /\ plan # NoPlan THEN {"signal"} ELSE {"enqueue", "prep"})
    BY <1>3 DEF EmergencyBegin, Starts, Goto, CommandsOK, HostOK
  <2>2. Frame(p)
    BY <1>3 DEF EmergencyBegin, Starts, Goto, Frame, CommandsOK
  <2>3. Kept(p)'
    BY <1>3, <1>k, <1>s, <2>1, Zenon DEF EmergencyBegin, Staged, Kept, Running, OnDecoyOnly,
       Building, Leaving, Unarmed, HostOK
  <2>4. Staged' BY <1>3, <1>s, Zenon DEF EmergencyBegin, Staged
  <2> QED BY <1>3, <2>2, <2>3, <2>4, OneStep, Zenon DEF EmergencyBegin
<1>4. ASSUME RecoverBegin(p) PROVE WayInv'
  <2>1. Frame(p)
    BY <1>4, SMTT(30) DEF RecoverBegin, Starts, Goto, Frame, CommandsOK
  <2>2. Kept(p)'
    BY <1>4, <1>k DEF RecoverBegin, Starts, Goto, Kept, Running, OnDecoyOnly, Building,
       Leaving, Unarmed, CommandsOK
  <2>3. Staged'
    BY <1>4, <1>s, Zenon DEF RecoverBegin, Staged
  <2> QED
    BY <1>4, <2>1, <2>2, <2>3, OneStep, Zenon DEF RecoverBegin
<1> QED BY <1>1, <1>2, <1>3, <1>4, Zenon
(* What ends commands, and what PID 1 does, preserves the invariant: no step of
   its own touches the gear of an entered session but the way back. *)
LEMMA WayRest ==
  ASSUME TypeInv, WayInv
  PROVE  /\ PowerCycle \/ Pid1 \/ PlainSoftReboot \/ ArmLapses => WayInv'
         /\ \A p \in Proc : Cancel(p) \/ Stopped(p) \/ KillUserspace(p) => WayInv'
<1> USE DEF TypeInv, stage, runtime, units, host, volume, local
<1>s. Staged BY Zenon DEF WayInv
<1>k. \A q \in Proc : Kept(q) BY Zenon DEF WayInv
<1>1. ASSUME PowerCycle PROVE WayInv'
  <2>1. Staged' BY <1>1, ZenonT(60) DEF PowerCycle, Staged
  <2>2. ASSUME NEW q \in Proc PROVE Kept(q)'
    <3>1. pc'[q] \in {"idle", "done"} /\ mem'[q] \in {NoPlan, mem[q]} /\ todo'[q] \in {{}, todo[q]}
      BY <1>1, Zenon DEF PowerCycle, Gone, Running, CommandsOK
    <3>2. ~Running(q) => todo[q] \subseteq {"record"} BY <1>k, Zenon DEF Kept
    <3>3. todo'[q] \subseteq {"record"}
      BY <1>1, <3>2, Zenon DEF PowerCycle, Gone, CommandsOK
    <3> QED
      BY <1>1, <1>k, <3>1, <3>3 DEF PowerCycle, Kept, Running, OnDecoyOnly, Building,
         Leaving, Unarmed
  <2> QED BY <2>1, <2>2, Zenon DEF WayInv
<1>2. ASSUME AllStopped PROVE WayInv'
  <2>1. Staged' BY <1>2, <1>s, Zenon DEF AllStopped, Staged
  <2> QED
    BY <1>2, <1>k, <2>1 DEF AllStopped, WayInv, Kept, Running, OnDecoyOnly, Building,
       Leaving, Unarmed
<1>3. ASSUME TransitionStep PROVE WayInv'
  <2>1. Staged'
    <3> DEFINE in == [plan EXCEPT !.armed = "none", !.entered = TRUE]
    <3>1. plan # NoPlan => in.armed = "none" BY Zenon DEF HostOK, Plan
    <3>2. nextroot' \in {nextroot, "none"} /\ root' = root
      BY <1>3, Zenon DEF TransitionStep, EnterSession, LeaveSession, Disarm
    <3>3. plan' \in {plan, NoPlan} \/ (plan # NoPlan /\ plan' = in)
      BY <1>3, Zenon DEF TransitionStep, EnterSession, LeaveSession, Disarm, GiveBack
    <3> HIDE DEF in
    <3> QED BY <1>s, <3>1, <3>2, <3>3, Zenon DEF Staged
  <2>2. ASSUME NEW q \in Proc PROVE Kept(q)'
    <3>1. ~Running(q) BY <1>3, <1>k, Zenon DEF TransitionStep, Kept
    <3>2. pc' = pc /\ mem' = mem /\ todo' = todo BY <1>3, Zenon DEF TransitionStep
    <3> QED
      BY <1>k, <3>1, <3>2, Zenon DEF Kept, Running, OnDecoyOnly, Building, Leaving, Unarmed
  <2> QED BY <2>1, <2>2 DEF WayInv
<1>4. ASSUME Switch PROVE WayInv'
  <2>1. Staged' BY <1>4, <1>s, Zenon DEF Switch, Staged
  <2>2. ASSUME NEW q \in Proc PROVE Kept(q)'
    <3>1. ~Running(q) BY <1>4, <1>k, Zenon DEF Switch, Kept
    <3> QED
      BY <1>4, <1>k, <3>1, Zenon DEF Switch, Kept, Running, OnDecoyOnly, Building, Leaving, Unarmed
  <2> QED BY <2>1, <2>2 DEF WayInv
<1>5. ASSUME Reconcile \/ PlainSoftReboot PROVE WayInv'
  <2>1. Staged' BY <1>5, <1>s, Zenon DEF Reconcile, PlainSoftReboot, Staged
  <2> QED
    BY <1>5, <1>k, <2>1 DEF Reconcile, PlainSoftReboot, WayInv, Kept, Running,
       OnDecoyOnly, Building, Leaving, Unarmed
<1>6. ASSUME ArmLapses PROVE WayInv'
  <2> DEFINE new == [plan EXCEPT !.armed = "lapsed"]
  <2>1. new # NoPlan /\ new.armed = "lapsed" /\ new.entered = plan.entered
    BY <1>6 DEF ArmLapses, HostOK, Plan
  <2>2. plan # NoPlan /\ plan' = new BY <1>6, Zenon DEF ArmLapses
  <2> HIDE DEF new
  <2>3. Staged' BY <1>6, <1>s, <2>1, <2>2, Zenon DEF ArmLapses, Staged
  <2> QED
    BY <1>6, <1>k, <2>1, <2>2, <2>3, SMTT(30) DEF ArmLapses, WayInv, Kept, Running, OnDecoyOnly,
       Building, Leaving, Unarmed
<1>7. ASSUME NEW p \in Proc, Cancel(p) PROVE WayInv'
  <2>1. Staged' BY <1>7, <1>s, Zenon DEF Cancel, Staged
  <2> QED
    BY <1>7, <1>k, <2>1, Zenon DEF Cancel, WayInv, Kept, Running, OnDecoyOnly, Building,
       Leaving, Unarmed
<1>8. ASSUME NEW p \in Proc, Stopped(p) PROVE WayInv'
  BY <1>8, <1>s, ExitStep, Zenon DEF Stopped, Staged
<1>9. ASSUME NEW p \in Proc, KillUserspace(p) PROVE WayInv'
  <2>1. Staged' BY <1>9, <1>s, Zenon DEF KillUserspace, Staged
  <2>2. ASSUME NEW q \in Proc PROVE Kept(q)'
    <3>1. CASE q = p
      <4>1. pc[p] = "kill" /\ pc'[p] = "finish" /\ mem'[p] = mem[p] /\ todo'[p] = {"record"}
        BY <1>9, Zenon DEF KillUserspace, CommandsOK
      <4> QED
        BY <1>9, <1>k, <3>1, <4>1, Zenon DEF KillUserspace, Kept, Running, OnDecoyOnly,
           Building, Leaving, Unarmed
    <3>2. CASE q # p
      <4>1. /\ pc'[q] \in {"idle", "done"} /\ mem'[q] \in {NoPlan, mem[q]}
            /\ todo'[q] = IF Running(q) THEN {} ELSE todo[q]
        BY <1>9, <3>2, Zenon DEF KillUserspace, Running, CommandsOK
      <4>2. todo'[q] \subseteq {"record"} BY <1>k, <4>1, Zenon DEF Kept
      <4> QED
        BY <1>9, <1>k, <3>2, <4>1, <4>2, Zenon
            DEF KillUserspace, Kept, Running, OnDecoyOnly,
           Building, Leaving, Unarmed
    <3> QED BY <3>1, <3>2, Zenon
  <2> QED BY <2>1, <2>2, Zenon DEF WayInv
<1> QED BY <1>1, <1>2, <1>3, <1>4, <1>5, <1>6, <1>7, <1>8, <1>9, Zenon DEF Pid1

(* Every step preserves the invariant. *)
LEMMA WayNext ==
  ASSUME TypeInv, WayInv, [Next]_vars
  PROVE  WayInv'
<1>1. CASE UNCHANGED vars
  BY <1>1, Zenon DEF vars, stage, runtime, local, WayInv, Staged, Kept, Running, OnDecoyOnly,
     Building, Leaving, Unarmed
<1>2. ASSUME NEW p \in Proc, Command(p) PROVE WayInv'
  <2>1. CASE Activate(p) BY <2>1, WayActivate, WayBegin, Zenon DEF Activate
  <2>2. CASE Undo(p) BY <2>2, WayUndo, Zenon DEF Undo
  <2>3. CASE WayOut(p)
    <3>1. CASE KernelPowerOff(p) BY <3>1, WayRest, Zenon DEF KernelPowerOff
    <3> QED
      BY <2>3, <3>1, WayLeave, WayBegin, WayRest, Zenon DEF WayOut, Deactivate, Emergency, Recover
  <2> QED BY <1>2, <2>1, <2>2, <2>3, Zenon DEF Command
<1>3. CASE Next
  <2>1. CASE PowerOff BY <2>1, WayRest, Zenon DEF PowerOff
  <2> QED BY <1>2, <1>3, <2>1, WayRest, Zenon DEF Next
<1> QED BY <1>1, <1>3, Zenon

------------------------------------------------------------------------------
(* A step that keeps the gear, and a plan that is entered, keeps the way open. *)
LEMMA StaysOpen ==
  ASSUME WayOpen, root' = root, pid1 # "switch", pid1' # "switch",
         UNCHANGED <<rtdir, dropin, loaded, masks, noexec>>,
         plan' = plan \/ (plan' # NoPlan /\ plan'.entered)
  PROVE  WayOpen'
BY Zenon DEF WayOpen, Returning, Equipped, StepRuns

(* Commands leave an open way back alone: those that build or clean up are not
   at work in the hidden session, those that leave write a plan that is still
   entered, and a power-off ends on the bare decoy. *)
LEMMA OpenCommand ==
  ASSUME TypeInv, WayInv, WayOpen, NEW p \in Proc, Command(p)
  PROVE  WayOpen' \/ (root = "decoy" /\ Bare /\ ~loaded)'
<1> USE DEF TypeInv, stage, runtime, units, host, volume, local
<1>k. Kept(p) BY Zenon DEF WayInv
<1>h. root = "hidden" BY Zenon DEF WayOpen
<1>r. Running(p) => pid1 # "switch" /\ plan # NoPlan /\ plan.entered
  BY <1>k, Zenon DEF Kept, WayOpen, Returning, Equipped
<1>1. ASSUME Activate(p) PROVE FALSE
  <2>1. pc[p] \in Building \/ root = "decoy"
    BY <1>1, Zenon DEF Activate, ActivateBegin, Preflight, WriteRuntime, ClearNoexec,
       InstallDropin, MountNextroot, BuildSystem, ActivateSystem, WayBack, ArmEnter,
       RecordEntry, Commit, Building
  <2> QED BY <1>k, <1>h, <2>1, Zenon DEF Kept, OnDecoyOnly
<1>2. ASSUME Undo(p) PROVE WayOpen'
  <2>1. UndoExit(p)
    BY <1>2, <1>k, <1>h, Zenon DEF Undo, UndoDetach, UndoUnits, UndoRuntime, UndoNoexec,
       UndoReload, Kept, OnDecoyOnly
  <2>2. Running(p) BY <2>1, Zenon DEF UndoExit, Running
  <2> QED BY <1>r, <2>1, <2>2, StaysOpen, Zenon DEF UndoExit
<1>3. ASSUME DeactivateBegin(p) \/ EmergencyBegin(p) \/ RecoverBegin(p) PROVE WayOpen'
  <2>1. pid1 \in {"up", "soft", "off"}
    BY <1>3, Zenon DEF DeactivateBegin, EmergencyBegin, RecoverBegin, Starts
  <2>2. UNCHANGED <<stage, runtime, units, host>>
    BY <1>3, Zenon DEF DeactivateBegin, EmergencyBegin, RecoverBegin
  <2> QED BY <2>1, <2>2, StaysOpen, Zenon
<1>4. ASSUME RecordInactive(p) \/ SignalOwner(p) \/ RecoverLook(p) \/ KillUserspace(p)
      PROVE  WayOpen'
  <2>1. Running(p) /\ UNCHANGED <<stage, runtime, units, host>>
    BY <1>4, Zenon DEF RecordInactive, SignalOwner, RecoverLook, KillUserspace, Running
  <2> QED BY <1>r, <2>1, StaysOpen, Zenon
<1>5. ASSUME MountDecoyRoot(p) \/ EnqueueLeave(p) \/ EnqueueEmergency(p) PROVE WayOpen'
  <2>1. Running(p) /\ UNCHANGED <<root, runtime, units, host>>
    BY <1>5, Zenon DEF MountDecoyRoot, EnqueueLeave, EnqueueEmergency, Running
  <2>2. pid1' # "switch"
    BY <1>r, <1>5, <2>1, Zenon
        DEF MountDecoyRoot, EnqueueLeave, EnqueueEmergency, StartTarget
  <2> QED BY <1>r, <2>1, <2>2, StaysOpen, Zenon
<1>6. ASSUME ArmLeave(p) \/ Unarm(p) PROVE WayOpen'
  <2>1. Running(p) /\ mem[p] \in Plan /\ pc[p] \in Leaving
    BY <1>6, Zenon DEF ArmLeave, Unarm, Running, CommandsOK, PlanKept, PlanInMemory, Leaving
  <2>2. mem[p].entered BY <1>k, <1>h, <1>r, <2>1, Zenon DEF Kept
  <2> DEFINE armed   == [mem[p] EXCEPT !.armed = "leave"]
             unarmed == [mem[p] EXCEPT !.armed = "none"]
  <2>3. armed # NoPlan /\ armed.entered /\ unarmed # NoPlan /\ unarmed.entered
    BY <2>1, <2>2 DEF Plan
  <2>4. plan' \in {plan, armed, unarmed}
    BY <1>6, Zenon DEF ArmLeave, Unarm, CommandsOK
  <2> HIDE DEF armed, unarmed
  <2>5. root' = root /\ pid1' = pid1 /\ UNCHANGED <<rtdir, units, host>>
    BY <1>6, Zenon DEF ArmLeave, Unarm
  <2> QED BY <1>r, <2>1, <2>3, <2>4, <2>5, StaysOpen, Zenon
<1>7. ASSUME KernelPowerOff(p) PROVE (root = "decoy" /\ Bare /\ ~loaded)'
  BY <1>7, Zenon DEF KernelPowerOff, PowerCycle, Bare
<1> QED
  BY <1>1, <1>2, <1>3, <1>4, <1>5, <1>6, <1>7, Zenon DEF Command, WayOut, Deactivate, Emergency,
     Recover

(* PID 1 gives everything back before it returns to the decoy, and keeps what an
   entered session needs when it refuses a switch. *)
LEMMA OpenStep ==
  ASSUME TypeInv, WayInv, WayOpen, [Next]_vars
  PROVE  WayOpen' \/ (root = "decoy" /\ Bare /\ ~loaded)'
<1> USE DEF TypeInv, stage, runtime, units, host, volume, local
<1>s. Staged BY Zenon DEF WayInv
<1>h. root = "hidden" BY Zenon DEF WayOpen
<1>1. ASSUME AllStopped \/ PlainSoftReboot PROVE WayOpen'
  BY <1>1, StaysOpen, Zenon DEF AllStopped, PlainSoftReboot
<1>2. ASSUME TransitionStep PROVE WayOpen'
  <2>1. pid1 # "switch" /\ pid1' = "switch" /\ root' = root
    BY <1>2, Zenon DEF TransitionStep
  <2>2. Equipped /\ masks /\ plan.entered BY <2>1, Zenon DEF WayOpen, Returning
  <2>3. ~ArmedFor("enter") BY <1>s, <2>2, Zenon DEF Staged, ArmedFor
  <2>4. CASE GiveBack /\ nextroot' = nextroot /\ nextroot # "none"
    <3>1. nextroot = "decoy" BY <1>h, <1>s, <2>4, Zenon DEF Staged, HostOK
    <3> QED BY <1>h, <2>1, <2>4, <3>1, Zenon DEF GiveBack, WayOpen, Returning, Bare
  <2>5. CASE UNCHANGED <<runtime, units, noexec>> /\ nextroot' = "none"
    BY <1>h, <2>1, <2>2, <2>5, Zenon DEF WayOpen, Returning, Equipped, StepRuns
  <2>6. \/ GiveBack /\ nextroot' = nextroot /\ nextroot # "none"
        \/ UNCHANGED <<runtime, units, noexec>> /\ nextroot' = "none"
    BY <1>2, <2>2, <2>3, Zenon
        DEF TransitionStep, EnterSession, LeaveSession, Disarm, Equipped
  <2> QED BY <2>4, <2>5, <2>6, Zenon
<1>3. ASSUME Switch PROVE WayOpen' \/ (root = "decoy" /\ Bare /\ ~loaded)'
  BY <1>3, <1>h, <1>s, Zenon DEF Switch, WayOpen, Returning, Bare, Equipped, StepRuns, Staged,
     HostOK
<1>4. ASSUME Reconcile PROVE FALSE BY <1>4, <1>h, Zenon DEF Reconcile
<1>5. ASSUME PowerOff PROVE (root = "decoy" /\ Bare /\ ~loaded)'
  BY <1>5, Zenon DEF PowerOff, PowerCycle, Bare
<1>6. ASSUME ArmLapses PROVE WayOpen'
  <2> DEFINE new == [plan EXCEPT !.armed = "lapsed"]
  <2>1. plan # NoPlan /\ plan' = new BY <1>6, Zenon DEF ArmLapses
  <2>2. new # NoPlan /\ new.entered = plan.entered BY <2>1, SMTT(30) DEF HostOK, Plan
  <2> HIDE DEF new
  <2> QED
    BY <1>6, <2>1, <2>2, Zenon DEF ArmLapses, WayOpen, Returning, Bare, Equipped, StepRuns
<1>7. ASSUME NEW p \in Proc, Cancel(p) \/ Stopped(p) PROVE WayOpen'
  BY <1>7 DEF Cancel, Stopped, WayOpen, Returning, Bare, Equipped, StepRuns
<1>8. ASSUME UNCHANGED vars PROVE WayOpen'
  BY <1>8, Zenon DEF vars, WayOpen, Returning, Bare, Equipped, StepRuns
<1> QED
  BY <1>1, <1>2, <1>3, <1>4, <1>5, <1>6, <1>7, <1>8, OpenCommand, Zenon DEF Next, Pid1

(* For any number of commands of every kind, racing one another in any way, and
   under every fault: a session that is noted in its plan and has its gear keeps
   both until the transition step has given everything back, and ends on a decoy
   that has nothing of it (entry::rollback, transition::disarm, ::leave). *)
THEOREM WayStaysOpen == Spec => WayBackKept
<1>1. MachineInit => TypeInv /\ WayInv BY TypeInit, WayInit, Zenon
<1>2. TypeInv /\ WayInv /\ [Next]_vars => TypeInv' /\ WayInv' BY TypeStep, WayNext, Zenon
<1>3. TypeInv /\ WayInv /\ [Next]_vars
        => [WayOpen => WayOpen' \/ (root = "decoy" /\ Bare /\ ~loaded)']_vars
  BY OpenStep, Zenon
<1> QED BY <1>1, <1>2, <1>3, PTL DEF Spec, WayBackKept

------------------------------------------------------------------------------
(* One command at a time, no emergency, and an entry transition that can write
   its plan. *)
Noting == Orderly /\ "planwrite" \notin Faults

(* With the entry's plan write: the session is noted as entered, ... *)
Noted == (pid1 = "switch" /\ nextroot = "hidden") \/ (root = "hidden" /\ ~Returning)
            => Equipped /\ masks /\ plan.entered /\ plan.armed # "enter"
(* ... in the memory of the command that leaves it too, ... *)
NotedInMemory ==
    \A p \in Proc : pc[p] \in Leaving => mem[p].entered /\ mem[p].armed # "enter"
(* ... and the decoy has no masks, nor anything else on the way back to it. *)
Unmasked == /\ root = "decoy" /\ ~(pid1 = "switch" /\ nextroot = "hidden") => ~masks
            /\ Returning => Bare
PromiseInv == Noted /\ NotedInMemory /\ Unmasked

(* The booted decoy satisfies the invariant. *)
LEMMA PromiseInit == MachineInit => PromiseInv
BY DEF MachineInit, PromiseInv, Noted, NotedInMemory, Unmasked, Returning, Leaving

(* A step on the decoy that adds no mask keeps the invariant. *)
LEMMA OnDecoy ==
  ASSUME SafeInv', Unmasked, root = "decoy", root' = "decoy",
         pid1 # "switch", pid1' # "switch", masks' => masks
  PROVE  PromiseInv'
<1>1. NotedInMemory' BY Zenon DEF NotedInMemory, SafeInv, Station, Running, Leaving
<1>2. Noted' /\ Unmasked' BY Zenon DEF Noted, Unmasked, Returning
<1> QED BY <1>1, <1>2, Zenon DEF PromiseInv

(* A step in the hidden session that leaves the gear alone, and at most writes
   a plan that still says entered, keeps the invariant. *)
LEMMA OnHidden ==
  ASSUME Noted, root = "hidden", root' = "hidden", pid1 # "switch", pid1' # "switch",
         UNCHANGED <<rtdir, units, host>>, NotedInMemory',
         \/ plan' = plan
         \/ plan' # NoPlan /\ plan'.entered /\ plan'.armed # "enter"
  PROVE  PromiseInv'
<1> USE DEF units, host
<1>1. Noted' BY Zenon DEF Noted, Returning, Equipped, StepRuns
<1>2. Unmasked' BY Zenon DEF Unmasked, Returning
<1> QED BY <1>1, <1>2, Zenon DEF PromiseInv

(* `activate` and the rollback work on the decoy and mask nothing. *)
LEMMA PromiseDecoy ==
  ASSUME TypeInv, SafeInv, SafeInv', PromiseInv, NEW p \in Proc,
         Activate(p) \/ Undo(p)
  PROVE  PromiseInv'
<1> USE DEF TypeInv, stage, units
<1>1. CASE ActivateBegin(p)
  BY <1>1, OnDecoy, Zenon DEF ActivateBegin, Starts, PromiseInv
<1>2. CASE ~ActivateBegin(p)
  <2>1. pc[p] \in Building \cup Undoing
    BY <1>2, ZenonT(60) DEF Activate, Preflight, WriteRuntime, ClearNoexec, InstallDropin,
       MountNextroot, BuildSystem, ActivateSystem, WayBack, ArmEnter, RecordEntry,
       Commit, Undo, UndoDetach, UndoUnits, UndoRuntime, UndoNoexec, UndoReload,
       UndoExit, Building, Undoing
  <2>2. root = "decoy" /\ pid1 \in {"up", "soft", "off"}
    BY <2>1 DEF SafeInv, Station, Running, Building, Undoing
  <2>3. CASE Activate(p)
    <3>1. root' = root /\ masks' = masks /\ pid1' # "switch"
      BY <1>2, <2>2, <2>3, Zenon DEF Activate, Preflight, WriteRuntime, ClearNoexec,
         InstallDropin, MountNextroot, BuildSystem, ActivateSystem, WayBack, ArmEnter,
         RecordEntry, Commit, StartTarget
    <3> QED BY <2>2, <3>1, OnDecoy, Zenon DEF PromiseInv
  <2>4. CASE Undo(p)
    <3>1. root' = root /\ pid1' = pid1
      BY <2>4, Zenon DEF Undo, UndoDetach, UndoUnits, UndoRuntime, UndoNoexec, UndoReload,
         UndoExit
    <3>2. CASE UndoUnits(p) BY <2>2, <3>1, <3>2, OnDecoy, Zenon DEF UndoUnits, PromiseInv
    <3>3. CASE ~UndoUnits(p)
      <4>1. masks' = masks
        BY <2>4, <3>3, Zenon DEF Undo, UndoDetach, UndoRuntime, UndoNoexec, UndoReload,
           UndoExit
      <4> QED BY <2>2, <3>1, <4>1, OnDecoy, Zenon DEF PromiseInv
    <3> QED BY <3>2, <3>3, Zenon
  <2> QED BY <2>3, <2>4, Zenon
<1> QED BY <1>1, <1>2, Zenon

(* `recover` changes nothing before it has judged the machine. *)
LEMMA PromiseRecover ==
  ASSUME Orderly, TypeInv, SafeInv, SafeInv', PromiseInv, NEW p \in Proc, Recover(p)
  PROVE  PromiseInv'
<1> USE DEF TypeInv, stage, runtime, units, host
<1>1. UNCHANGED <<stage, runtime, units, host>>
  BY Zenon DEF Recover, RecoverBegin, RecoverLook
<1>2. Noted' /\ Unmasked'
  BY <1>1, Zenon DEF PromiseInv, Noted, Unmasked, Returning, Equipped, StepRuns, Bare
<1>3. pc'[p] \notin Leaving
  BY ZenonT(60) DEF Recover, RecoverBegin, RecoverLook, RollBack, Goto, Exit, Gone, CommandsOK,
     Leaving
<1>4. \A q \in Proc \ {p} : ~Running(q)'
  <2>1. CASE RecoverBegin(p)
    BY <2>1 DEF RecoverBegin, Orderly, May, Calm, Running, Goto, CommandsOK
  <2>2. CASE RecoverLook(p)
    <3>1. Running(p) BY <2>2, Zenon DEF RecoverLook, Running
    <3> QED BY <2>2, <3>1, SoloStays, Zenon DEF RecoverLook, RollBack, PCs, Undoing
  <2> QED BY <2>1, <2>2, Zenon DEF Recover
<1>5. NotedInMemory' BY <1>3, <1>4, Zenon DEF NotedInMemory, Running, Leaving
<1> QED BY <1>2, <1>5, Zenon DEF PromiseInv

(* Every step of `deactivate`, refused or failing, leaves a session that is
   still noted as entered. *)
LEMMA PromiseLeave ==
  ASSUME Orderly, TypeInv, TypeInv', SafeInv, SafeInv', PromiseInv, NEW p \in Proc,
         Deactivate(p) \/ MountDecoyRoot(p) \/ ArmLeave(p)
  PROVE  PromiseInv'
<1> USE DEF TypeInv, stage, runtime, units, host, local
<1>1. CASE DeactivateBegin(p)
  <2>1. root = "hidden" /\ plan # NoPlan /\ pid1 \in {"up", "soft", "off"}
    BY <1>1, Zenon DEF DeactivateBegin, View, HostOK, Starts
  <2>2. plan.entered /\ plan.armed # "enter"
    BY <2>1, ZenonT(60) DEF PromiseInv, Noted, Returning
  <2>3. \A q \in Proc \ {p} : ~Running(q)'
    BY <1>1, SMTT(30) DEF DeactivateBegin, Orderly, May, Calm, Running, Goto, CommandsOK
  <2>4. NotedInMemory'
    BY <1>1, <2>2, <2>3, SMTT(30) DEF DeactivateBegin, CommandsOK, NotedInMemory, Running,
       Leaving
  <2> QED BY <1>1, <2>1, <2>4, OnHidden, Zenon DEF DeactivateBegin, PromiseInv
<1>2. CASE ~DeactivateBegin(p)
  <2>1. pc[p] \in Leaving
    BY <1>2, Zenon DEF Deactivate, RecordInactive, EnqueueLeave, Unarm, MountDecoyRoot,
       ArmLeave, Leaving
  <2>2. Running(p) BY <2>1, Zenon DEF Running, Leaving
  <2>3. root = "hidden" /\ pid1 \in {"up", "soft", "off"}
    BY <2>1, <2>2, Zenon DEF SafeInv, Station
  <2>4. mem[p].entered /\ mem[p].armed # "enter"
    BY <2>1, Zenon DEF PromiseInv, NotedInMemory
  <2>5. /\ root' = "hidden" /\ pid1' # "switch"
        /\ UNCHANGED <<rtdir, units, host>>
    BY <1>2, <2>3, Zenon DEF Deactivate, RecordInactive, EnqueueLeave, Unarm, MountDecoyRoot,
       ArmLeave, StartTarget
  <2>6. \A q \in Proc \ {p} : ~Running(q)'
    BY <1>2, <2>2, SoloStays, Zenon DEF Deactivate, RecordInactive, EnqueueLeave, Unarm,
       MountDecoyRoot, ArmLeave, PCs, Leaving
  <2>7. \A q \in Proc \ {p} : pc'[q] \notin Leaving BY <2>6, Zenon DEF Running, Leaving
  <2>8. CASE ArmLeave(p)
    <3> DEFINE new == [mem[p] EXCEPT !.armed = "leave"]
    <3>1. new \in Plan /\ new.entered /\ new.armed = "leave"
      BY <2>4, <2>8, SMTT(30) DEF ArmLeave, CommandsOK, PlanKept, PlanInMemory, Plan
    <3>2. mem'[p] = new /\ plan' \in {plan, new} BY <2>8 DEF ArmLeave, CommandsOK
    <3> HIDE DEF new
    <3>3. NotedInMemory' BY <2>7, <3>1, <3>2, Zenon DEF NotedInMemory
    <3> QED BY <2>3, <2>5, <3>1, <3>2, <3>3, OnHidden, ZenonT(60) DEF PromiseInv
  <2>9. CASE Unarm(p)
    <3> DEFINE new == [mem[p] EXCEPT !.armed = "none"]
    <3>1. new \in Plan /\ new.entered /\ new.armed = "none"
      BY <2>4, <2>9 DEF Unarm, CommandsOK, PlanKept, PlanInMemory, Plan
    <3>2. plan' \in {plan, new} BY <2>9, Zenon DEF Unarm
    <3> HIDE DEF new
    <3>3. NotedInMemory' BY <2>7, <2>9, Zenon DEF NotedInMemory, Unarm, Exit, Gone, Leaving
    <3> QED BY <2>3, <2>5, <3>1, <3>2, <3>3, OnHidden, Zenon DEF PromiseInv
  <2>10. CASE ~ArmLeave(p) /\ ~Unarm(p)
    <3>1. plan' = plan
      BY <1>2, <2>10, Zenon DEF Deactivate, RecordInactive, EnqueueLeave, MountDecoyRoot
    <3>2. Exit(p) \/ mem' = mem
      BY <1>2, <2>10, Zenon DEF Deactivate, RecordInactive, EnqueueLeave, MountDecoyRoot
    <3>3. pc'[p] \in Leaving => mem'[p] = mem[p]
      BY <3>2, Zenon DEF Exit, Gone, Leaving
    <3>4. NotedInMemory' BY <2>4, <2>7, <3>3, Zenon DEF NotedInMemory
    <3> QED BY <2>3, <2>5, <3>1, <3>4, OnHidden, Zenon DEF PromiseInv
  <2> QED BY <2>8, <2>9, <2>10, Zenon
<1> QED BY <1>1, <1>2, Zenon

(* The transition step notes the entry, keeps an entered session's gear when
   it refuses, and clears everything when it leaves. *)
LEMMA PromiseTransition ==
  ASSUME Noting, TypeInv, SafeInv, SafeInv', PromiseInv, TransitionStep
  PROVE  PromiseInv'
<1> USE DEF TypeInv, runtime, units, host, local
<1>1. pid1 = "transition" /\ pid1' = "switch" /\ root' = root BY Zenon DEF TransitionStep
<1>2. \A q \in Proc : ~Running(q)' BY <1>1, Zenon DEF SafeInv, Station
<1>3. NotedInMemory' BY <1>2, Zenon DEF NotedInMemory, Running, Leaving
<1>4. CASE nextroot = "none"
  <2>1. UNCHANGED <<nextroot, runtime, units, host>> BY <1>4, Zenon DEF TransitionStep
  <2> QED
    BY <1>1, <1>3, <1>4, <2>1, Zenon DEF PromiseInv, Noted, Unmasked, Returning, Equipped,
       StepRuns
<1>5. CASE nextroot # "none"
  <2>1. Equipped BY <1>1, <1>5, Zenon DEF SafeInv, Guarded
  <2>2. EnterSession \/ LeaveSession \/ Disarm
    BY <1>5, <2>1, Zenon DEF TransitionStep, Equipped
  <2>3. CASE root = "decoy"
    <3>1. nextroot = "hidden" /\ ~masks /\ ~LeaveSession
      BY <1>1, <1>5, <2>1, <2>3, Zenon DEF HostOK, SafeInv, Sides, ArmedSide, PromiseInv,
         Unmasked, LeaveSession, ArmedFor, Equipped
    <3>2. CASE Disarm
      <4>1. nextroot' = "none" /\ ~masks' BY <3>1, <3>2, Zenon DEF Disarm, GiveBack
      <4> QED BY <1>1, <1>3, <2>3, <4>1, Zenon DEF PromiseInv, Noted, Unmasked, Returning
    <3>3. CASE ~Disarm
      <4> DEFINE new == [plan EXCEPT !.armed = "none", !.entered = TRUE]
      <4>1. new \in Plan /\ new.armed = "none" /\ new.entered
        BY <2>1, Zenon DEF Equipped, HostOK, Plan
      <4>2. plan' = new /\ masks' /\ UNCHANGED <<nextroot, rtdir, dropin, loaded, host>>
        BY <2>2, <3>1, <3>3, Zenon DEF EnterSession, Noting, May
      <4> HIDE DEF new
      <4> QED
        BY <1>1, <1>3, <2>1, <2>3, <3>1, <4>1, <4>2, Zenon DEF PromiseInv, Noted, Unmasked,
           Returning, Equipped, StepRuns
    <3> QED BY <3>2, <3>3, Zenon
  <2>4. CASE root = "hidden"
    <3>1. nextroot = "decoy" /\ masks /\ plan.entered /\ plan.armed # "enter"
      BY <1>1, <1>5, <2>4, Zenon DEF HostOK, SafeInv, Sides, PromiseInv, Noted, Returning
    <3>2. ~EnterSession BY <3>1, Zenon DEF EnterSession, ArmedFor
    <3>3. CASE Disarm
      <4>1. nextroot' = "none" /\ UNCHANGED <<runtime, units, host>>
        BY <3>1, <3>3, Zenon DEF Disarm
      <4> QED
        BY <1>1, <1>3, <2>1, <2>4, <3>1, <4>1, Zenon DEF PromiseInv, Noted, Unmasked,
           Returning, Equipped, StepRuns
    <3>4. CASE ~Disarm
      <4>1. GiveBack /\ nextroot' = nextroot BY <2>2, <3>2, <3>4, Zenon DEF LeaveSession
      <4> QED
        BY <1>1, <1>3, <2>4, <3>1, <4>1, Zenon DEF GiveBack, PromiseInv, Noted, Unmasked,
           Returning, Bare
    <3> QED BY <3>3, <3>4
  <2> QED BY <2>3, <2>4, Zenon DEF HostOK
<1> QED BY <1>4, <1>5, Zenon

(* Signals, kills, PID 1, the power and the clock keep the invariant. *)
LEMMA PromiseSurroundings ==
  ASSUME TypeInv, SafeInv, SafeInv', PromiseInv,
         \/ \E p \in Proc : Cancel(p) \/ Stopped(p)
         \/ AllStopped \/ Switch \/ Reconcile
         \/ PowerOff \/ PlainSoftReboot \/ ArmLapses
  PROVE  PromiseInv'
<1> USE DEF TypeInv, stage, runtime, units, host, volume, local
<1>1. ASSUME NEW p \in Proc, Cancel(p) PROVE PromiseInv'
  BY <1>1, Zenon DEF Cancel, PromiseInv, Noted, NotedInMemory, Unmasked, Returning, Equipped,
     StepRuns, Bare
<1>2. ASSUME NEW p \in Proc, Stopped(p) PROVE PromiseInv'
  <2>1. \A q \in Proc : pc'[q] \in {pc[q], "done"} /\ (pc'[q] # "done" => mem'[q] = mem[q])
    BY <1>2, Zenon DEF Stopped, Exit, Gone
  <2>2. NotedInMemory' BY <2>1 DEF PromiseInv, NotedInMemory, Leaving
  <2>3. Noted' /\ Unmasked'
    BY <1>2, ZenonT(60) DEF Stopped, PromiseInv, Noted, Unmasked, Returning, Equipped, StepRuns,
       Bare
  <2> QED BY <2>2, <2>3, Zenon DEF PromiseInv
<1>3. CASE AllStopped \/ PlainSoftReboot
  BY <1>3 DEF AllStopped, PlainSoftReboot, PromiseInv, Noted, NotedInMemory, Unmasked,
     Returning, Equipped, StepRuns, Bare
<1>4. CASE Switch
  <2>1. NotedInMemory' BY <1>4, Zenon DEF Switch, PromiseInv, NotedInMemory
  <2>2. Noted'
    BY <1>4, Zenon DEF Switch, PromiseInv, Noted, Returning, Equipped, StepRuns, HostOK
  <2>3. Unmasked'
    BY <1>4, Zenon DEF Switch, PromiseInv, Unmasked, Returning, Bare, HostOK
  <2> QED BY <2>1, <2>2, <2>3, Zenon DEF PromiseInv
<1>5. CASE Reconcile
  BY <1>5, OnDecoy, Zenon DEF Reconcile, PromiseInv
<1>6. CASE PowerCycle
  <2>1. NotedInMemory'
    BY <1>6, Zenon DEF NotedInMemory, SafeInv, Station, Running, Leaving, PowerCycle
  <2> QED BY <1>6, <2>1, Zenon DEF PowerCycle, PromiseInv, Noted, Unmasked, Returning
<1>7. CASE ArmLapses
  <2> DEFINE new == [plan EXCEPT !.armed = "lapsed"]
  <2>1. new \in Plan /\ new.armed = "lapsed" /\ new.entered = plan.entered /\ plan # NoPlan
    BY <1>7, Zenon DEF ArmLapses, HostOK, Plan
  <2>2. plan' = new BY <1>7, Zenon DEF ArmLapses
  <2> HIDE DEF new
  <2>3. Noted' /\ Unmasked'
    BY <1>7, <2>1, <2>2, Zenon DEF ArmLapses, PromiseInv, Noted, Unmasked, Returning,
       Equipped, StepRuns, Bare
  <2>4. NotedInMemory' BY <1>7, Zenon DEF ArmLapses, PromiseInv, NotedInMemory
  <2> QED BY <2>3, <2>4, Zenon DEF PromiseInv
<1> QED BY <1>1, <1>2, <1>3, <1>4, <1>5, <1>6, <1>7, Zenon DEF PowerOff

(* PromiseInv is inductive relative to TypeInv and SafeInv. *)
LEMMA PromiseStep ==
  ASSUME Noting
  PROVE  /\ TypeInv /\ TypeInv' /\ SafeInv /\ SafeInv' /\ PromiseInv /\ [Next]_vars
         => PromiseInv'
<1> SUFFICES ASSUME TypeInv, TypeInv', SafeInv, SafeInv', PromiseInv, [Next]_vars
             PROVE  PromiseInv'
  BY Zenon
<1>1. Orderly BY Zenon DEF Noting
<1>2. CASE UNCHANGED vars
  BY <1>2, Zenon DEF vars, stage, runtime, units, host, local, PromiseInv, Noted,
     NotedInMemory, Unmasked, Returning, Equipped, StepRuns, Bare
<1>3. ASSUME NEW p \in Proc, Command(p) PROVE PromiseInv'
  BY <1>1, <1>3, NoEmergency, PromiseDecoy, PromiseRecover, PromiseLeave, Zenon DEF Command,
     WayOut
<1>4. CASE Next
  BY <1>3, <1>4, PromiseTransition, PromiseSurroundings, Zenon DEF Next, Pid1
<1> QED BY <1>2, <1>4, Zenon

(* With a noted entry, the hidden session keeps its gear and the decoy has
   none of it, whatever fails, lapses or is killed (transition::disarm,
   transition::leave). *)
THEOREM Promise ==
  ASSUME Noting
  PROVE  Spec => [](TypeInv /\ SafeInv /\ PromiseInv)
<1>1. Orderly BY Zenon DEF Noting
<1> QED
  BY <1>1, TypeInit, SafeInit, PromiseInit, TypeStep, SafeStep, PromiseStep, PTL DEF
     Spec

(* The way back stays ready for as long as the hidden session runs, through
   refused leaves, lapsed armings and plain soft-reboots (transition::disarm
   keeps an entered session's plan). *)
THEOREM WayBackStays ==
  ASSUME Noting
  PROVE  Spec => []WayBackReady
<1>1. TypeInv /\ SafeInv /\ PromiseInv => WayBackReady
  BY Zenon DEF PromiseInv, Noted, WayBackReady
<1> QED BY <1>1, Promise, PTL

------------------------------------------------------------------------------
(* The decoy that the machine returns to finds nothing of the session, and PID
   1 has no drop-in loaded (transition::leave). *)
THEOREM ReturnsClean ==
  ASSUME Noting
  PROVE  Spec => CleanReturn
<1>1. TypeInv /\ SafeInv /\ PromiseInv /\ [Next]_vars
        => [root = "hidden" /\ root' = "decoy" => (Bare /\ ~loaded)']_vars
  <2> SUFFICES ASSUME TypeInv, SafeInv, PromiseInv, Next, root = "hidden", root' = "decoy"
               PROVE  (Bare /\ ~loaded)'
    BY Zenon
  <2>1. CASE PowerCycle BY <2>1, Zenon DEF PowerCycle, Bare
  <2>2. CASE Switch
    <3>1. Bare BY <2>2, Zenon DEF Switch, PromiseInv, Unmasked, Returning
    <3> QED BY <2>2, <3>1, Zenon DEF Switch, Bare, runtime
  <2> QED BY <2>1, <2>2, RootChanges, Zenon
<1> QED BY <1>1, Promise, PTL DEF Spec, CleanReturn

(* What Gear says. *)
GearRead ==
  /\ Gear \in {"bare", "partial", "staged", "guarded"}
  /\ Bare => Gear = "bare"
  /\ Equipped /\ masks => Gear = "guarded"
  /\ Equipped /\ ~masks => Gear = "staged"
  /\ ~masks => Gear # "guarded"
(* The hidden root, and only it, is guarded. *)
GearFits ==
  /\ Place = "hidden" => Gear = "guarded"
  /\ Place = "decoy" => Gear # "guarded"
  /\ Place \in {"decoy", "hidden"}

(* Gear reads the state as its name says. *)
LEMMA GearReads == GearRead
BY Zenon DEF GearRead, Gear, Bare, Equipped

(* The hidden root is guarded and the decoy is not. *)
LEMMA HiddenGear == TypeInv /\ SafeInv /\ PromiseInv => GearFits
<1> SUFFICES ASSUME HostOK, PromiseInv PROVE GearFits
  BY Zenon DEF TypeInv
<1>1. ASSUME Place = "hidden" PROVE Equipped /\ masks
  BY <1>1, Zenon DEF Place, PromiseInv, Noted, Returning, HostOK
<1>2. ASSUME Place = "decoy" PROVE ~masks
  BY <1>2, Zenon DEF Place, PromiseInv, Unmasked, Returning, Bare, HostOK
<1> QED BY <1>1, <1>2, GearReads, Zenon DEF GearRead, GearFits, Place, HostOK

(* No command works while PID 1 is about to switch. *)
LEMMA CommandPid1 ==
  ASSUME Orderly, SafeInv, NEW p \in Proc, Command(p)
  PROVE  pid1 # "switch" /\ pid1' # "switch"
<1> USE DEF stage
<1>1. pid1 \in {"up", "soft", "off"}
  <2>1. CASE Running(p) BY <2>1, Zenon DEF SafeInv, Station
  <2>2. CASE ~Running(p)
    <3>1. pc[p] \in {"idle", "done"} BY <2>2, Zenon DEF Running
    <3>2. ~Undo(p)
      BY <3>1, Zenon DEF Undo, UndoDetach, UndoUnits, UndoRuntime, UndoNoexec, UndoReload,
         UndoExit
    <3>3. Activate(p) => ActivateBegin(p)
      BY <3>1, Zenon DEF Activate, Preflight, WriteRuntime, ClearNoexec, InstallDropin,
         MountNextroot, BuildSystem, ActivateSystem, WayBack, ArmEnter, RecordEntry,
         Commit
    <3>4. WayOut(p) => DeactivateBegin(p) \/ RecoverBegin(p)
      BY <3>1, NoEmergency, Zenon DEF WayOut, Deactivate, Recover, RecordInactive,
         EnqueueLeave, Unarm, RecoverLook, MountDecoyRoot, ArmLeave
    <3> QED
      BY <3>2, <3>3, <3>4, Zenon DEF Command, ActivateBegin, DeactivateBegin, RecoverBegin,
         Starts
  <2> QED BY <2>1, <2>2, Zenon
<1>2. CASE Activate(p)
  BY <1>1, <1>2, Zenon DEF Activate, ActivateBegin, Preflight, WriteRuntime, ClearNoexec,
     InstallDropin, MountNextroot, BuildSystem, ActivateSystem, WayBack, ArmEnter,
     RecordEntry, Commit, StartTarget
<1>3. CASE WayOut(p)
  BY <1>1, <1>3, NoEmergency, Zenon DEF WayOut, Deactivate, Recover, DeactivateBegin,
     RecordInactive, EnqueueLeave, Unarm, RecoverBegin, RecoverLook, MountDecoyRoot,
     ArmLeave, StartTarget
<1>4. CASE Undo(p)
  BY <1>1, <1>4, Zenon DEF Undo, UndoDetach, UndoUnits, UndoRuntime, UndoNoexec, UndoReload,
     UndoExit
<1> QED BY <1>1, <1>2, <1>3, <1>4, Zenon DEF Command

(* Only the transition step and a power cycle decide the place. *)
LEMMA PlaceChanges ==
  ASSUME Orderly, SafeInv, Next, Place' # Place
  PROVE  TransitionStep \/ PowerCycle
<1> USE DEF stage, Place
<1> SUFFICES ASSUME ~TransitionStep, ~PowerCycle PROVE FALSE
  BY Zenon
<1>1. ~Switch BY Zenon DEF Switch
<1>2. root' = root BY <1>1, RootChanges, Zenon
<1>3. ~\E p \in Proc : Command(p) BY <1>2, CommandPid1, Zenon
<1>4. UNCHANGED <<nextroot, pid1>>
  \/ (pid1 # "switch" /\ pid1' # "switch")
  BY <1>1, <1>3, Zenon DEF Next, Pid1, PowerOff, Cancel, Stopped, AllStopped, Reconcile,
     PlainSoftReboot, ArmLapses
<1> QED BY <1>2, <1>4, Zenon

(* The lifecycle implements the promise of module Session: every step of a
   command, of PID 1 and of the transition is an abstract Work, Enter or
   Leave, or changes nothing there. *)
THEOREM PromiseKept ==
  ASSUME Noting
  PROVE  Spec => KeepsPromise
<1> DEFINE Inv == TypeInv /\ SafeInv /\ PromiseInv
<1>1. MachineInit => S!SessionInit
  <2> SUFFICES ASSUME MachineInit PROVE S!SessionInit
    BY Zenon
  <2>1. Bare BY Zenon DEF MachineInit, Bare
  <2> QED BY <2>1, GearReads, Zenon DEF GearRead, MachineInit, S!SessionInit, Place
<1>2. Inv /\ Inv' /\ [Next]_vars => [S!SessionNext]_<<Place, Gear>>
  <2> SUFFICES ASSUME Inv, Inv', [Next]_vars PROVE [S!SessionNext]_<<Place, Gear>>
    BY Zenon
  <2>1. CASE UNCHANGED vars
    BY <2>1, Zenon DEF vars, stage, runtime, units, host, Place, Gear, Bare, Equipped,
       StepRuns
  <2>2. GearRead /\ GearFits BY GearReads, HiddenGear, Zenon
  <2>3. GearRead' /\ GearFits' BY GearReads, HiddenGear, PTL
  <2> USE DEF GearRead, GearFits
  <2>4. CASE Place' = Place
    BY <2>2, <2>3, <2>4, Zenon DEF S!SessionNext, S!Work, S!Gears
  <2>5. CASE Next /\ PowerCycle
    <3>1. Place' = "decoy" /\ Gear' = "bare" BY <2>3, <2>5, Zenon DEF PowerCycle, Place, Bare
    <3> QED BY <2>2, <2>3, <3>1, Zenon DEF S!SessionNext, S!Work, S!Leave, S!Gears
  <2>6. CASE TransitionStep /\ Place' # Place
    <3>1. /\ pid1 = "transition" /\ pid1' = "switch" /\ root' = root
          /\ nextroot' \in {nextroot, "none"}
      BY <2>6, Zenon DEF TransitionStep, EnterSession, LeaveSession, Disarm
    <3>2. nextroot' # "none" BY <2>6, <3>1, Zenon DEF Place
    <3>3. Equipped BY <3>1, <3>2, Zenon DEF SafeInv, Guarded
    <3>4. CASE Place = "decoy"
      <4>1. ~masks BY <3>1, <3>4, Zenon DEF Place, PromiseInv, Unmasked
      <4>2. Gear = "staged" BY <2>2, <3>3, <4>1, Zenon
      <4> QED BY <2>3, <2>6, <3>4, <4>2, Zenon DEF S!SessionNext, S!Enter
    <3>5. CASE Place = "hidden"
      <4>1. Place' = "decoy" BY <2>3, <2>6, <3>5, Zenon
      <4>2. Bare' BY <3>1, <3>2, <4>1, Zenon DEF Place, PromiseInv, Unmasked, Returning
      <4>3. Gear' = "bare" BY <2>3, <4>2, Zenon
      <4> QED BY <3>5, <4>1, <4>3, Zenon DEF S!SessionNext, S!Leave
    <3> QED BY <2>2, <3>4, <3>5, Zenon
  <2> QED BY <2>1, <2>4, <2>5, <2>6, PlaceChanges, Zenon DEF Noting
<1> QED BY <1>1, <1>2, Promise, PTL DEF Spec, KeepsPromise, S!SessionSpec
==============================================================================
