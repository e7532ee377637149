---------------------------- MODULE CleanProofs ----------------------------
(***************************************************************************)
(* What a session changes on the decoy is owed by a plan, and the decoy on *)
(* which nothing is under way has nothing of the session on it, for any    *)
(* number of activations and deactivations.                                *)
(***************************************************************************)
EXTENDS SafetyProofs

(* One command at a time, no emergency, and no --no-preflight. *)
Checking == Orderly /\ "skip" \notin Faults

USE MachineAssumption DEF FaultNames, CmdNames

(* Whoever changes the kernel's helper paths can pay them back: every plan says
   what the decoy's are, the plan is on disk while they are changed, and they are
   the decoy's again before it goes. *)
Paid(p) ==
    /\ mem[p] # NoPlan => mem[p].kernel = "decoy"
    /\ pc[p] = "preflight" => ~opt[p]
    /\ pc[p] = "runtime" => plan = NoPlan
    /\ pc[p] \in {"build", "activate"} => plan # NoPlan
    /\ pc[p] = "units" /\ mem[p] = NoPlan => kernel = "decoy"
    /\ pc[p] = "rtdir" => kernel = "decoy"
Owed == /\ kernel = "hidden" => plan # NoPlan
        /\ plan # NoPlan => plan.kernel = "decoy"
KernelInv == Owed /\ \A p \in Proc : Paid(p)

(* The booted decoy owes nothing. *)
LEMMA KernelInit == MachineInit => KernelInv
BY Zenon DEF MachineInit, KernelInv, Owed, Paid

(* A step of p leaves the others as they are. *)
Others(p) == \A q \in Proc \ {p} : pc'[q] = pc[q] /\ mem'[q] = mem[q]

(* Where nobody else runs, a step is good when it is good for p and the plan. *)
LEMMA OneOwes ==
  ASSUME KernelInv, NEW p \in Proc, \A q \in Proc \ {p} : ~Running(q), Others(p),
         Paid(p)', Owed'
  PROVE  KernelInv'
<1> SUFFICES ASSUME NEW q \in Proc \ {p} PROVE Paid(q)'
  BY Zenon DEF KernelInv
<1> QED BY DEF KernelInv, Others, Paid, Running

(* A command that exits owes nothing. *)
LEMMA ExitOwes ==
  ASSUME TypeInv, KernelInv, NEW p \in Proc, \A q \in Proc \ {p} : ~Running(q), Exit(p), Owed'
  PROVE  KernelInv'
<1>1. Others(p) /\ pc'[p] = "done" /\ mem'[p] = NoPlan
  BY Zenon DEF TypeInv, CommandsOK, Exit, Gone, Others
<1>2. Paid(p)' BY <1>1, Zenon DEF Paid
<1> QED BY <1>1, <1>2, OneOwes, Zenon

(* An activation starts with the pre-flight checks ahead of it. *)
LEMMA KernelBegin ==
  ASSUME Checking, TypeInv, SafeInv, KernelInv, NEW p \in Proc
  PROVE  ActivateBegin(p) => KernelInv'
<1> USE DEF TypeInv, stage, runtime, units, host, volume, local
<1>k. Paid(p) BY Zenon DEF KernelInv
<1>d. Owed BY Zenon DEF KernelInv
<1>1. ASSUME ActivateBegin(p) PROVE KernelInv'
  <2>1. \A q \in Proc : ~Running(q)
    BY <1>1, Zenon DEF ActivateBegin, Checking, Orderly, May, Calm
  <2>2. Others(p) BY <1>1, Zenon DEF ActivateBegin, Starts, Goto, Others, CommandsOK
  <2>3. Paid(p)'
    BY <1>1, <1>k DEF ActivateBegin, Starts, Goto, Paid, CommandsOK, Checking, May
  <2> QED BY <1>1, <1>d, <2>1, <2>2, <2>3, OneOwes, Zenon DEF ActivateBegin, Owed
<1> QED BY <1>1, Zenon

(* The plan is written with the decoy's paths and is on disk while they change. *)
LEMMA KernelBuild ==
  ASSUME TypeInv, SafeInv, KernelInv, NEW p \in Proc
  PROVE  Preflight(p) \/ WriteRuntime(p) \/ ClearNoexec(p) \/ InstallDropin(p) \/
         MountNextroot(p) \/ BuildSystem(p) \/ ActivateSystem(p) \/ WayBack(p) \/
         ArmEnter(p) \/ RecordEntry(p) \/ Commit(p) => KernelInv'
<1> USE DEF TypeInv, stage, runtime, units, host, volume, local
<1>k. Paid(p) BY Zenon DEF KernelInv
<1>d. Owed BY Zenon DEF KernelInv
<1>1. ASSUME Preflight(p) PROVE KernelInv'
  <2>r. Running(p) BY <1>1, Zenon DEF Preflight, Running
  <2>o. \A q \in Proc \ {p} : ~Running(q) BY <2>r, Solo, Zenon
  <2>s. Station(p) BY <2>r, Zenon DEF SafeInv
  <2>d. Owed'
    BY <1>1, <1>d, Zenon DEF Preflight, Owed
  <2>1. CASE Exit(p) BY <2>o, <2>d, <2>1, ExitOwes, Zenon
  <2>2. CASE ~Exit(p)
    <3>1. Others(p)
      BY <1>1, <2>2, Zenon DEF Preflight, Goto, Others, CommandsOK
    <3>2. Paid(p)'
      BY <1>1, <2>2, <1>k, <2>s DEF Preflight, Goto, View, ArmedFor, Paid, CommandsOK,
         Station, Building, Undoing
    <3> QED BY <2>o, <2>d, <3>1, <3>2, OneOwes, Zenon
  <2> QED BY <2>1, <2>2, Zenon
<1>2. ASSUME WriteRuntime(p) PROVE KernelInv'
  <2>r. Running(p) BY <1>2, Zenon DEF WriteRuntime, Running
  <2>o. \A q \in Proc \ {p} : ~Running(q) BY <2>r, Solo
  <2> DEFINE new == [owner |-> p, armed |-> "none", entered |-> FALSE,
                     noexec |-> noexec, kernel |-> kernel]
  <2>a. new \in Plan /\ new.kernel = kernel BY Zenon DEF HostOK, FlagsOK, Plan
  <2>b. \/ plan' = new /\ mem' = [mem EXCEPT ![p] = new] /\ StepOk(p, "noexec")
        \/ plan' = plan /\ mem' = mem /\ RollBack(p, Undone)
    BY <1>2, Zenon DEF WriteRuntime
  <2> HIDE DEF new
  <2>c. kernel = "decoy" /\ kernel' = kernel
    BY <1>2, <1>k, <1>d, Zenon DEF WriteRuntime, Paid, Owed, HostOK
  <2>1. Others(p) BY <1>2, <2>b, SMTT(30) DEF WriteRuntime, StepOk, Goto, RollBack, Others, CommandsOK
  <2>2. Paid(p)'
    BY <1>2, <1>k, <2>a, <2>b, <2>c DEF StepOk, Goto, RollBack, Paid, CommandsOK
  <2>3. Owed' BY <1>d, <2>a, <2>b, <2>c, Zenon DEF Owed
  <2> QED BY <2>o, <2>1, <2>2, <2>3, OneOwes, Zenon
<1>3. ASSUME ClearNoexec(p) PROVE KernelInv'
  <2>r. Running(p) BY <1>3, Zenon DEF ClearNoexec, Running
  <2>o. \A q \in Proc \ {p} : ~Running(q) BY <2>r, Solo
  <2>d. Owed'
    BY <1>3, <1>d, Zenon DEF ClearNoexec, Owed
  <2>1. Others(p)
    BY <1>3 DEF ClearNoexec, StepOk, Goto, RollBack, Others, CommandsOK
  <2>2. Paid(p)'
    BY <1>3, <1>k DEF ClearNoexec, StepOk, Goto, RollBack, Paid, CommandsOK
  <2> QED BY <2>o, <2>d, <2>1, <2>2, OneOwes
<1>4. ASSUME InstallDropin(p) PROVE KernelInv'
  <2>r. Running(p) BY <1>4, Zenon DEF InstallDropin, Running
  <2>o. \A q \in Proc \ {p} : ~Running(q) BY <2>r, Solo
  <2>d. Owed'
    BY <1>4, <1>d, Zenon DEF InstallDropin, Owed
  <2>1. Others(p)
    BY <1>4, Zenon DEF InstallDropin, Checked, StepOk, Goto, RollBack, Others, CommandsOK
  <2>2. Paid(p)'
    BY <1>4, <1>k, ZenonT(60) DEF InstallDropin, Checked, StepOk, Goto, RollBack, Paid, CommandsOK
  <2> QED BY <2>o, <2>d, <2>1, <2>2, OneOwes
<1>5. ASSUME MountNextroot(p) PROVE KernelInv'
  <2>r. Running(p) BY <1>5, Zenon DEF MountNextroot, Running
  <2>o. \A q \in Proc \ {p} : ~Running(q) BY <2>r, Solo
  <2>s. Station(p) BY <2>r DEF SafeInv
  <2>d. Owed'
    BY <1>5, <1>d, Zenon DEF MountNextroot, Owed
  <2>1. Others(p)
    BY <1>5, Zenon DEF MountNextroot, Checked, StepOk, Goto, RollBack, Others, CommandsOK
  <2>2. Paid(p)'
    BY <1>5, <1>k, <2>s, ZenonT(60) DEF MountNextroot, Checked, StepOk, Goto, RollBack, Paid,
       CommandsOK, Station, Building, Undoing
  <2> QED BY <2>o, <2>d, <2>1, <2>2, OneOwes
<1>6. ASSUME BuildSystem(p) PROVE KernelInv'
  <2>r. Running(p) BY <1>6, Zenon DEF BuildSystem, Running
  <2>o. \A q \in Proc \ {p} : ~Running(q) BY <2>r, Solo
  <2>d. Owed'
    BY <1>6, <1>d, Zenon DEF BuildSystem, Owed
  <2>1. Others(p)
    BY <1>6, Zenon DEF BuildSystem, Checked, StepOk, Goto, RollBack, Others, CommandsOK
  <2>2. Paid(p)'
    BY <1>6, <1>k DEF BuildSystem, Checked, StepOk, Goto, RollBack, Paid, CommandsOK
  <2> QED BY <2>o, <2>d, <2>1, <2>2, OneOwes
<1>7. ASSUME ActivateSystem(p) PROVE KernelInv'
  <2>r. Running(p) BY <1>7, Zenon DEF ActivateSystem, Running
  <2>o. \A q \in Proc \ {p} : ~Running(q) BY <2>r, Solo
  <2>1. Others(p)
    BY <1>7 DEF ActivateSystem, Checked, StepOk, Goto, RollBack, Others, CommandsOK
  <2>2. Paid(p)'
    BY <1>7, <1>k DEF ActivateSystem, Checked, StepOk, Goto, RollBack, Paid, CommandsOK
  <2>3. Owed' BY <1>7, <1>k, <1>d, Zenon DEF ActivateSystem, Paid, Owed
  <2> QED BY <2>o, <2>1, <2>2, <2>3, OneOwes
<1>8. ASSUME WayBack(p) PROVE KernelInv'
  <2>r. Running(p) BY <1>8, Zenon DEF WayBack, Running
  <2>o. \A q \in Proc \ {p} : ~Running(q) BY <2>r, Solo
  <2>d. Owed'
    BY <1>8, <1>d, Zenon DEF WayBack, Owed
  <2>1. Others(p)
    BY <1>8, Zenon DEF WayBack, Checked, StepOk, Goto, RollBack, Others, CommandsOK
  <2>2. Paid(p)'
    BY <1>8, <1>k DEF WayBack, Checked, StepOk, Goto, RollBack, Paid, CommandsOK
  <2> QED BY <2>o, <2>d, <2>1, <2>2, OneOwes
<1>9. ASSUME ArmEnter(p) PROVE KernelInv'
  <2>r. Running(p) BY <1>9, Zenon DEF ArmEnter, Running
  <2>o. \A q \in Proc \ {p} : ~Running(q) BY <2>r, Solo
  <2> DEFINE new == [mem[p] EXCEPT !.armed = "enter"]
  <2>a. new \in Plan /\ new.kernel = "decoy"
    BY <1>9, <1>k DEF ArmEnter, Paid, CommandsOK, PlanKept, PlanInMemory, Plan
  <2>b. plan' \in {plan, new} /\ mem'[p] \in {mem[p], new} BY <1>9, Zenon DEF ArmEnter, CommandsOK
  <2> HIDE DEF new
  <2>1. Others(p) BY <1>9 DEF ArmEnter, StepOk, Goto, RollBack, Others, CommandsOK
  <2>2. Paid(p)'
    BY <1>9, <1>k, <2>a, <2>b DEF ArmEnter, StepOk, Goto, RollBack, Paid, CommandsOK
  <2>3. Owed' BY <1>9, <1>d, <2>a, <2>b, Zenon DEF ArmEnter, Owed
  <2> QED BY <2>o, <2>1, <2>2, <2>3, OneOwes
<1>10. ASSUME RecordEntry(p) PROVE KernelInv'
  <2>r. Running(p) BY <1>10, Zenon DEF RecordEntry, Running
  <2>o. \A q \in Proc \ {p} : ~Running(q) BY <2>r, Solo
  <2>d. Owed'
    BY <1>10, <1>d, Zenon DEF RecordEntry, Owed
  <2>1. Others(p)
    BY <1>10 DEF RecordEntry, StepOk, Goto, RollBack, Others, CommandsOK
  <2>2. Paid(p)'
    BY <1>10, <1>k DEF RecordEntry, StepOk, Goto, RollBack, Paid, CommandsOK
  <2> QED BY <2>o, <2>d, <2>1, <2>2, OneOwes
<1>11. ASSUME Commit(p) PROVE KernelInv'
  <2>r. Running(p) BY <1>11, Zenon DEF Commit, Running
  <2>o. \A q \in Proc \ {p} : ~Running(q) BY <2>r, Solo
  <2>d. Owed'
    BY <1>11, <1>d, Zenon DEF Commit, Owed
  <2>1. CASE Exit(p) BY <2>o, <2>d, <2>1, ExitOwes, SMTT(30)
  <2>2. CASE ~Exit(p)
    <3>1. Others(p)
      BY <1>11, <2>2 DEF Commit, StartTarget, Goto, RollBack, Others, CommandsOK
    <3>2. Paid(p)'
      BY <1>11, <2>2, <1>k DEF Commit, StartTarget, Goto, RollBack, Paid, CommandsOK
    <3> QED BY <2>o, <2>d, <3>1, <3>2, OneOwes
  <2> QED BY <2>1, <2>2
<1> QED BY <1>1, <1>2, <1>3, <1>4, <1>5, <1>6, <1>7, <1>8, <1>9, <1>10, <1>11, Zenon

(* The rollback restores the paths before it removes the plan. *)
LEMMA KernelUndo ==
  ASSUME TypeInv, SafeInv, KernelInv, NEW p \in Proc
  PROVE  UndoDetach(p) \/ UndoUnits(p) \/ UndoRuntime(p) \/ UndoNoexec(p) \/
         UndoReload(p) \/ UndoExit(p) => KernelInv'
<1> USE DEF TypeInv, stage, runtime, units, host, volume, local
<1>k. Paid(p) BY DEF KernelInv
<1>d. Owed BY DEF KernelInv
<1>1. ASSUME UndoDetach(p) PROVE KernelInv'
  <2>r. Running(p) BY <1>1, Zenon DEF UndoDetach, Running
  <2>o. \A q \in Proc \ {p} : ~Running(q) BY <2>r, Solo
  <2>1. Others(p) BY <1>1 DEF UndoDetach, Goto, Others, CommandsOK
  <2>2. Paid(p)'
    <3>1. cmd[p] # "emergency" BY <2>r, Zenon DEF SafeInv, Station
    <3>2. mem'[p] = plan /\ pc'[p] = "units" /\ UNCHANGED <<plan, kernel>>
      BY <1>1, <3>1, Zenon DEF UndoDetach, Goto, CommandsOK
    <3> QED BY <1>d, <3>2, Zenon DEF Owed, Paid, HostOK
  <2> QED BY <1>1, <2>o, <1>d, <2>1, <2>2, OneOwes, Zenon DEF UndoDetach, Owed
<1>2. ASSUME UndoUnits(p) PROVE KernelInv'
  <2>r. Running(p) BY <1>2, Zenon DEF UndoUnits, Running
  <2>o. \A q \in Proc \ {p} : ~Running(q) BY <2>r, Solo
  <2>1. kernel' = "decoy" /\ UNCHANGED <<plan, mem>> /\ Goto(p, "rtdir")
    BY <1>2, <1>k, Zenon DEF UndoUnits, Paid
  <2>2. Others(p) BY <1>2, <2>1, Zenon DEF UndoUnits, Goto, Others, CommandsOK
  <2>3. Paid(p)' BY <1>k, <2>1 DEF Goto, Paid, CommandsOK
  <2>4. Owed' BY <1>d, <2>1, Zenon DEF Owed
  <2> QED BY <2>o, <2>2, <2>3, <2>4, OneOwes
<1>3. ASSUME UndoRuntime(p) PROVE KernelInv'
  <2>r. Running(p) BY <1>3, Zenon DEF UndoRuntime, Running
  <2>o. \A q \in Proc \ {p} : ~Running(q) BY <2>r, Solo
  <2>1. plan' = NoPlan /\ kernel' = "decoy" /\ mem' = mem
    BY <1>3, <1>k, Zenon DEF UndoRuntime, Paid
  <2>2. Others(p) BY <1>3 DEF UndoRuntime, Goto, Others, CommandsOK
  <2>3. Paid(p)'
    <3>1. pc'[p] \in {"enqueue", "finish"} BY <1>3, Zenon DEF UndoRuntime, Goto, CommandsOK
    <3> QED BY <1>k, <2>1, <3>1, Zenon DEF Paid
  <2>4. Owed' BY <2>1, Zenon DEF Owed
  <2> QED BY <2>o, <2>2, <2>3, <2>4, OneOwes
<1>4. ASSUME UndoNoexec(p) PROVE KernelInv'
  <2>r. Running(p) BY <1>4, Zenon DEF UndoNoexec, Running
  <2>o. \A q \in Proc \ {p} : ~Running(q) BY <2>r, Solo
  <2>d. Owed'
    BY <1>4, <1>d, Zenon DEF UndoNoexec, Owed
  <2>1. Others(p)
    BY <1>4, Zenon DEF UndoNoexec, Others, CommandsOK
  <2>2. Paid(p)'
    BY <1>4, <1>k, Zenon DEF UndoNoexec, Paid, CommandsOK
  <2> QED BY <2>o, <2>d, <2>1, <2>2, OneOwes
<1>5. ASSUME UndoReload(p) PROVE KernelInv'
  <2>r. Running(p) BY <1>5, Zenon DEF UndoReload, Running
  <2>o. \A q \in Proc \ {p} : ~Running(q) BY <2>r, Solo
  <2>d. Owed'
    BY <1>5, <1>d, Zenon DEF UndoReload, Owed
  <2>1. Others(p)
    BY <1>5, Zenon DEF UndoReload, Others, CommandsOK
  <2>2. Paid(p)'
    BY <1>5, <1>k, Zenon DEF UndoReload, Paid, CommandsOK
  <2> QED BY <2>o, <2>d, <2>1, <2>2, OneOwes
<1>6. ASSUME UndoExit(p) PROVE KernelInv'
  <2>r. Running(p) BY <1>6, Zenon DEF UndoExit, Running
  <2>o. \A q \in Proc \ {p} : ~Running(q) BY <2>r, Solo
  <2>d. Owed'
    BY <1>6, <1>d, Zenon DEF UndoExit, Owed
  <2> QED
    BY <1>6, <2>o, <2>d, ExitOwes, Zenon DEF UndoExit
<1> QED BY <1>1, <1>2, <1>3, <1>4, <1>5, <1>6, Zenon

(* The ways out only ever write back a plan they have read. *)
LEMMA KernelLeave ==
  ASSUME Checking, TypeInv, SafeInv, KernelInv, NEW p \in Proc
  PROVE  DeactivateBegin(p) \/ RecordInactive(p) \/ EnqueueLeave(p) \/ Unarm(p) \/
         RecoverBegin(p) \/ RecoverLook(p) \/ MountDecoyRoot(p) \/ ArmLeave(p) =>
         KernelInv'
<1> USE DEF TypeInv, stage, runtime, units, host, volume, local
<1>k. Paid(p) BY DEF KernelInv
<1>d. Owed BY DEF KernelInv
<1>1. ASSUME DeactivateBegin(p) PROVE KernelInv'
  <2>1. \A q \in Proc : ~Running(q)
    BY <1>1, Zenon DEF DeactivateBegin, Checking, Orderly, May, Calm
  <2>2. Others(p) BY <1>1 DEF DeactivateBegin, Starts, Goto, Others, CommandsOK
  <2>3. Paid(p)'
    BY <1>1, <1>d DEF DeactivateBegin, Starts, Goto, Paid, Owed, CommandsOK
  <2> QED BY <1>1, <1>d, <2>1, <2>2, <2>3, OneOwes, Zenon DEF DeactivateBegin, Owed
<1>2. ASSUME RecordInactive(p) PROVE KernelInv'
  <2>r. Running(p) BY <1>2, Zenon DEF RecordInactive, Running
  <2>o. \A q \in Proc \ {p} : ~Running(q) BY <2>r, Solo, Zenon
  <2>d. Owed'
    BY <1>2, <1>d, Zenon DEF RecordInactive, Owed
  <2>1. CASE Exit(p) BY <2>o, <2>d, <2>1, ExitOwes, Zenon
  <2>2. CASE ~Exit(p)
    <3>1. Others(p)
      BY <1>2, <2>2, SMTT(30) DEF RecordInactive, Goto, Others, CommandsOK
    <3>2. Paid(p)'
      BY <1>2, <2>2, <1>k DEF RecordInactive, Goto, Paid, CommandsOK
    <3> QED BY <2>o, <2>d, <3>1, <3>2, OneOwes, Zenon
  <2> QED BY <2>1, <2>2, Zenon
<1>3. ASSUME EnqueueLeave(p) PROVE KernelInv'
  <2>r. Running(p) BY <1>3, Zenon DEF EnqueueLeave, Running
  <2>o. \A q \in Proc \ {p} : ~Running(q) BY <2>r, Solo
  <2>d. Owed'
    BY <1>3, <1>d, Zenon DEF EnqueueLeave, Owed
  <2>1. CASE Exit(p) BY <2>o, <2>d, <2>1, ExitOwes
  <2>2. CASE ~Exit(p)
    <3>1. Others(p)
      BY <1>3, <2>2, SMTT(30) DEF EnqueueLeave, StartTarget, Goto, Others, CommandsOK
    <3>2. Paid(p)'
      BY <1>3, <2>2, <1>k DEF EnqueueLeave, StartTarget, Goto, Paid, CommandsOK
    <3> QED BY <2>o, <2>d, <3>1, <3>2, OneOwes, SMTT(30)
  <2> QED BY <2>1, <2>2
<1>4. ASSUME Unarm(p) PROVE KernelInv'
  <2>r. Running(p) BY <1>4, Zenon DEF Unarm, Running
  <2>o. \A q \in Proc \ {p} : ~Running(q) BY <2>r, Solo
  <2> DEFINE new == [mem[p] EXCEPT !.armed = "none"]
  <2>a. new \in Plan /\ new.kernel = "decoy"
    BY <1>4, <1>k DEF Unarm, Paid, CommandsOK, PlanKept, PlanInMemory, Plan
  <2>b. plan' \in {plan, new} /\ Exit(p) BY <1>4, Zenon DEF Unarm
  <2> HIDE DEF new
  <2>1. Owed' BY <1>4, <1>d, <2>a, <2>b, Zenon DEF Unarm, Owed
  <2> QED BY <2>o, <2>b, <2>1, ExitOwes, Zenon
<1>5. ASSUME RecoverBegin(p) PROVE KernelInv'
  <2>1. \A q \in Proc : ~Running(q)
    BY <1>5, Zenon DEF RecoverBegin, Checking, Orderly, May, Calm
  <2>2. Others(p) BY <1>5 DEF RecoverBegin, Starts, Goto, Others, CommandsOK
  <2>3. Paid(p)'
    BY <1>5, <1>k, Zenon DEF RecoverBegin, Starts, Goto, Paid, CommandsOK, Checking, May
  <2> QED BY <1>5, <1>d, <2>1, <2>2, <2>3, OneOwes, Zenon DEF RecoverBegin, Owed
<1>6. ASSUME RecoverLook(p) PROVE KernelInv'
  <2>r. Running(p) BY <1>6, Zenon DEF RecoverLook, Running
  <2>o. \A q \in Proc \ {p} : ~Running(q) BY <2>r, Solo
  <2>d. Owed'
    BY <1>6, <1>d, Zenon DEF RecoverLook, Owed
  <2>1. CASE Exit(p) BY <2>o, <2>d, <2>1, ExitOwes
  <2>2. CASE ~Exit(p)
    <3>1. Others(p)
      BY <1>6, <2>2, SMTT(30) DEF RecoverLook, RollBack, Goto, OwnerAlive, Others, CommandsOK
    <3>2. Paid(p)'
      BY <1>6, <2>2, <1>k DEF RecoverLook, RollBack, Goto, View, ArmedFor, OwnerAlive, Paid,
         CommandsOK
    <3> QED BY <2>o, <2>d, <3>1, <3>2, OneOwes
  <2> QED BY <2>1, <2>2
<1>7. ASSUME MountDecoyRoot(p) PROVE KernelInv'
  <2>r. Running(p) BY <1>7, Zenon DEF MountDecoyRoot, Running
  <2>o. \A q \in Proc \ {p} : ~Running(q) BY <2>r, Solo
  <2>d. Owed'
    BY <1>7, <1>d, Zenon DEF MountDecoyRoot, Owed
  <2>1. CASE Exit(p) BY <2>o, <2>d, <2>1, ExitOwes
  <2>2. CASE ~Exit(p)
    <3>1. Others(p)
      BY <1>7, <2>2, SMTT(30) DEF MountDecoyRoot, Goto, Others, CommandsOK
    <3>2. Paid(p)'
      BY <1>7, <2>2, <1>k DEF MountDecoyRoot, Goto, Paid, CommandsOK
    <3> QED BY <2>o, <2>d, <3>1, <3>2, OneOwes
  <2> QED BY <2>1, <2>2
<1>8. ASSUME ArmLeave(p) PROVE KernelInv'
  <2>r. Running(p) BY <1>8, Zenon DEF ArmLeave, Running
  <2>o. \A q \in Proc \ {p} : ~Running(q) BY <2>r, Solo
  <2> DEFINE new == [mem[p] EXCEPT !.armed = "leave"]
  <2>a. new \in Plan /\ new.kernel = "decoy"
    BY <1>8, <1>k DEF ArmLeave, Paid, CommandsOK, PlanKept, PlanInMemory, Plan
  <2>b. plan' \in {plan, new} /\ mem'[p] = new BY <1>8, Zenon DEF ArmLeave, CommandsOK
  <2> HIDE DEF new
  <2>1. Others(p) /\ \E l \in {"enqueue", "unarm"} : Goto(p, l)
    BY <1>8 DEF ArmLeave, Goto, Others, CommandsOK
  <2>2. Paid(p)' BY <2>a, <2>b, <2>1, Zenon DEF Goto, Paid, CommandsOK
  <2>3. Owed' BY <1>8, <1>d, <2>a, <2>b, Zenon DEF ArmLeave, Owed
  <2> QED BY <2>o, <2>1, <2>2, <2>3, OneOwes, Zenon
<1> QED BY <1>1, <1>2, <1>3, <1>4, <1>5, <1>6, <1>7, <1>8, Zenon

(* PID 1 gives the paths back with everything else, or with nothing; what ends
   commands leaves the plan. *)
LEMMA KernelRest ==
  ASSUME TypeInv, SafeInv, KernelInv
  PROVE  /\ PowerOff \/ Pid1 \/ PlainSoftReboot \/ ArmLapses => KernelInv'
         /\ \A p \in Proc : Cancel(p) \/ Stopped(p) => KernelInv'
<1> USE DEF TypeInv, stage, runtime, units, host, volume, local
<1>d. Owed BY Zenon DEF KernelInv
<1>k. \A q \in Proc : Paid(q) BY Zenon DEF KernelInv
<1>1. ASSUME PowerCycle PROVE KernelInv'
  <2>1. \A q \in Proc : pc'[q] \in {"idle", "done"} /\ mem'[q] \in {NoPlan, mem[q]}
    BY <1>1, Zenon DEF PowerCycle, Gone, Running, CommandsOK
  <2> QED BY <1>1, <1>k, <2>1 DEF PowerCycle, KernelInv, Owed, Paid
<1>2. ASSUME TransitionStep PROVE KernelInv'
  <2>1. \A q \in Proc : ~Running(q) BY <1>2, Zenon DEF TransitionStep, SafeInv, Station
  <2>2. Owed'
    <3> DEFINE in == [plan EXCEPT !.armed = "none", !.entered = TRUE]
    <3>1. plan # NoPlan => in \in Plan /\ in.kernel = plan.kernel BY Zenon DEF HostOK, Plan
    <3>2. \/ plan' = NoPlan /\ plan # NoPlan /\ kernel' = plan.kernel
          \/ plan' = plan /\ kernel' = kernel
          \/ plan # NoPlan /\ plan' = in /\ kernel' = kernel
      BY <1>2, Zenon DEF TransitionStep, EnterSession, LeaveSession, Disarm, GiveBack
    <3> HIDE DEF in
    <3> QED BY <1>d, <3>1, <3>2, Zenon DEF Owed
  <2> QED BY <1>2, <1>k, <2>1, <2>2, Zenon DEF TransitionStep, KernelInv, Paid, Running
<1>3. ASSUME ArmLapses PROVE KernelInv'
  <2> DEFINE new == [plan EXCEPT !.armed = "lapsed"]
  <2>1. plan # NoPlan /\ plan' = new /\ new \in Plan /\ new.kernel = plan.kernel
    BY <1>3, Zenon DEF ArmLapses, HostOK, Plan
  <2> HIDE DEF new
  <2> QED BY <1>3, <1>d, <1>k, <2>1 DEF ArmLapses, KernelInv, Owed, Paid
<1>4. ASSUME AllStopped \/ Switch \/ Reconcile \/ PlainSoftReboot PROVE KernelInv'
  BY <1>4, <1>d, <1>k DEF AllStopped, Switch, Reconcile, PlainSoftReboot, KernelInv,
     Owed, Paid
<1>5. ASSUME NEW p \in Proc, Cancel(p) PROVE KernelInv'
  BY <1>5, <1>d, <1>k, Zenon DEF Cancel, KernelInv, Owed, Paid
<1>6. ASSUME NEW p \in Proc, Stopped(p) PROVE KernelInv'
  <2>1. \A q \in Proc \ {p} : ~Running(q) BY <1>6, Solo, Zenon DEF Stopped
  <2> QED BY <1>6, <1>d, <2>1, ExitOwes, Zenon DEF Stopped, Owed
<1> QED BY <1>1, <1>2, <1>3, <1>4, <1>5, <1>6, Zenon DEF Pid1, PowerOff

(* KernelInv is inductive relative to the invariants before it. *)
LEMMA KernelStep ==
  ASSUME Checking
  PROVE  TypeInv /\ SafeInv /\ KernelInv /\ [Next]_vars => KernelInv'
<1> SUFFICES ASSUME TypeInv, SafeInv, KernelInv, [Next]_vars PROVE KernelInv'
  BY Zenon
<1>1. CASE UNCHANGED vars
  BY <1>1, Zenon DEF vars, runtime, host, local, KernelInv, Owed, Paid
<1>2. ASSUME NEW p \in Proc, Command(p) PROVE KernelInv'
  BY <1>2, NoEmergency, KernelBegin, KernelBuild, KernelUndo, KernelLeave, Zenon DEF Checking,
     Command, Activate, Undo, WayOut, Deactivate, Recover
<1>3. CASE Next BY <1>2, <1>3, KernelRest, Zenon DEF Next
<1> QED BY <1>1, <1>3, Zenon

(* For any number of commands that respect the lock and run the pre-flight
   checks, and under every other fault: whenever the kernel's helper paths point
   into the hidden store on the decoy, the plan on disk has the decoy's
   (entry::build records them before anything changes them, entry::rollback and
   transition::run restore them before the plan goes). *)
THEOREM KernelPaidBack ==
  ASSUME Checking
  PROVE  Spec => []KernelOwed
<1>1. KernelInv => KernelOwed BY Zenon DEF KernelInv, Owed, KernelOwed
<1> QED BY <1>1, KernelInit, KernelStep, Safe, PTL DEF Spec, Checking

------------------------------------------------------------------------------
(* One activation or deactivation at a time, with its pre-flight checks, that
   nobody kills and no soft-reboot of somebody else stops. *)
Settling == Checking /\ Cmds \subseteq {"activate", "deactivate"} /\ {"kill", "plain"} \cap Faults = {}

(* Nothing but the runtime directory is changed on the decoy. *)
Unset == ~dropin /\ ~masks /\ noexec = RunNoexec
(* What a command leaves to do where it is: the rollback removes what the plan
   stands for before the plan, and has noexec still to restore. *)
Tidy(p) ==
    /\ mem[p] # NoPlan => mem[p].noexec = RunNoexec
    /\ pc[p] # "look"
    /\ pc[p] \in (Building \ {"preflight"}) \cup Undoing => pid1 = "up"
    /\ pc[p] = "preflight" => ~opt[p] /\ (plan = NoPlan => Unset /\ ~rtdir)
    /\ pc[p] = "runtime" => Unset /\ ~rtdir /\ plan = NoPlan
    /\ pc[p] \in Building \ {"preflight", "runtime"} => plan # NoPlan
    /\ pc[p] \in {"undo", "units", "rtdir"} => "noexec" \in todo[p]
    /\ pc[p] = "undo" /\ plan = NoPlan => Unset
    /\ pc[p] = "units" /\ mem[p] = NoPlan => Unset
    /\ pc[p] = "rtdir" => ~dropin /\ ~masks /\ (mem[p] = NoPlan => Unset)
    /\ pc[p] = "finish" => Bare /\ (noexec = RunNoexec \/ ("noexec" \in todo[p] /\ mem[p] # NoPlan))
(* The plan says what /run was; PID 1 stops nobody who has work to undo. *)
Known ==
    /\ noexec => RunNoexec
    /\ plan # NoPlan => plan.noexec = RunNoexec
    /\ fixup \in {"none", IF RunNoexec THEN "noexec" ELSE "plain"}
    /\ root = "decoy" /\ pid1 \in {"soft", "off"} => plan # NoPlan
(* With nobody at work, a machine without a plan has nothing of a session. *)
AtRest == plan = NoPlan /\ (\A p \in Proc : ~Running(p))
             => Bare /\ (noexec = RunNoexec \/ fixup # "none")
CleanInv == Known /\ AtRest /\ \A p \in Proc : Tidy(p)

(* The booted decoy is clean. *)
LEMMA CleanInit == MachineInit => CleanInv
<1> SUFFICES ASSUME MachineInit PROVE CleanInv BY Zenon
<1>1. ASSUME NEW p \in Proc PROVE Tidy(p) BY Zenon DEF MachineInit, Tidy, Building, Undoing
<1>2. Known BY Zenon DEF MachineInit, Known
<1>3. AtRest BY Zenon DEF MachineInit, AtRest, Bare
<1> QED BY <1>1, <1>2, <1>3, Zenon DEF CleanInv

(* Where nobody else runs, a step is good when it is good for p and the machine. *)
LEMMA OneTidy ==
  ASSUME CleanInv, NEW p \in Proc, \A q \in Proc \ {p} : ~Running(q), Others(p),
         Tidy(p)', Known', AtRest'
  PROVE  CleanInv'
<1> SUFFICES ASSUME NEW q \in Proc \ {p} PROVE Tidy(q)'
  BY Zenon DEF CleanInv
<1>1. ~Running(q) /\ Tidy(q) BY Zenon DEF CleanInv
<1> QED BY <1>1, Zenon DEF Others, Tidy, Running, Building, Undoing

(* A command that exits leaves a clean decoy, or a plan. *)
LEMMA ExitTidy ==
  ASSUME TypeInv, CleanInv, NEW p \in Proc, \A q \in Proc \ {p} : ~Running(q), Exit(p),
         Known', plan' = NoPlan => Bare' /\ noexec' = RunNoexec
  PROVE  CleanInv'
<1>1. Others(p) /\ pc'[p] = "done" /\ mem'[p] = NoPlan
  BY Zenon DEF TypeInv, CommandsOK, Exit, Gone, Others
<1>2. Tidy(p)' BY <1>1, Zenon DEF Tidy, Building, Undoing
<1>3. AtRest' BY Zenon DEF AtRest
<1> QED BY <1>1, <1>2, <1>3, OneTidy, Zenon

(* A command starts when nobody else works. *)
LEMMA CleanBegin ==
  ASSUME Settling, TypeInv, SafeInv, CleanInv, NEW p \in Proc
  PROVE  ActivateBegin(p) \/ DeactivateBegin(p) \/ RecoverBegin(p) => CleanInv'
<1> USE DEF TypeInv, stage, runtime, units, host, volume, local
<1>k. Tidy(p) BY Zenon DEF CleanInv
<1>h. Known BY Zenon DEF CleanInv
<1>a. AtRest BY Zenon DEF CleanInv
<1>1. ASSUME ActivateBegin(p) PROVE CleanInv'
  <2>1. (\A q \in Proc : ~Running(q)) /\ fixup = "none"
    BY <1>1, Zenon DEF ActivateBegin, Settling, Checking, Orderly, May, Calm
  <2>2. Others(p) BY <1>1, Zenon DEF ActivateBegin, Starts, Goto, Others, CommandsOK
  <2>3. pc'[p] = "preflight" /\ ~opt'[p]
    BY <1>1 DEF ActivateBegin, Starts, Goto, CommandsOK, Settling, Checking, May
  <2>4. Tidy(p)'
    BY <1>1, <1>k, <1>a, <2>1, <2>3, Zenon
        DEF ActivateBegin, Tidy, AtRest, Bare, Unset, Building,
       Undoing
  <2>5. Known' /\ AtRest' BY <1>1, <1>h, <2>3, Zenon
      DEF ActivateBegin, Known, AtRest, Running
  <2> QED BY <2>1, <2>2, <2>4, <2>5, OneTidy, Zenon
<1>2. ASSUME DeactivateBegin(p) PROVE CleanInv'
  <2>1. (\A q \in Proc : ~Running(q)) /\ fixup = "none"
    BY <1>2, Zenon DEF DeactivateBegin, Settling, Checking, Orderly, May, Calm
  <2>2. Others(p) BY <1>2 DEF DeactivateBegin, Starts, Goto, Others, CommandsOK
  <2>3. pc'[p] = "inactive" /\ mem'[p] = plan
    BY <1>2 DEF DeactivateBegin, Starts, Goto, CommandsOK
  <2>4. Tidy(p)'
    BY <1>2, <1>h, <2>3, Zenon DEF DeactivateBegin, Tidy, Known, Building, Undoing
  <2>5. Known' /\ AtRest' BY <1>2, <1>h, <2>3, Zenon DEF DeactivateBegin, Known, AtRest, Running
  <2> QED BY <2>1, <2>2, <2>4, <2>5, OneTidy
<1>3. ASSUME RecoverBegin(p) PROVE CleanInv'
  BY <1>3 DEF RecoverBegin, Starts, Settling
<1> QED BY <1>1, <1>2, <1>3, Zenon

(* An activation goes on only from a clean decoy, and has its plan on disk from
   the first change to the last. *)
LEMMA CleanBuild ==
  ASSUME TypeInv, SafeInv, CleanInv, NEW p \in Proc
  PROVE  Preflight(p) \/ WriteRuntime(p) \/ ClearNoexec(p) \/ InstallDropin(p) \/
         MountNextroot(p) \/ BuildSystem(p) \/ ActivateSystem(p) \/ WayBack(p) \/
         ArmEnter(p) \/ RecordEntry(p) \/ Commit(p) => CleanInv'
<1> USE DEF TypeInv, stage, runtime, units, host, volume, local
<1>k. Tidy(p) BY Zenon DEF CleanInv
<1>h. Known BY Zenon DEF CleanInv
<1>1. ASSUME Preflight(p) PROVE CleanInv'
  <2>r. Running(p) BY <1>1, Zenon DEF Preflight, Running
  <2>o. \A q \in Proc \ {p} : ~Running(q) BY <2>r, Solo
  <2>1. Known' BY <1>1, <1>h, Zenon DEF Preflight, Known
  <2>2. CASE Exit(p)
    BY <1>1, <1>k, <2>o, <2>1, <2>2, ExitTidy, Zenon DEF Preflight, Tidy, Unset, Bare
  <2>3. CASE ~Exit(p)
    <3>1. View = "decoy" /\ Goto(p, "runtime") /\ UNCHANGED local
      BY <1>1, <1>k, <2>3, Zenon DEF Preflight, Tidy
    <3>2. root = "decoy" /\ plan = NoPlan /\ pid1 = "up"
      BY <1>1, <1>h, <2>r, <3>1, Zenon DEF Preflight, View, Known, SafeInv, Station, HostOK,
         Building
    <3>3. Others(p) BY <3>1, Zenon DEF Goto, Others, CommandsOK
    <3>4. Tidy(p)'
      BY <1>1, <1>k, <3>1, <3>2, Zenon DEF Preflight, Tidy, Unset, Goto, CommandsOK, Building,
         Undoing
    <3>5. AtRest' BY <3>1 DEF AtRest, Running, Goto, CommandsOK
    <3> QED BY <2>o, <2>1, <3>3, <3>4, <3>5, OneTidy, Zenon
  <2> QED BY <2>2, <2>3
<1>2. ASSUME WriteRuntime(p) PROVE CleanInv'
  <2>r. Running(p) BY <1>2, Zenon DEF WriteRuntime, Running
  <2>o. \A q \in Proc \ {p} : ~Running(q) BY <2>r, Solo
  <2> DEFINE new == [owner |-> p, armed |-> "none", entered |-> FALSE,
                     noexec |-> noexec, kernel |-> kernel]
  <2>a. new \in Plan /\ new.noexec = noexec BY Zenon DEF HostOK, FlagsOK, Plan
  <2>b. \/ plan' = new /\ mem' = [mem EXCEPT ![p] = new] /\ StepOk(p, "noexec")
        \/ plan' = plan /\ mem' = mem /\ RollBack(p, Undone)
    BY <1>2, Zenon DEF WriteRuntime
  <2> HIDE DEF new
  <2>c. Unset /\ plan = NoPlan /\ pid1 = "up"
    BY <1>2, <1>k, Zenon DEF WriteRuntime, Tidy, Building
  <2>1. Others(p) BY <1>2, <2>b, ZenonT(60)
      DEF WriteRuntime, StepOk, Goto, RollBack, Others, CommandsOK
  <2>d. UNCHANGED <<units, host, pid1>> BY <1>2, Zenon DEF WriteRuntime
  <2>e. \/ pc'[p] = "noexec" /\ mem'[p] = new /\ plan' = new
        \/ pc'[p] = "undo" /\ mem'[p] = mem[p] /\ plan' = NoPlan /\ "noexec" \in todo'[p]
    BY <2>b, <2>c DEF StepOk, Goto, RollBack, Undone, CommandsOK
  <2>2. Tidy(p)' BY <1>k, <2>a, <2>c, <2>d, <2>e, Zenon DEF Tidy, Unset, Building, Undoing
  <2>3. Known' BY <1>2, <1>h, <2>a, <2>b, <2>c, Zenon DEF WriteRuntime, Known, Unset
  <2>4. AtRest'
    BY <2>b, ZenonT(60) DEF AtRest, Running, StepOk, RollBack, Goto, CommandsOK
  <2> QED BY <2>o, <2>1, <2>2, <2>3, <2>4, OneTidy, Zenon
<1>3. ASSUME ClearNoexec(p) PROVE CleanInv'
  <2>r. Running(p) BY <1>3, Zenon DEF ClearNoexec, Running
  <2>o. \A q \in Proc \ {p} : ~Running(q) BY <2>r, Solo
  <2>1. plan # NoPlan /\ plan' = plan BY <1>3, <1>k, Zenon DEF ClearNoexec, Tidy, Building
  <2>2. Others(p)
    BY <1>3, Zenon DEF ClearNoexec, StepOk, Goto, RollBack, Others, CommandsOK
  <2>3. Tidy(p)'
    BY <1>3, <1>k DEF ClearNoexec, StepOk, Goto, RollBack, Undone, Tidy, CommandsOK,
       Building, Undoing
  <2>a. noexec' => noexec BY <1>3, Zenon DEF ClearNoexec
  <2>b. fixup' = fixup /\ root' = root /\ pid1' = pid1 BY <1>3, Zenon DEF ClearNoexec
  <2>4. Known' BY <1>h, <2>1, <2>a, <2>b, Zenon DEF Known
  <2>5. AtRest' BY <2>1, Zenon DEF AtRest
  <2> QED BY <2>o, <2>2, <2>3, <2>4, <2>5, OneTidy
<1>4. ASSUME InstallDropin(p) PROVE CleanInv'
  <2>r. Running(p) BY <1>4, Zenon DEF InstallDropin, Running
  <2>o. \A q \in Proc \ {p} : ~Running(q) BY <2>r, Solo
  <2>1. plan # NoPlan /\ plan' = plan BY <1>4, <1>k, Zenon DEF InstallDropin, Tidy, Building
  <2>2. Others(p)
    BY <1>4, ZenonT(60) DEF InstallDropin, Checked, StepOk, Goto, RollBack, Others, CommandsOK
  <2>3. Tidy(p)'
    <3>1. \/ StepOk(p, "mount")
          \/ RollBack(p, Reloaded)
          \/ RollBack(p, Undone)
      BY <1>4, Zenon DEF InstallDropin, Checked
    <3>2. UNCHANGED <<pid1, plan, mem, opt>> /\ pc[p] = "dropin"
      BY <1>4, Zenon DEF InstallDropin, stage, runtime
    <3> QED BY <1>k, <2>1, <3>1, <3>2 DEF StepOk, Goto, RollBack, Undone, Reloaded, Tidy,
       CommandsOK, Building, Undoing
  <2>4. Known' BY <1>4, <1>h, <2>1, Zenon DEF InstallDropin, Known
  <2>5. AtRest' BY <2>1, SMTT(30) DEF AtRest
  <2> QED BY <2>o, <2>2, <2>3, <2>4, <2>5, OneTidy
<1>5. ASSUME MountNextroot(p) PROVE CleanInv'
  <2>r. Running(p) BY <1>5, Zenon DEF MountNextroot, Running
  <2>o. \A q \in Proc \ {p} : ~Running(q) BY <2>r, Solo
  <2>1. plan # NoPlan /\ plan' = plan BY <1>5, <1>k, Zenon DEF MountNextroot, Tidy, Building
  <2>2. Others(p)
    BY <1>5, Zenon DEF MountNextroot, Checked, StepOk, Goto, RollBack, Others, CommandsOK
  <2>a. \/ Goto(p, "build") \/ Goto(p, "wayback")
        \/ Goto(p, "undo") /\ todo' = [todo EXCEPT ![p] = Reloaded]
    BY <1>5, Zenon DEF MountNextroot, Checked, StepOk, RollBack
  <2>b. pc[p] = "mount" /\ UNCHANGED <<pid1, mem>> BY <1>5, Zenon DEF MountNextroot
  <2>c. /\ pc'[p] \in {"build", "wayback", "undo"}
        /\ pc'[p] = "undo" => "noexec" \in todo'[p]
    BY <2>a DEF Goto, CommandsOK, Reloaded
  <2>3. Tidy(p)' BY <1>k, <2>1, <2>b, <2>c, Zenon DEF Tidy, Building, Undoing
  <2>4. Known' BY <1>5, <1>h, <2>1, ZenonT(60) DEF MountNextroot, Known
  <2>5. AtRest' BY <2>1 DEF AtRest
  <2> QED BY <2>o, <2>2, <2>3, <2>4, <2>5, OneTidy
<1>6. ASSUME BuildSystem(p) PROVE CleanInv'
  <2>r. Running(p) BY <1>6, Zenon DEF BuildSystem, Running
  <2>o. \A q \in Proc \ {p} : ~Running(q) BY <2>r, Solo
  <2>1. plan # NoPlan /\ plan' = plan BY <1>6, <1>k, Zenon DEF BuildSystem, Tidy, Building
  <2>2. Others(p)
    BY <1>6, ZenonT(60) DEF BuildSystem, Checked, StepOk, Goto, RollBack, Others, CommandsOK
  <2>3. Tidy(p)'
    BY <1>6, <1>k DEF BuildSystem, Checked, StepOk, Goto, RollBack, Reloaded, Tidy,
       CommandsOK, Building, Undoing
  <2>4. Known' BY <1>6, <1>h, <2>1, Zenon DEF BuildSystem, Known
  <2>5. AtRest' BY <2>1 DEF AtRest
  <2> QED BY <2>o, <2>2, <2>3, <2>4, <2>5, OneTidy
<1>7. ASSUME ActivateSystem(p) PROVE CleanInv'
  <2>r. Running(p) BY <1>7, Zenon DEF ActivateSystem, Running
  <2>o. \A q \in Proc \ {p} : ~Running(q) BY <2>r, Solo
  <2>1. plan # NoPlan /\ plan' = plan BY <1>7, <1>k, Zenon DEF ActivateSystem, Tidy, Building
  <2>2. Others(p)
    BY <1>7, SMTT(30) DEF ActivateSystem, Checked, StepOk, Goto, RollBack, Others, CommandsOK
  <2>3. Tidy(p)'
    BY <1>7, <1>k DEF ActivateSystem, Checked, StepOk, Goto, RollBack, Reloaded, Tidy,
       CommandsOK, Building, Undoing
  <2>4. Known' BY <1>7, <1>h, <2>1, ZenonT(60) DEF ActivateSystem, Known
  <2>5. AtRest' BY <2>1 DEF AtRest
  <2> QED BY <2>o, <2>2, <2>3, <2>4, <2>5, OneTidy
<1>8. ASSUME WayBack(p) PROVE CleanInv'
  <2>r. Running(p) BY <1>8, Zenon DEF WayBack, Running
  <2>o. \A q \in Proc \ {p} : ~Running(q) BY <2>r, Solo
  <2>1. plan # NoPlan /\ plan' = plan BY <1>8, <1>k, Zenon DEF WayBack, Tidy, Building
  <2>2. Others(p)
    BY <1>8, ZenonT(60) DEF WayBack, Checked, StepOk, Goto, RollBack, Others, CommandsOK
  <2>3. Tidy(p)'
    BY <1>8, <1>k DEF WayBack, Checked, StepOk, Goto, RollBack, Reloaded, Tidy, CommandsOK,
       Building, Undoing
  <2>4. Known' BY <1>8, <1>h, <2>1, Zenon DEF WayBack, Known
  <2>5. AtRest' BY <2>1 DEF AtRest
  <2> QED BY <2>o, <2>2, <2>3, <2>4, <2>5, OneTidy
<1>9. ASSUME ArmEnter(p) PROVE CleanInv'
  <2>r. Running(p) BY <1>9, Zenon DEF ArmEnter, Running
  <2>o. \A q \in Proc \ {p} : ~Running(q) BY <2>r, Solo
  <2> DEFINE new == [mem[p] EXCEPT !.armed = "enter"]
  <2>a. new \in Plan /\ new.noexec = RunNoexec
    BY <1>9, <1>k DEF ArmEnter, Tidy, CommandsOK, PlanKept, PlanInMemory, Plan
  <2>b. plan' \in {plan, new} /\ mem'[p] \in {mem[p], new} BY <1>9 DEF ArmEnter, CommandsOK
  <2> HIDE DEF new
  <2>1. Others(p) /\ \E l \in {"record", "undo"} : Goto(p, l)
    BY <1>9, SMTT(30) DEF ArmEnter, StepOk, Goto, RollBack, Others, CommandsOK
  <2>2. Tidy(p)'
    BY <1>9, <1>k, <2>a, <2>b, SMTT(30) DEF ArmEnter, StepOk, Goto, RollBack, Reloaded, Tidy,
       CommandsOK, Building, Undoing
  <2>3. Known' BY <1>9, <1>h, <2>a, <2>b, Zenon DEF ArmEnter, Known
  <2>4. AtRest' BY <2>1, SMTT(30) DEF AtRest, Running, Goto, CommandsOK
  <2> QED BY <2>o, <2>1, <2>2, <2>3, <2>4, OneTidy, ZenonT(60)
<1>10. ASSUME RecordEntry(p) PROVE CleanInv'
  <2>r. Running(p) BY <1>10, Zenon DEF RecordEntry, Running
  <2>o. \A q \in Proc \ {p} : ~Running(q) BY <2>r, Solo
  <2>1. plan # NoPlan /\ plan' = plan BY <1>10, <1>k, Zenon DEF RecordEntry, Tidy, Building
  <2>2. Others(p)
    BY <1>10, SMTT(30) DEF RecordEntry, StepOk, Goto, RollBack, Others, CommandsOK
  <2>3. Tidy(p)'
    BY <1>10, <1>k DEF RecordEntry, StepOk, Goto, RollBack, Reloaded, Tidy, CommandsOK,
       Building, Undoing
  <2>4. Known' BY <1>10, <1>h, <2>1, Zenon DEF RecordEntry, Known
  <2>5. AtRest' BY <2>1 DEF AtRest
  <2> QED BY <2>o, <2>2, <2>3, <2>4, <2>5, OneTidy
<1>11. ASSUME Commit(p) PROVE CleanInv'
  <2>r. Running(p) BY <1>11, Zenon DEF Commit, Running
  <2>o. \A q \in Proc \ {p} : ~Running(q) BY <2>r, Solo
  <2>1. pid1 = "up" /\ plan # NoPlan BY <1>11, <1>k, Zenon DEF Commit, Tidy, Building
  <2>2. Known' BY <1>11, <1>h, <2>1, Zenon DEF Commit, Known
  <2>3. CASE Exit(p) BY <1>11, <2>o, <2>1, <2>2, <2>3, ExitTidy, Zenon DEF Commit
  <2>4. CASE ~Exit(p)
    <3>1. pid1' = "up" /\ RollBack(p, Unrecorded) /\ UNCHANGED mem
      BY <1>11, <2>1, <2>4, Zenon DEF Commit, StartTarget
    <3>2. Others(p) BY <3>1, Zenon DEF RollBack, Goto, Others, CommandsOK
    <3>3. Tidy(p)'
      BY <1>11, <1>k, <2>1, <3>1, SMTT(30) DEF Commit, RollBack, Unrecorded, Goto, Tidy, CommandsOK,
         Building, Undoing
    <3>4. AtRest' BY <1>11, <2>1 DEF Commit, AtRest
    <3> QED BY <2>o, <2>2, <3>2, <3>3, <3>4, OneTidy, SMTT(30)
  <2> QED BY <2>3, <2>4
<1> QED BY <1>1, <1>2, <1>3, <1>4, <1>5, <1>6, <1>7, <1>8, <1>9, <1>10, <1>11, SMTT(30)

(* The rollback leaves nothing: units before the plan, noexec after it. *)
LEMMA CleanUndo ==
  ASSUME TypeInv, SafeInv, CleanInv, NEW p \in Proc
  PROVE  UndoDetach(p) \/ UndoUnits(p) \/ UndoRuntime(p) \/ UndoNoexec(p) \/
         UndoReload(p) \/ UndoExit(p) => CleanInv'
<1> USE DEF TypeInv, stage, runtime, units, host, volume, local
<1>k. Tidy(p) BY DEF CleanInv
<1>h. Known BY SMTT(30) DEF CleanInv
<1>1. ASSUME UndoDetach(p) PROVE CleanInv'
  <2>r. Running(p) BY <1>1, Zenon DEF UndoDetach, Running
  <2>o. \A q \in Proc \ {p} : ~Running(q) BY <2>r, Solo
  <2>1. Others(p) BY <1>1 DEF UndoDetach, Goto, Others, CommandsOK
  <2>2. Tidy(p)'
    <3>1. cmd[p] # "emergency" BY <2>r DEF SafeInv, Station
    <3>2. mem'[p] = plan /\ pc'[p] = "units" BY <1>1, <3>1, Zenon DEF UndoDetach, Goto, CommandsOK
    <3> QED
      BY <1>1, <1>k, <1>h, <3>2, ZenonT(60) DEF UndoDetach, Known, Tidy, Unset, Building, Undoing
  <2>3. Known' BY <1>1, <1>h, Zenon DEF UndoDetach, Known
  <2>4. AtRest' BY <1>1, SMTT(30) DEF UndoDetach, AtRest, Running, Goto, CommandsOK
  <2> QED BY <2>o, <2>1, <2>2, <2>3, <2>4, OneTidy
<1>2. ASSUME UndoUnits(p) PROVE CleanInv'
  <2>r. Running(p) BY <1>2, Zenon DEF UndoUnits, Running
  <2>o. \A q \in Proc \ {p} : ~Running(q) BY <2>r, Solo
  <2>1. Others(p) BY <1>2, Zenon DEF UndoUnits, Goto, Others, CommandsOK
  <2>2. cmd[p] # "emergency" /\ "noexec" \in todo[p] /\ pid1 = "up"
    BY <1>2, <1>k, <2>r, Zenon DEF UndoUnits, Tidy, Undoing, SafeInv, Station
  <2>3. /\ pc'[p] = "rtdir" /\ ~dropin' /\ ~masks' /\ todo' = todo /\ mem' = mem
        /\ UNCHANGED <<noexec, plan, rtdir, pid1, root, fixup>>
    BY <1>2, <1>k, <2>2, Zenon DEF UndoUnits, Goto, CommandsOK, Tidy, Unset
  <2>4. Tidy(p)' BY <1>2, <1>k, <2>2, <2>3, Zenon
      DEF UndoUnits, Tidy, Unset, Building, Undoing
  <2>5. Known' BY <1>h, <2>3, Zenon DEF Known
  <2>6. AtRest' BY <2>3, SMTT(30) DEF AtRest, Running
  <2> QED BY <2>o, <2>1, <2>4, <2>5, <2>6, OneTidy
<1>3. ASSUME UndoRuntime(p) PROVE CleanInv'
  <2>r. Running(p) BY <1>3, Zenon DEF UndoRuntime, Running
  <2>o. \A q \in Proc \ {p} : ~Running(q) BY <2>r, Solo
  <2>1. Others(p) BY <1>3, Zenon DEF UndoRuntime, Goto, Others, CommandsOK
  <2>2. pid1 = "up" /\ cmd[p] # "emergency"
    BY <1>3, <1>k, <2>r, Zenon DEF UndoRuntime, Tidy, Undoing, SafeInv, Station
  <2>3. pc'[p] = "finish" /\ ~rtdir' /\ plan' = NoPlan
    BY <1>3, <2>2, Zenon DEF UndoRuntime, Goto, CommandsOK
  <2>4. Tidy(p)'
    BY <1>3, <1>k, <2>2, <2>3, Zenon DEF UndoRuntime, Tidy, Bare, Unset, Building, Undoing
  <2>5. Known' BY <1>3, <1>h, <2>2, <2>3, Zenon DEF UndoRuntime, Known
  <2>6. AtRest' BY <2>3, SMTT(30) DEF AtRest, Running
  <2> QED BY <2>o, <2>1, <2>4, <2>5, <2>6, OneTidy
<1>4. ASSUME UndoNoexec(p) PROVE CleanInv'
  <2>r. Running(p) BY <1>4, Zenon DEF UndoNoexec, Running
  <2>o. \A q \in Proc \ {p} : ~Running(q) BY <2>r, Solo
  <2>1. Others(p) BY <1>4, Zenon DEF UndoNoexec, Others, CommandsOK
  <2>2. noexec' = RunNoexec
    BY <1>4, <1>k, <1>h, Zenon DEF UndoNoexec, Tidy, Known
  <2>3. Tidy(p)'
    BY <1>4, <1>k, <2>2, ZenonT(60) DEF UndoNoexec, Tidy, Bare, Building, Undoing
  <2>4. Known' BY <1>4, <1>h, <2>2 DEF UndoNoexec, Known
  <2>5. AtRest' BY <1>4, <2>2, Zenon DEF UndoNoexec, AtRest, Running
  <2> QED BY <2>o, <2>1, <2>3, <2>4, <2>5, OneTidy
<1>5. ASSUME UndoReload(p) PROVE CleanInv'
  <2>r. Running(p) BY <1>5, Zenon DEF UndoReload, Running
  <2>o. \A q \in Proc \ {p} : ~Running(q) BY <2>r, Solo
  <2>1. Others(p) BY <1>5, Zenon DEF UndoReload, Others, CommandsOK
  <2>2. Tidy(p)'
    BY <1>5, <1>k, Zenon DEF UndoReload, Tidy, Bare, CommandsOK, Building, Undoing
  <2>3. Known' BY <1>5, <1>h, Zenon DEF UndoReload, Known
  <2>4. AtRest' BY <1>5, Zenon DEF UndoReload, AtRest, Running
  <2> QED BY <2>o, <2>1, <2>2, <2>3, <2>4, OneTidy
<1>6. ASSUME UndoExit(p) PROVE CleanInv'
  <2>r. Running(p) BY <1>6, Zenon DEF UndoExit, Running
  <2>o. \A q \in Proc \ {p} : ~Running(q) BY <2>r, Solo
  <2>1. Bare /\ noexec = RunNoexec BY <1>6, <1>k, Zenon DEF UndoExit, Tidy
  <2>2. Known' BY <1>6, <1>h, Zenon DEF UndoExit, Known
  <2> QED BY <1>6, <2>o, <2>1, <2>2, ExitTidy, Zenon DEF UndoExit, Bare
<1> QED BY <1>1, <1>2, <1>3, <1>4, <1>5, <1>6, SMTT(30)

(* A deactivation leaves the plan where it is. *)
LEMMA CleanLeave ==
  ASSUME TypeInv, SafeInv, CleanInv, NEW p \in Proc
  PROVE  RecordInactive(p) \/ EnqueueLeave(p) \/ Unarm(p) \/ RecoverLook(p) \/
         MountDecoyRoot(p) \/ ArmLeave(p) => CleanInv'
<1> USE DEF TypeInv, stage, runtime, units, host, volume, local
<1>k. Tidy(p) BY DEF CleanInv
<1>h. Known BY DEF CleanInv
<1>1. ASSUME RecordInactive(p) PROVE CleanInv'
  <2>r. Running(p) BY <1>1, Zenon DEF RecordInactive, Running
  <2>o. \A q \in Proc \ {p} : ~Running(q) BY <2>r, Solo
  <2>1. plan # NoPlan BY <1>1, <2>r, Zenon DEF RecordInactive, SafeInv, Station, Leaving
  <2>2. Known' BY <1>1, <1>h, <2>1, Zenon DEF RecordInactive, Known
  <2>3. CASE Exit(p) BY <1>1, <2>o, <2>1, <2>2, <2>3, ExitTidy, ZenonT(60) DEF RecordInactive
  <2>4. CASE ~Exit(p)
    <3>1. Others(p) BY <1>1, <2>4, ZenonT(60) DEF RecordInactive, Goto, Others, CommandsOK
    <3>2. Tidy(p)'
      BY <1>1, <1>k, <2>4, SMTT(30) DEF RecordInactive, Goto, Tidy, CommandsOK, Building, Undoing
    <3>3. AtRest' BY <1>1, <2>1, Zenon DEF RecordInactive, AtRest
    <3> QED BY <2>o, <2>2, <3>1, <3>2, <3>3, OneTidy
  <2> QED BY <2>3, <2>4
<1>2. ASSUME EnqueueLeave(p) PROVE CleanInv'
  <2>r. Running(p) BY <1>2, Zenon DEF EnqueueLeave, Running
  <2>o. \A q \in Proc \ {p} : ~Running(q) BY <2>r, Solo
  <2>1. plan # NoPlan BY <1>2, <2>r, Zenon DEF EnqueueLeave, SafeInv, Station, Leaving
  <2>2. Known' BY <1>2, <1>h, <2>1, Zenon DEF EnqueueLeave, StartTarget, Known
  <2>3. CASE Exit(p) BY <1>2, <2>o, <2>1, <2>2, <2>3, ExitTidy, ZenonT(60) DEF EnqueueLeave
  <2>4. CASE ~Exit(p)
    <3>1. Others(p) BY <1>2, <2>4, SMTT(30) DEF EnqueueLeave, Goto, Others, CommandsOK
    <3>2. Tidy(p)'
      BY <1>2, <1>k, <2>4, SMTT(30) DEF EnqueueLeave, Goto, Tidy, CommandsOK, Building, Undoing
    <3>3. AtRest' BY <1>2, <2>1, Zenon DEF EnqueueLeave, AtRest
    <3> QED BY <2>o, <2>2, <3>1, <3>2, <3>3, OneTidy
  <2> QED BY <2>3, <2>4
<1>3. ASSUME Unarm(p) PROVE CleanInv'
  <2>r. Running(p) BY <1>3, Zenon DEF Unarm, Running
  <2>o. \A q \in Proc \ {p} : ~Running(q) BY <2>r, Solo
  <2> DEFINE new == [mem[p] EXCEPT !.armed = "none"]
  <2>a. new \in Plan /\ new.noexec = RunNoexec
    BY <1>3, <1>k DEF Unarm, Tidy, CommandsOK, PlanKept, PlanInMemory, Plan
  <2>b. plan' \in {plan, new} /\ Exit(p) BY <1>3, Zenon DEF Unarm
  <2> HIDE DEF new
  <2>1. plan # NoPlan BY <1>3, <2>r, Zenon DEF Unarm, SafeInv, Station, Leaving
  <2>2. Known' BY <1>3, <1>h, <2>a, <2>b, Zenon DEF Unarm, Known
  <2> QED BY <2>o, <2>a, <2>b, <2>1, <2>2, ExitTidy, Zenon
<1>4. ASSUME RecoverLook(p) PROVE CleanInv'
  BY <1>4, <1>k, Zenon DEF RecoverLook, Tidy
<1>5. ASSUME MountDecoyRoot(p) PROVE CleanInv'
  <2>r. Running(p) BY <1>5, Zenon DEF MountDecoyRoot, Running
  <2>o. \A q \in Proc \ {p} : ~Running(q) BY <2>r, Solo
  <2>1. plan # NoPlan BY <1>5, <2>r, Zenon DEF MountDecoyRoot, SafeInv, Station, Leaving
  <2>2. Known' BY <1>5, <1>h, <2>1, Zenon DEF MountDecoyRoot, Known
  <2>3. CASE Exit(p) BY <1>5, <2>o, <2>1, <2>2, <2>3, ExitTidy, Zenon DEF MountDecoyRoot
  <2>4. CASE ~Exit(p)
    <3>1. Others(p) BY <1>5, <2>4, ZenonT(60) DEF MountDecoyRoot, Goto, Others, CommandsOK
    <3>2. Tidy(p)'
      BY <1>5, <1>k, <2>4 DEF MountDecoyRoot, Goto, Tidy, CommandsOK, Building, Undoing
    <3>3. AtRest' BY <1>5, <2>1, Zenon DEF MountDecoyRoot, AtRest
    <3> QED BY <2>o, <2>2, <3>1, <3>2, <3>3, OneTidy
  <2> QED BY <2>3, <2>4
<1>6. ASSUME ArmLeave(p) PROVE CleanInv'
  <2>r. Running(p) BY <1>6, Zenon DEF ArmLeave, Running
  <2>o. \A q \in Proc \ {p} : ~Running(q) BY <2>r, Solo
  <2> DEFINE new == [mem[p] EXCEPT !.armed = "leave"]
  <2>a. new \in Plan /\ new.noexec = RunNoexec
    BY <1>6, <1>k DEF ArmLeave, Tidy, CommandsOK, PlanKept, PlanInMemory, Plan
  <2>b. plan' \in {plan, new} /\ mem'[p] = new BY <1>6, Zenon DEF ArmLeave, CommandsOK
  <2> HIDE DEF new
  <2>1. Others(p) /\ \E l \in {"enqueue", "unarm"} : Goto(p, l)
    BY <1>6 DEF ArmLeave, Goto, Others, CommandsOK
  <2>2. Tidy(p)' BY <2>a, <2>b, <2>1, Zenon DEF Goto, Tidy, CommandsOK, Building, Undoing
  <2>3. Known' BY <1>6, <1>h, <2>a, <2>b, Zenon DEF ArmLeave, Known
  <2>4. AtRest' BY <2>1 DEF AtRest, Running, Goto, CommandsOK
  <2> QED BY <2>o, <2>1, <2>2, <2>3, <2>4, OneTidy, Zenon
<1> QED BY <1>1, <1>2, <1>3, <1>4, <1>5, <1>6, Zenon

(* PID 1 stops only commands that have nothing to undo, and gives back all or
   nothing. *)
LEMMA CleanRest ==
  ASSUME Settling, TypeInv, SafeInv, CleanInv
  PROVE  /\ PowerOff \/ Pid1 \/ PlainSoftReboot \/ ArmLapses => CleanInv'
         /\ \A p \in Proc : Cancel(p) \/ Stopped(p) => CleanInv'
<1> USE DEF TypeInv, stage, runtime, units, host, volume, local
<1>h. Known BY Zenon DEF CleanInv
<1>a. AtRest BY Zenon DEF CleanInv
<1>k. \A q \in Proc : Tidy(q) BY Zenon DEF CleanInv
<1>1. ASSUME PowerCycle PROVE CleanInv'
  <2>1. \A q \in Proc : pc'[q] \in {"idle", "done"} /\ mem'[q] \in {NoPlan, mem[q]}
    BY <1>1, Zenon DEF PowerCycle, Gone, Running, CommandsOK
  <2>2. \A q \in Proc : Tidy(q)' BY <1>1, <1>k, <2>1, ZenonT(60)
      DEF PowerCycle, Tidy, Building, Undoing
  <2>3. Known' /\ AtRest' BY <1>1, Zenon DEF PowerCycle, Known, AtRest, Bare
  <2> QED BY <2>2, <2>3, Zenon DEF CleanInv
<1>2. ASSUME TransitionStep PROVE CleanInv'
  <2>1. \A q \in Proc : ~Running(q) BY <1>2, Zenon DEF TransitionStep, SafeInv, Station
  <2>2. pid1' = "switch" /\ UNCHANGED <<pc, mem, todo, opt>> BY <1>2, ZenonT(60) DEF TransitionStep
  <2>3. \A q \in Proc : Tidy(q)'
    BY <1>k, <2>1, <2>2 DEF Tidy, Running, Building, Undoing
  <2> DEFINE in == [plan EXCEPT !.armed = "none", !.entered = TRUE]
  <2>4. plan # NoPlan => in \in Plan /\ in.noexec = plan.noexec BY Zenon DEF HostOK, Plan
  <2>5. \/ /\ plan # NoPlan /\ Bare'
           /\ \/ noexec' = (noexec \/ plan.noexec) /\ fixup' = fixup
              \/ noexec' = noexec /\ fixup' = IF plan.noexec THEN "noexec" ELSE "plain"
        \/ UNCHANGED <<rtdir, plan, units, host>>
        \/ plan # NoPlan /\ plan' \in {plan, in} /\ UNCHANGED host
    BY <1>2, Zenon DEF TransitionStep, EnterSession, LeaveSession, Disarm, GiveBack, Bare
  <2> HIDE DEF in
  <2>6. Known' BY <1>h, <2>2, <2>4, <2>5, SMTT(30) DEF Known, Bare, HostOK, FlagsOK
  <2>7. AtRest' BY <1>h, <1>a, <2>1, <2>4, <2>5, SMTT(30) DEF Known, AtRest, Bare, HostOK, FlagsOK
  <2> QED BY <2>3, <2>6, <2>7, Zenon DEF CleanInv
<1>3. ASSUME ArmLapses PROVE CleanInv'
  <2> DEFINE new == [plan EXCEPT !.armed = "lapsed"]
  <2>1. plan # NoPlan /\ plan' = new /\ new \in Plan /\ new.noexec = plan.noexec
    BY <1>3, Zenon DEF ArmLapses, HostOK, Plan
  <2> HIDE DEF new
  <2>2. Known' /\ AtRest' BY <1>3, <1>h, <2>1, Zenon DEF ArmLapses, Known, AtRest
  <2>3. \A q \in Proc : Tidy(q)'
    BY <1>3, <1>k, <2>1, SMTT(30) DEF ArmLapses, Tidy, Unset, Bare, Building, Undoing
  <2> QED BY <2>2, <2>3, Zenon DEF CleanInv
<1>4. ASSUME AllStopped \/ Switch PROVE CleanInv'
  <2>1. \A q \in Proc : ~Running(q) BY <1>4, Zenon DEF AllStopped, Switch, SafeInv, Station
  <2>2. \A q \in Proc : Tidy(q)'
    BY <1>4, <1>k, <2>1, ZenonT(60) DEF AllStopped, Switch, Tidy, Running, Building, Undoing
  <2>3. Known' /\ AtRest'
    BY <1>4, <1>h, <1>a DEF AllStopped, Switch, Known, AtRest, Bare, Running
  <2> QED BY <2>2, <2>3 DEF CleanInv
<1>5. ASSUME Reconcile PROVE CleanInv'
  <2>1. \A q \in Proc : ~Running(q) BY <1>5, Zenon DEF Reconcile, SafeInv, Station
  <2>2. \A q \in Proc : Tidy(q)'
    BY <1>5, <1>k, <2>1, Zenon DEF Reconcile, Tidy, Running, Building, Undoing
  <2>3. Known' /\ (plan = NoPlan => noexec' = RunNoexec)
    BY <1>5, <1>h, <1>a, <2>1, Zenon DEF Reconcile, Known, AtRest, HostOK, FlagsOK, Pids
  <2>4. AtRest' BY <1>5, <1>a, <2>1, <2>3, Zenon DEF Reconcile, AtRest, Bare, Running
  <2> QED BY <2>2, <2>3, <2>4, Zenon DEF CleanInv
<1>6. ASSUME NEW p \in Proc, Cancel(p) PROVE CleanInv'
  BY <1>6, <1>h, <1>a, <1>k, ZenonT(60)
      DEF Cancel, CleanInv, Known, AtRest, Tidy, Unset, Bare, Running
<1>7. ASSUME NEW p \in Proc, Stopped(p) PROVE CleanInv'
  <2>1. \A q \in Proc \ {p} : ~Running(q) BY <1>7, Solo, Zenon DEF Stopped
  <2>2. pid1 \in {"soft", "off"} BY <1>7, Zenon DEF Stopped, May, Settling
  <2>3. plan # NoPlan
    <3>1. pc[p] \in {"preflight"} \cup Leaving
      BY <1>7, <1>k, <2>2, SMTT(30) DEF Stopped, Running, Tidy, CommandsOK, PCs, Building, Undoing,
         SafeInv, Station
    <3> QED
      BY <1>7, <1>h, <2>2, <3>1, ZenonT(60) DEF Stopped, Known, SafeInv, Station, Building
  <2>4. Known' BY <1>7, <1>h, Zenon DEF Stopped, Known
  <2> QED BY <1>7, <2>1, <2>3, <2>4, ExitTidy, Zenon DEF Stopped
<1>8. ASSUME PlainSoftReboot PROVE CleanInv'
  BY <1>8, Zenon DEF PlainSoftReboot, May, Settling
<1> QED BY <1>1, <1>2, <1>3, <1>4, <1>5, <1>6, <1>7, <1>8, Zenon DEF Pid1, PowerOff

(* CleanInv is inductive relative to the invariants before it. *)
LEMMA CleanStep ==
  ASSUME Settling
  PROVE  TypeInv /\ SafeInv /\ CleanInv /\ [Next]_vars => CleanInv'
<1> SUFFICES ASSUME TypeInv, SafeInv, CleanInv, [Next]_vars PROVE CleanInv'
  BY Zenon
<1>1. CASE UNCHANGED vars
  BY <1>1, ZenonT(60)
      DEF vars, stage, runtime, units, host, local, CleanInv, Known, AtRest, Tidy,
     Unset, Bare, Running
<1>2. ASSUME NEW p \in Proc, Command(p) PROVE CleanInv'
  BY <1>2, NoEmergency, CleanBegin, CleanBuild, CleanUndo, CleanLeave, Zenon DEF Settling,
     Checking, Command, Activate, Undo, WayOut, Deactivate, Recover
<1>3. CASE Next BY <1>2, <1>3, CleanRest, Zenon DEF Next
<1> QED BY <1>1, <1>3, Zenon

(* For any number of activations and deactivations, whatever of them fails, is
   cancelled or loses power: once nothing is under way and the probe sees a
   plain decoy, it is one, with nothing in /run, the kernel's helper paths its
   own and noexec on /run as it was (entry::rollback, transition::run). *)
THEOREM DecoyIsClean ==
  ASSUME Settling
  PROVE  Spec => []DecoyClean
<1>1. TypeInv /\ KernelInv /\ CleanInv => DecoyClean
  <2> SUFFICES ASSUME TypeInv, KernelInv, CleanInv, Quiet, View = "decoy"
               PROVE  Bare /\ kernel = "decoy" /\ noexec = RunNoexec
    BY Zenon DEF DecoyClean
  <2>1. plan = NoPlan BY Zenon DEF View, TypeInv, HostOK
  <2>2. Bare /\ noexec = RunNoexec BY <2>1, Zenon DEF CleanInv, AtRest, Quiet
  <2>3. kernel = "decoy" BY <2>1, Zenon DEF KernelInv, Owed, TypeInv, HostOK
  <2> QED BY <2>2, <2>3, Zenon
<1>2. Checking BY Zenon DEF Settling
<1>3. Orderly BY <1>2, Zenon DEF Checking
<1> QED BY <1>1, <1>2, <1>3, KernelInit, KernelStep, CleanInit, CleanStep, Safe, PTL
    DEF Spec

==============================================================================
