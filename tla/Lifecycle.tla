----------------------------- MODULE Lifecycle -----------------------------
(***************************************************************************)
(* The session lifecycle: `nails` commands, PID 1 and what can go wrong,   *)
(* over one machine, and what must hold of it.                             *)
(***************************************************************************)
EXTENDS Activation, Leave, Transition

Command(p) == Activate(p) \/ WayOut(p) \/ Undo(p)

Next ==
    \/ \E p \in Proc : Command(p) \/ Cancel(p) \/ Stopped(p)
    \/ Pid1 \/ PowerOff \/ PlainSoftReboot \/ ArmLapses

Spec == MachineInit /\ [][Next]_vars

(* A command that runs is scheduled, and PID 1 carries out the job it has:
   it ends the commands that do not end by themselves, runs the step, switches
   or powers off.  Nothing obliges the operator to start a command. *)
Fairness ==
    /\ \A p \in Proc : WF_vars(Running(p) /\ Command(p))
    /\ \A p \in Proc : WF_vars(pid1 \in {"soft", "off"} /\ Stopped(p))
    /\ WF_vars(Pid1)
    /\ WF_vars(pid1 = "off" /\ PowerOff)
FairSpec == Spec /\ Fairness

------------------------------------------------------------------------------
(* Nothing of a session is in /run; everything the way back needs is. *)
Bare     == ~rtdir /\ plan = NoPlan /\ ~dropin /\ ~masks
Equipped == StepRuns /\ dropin /\ plan # NoPlan
(* Nothing runs and nothing is under way. *)
Quiet == pid1 = "up" /\ fixup = "none" /\ \A p \in Proc : ~Running(p)
(* The transition step is done and PID 1 is about to switch to the decoy. *)
Returning == pid1 = "switch" /\ nextroot = "decoy"

(* Never switch into the hidden root with the decoy's units unmasked: "Without
   its masks the hidden systemd would swap onto, or mount read-write, a decoy
   disk: never enter without them" (transition.rs, enter). *)
NeverEnterWithoutMasks == [][root = "decoy" /\ root' = "hidden" => masks]_vars

(* Whenever a root is staged at /run/nextroot on the decoy, a soft-reboot by
   anybody, at that very moment and with every command killed, meets a
   transition step that runs and a plan it can judge.  It is why the drop-in,
   the executable /run and the plan come before the mount in entry::build and go
   after the detach in entry::rollback. *)
StagedGuarded == root = "decoy" /\ nextroot # "none" /\ pid1 # "switch" => Equipped

(* In the hidden session the way back stays ready: plan, runtime directory,
   drop-in, masks and an executable /run, through refused leaves, lapsed armings
   and plain soft-reboots (transition::disarm keeps them once entered). *)
WayBackReady == root = "hidden" /\ ~Returning => Equipped /\ masks

(* A session that is noted in the plan and has its gear, until the transition
   step has given everything back. *)
WayOpen == root = "hidden" /\ IF Returning THEN Bare ELSE Equipped /\ masks /\ plan.entered

(* ... and it ends in no other way than on a clean decoy, whatever races
   whatever: two emergencies, an emergency and a deactivation, a late cleanup or
   a recovery, any of them failing or killed halfway (entry::rollback works on
   the decoy only, transition::disarm keeps an entered session's gear). *)
WayBackKept == [][WayOpen => WayOpen' \/ (root = "decoy" /\ Bare /\ ~loaded)']_vars

(* The decoy that the machine returns to finds nothing of the session in /run,
   and PID 1 does not have the drop-in loaded (transition::leave). *)
CleanReturn == [][root = "hidden" /\ root' = "decoy" => (Bare /\ ~loaded)']_vars

(* While the kernel's helper paths point into the hidden store on the decoy, the
   plan on disk says what the decoy's are, so a command killed at any point
   leaves a decoy that `recover` can put right (kernel_settings in entry::build,
   restored before the runtime directory is removed). *)
KernelOwed == root = "decoy" /\ kernel = "hidden" => plan # NoPlan /\ plan.kernel = "decoy"

(* Once all is quiet and the probe calls the machine a plain decoy, it is one:
   nothing in /run, the kernel's helper paths and noexec on /run as they were. *)
DecoyClean ==
    Quiet /\ View = "decoy" => Bare /\ kernel = "decoy" /\ noexec = RunNoexec

(* A command that runs comes to an end, whatever it meets on the way: a refusal,
   a failing step and its rollback, a cancel, another command (the commands wait
   for nobody but a signalled activation, and for that one a second). *)
CommandsEnd == \A p \in Proc : Running(p) ~> ~Running(p)

(* PID 1 comes through every soft-reboot and power-off to a running system:
   neither the commands it has to stop nor the transition step, whose failure
   the drop-in's `ExecStart=-` ignores, keep it where it is. *)
JobsEnd == pid1 # "up" ~> pid1 = "up"

(* Every command and every job of PID 1 comes to an end (cancel.rs,         *)
(* transition.rs: "-" before ExecStart).                                    *)
EverythingEnds == CommandsEnd /\ JobsEnd

(* An emergency in the hidden session ends it: by the way back, or by a
   power-off when the way back cannot be prepared (emergency::hidden). *)
EmergencyLeaves ==
    \A p \in Proc : cmd[p] = "emergency" /\ View = "hidden" ~> root = "decoy"

(* An activation that has begun to change the machine ends in the hidden root or
   on a decoy that has nothing of it left (entry::prepare, trigger_entry and
   transition::disarm between them). *)
ActivationSettles ==
    \A p \in Proc : pc[p] = "noexec" ~> root = "hidden" \/ (Bare /\ nextroot = "none")

------------------------------------------------------------------------------
(* The promise of module Session: the transition step decides the place. *)
Place == IF pid1 = "switch" /\ nextroot # "none" THEN nextroot ELSE root
Gear  == CASE Bare              -> "bare"
           [] Equipped /\ masks  -> "guarded"
           [] Equipped /\ ~masks -> "staged"
           [] OTHER              -> "partial"
S == INSTANCE Session WITH place <- Place, gear <- Gear

(* Entry, session and way back keep the promise. *)
KeepsPromise == S!SessionSpec

(* The commands are alike: what exchanges them exchanges the states of a run. *)
Exchange == {f \in [Proc -> Proc] : \A p, q \in Proc : f[p] = f[q] => p = q}
Symmetry == {f : f \in Exchange}
==============================================================================
