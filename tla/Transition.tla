----------------------------- MODULE Transition -----------------------------
(***************************************************************************)
(* PID 1 and its surroundings: it stops the commands, runs the transition  *)
(* step the entry hooked into systemd-soft-reboot.service, and switches to *)
(* /run/nextroot when something is mounted there.  systemd itself is       *)
(* external; the step is transition::run.                                  *)
(***************************************************************************)
EXTENDS Machine

(* A command ends between two of its steps: PID 1 stops it for the job it
   carries out, or somebody kills it. *)
Stopped(p) ==
    /\ Running(p)
    /\ pid1 \in {"soft", "off"} \/ May("kill")
    /\ Exit(p)
    /\ UNCHANGED <<stage, runtime, units, host, volume>>

(* All units are down: the soft-reboot goes on to its transition step. *)
AllStopped ==
    /\ pid1 = "soft"
    /\ \A p \in Proc : ~Running(p)
    /\ pid1' = "transition"
    /\ UNCHANGED <<root, nextroot, runtime, units, host, volume, lock, pc, local>>

------------------------------------------------------------------------------
(* The step runs at all only when PID 1 has the drop-in loaded and can execute
   the binary copy below /run. *)
StepRuns == loaded /\ rtdir /\ ~noexec

(* Variant: the drop-in is left to the scrub, which keeps the directory. *)
GiveBackScrubOnly ==
    /\ kernel' = plan.kernel
    /\ masks' = FALSE
    /\ rtdir' = FALSE /\ plan' = NoPlan
    /\ UNCHANGED <<dropin, loaded>>

(* What the decoy had, as the plan recorded it. *)
GiveBack ==
    /\ kernel' = plan.kernel
    /\ dropin' = FALSE /\ masks' = FALSE
    /\ rtdir' = FALSE /\ plan' = NoPlan
    /\ UNCHANGED loaded

(* Variants: every refusal cleans up, and none does. *)
DisarmAlways ==
    /\ refusal' = refusal
    /\ nextroot' = "none"
    /\ GiveBack /\ noexec' = (noexec \/ plan.noexec)
    /\ UNCHANGED fixup
DisarmDetach ==
    /\ nextroot' = "none"
    /\ UNCHANGED <<runtime, units, host, refusal>>

(* Refuse the switch: note why on the hidden volume if a switch was armed and
   the volume is still live, detach the next root, and, when the session was
   never entered, clean the decoy. *)
Disarm ==
    /\ refusal' \in {refusal, refusal \/ plan.armed # "none"}
    /\ nextroot' = "none"
    /\ IF plan.entered THEN UNCHANGED <<runtime, units, noexec, kernel>>
       ELSE GiveBack /\ noexec' = (noexec \/ plan.noexec)
    /\ UNCHANGED fixup

(* Variant: a unit that cannot be masked does not stop the entry. *)
EnterSessionAnyway ==
    /\ ArmedFor("enter")
    /\ masks' \in BOOLEAN
    /\ plan' = [plan EXCEPT !.armed = "none", !.entered = TRUE]
    /\ UNCHANGED <<nextroot, rtdir, dropin, loaded, host, refusal>>

(* Enter: check the next root's init, mask the decoy's units or do not enter,
   and note the entry in the plan, best effort. *)
EnterSession ==
    /\ ArmedFor("enter")
    /\ \/ /\ masks' = TRUE
          /\ \/ plan' = [plan EXCEPT !.armed = "none", !.entered = TRUE]
             \/ May("planwrite") /\ plan' = plan
          /\ UNCHANGED <<nextroot, rtdir, dropin, loaded, host, refusal>>
       \/ May("precheck") /\ Disarm

(* Leave: check the decoy root's init, then give the decoy back what it had.
   A decoy with boot records (never one that builds a NixOS system) may get a
   one-shot, which then also restores noexec. *)
LeaveSession ==
    /\ ArmedFor("leave")
    /\ \/ /\ GiveBack
          /\ \/ ~Builds /\ fixup' = (IF plan.noexec THEN "noexec" ELSE "plain")
                        /\ noexec' = noexec
             \/ fixup' = fixup /\ noexec' = (noexec \/ plan.noexec)
          /\ UNCHANGED <<nextroot, refusal>>
       \/ May("precheck") /\ Disarm

(* Variant: without something to do the step does not come back. *)
TransitionStepHangs ==
    /\ pid1 = "transition"
    /\ pid1' = "switch"
    /\ StepRuns /\ plan # NoPlan /\ nextroot # "none"
    /\ \/ EnterSession
       \/ LeaveSession
       \/ ~ArmedFor("enter") /\ ~ArmedFor("leave") /\ Disarm
    /\ UNCHANGED <<root, record, lock, pc, local>>

(* The transition step, after which PID 1 goes on whatever came of it. *)
TransitionStep ==
    /\ pid1 = "transition"
    /\ pid1' = "switch"
    /\ \/ /\ StepRuns /\ plan # NoPlan /\ nextroot # "none"
          /\ \/ EnterSession
             \/ LeaveSession
             \/ ~ArmedFor("enter") /\ ~ArmedFor("leave") /\ Disarm
       \/ /\ ~StepRuns \/ plan = NoPlan \/ nextroot = "none"
          /\ UNCHANGED <<nextroot, runtime, units, host, refusal>>
    /\ UNCHANGED <<root, record, lock, pc, local>>

(* PID 1 switches to a populated next root and loads its units anew. *)
Switch ==
    /\ pid1 = "switch"
    /\ root' = IF nextroot = "none" THEN root ELSE nextroot
    /\ nextroot' = "none"
    /\ loaded' = dropin
    /\ pid1' = "up"
    /\ UNCHANGED <<runtime, dropin, masks, host, volume, lock, pc, local>>

(* The power-off job, and the power cut; the next boot is the decoy. *)
PowerOff ==
    \/ pid1 = "off" /\ (\A p \in Proc : ~Running(p)) /\ PowerCycle
    \/ May("power") /\ PowerCycle

------------------------------------------------------------------------------
(* The one-shot on the decoy's first start. *)
Reconcile ==
    /\ pid1 = "up" /\ root = "decoy" /\ fixup # "none"
    /\ noexec' = (noexec \/ fixup = "noexec")
    /\ fixup' = "none"
    /\ UNCHANGED <<stage, runtime, units, kernel, volume, lock, pc, local>>

(* A soft-reboot nobody of ours asked for: `systemctl soft-reboot`. *)
PlainSoftReboot ==
    /\ May("plain") /\ pid1 = "up"
    /\ pid1' = "soft"
    /\ UNCHANGED <<root, nextroot, runtime, units, host, volume, lock, pc, local>>

(* ARM_VALIDITY_SECS pass before PID 1 gets to the step. *)
ArmLapses ==
    /\ May("lapse") /\ plan # NoPlan /\ plan.armed \in {"enter", "leave"}
    /\ plan' = [plan EXCEPT !.armed = "lapsed"]
    /\ UNCHANGED <<stage, rtdir, units, host, volume, lock, pc, local>>

Pid1 == AllStopped \/ TransitionStep \/ Switch \/ Reconcile
==============================================================================
