------------------------------- MODULE Leave -------------------------------
(***************************************************************************)
(* The ways out of the hidden session and out of a failed entry:           *)
(* `nails deactivate`, `nails emergency` (by hand, from the backend        *)
(* watcher or from the sleep guard) and `nails recover`.                   *)
(***************************************************************************)
EXTENDS Machine

Options == BOOLEAN   \* FALSE: back to the decoy; TRUE: power off

------------------------------------------------------------------------------
(* `deactivate`, in the hidden session with its plan and the lock free. *)
DeactivateBegin(p) ==
    /\ View = "hidden" /\ lock = NoProc
    /\ Calm \/ May("overlap")
    /\ \E off \in Options : Starts(p, "deactivate", off)
    /\ lock' = p
    /\ mem' = [mem EXCEPT ![p] = plan]
    /\ Goto(p, "inactive")
    /\ UNCHANGED <<stage, runtime, units, host, volume, cancel, todo>>

(* The record first, while the hidden volume is still mounted. *)
RecordInactive(p) ==
    /\ pc[p] = "inactive"
    /\ refusal' = FALSE
    /\ \/ /\ record' = "inactive"
          /\ Goto(p, IF opt[p] THEN "enqueue" ELSE "prep")
          /\ UNCHANGED <<lock, local>>
       \/ May("save") /\ record' = record /\ Exit(p)
    /\ UNCHANGED <<stage, runtime, units, host>>

------------------------------------------------------------------------------
(* Variant: the side is not judged; a plan means leftovers on the decoy. *)
EmergencyBeginBlind(p) ==
    /\ plan # NoPlan
    /\ Starts(p, "emergency", FALSE)
    /\ Goto(p, "signal")
    /\ mem' = [mem EXCEPT ![p] = plan]
    /\ UNCHANGED <<stage, runtime, units, host, volume, lock, cancel, todo>>

(* `emergency`: judge the side by the plan and the live root; takes no lock. *)
EmergencyBegin(p) ==
    /\ fixup = "none" \/ May("overlap")
    /\ \E off \in Options :
          /\ Starts(p, "emergency", off)
          /\ plan # NoPlan \/ off
          /\ Goto(p, CASE plan = NoPlan                            -> "enqueue"
                       [] plan # NoPlan /\ root = "decoy"          -> "signal"
                       [] plan # NoPlan /\ root = "hidden" /\ off  -> "enqueue"
                       [] plan # NoPlan /\ root = "hidden" /\ ~off -> "prep")
    /\ mem' = [mem EXCEPT ![p] = plan]
    /\ UNCHANGED <<stage, runtime, units, host, volume, lock, cancel, todo>>

(* On the decoy: SIGTERM the activation that wrote the plan, if it still runs,
   and wait for it no longer than a second; then the cleanup. *)
SignalOwner(p) ==
    /\ pc[p] = "signal"
    /\ cancel' = [q \in Proc |-> cancel[q] \/ (q = mem[p].owner /\ pc[q] \in Building)]
    /\ RollBack(p, {"noexec", "reload", "record"})
    /\ UNCHANGED <<stage, runtime, units, host, volume, lock, cmd, opt, mem>>

------------------------------------------------------------------------------
(* Variant: an emergency soft-reboots even without a next root. *)
MountDecoyRootOrNot(p) ==
    /\ pc[p] = "prep"
    /\ nextroot' \in {"decoy"} \cup (IF May("step") THEN {"none"} ELSE {})
    /\ Goto(p, IF nextroot' = "none" THEN "enqueue" ELSE "armleave")
    /\ UNCHANGED <<root, pid1, runtime, units, host, volume, lock, local>>

(* Mount the decoy root at /run/nextroot, over nothing: a stale mount goes
   first.  On failure nothing is left there; `deactivate` gives up, an
   emergency powers off instead. *)
MountDecoyRoot(p) ==
    /\ pc[p] = "prep"
    /\ \/ /\ nextroot' = "decoy"
          /\ Goto(p, "armleave")
          /\ UNCHANGED <<lock, local>>
       \/ /\ May("step")
          /\ nextroot' = "none"
          /\ IF cmd[p] = "deactivate" THEN Exit(p)
             ELSE /\ Goto(p, "enqueue")
                  /\ opt' = [opt EXCEPT ![p] = TRUE]
                  /\ UNCHANGED <<lock, cmd, mem, cancel, todo>>
    /\ UNCHANGED <<root, pid1, runtime, units, host, volume>>

(* Arm the plan for the way back.  On failure the next root goes again;
   `deactivate` then takes the arming back, an emergency powers off. *)
ArmLeave(p) ==
    /\ pc[p] = "armleave"
    /\ mem' = [mem EXCEPT ![p].armed = "leave"]
    /\ \/ /\ rtdir
          /\ plan' = mem'[p]
          /\ Goto(p, "enqueue")
          /\ UNCHANGED <<nextroot, opt>>
       \/ /\ ~rtdir \/ May("step")
          /\ nextroot' = "none"
          /\ IF cmd[p] = "deactivate" THEN Goto(p, "unarm") /\ UNCHANGED opt
             ELSE Goto(p, "enqueue") /\ opt' = [opt EXCEPT ![p] = TRUE]
          /\ UNCHANGED plan
    /\ UNCHANGED <<root, pid1, rtdir, units, host, volume, lock, cmd, cancel, todo>>

(* `deactivate` enqueues its target.  Refused, it detaches the next root. *)
EnqueueLeave(p) ==
    /\ pc[p] = "enqueue" /\ cmd[p] = "deactivate"
    /\ \E outcome \in {"done", "unknown", "refused"} :
          /\ StartTarget(IF opt[p] THEN "off" ELSE "soft", outcome)
          /\ IF outcome = "refused" /\ ~opt[p]
             THEN nextroot' = "none" /\ Goto(p, "unarm") /\ UNCHANGED <<lock, local>>
             ELSE Exit(p) /\ UNCHANGED nextroot
    /\ UNCHANGED <<root, runtime, units, host, volume>>

(* ... and writes the plan back unarmed, best effort. *)
Unarm(p) ==
    /\ pc[p] = "unarm"
    /\ \/ rtdir /\ plan' = [mem[p] EXCEPT !.armed = "none"]
       \/ (~rtdir \/ May("step")) /\ plan' = plan
    /\ Exit(p)
    /\ UNCHANGED <<stage, rtdir, units, host, volume>>

(* An emergency enqueues its finish; only a call that is known to have
   succeeded counts, the next choice is a power-off, the last one the kernel's
   own, which may fail.  On the decoy an enqueued power action discards what is
   left to do but the record. *)
EnqueueEmergency(p) ==
    /\ pc[p] = "enqueue" /\ cmd[p] = "emergency"
    /\ LET asked == IF opt[p] THEN "off" ELSE "soft"
       IN \/ /\ StartTarget(asked, "done")
             /\ todo' = [todo EXCEPT ![p] = @ \cap {"record"}]
          \/ /\ May("enqueue") /\ StartTarget("off", "done")
             /\ todo' = [todo EXCEPT ![p] = @ \cap {"record"}]
          \/ /\ May("enqueue") /\ pid1' \in {pid1, asked, "off"}
             /\ UNCHANGED todo
    /\ Goto(p, IF root = "hidden" /\ mem[p] # NoPlan THEN "kill" ELSE "finish")
    /\ UNCHANGED <<root, nextroot, runtime, units, host, volume, lock, cmd, opt, mem, cancel>>
KernelPowerOff(p) ==
    /\ pc[p] = "enqueue" /\ cmd[p] = "emergency" /\ May("enqueue")
    /\ PowerCycle

(* In the hidden session every other process is killed, then the record. *)
KillUserspace(p) ==
    /\ pc[p] = "kill"
    /\ LET others == {q \in Proc \ {p} : Running(q)}
       IN /\ pc' = [q \in Proc |-> IF q = p THEN "finish"
                                   ELSE IF q \in others THEN "done" ELSE pc[q]]
          /\ lock' = IF lock \in others THEN NoProc ELSE lock
          /\ cmd' = [q \in Proc |-> IF q \in others THEN "none" ELSE cmd[q]]
          /\ opt' = [q \in Proc |-> IF q \in others THEN FALSE ELSE opt[q]]
          /\ mem' = [q \in Proc |-> IF q \in others THEN NoPlan ELSE mem[q]]
          /\ cancel' = [q \in Proc |-> IF q \in others THEN FALSE ELSE cancel[q]]
          /\ todo' = [q \in Proc |-> IF q = p THEN {"record"}
                                     ELSE IF q \in others THEN {} ELSE todo[q]]
    /\ UNCHANGED <<stage, runtime, units, host, volume>>

------------------------------------------------------------------------------
(* `recover` takes the lock, or goes on without it after two seconds. *)
RecoverBegin(p) ==
    /\ \/ lock = NoProc /\ Calm
       \/ May("overlap")
    /\ Starts(p, "recover", FALSE)
    /\ lock' = IF lock = NoProc THEN p ELSE lock
    /\ Goto(p, "look")
    /\ UNCHANGED <<stage, runtime, units, host, volume, mem, cancel, todo>>

(* A plain decoy gets its stale record corrected, leftovers are rolled back,
   and everything else is refused. *)
RecoverLook(p) ==
    /\ pc[p] = "look"
    /\ \/ /\ View = "interrupted"
          /\ RollBack(p, {"noexec", "reload", "record"})
          /\ UNCHANGED <<record, lock, cmd, opt, mem, cancel>>
       \/ /\ View = "decoy"
          /\ record' \in {"inactive"} \cup (IF May("save") THEN {record} ELSE {})
          /\ Exit(p)
       \/ View \notin {"interrupted", "decoy"} /\ Exit(p) /\ UNCHANGED record
    /\ UNCHANGED <<stage, runtime, units, host, refusal>>

Deactivate(p) == DeactivateBegin(p) \/ RecordInactive(p) \/ EnqueueLeave(p) \/ Unarm(p)
Emergency(p)  == \/ EmergencyBegin(p) \/ SignalOwner(p)
                 \/ EnqueueEmergency(p) \/ KernelPowerOff(p) \/ KillUserspace(p)
Recover(p)    == RecoverBegin(p) \/ RecoverLook(p)
WayOut(p)     == \/ Deactivate(p) \/ Emergency(p) \/ Recover(p)
                 \/ MountDecoyRoot(p) \/ ArmLeave(p)
==============================================================================
