----------------------------- MODULE Activation -----------------------------
(***************************************************************************)
(* `nails activate`: the gates and the state lock, the pre-flight check,   *)
(* entry::build step by step, the record, and the soft-reboot.  A step     *)
(* that fails, and a cancel seen at a checkpoint, roll everything back.    *)
(***************************************************************************)
EXTENDS Machine

(* The last line of every step: go on, or fail over to the rollback with t
   left to do.  A cancel flag read at the checkpoint counts as a failure. *)
StepOk(p, l) == Goto(p, l) /\ UNCHANGED todo
Checked(p, l, t) ==
    \/ ~cancel[p] /\ StepOk(p, l)
    \/ cancel[p] /\ RollBack(p, t)
Undone     == {"noexec"}             \* prepare failed before the drop-in
Reloaded   == {"noexec", "reload"}   \* ... after it
Unrecorded == {"noexec", "reload", "record"}

(* Outside the hidden session, with the lock free: take it.  `opt` is
   --no-preflight. *)
ActivateBegin(p) ==
    /\ root = "decoy" /\ lock = NoProc
    /\ Calm \/ May("overlap")
    /\ \E skip \in BOOLEAN : (skip => May("skip")) /\ Starts(p, "activate", skip)
    /\ lock' = p
    /\ Goto(p, "preflight")
    /\ UNCHANGED <<stage, runtime, units, host, volume, mem, cancel, todo>>

(* The pre-flight checks accept the plain decoy only; --no-preflight skips
   that.  A refusal changes nothing. *)
Preflight(p) ==
    /\ pc[p] = "preflight"
    /\ \/ /\ (View = "decoy" \/ opt[p]) /\ ~cancel[p]
          /\ Goto(p, "runtime")
          /\ UNCHANGED <<lock, local>>
       \/ /\ (View # "decoy" /\ ~opt[p]) \/ cancel[p] \/ May("step")
          /\ Exit(p)
    /\ UNCHANGED <<stage, runtime, units, host, volume>>

(* Refuse a populated next root.  Otherwise write the runtime directory and the
   plan, which records noexec on /run and the kernel's helper paths as they are
   before anything changes them. *)
WriteRuntime(p) ==
    /\ pc[p] = "runtime"
    /\ \/ /\ nextroot = "none"
          /\ rtdir' = TRUE
          /\ plan' = [owner |-> p, armed |-> "none", entered |-> FALSE,
                      noexec |-> noexec, kernel |-> kernel]
          /\ mem' = [mem EXCEPT ![p] = plan']
          /\ StepOk(p, "noexec")
       \/ /\ \/ nextroot # "none" /\ rtdir' = rtdir
             \/ May("step") /\ rtdir' \in {rtdir, TRUE}
          /\ RollBack(p, Undone)
          /\ UNCHANGED <<plan, mem>>
    /\ UNCHANGED <<stage, units, host, volume, lock, cmd, opt, cancel>>

ClearNoexec(p) ==
    /\ pc[p] = "noexec"
    /\ \/ /\ noexec' = (noexec /\ ~mem[p].noexec)
          /\ StepOk(p, "dropin")
       \/ May("step") /\ RollBack(p, Undone) /\ UNCHANGED noexec
    /\ UNCHANGED <<stage, runtime, units, kernel, fixup, volume, lock, cmd, opt, mem, cancel>>

(* The guards and the drop-in, then the reload; files that cannot be written, a
   failed reload, or a stop guard that does not hold, fail the entry. *)
InstallDropin(p) ==
    /\ pc[p] = "dropin"
    /\ \/ dropin' = TRUE /\ loaded' = TRUE /\ Checked(p, "mount", Reloaded)
       \/ May("step") /\ dropin' \in {dropin, TRUE} /\ loaded' = loaded /\ RollBack(p, Undone)
       \/ May("reload") /\ dropin' = TRUE /\ loaded' = loaded /\ RollBack(p, Reloaded)
       \/ May("step") /\ dropin' = TRUE /\ loaded' = TRUE /\ RollBack(p, Reloaded)
    /\ UNCHANGED <<stage, runtime, masks, host, volume, lock, cmd, opt, mem, cancel>>

(* The overlay over the whole root, at /run/nextroot.  Its lower is bound at a
   helper directory below the runtime directory, which is created. *)
MountNextroot(p) ==
    /\ pc[p] = "mount"
    /\ \/ /\ nextroot' = "hidden" /\ rtdir' = TRUE
          /\ \/ Checked(p, IF Builds THEN "build" ELSE "wayback", Reloaded)
             \/ May("step") /\ RollBack(p, Reloaded)
       \/ /\ May("step") /\ UNCHANGED nextroot /\ rtdir' \in {rtdir, TRUE}
          /\ RollBack(p, Reloaded)
    /\ UNCHANGED <<root, pid1, plan, units, host, volume, lock, cmd, opt, mem, cancel>>

(* Build the hidden NixOS system in the next root and keep its closure. *)
BuildSystem(p) ==
    /\ pc[p] = "build"
    /\ \/ nextroot = "hidden" /\ Checked(p, "activate", Reloaded)
       \/ (nextroot # "hidden" \/ May("step")) /\ RollBack(p, Reloaded)
    /\ UNCHANGED <<stage, runtime, units, host, volume, lock, cmd, opt, mem, cancel>>

(* Its activation, which runs to its end once it has begun and points the
   kernel's helper paths at the hidden store. *)
ActivateSystem(p) ==
    /\ pc[p] = "activate"
    /\ \/ kernel' = "hidden" /\ Checked(p, "wayback", Reloaded)
       \/ May("step") /\ kernel' \in {kernel, "hidden"} /\ RollBack(p, Reloaded)
    /\ UNCHANGED <<stage, runtime, units, noexec, fixup, volume, lock, cmd, opt, mem, cancel>>

(* Record the way back, bind /run into the next root and check its init: the
   next root must still be there. *)
WayBack(p) ==
    /\ pc[p] = "wayback"
    /\ \/ nextroot = "hidden" /\ Checked(p, "arm", Reloaded)
       \/ (nextroot # "hidden" \/ May("step")) /\ RollBack(p, Reloaded)
    /\ UNCHANGED <<stage, runtime, units, host, volume, lock, cmd, opt, mem, cancel>>

(* Arm the plan and write it over the one on disk; the directory must exist. *)
ArmEnter(p) ==
    /\ pc[p] = "arm"
    /\ \/ /\ rtdir
          /\ mem' = [mem EXCEPT ![p].armed = "enter"]
          /\ plan' = mem'[p]
          /\ StepOk(p, "record")
       \/ (~rtdir \/ May("step")) /\ RollBack(p, Reloaded) /\ UNCHANGED <<plan, mem>>
    /\ UNCHANGED <<stage, rtdir, units, host, volume, lock, cmd, opt, cancel>>

(* The last checkpoint, then the record: forget the last refusal, save Active. *)
RecordEntry(p) ==
    /\ pc[p] = "record"
    /\ \/ ~cancel[p] /\ refusal' = FALSE /\ record' = "active" /\ StepOk(p, "commit")
       \/ ~cancel[p] /\ May("save") /\ refusal' = FALSE /\ record' = record
                     /\ RollBack(p, Reloaded)
       \/ cancel[p] /\ UNCHANGED volume /\ RollBack(p, Reloaded)
    /\ UNCHANGED <<stage, runtime, units, host, lock, cmd, opt, mem, cancel>>

(* The point of no return: enqueue soft-reboot.target and exit.  A call cut
   short counts as enqueued; a refused one is rolled back. *)
Commit(p) ==
    /\ pc[p] = "commit"
    /\ \E outcome \in {"done", "unknown", "refused"} :
          /\ StartTarget("soft", outcome)
          /\ IF outcome = "refused"
             THEN RollBack(p, Unrecorded) /\ UNCHANGED <<lock, cmd, opt, mem, cancel>>
             ELSE Exit(p)
    /\ UNCHANGED <<root, nextroot, runtime, units, host, volume>>

(* SIGINT or SIGTERM: the handler only sets the flag the checkpoints read. *)
Cancel(p) ==
    /\ May("cancel") /\ pc[p] \in Building /\ ~cancel[p]
    /\ cancel' = [cancel EXCEPT ![p] = TRUE]
    /\ UNCHANGED <<stage, runtime, units, host, volume, lock, pc, cmd, opt, mem, todo>>

Activate(p) ==
    \/ ActivateBegin(p) \/ Preflight(p) \/ WriteRuntime(p) \/ ClearNoexec(p)
    \/ InstallDropin(p) \/ MountNextroot(p) \/ BuildSystem(p) \/ ActivateSystem(p)
    \/ WayBack(p) \/ ArmEnter(p) \/ RecordEntry(p) \/ Commit(p)
==============================================================================
