----------------------------- MODULE Preflight -----------------------------
(***************************************************************************)
(* The pre-flight checks of an activation: the registry that               *)
(* manager/preflight_runner.rs builds, the order nails-base's              *)
(* PreFlightRegistry runs it in, the checks themselves, what they write    *)
(* where, and the state file a pass creates.  While they run, another      *)
(* filesystem can be mounted over the hidden root, and a lazy unmount can  *)
(* take the volume away.                                                   *)
(*                                                                         *)
(* A host is [store, keeps, ...]: store is a host of Storage and Backend,  *)
(* keeps one of Posture, and the other fields are what one check reads.    *)
(***************************************************************************)
EXTENDS Backend, Posture

CONSTANT MountFaults      \* of {"covered", "taken", "kept"}: what happens to the mount meanwhile,
                          \* and a directory that cannot be removed

VARIABLES
    host, opts,   \* the machine and PreflightOptions
    at,           \* the number of the next check
    gateFailed,   \* hidden_volume_failed
    results,      \* the result of each check so far
    scratch,      \* upper-fs-capability: "asked" the gate, or the filesystem with its .probe directory
    written,      \* every <<what, filesystem>> written to so far
    stateFile,    \* the filesystem the state file is on
    outcome       \* "running", "passed", "refused" or "error"
preflightVars == <<host, opts, at, gateFailed, results, scratch, written, stateFile, outcome>>

Results == {"pass", "warn", "fail", "skipped"}
RequiredDirs == {"config", "logs"}
Order ==
    <<"hidden-volume", "backend-entries", "session-state", "platform", "systemd-version",
      "soft-reboot-units", "decoy-root", "fstab-policy", "mount-namespace", "host-tools",
      "symlink-support", "upper-fs-capability", "backend-detect", "argon2id", "storage-readiness",
      "base-reference", "nixos-config", "nixos-build-target", "swap", "memory-wipe",
      "dma-protection", "sleep-policy", "decoy-persistence", "pending-offline-update",
      "residue-catalog", "space", "binary-location", "inherited-autostart", "incremental-history-flush", "state">>
RequiresHiddenVolume ==
    {"backend-entries", "symlink-support", "upper-fs-capability", "storage-readiness", "space",
     "nixos-config"}
(* flake_target_already_validated is always FALSE. *)
BuildRegistry(h, o) ==
    SelectSeq(Order, LAMBDA c :
      CASE c = "platform" -> h.platform # "unknown"
        [] c = "base-reference" -> h.nixos
        [] c \in {"nixos-config", "nixos-build-target"} -> h.nixos /\ ~o.overlayOnly
        [] OTHER -> TRUE)

------------------------------------------------------------------------------
(* The checks that are not in Storage, FstabPolicy, Backend or Posture. *)
FilesystemAt(h) == Reached(h.store.table, h.store.root).dev
NamingHints(h) == {"path", "mapper", "label"} \cap h.named
HiddenVolume(h, allow) ==
    LET a == AssessAllowing(h.store, allow)
    IN  IF ~IsAttached(a) \/ ~h.writable THEN "fail"
        ELSE IF a.as = "warned" \/ NamingHints(h) # {} THEN "warn" ELSE "pass"
Platform(h) ==
    CASE h.platform = "unsupported" -> "fail" [] h.platform = "untested" -> "warn" [] OTHER -> "pass"
DecoyRoot(h) == IF h.rootOnDisk THEN "pass" ELSE "fail"
MountNamespace(h) == IF ~h.ownNamespace /\ h.sharedRoot THEN "pass" ELSE "fail"
RequiredTools(h) == {"systemctl", "loginctl"} \cup (IF h.nixos THEN {"nix"} ELSE {})
HostTools(h) == IF h.platform = "unsupported" \/ RequiredTools(h) \subseteq h.tools THEN "pass" ELSE "fail"
(* probe_in_scratch, probe_trial_overlay: the first capability that is missing. *)
UpperCapabilities == <<"xattr", "d_type", "overlay">>
UpperFs(h) == IF \A i \in 1..3 : UpperCapabilities[i] \in h.upper THEN "pass" ELSE "fail"
RequiredDirsMissing(h) == RequiredDirs \ h.dirs
OverlayUsable(h) == h.lowerReadable /\ ({"upper", "work"} \cap h.dirs) \subseteq h.writableDirs
StorageReadiness(h) ==
    LET pending == RequiredDirsMissing(h) \cup ({"work"} \ h.dirs)
    IN  IF ~OverlayUsable(h) THEN "fail" ELSE IF pending # {} THEN "warn" ELSE "pass"
BuildTarget(h) ==
    CASE h.target \in {"decoy flake", "none"} -> "fail"
      [] h.target = "local flake" -> IF h.flakeNix THEN "pass" ELSE "fail"
      [] OTHER -> "pass"
OfflineUpdate(h) == IF h.staged = {} THEN "pass" ELSE "fail"
Space(h) == IF h.available >= h.minimum THEN "pass" ELSE "fail"
BinaryLocation(h) == IF h.binaryOnVolume /\ ~h.pathLink THEN "pass" ELSE "warn"
InheritedAutostart(h) == IF h.operator /\ h.review # {} THEN "warn" ELSE "pass"
HistoryFlush(h) == IF h.operator /\ h.flushes THEN "warn" ELSE "pass"
StateCheck(h) == IF h.state = "inactive" THEN "pass" ELSE "warn"

Run(c, h, o) ==
    CASE c = "hidden-volume" -> HiddenVolume(h, o.allow)
      [] c = "backend-entries" -> BackendEntries(h.store)
      [] c = "session-state" -> JudgeSession(h.view)
      [] c = "platform" -> Platform(h)
      [] c = "systemd-version" -> JudgeVersion(RunningVersion(h.shown, h.printed))
      [] c = "soft-reboot-units" -> JudgeUnits(h.units)
      [] c = "decoy-root" -> DecoyRoot(h)
      [] c = "fstab-policy" -> JudgeFstab(DecideAll(h.lines, h.store.table, h.store.root))
      [] c = "mount-namespace" -> MountNamespace(h)
      [] c = "host-tools" -> HostTools(h)
      [] c = "symlink-support" -> IF h.symlinks THEN "pass" ELSE "fail"
      [] c = "upper-fs-capability" -> UpperFs(h)
      [] c = "backend-detect" -> BackendDetect(h.store, FALSE)
      [] c = "argon2id" -> IF Argon2idAdvice(h.cryptsetup, FirstReleaseOpeningArgon2id) = "refuse" THEN "fail" ELSE "pass"
      [] c = "storage-readiness" -> StorageReadiness(h)
      [] c \in {"base-reference", "nixos-config"} -> h.config
      [] c = "nixos-build-target" -> BuildTarget(h)
      [] c = "swap" -> SwapCheck(h.keeps)
      [] c = "memory-wipe" -> MemoryWipe(h.keeps)
      [] c = "dma-protection" -> DmaProtection(h.keeps)
      [] c = "sleep-policy" -> SleepPolicy(h.keeps.logind)
      [] c = "decoy-persistence" -> DecoyPersistence(h.keeps, o.accept)
      [] c = "pending-offline-update" -> OfflineUpdate(h)
      [] c = "residue-catalog" -> h.residue
      [] c = "space" -> Space(h)
      [] c = "binary-location" -> BinaryLocation(h)
      [] c = "inherited-autostart" -> InheritedAutostart(h)
      [] c = "incremental-history-flush" -> HistoryFlush(h)
      [] c = "state" -> StateCheck(h)

(* What a check writes below the hidden root, whatever filesystem is there:
   is_writable's .nails_write_test and supports_symlinks' .nails_symlink_probe,
   both removed again at once. *)
Probes(c, h, o) ==
    CASE c = "hidden-volume" -> IF IsAttached(AssessAllowing(h.store, o.allow)) THEN {"write test"} ELSE {}
      [] c = "symlink-support" -> {"link"}
      [] c = "storage-readiness" -> IF {"upper", "work"} \cap h.dirs = {} THEN {} ELSE {"layer test"}
      [] OTHER -> {}

------------------------------------------------------------------------------
PreflightStart(h, o) ==
    /\ host = h /\ opts = o /\ at = 1 /\ gateFailed = FALSE /\ results = <<>>
    /\ scratch = "none" /\ written = {} /\ stateFile = h.stateFile /\ outcome = "running"

Check == BuildRegistry(host, opts)[at]
Running == outcome = "running" /\ at <= Len(BuildRegistry(host, opts)) /\ scratch = "none"
Report(r) ==
    /\ results' = Append(results, r)
    /\ at' = at + 1
    /\ gateFailed' = (gateFailed \/ (Check = "hidden-volume" /\ r = "fail"))

SkipCheck ==
    /\ Running /\ gateFailed /\ Check \in RequiresHiddenVolume
    /\ Report("skipped")
    /\ UNCHANGED <<host, opts, scratch, written, stateFile, outcome>>
\* Mutant: the gate's failure is not kept.
RunCheckAll ==
    /\ Running /\ Check # "upper-fs-capability"
    /\ Report(Run(Check, host, opts))
    /\ written' = written \cup {<<p, FilesystemAt(host)>> : p \in Probes(Check, host, opts)}
    /\ UNCHANGED <<host, opts, scratch, stateFile, outcome>>
RunCheck ==
    /\ Running /\ ~(gateFailed /\ Check \in RequiresHiddenVolume) /\ Check # "upper-fs-capability"
    /\ Report(Run(Check, host, opts))
    /\ written' = written \cup {<<p, FilesystemAt(host)>> : p \in Probes(Check, host, opts)}
    /\ UNCHANGED <<host, opts, scratch, stateFile, outcome>>
(* UpperFsCapabilityCheck asks the gate again, without what the operator allows,
   then makes its .probe directory at whatever the path shows by then, and removes
   it by that path whatever it found: a directory it cannot remove, or no longer
   reaches, is a failure of the check. *)
SkipProbe ==
    /\ Running /\ ~gateFailed /\ Check = "upper-fs-capability"
    /\ ~IsAttached(Assess(host.store))
    /\ Report("skipped")
    /\ UNCHANGED <<host, opts, scratch, written, stateFile, outcome>>
AskGate ==
    /\ Running /\ ~gateFailed /\ Check = "upper-fs-capability"
    /\ IsAttached(Assess(host.store))
    /\ scratch' = "asked"
    /\ UNCHANGED <<host, opts, at, gateFailed, results, written, stateFile, outcome>>
MakeProbe ==
    /\ scratch = "asked"
    /\ \/ /\ scratch' = FilesystemAt(host)
          /\ written' = written \cup {<<"probe", FilesystemAt(host)>>}
          /\ UNCHANGED <<at, gateFailed, results>>
       \/ Report("fail") /\ scratch' = "none" /\ UNCHANGED written     \* it cannot be created
    /\ UNCHANGED <<host, opts, stateFile, outcome>>
RemoveProbe ==
    /\ scratch \notin {"none", "asked"}
    /\ \E removed \in {FilesystemAt(host) = scratch} \cup (IF "kept" \in MountFaults THEN {FALSE} ELSE {}) :
         /\ Report(IF removed THEN UpperFs(host) ELSE "fail")
         /\ written' = IF removed THEN written ELSE written \cup {<<"probe left", scratch>>}
    /\ scratch' = "none"
    /\ UNCHANGED <<host, opts, stateFile, outcome>>

AllPassed == \A i \in DOMAIN results : results[i] # "fail"
(* run_preflight_checks: an empty state file is created when all checks passed
   and there is none; ensure_state_file_exists does not ask the gate. *)
Finish ==
    /\ outcome = "running" /\ at > Len(BuildRegistry(host, opts))
    /\ IF ~AllPassed THEN outcome' = "refused" /\ UNCHANGED stateFile
       ELSE /\ stateFile' = IF stateFile = "none" THEN FilesystemAt(host) ELSE stateFile
            /\ outcome' = "passed"
    /\ UNCHANGED <<host, opts, at, gateFailed, results, scratch, written>>

(* What others do to the mount meanwhile: the checks then read, and write to,
   whatever filesystem is at the hidden root. *)
Elsewhere(table) ==
    /\ outcome = "running" /\ Len(host.store.table) = 2
    /\ host' = [host EXCEPT !.store.table = table, !.writable = TRUE, !.symlinks = TRUE, !.dirs = {}]
    /\ stateFile' = "none"
    /\ UNCHANGED <<opts, at, gateFailed, results, scratch, written, outcome>>
Cover ==
    /\ "covered" \in MountFaults
    /\ LET top == Last(host.store.table)
       IN  Elsewhere(Append(host.store.table,
                            [top EXCEPT !.id = 9, !.parent = top.id, !.dev = "usb", !.source = "usb"]))
TakeAway == "taken" \in MountFaults /\ Elsewhere(Front(host.store.table))

PreflightNext ==
    \/ SkipCheck \/ RunCheck \/ SkipProbe \/ AskGate \/ MakeProbe \/ RemoveProbe \/ Finish
    \/ Cover \/ TakeAway

------------------------------------------------------------------------------

(* Every check of the registry has at most one result, in its order. *)
PreflightTypeOK ==
    /\ Range(results) \subseteq Results
    /\ at = Len(results) + 1 /\ Len(results) <= Len(BuildRegistry(host, opts))
    /\ outcome \in {"running", "passed", "refused"}

(* run_all_detailed: once the hidden volume's gate has failed, no check writes a
   probe below the hidden root. *)
NothingAfterGate ==
    gateFailed => \A w \in written : w[1] = "write test"

(* probe_upper_capabilities, run_preflight_checks: a .probe directory left behind,
   on any filesystem, is told ("a leftover probe dir would itself be a trace"): the
   preflight fails, and it creates no state file. *)
LeftoverTold ==
    /\ (\E w \in written : w[1] = "probe left") => "fail" \in Range(results) /\ outcome # "passed"
    /\ outcome # "running" => scratch = "none"
    /\ outcome = "refused" => stateFile \in {host.stateFile, "none"}

(* build_registry, run_all_detailed: what passes has had every check that applies
   run and none fail: the machine is the decoy, its checks of the volume, of what
   the decoy keeps and of the fstab all hold, and what was skipped is the probe of
   a volume on storage the operator accepted.  Of the volume itself it speaks when
   the mount at the hidden root stayed what it was. *)
PassedIsSound ==
    outcome = "passed" =>
      /\ Len(results) = Len(BuildRegistry(host, opts)) /\ ~gateFailed
      /\ host.view = "decoy" /\ host.staged = {} /\ host.available >= host.minimum
      /\ host.nixos /\ ~opts.overlayOnly => host.target \notin {"none", "decoy flake"}
      /\ Blockers(host.keeps) = {} \/ opts.accept
      /\ ~opts.allow /\ Len(host.store.table) = 2 => IsAttached(Assess(host.store)) /\ UpperFs(host) = "pass"

(* Once a gate has failed nothing is written, a probe that is left behind   *)
(* is told, and a preflight that passes found a decoy that is fit           *)
(* (run_all_detailed, UpperFsCapabilityCheck).                              *)
PreflightGates == PreflightTypeOK /\ NothingAfterGate /\ LeftoverTold /\ PassedIsSound
=============================================================================
