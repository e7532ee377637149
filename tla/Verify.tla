-------------------------------- MODULE Verify --------------------------------
(***************************************************************************)
(* nails verify (nails-forensics/src/verify, residue_catalog): the catalog *)
(* of traces a session or a setup leaves, the checks a run makes in each   *)
(* mode, and what it says it did not look at.  A path a row probes stands  *)
(* for its row; a trace is a row whose path or record is there.            *)
(***************************************************************************)
EXTENDS Naturals, FiniteSets

Fhs == {"debian", "fedora", "arch"}
All == Fhs \cup {"nixos"}

Check(id) == <<"check", id>>
PathsAt(severity) == <<"paths", severity>>
Unseen == <<"none", "">>
Row(id, on, pre, blocks, verify) ==
    [id |-> id, on |-> on, pre |-> pre, blocks |-> blocks, verify |-> verify]

LoggingRows == {
    Row("persistent-journal", All, Check("decoy-persistence"), TRUE, Check("journal-scan")),
    Row("pre-entry-journal-window", All, Check("decoy-persistence"), TRUE, Check("journal-scan")),
    Row("runtime-journal-reset", All, Unseen, FALSE, Unseen),
    Row("classic-syslog", All, Check("decoy-persistence"), TRUE, Check("deep-scan-files")),
    Row("auditd", All, Check("decoy-persistence"), TRUE, PathsAt("warn")),
    Row("sudo-logfile", All, Check("decoy-persistence"), FALSE, PathsAt("warn")),
    Row("sudo-io-log", All, Check("decoy-persistence"), FALSE, PathsAt("warn"))}
LeftFileRows == {
    Row("swap-hibernation", All, Check("swap"), TRUE, Check("memory-swap")),
    Row("crash-dumps", All, Check("decoy-persistence"), FALSE, PathsAt("warn")),
    Row("shell-history", All, Check("incremental-history-flush"), FALSE, Check("deep-scan-history")),
    Row("desktop-recent-files", All, Unseen, FALSE, Check("deep-scan-recent-files")),
    Row("nails-artifacts", All, Check("suspicious-nails-reference"), TRUE, Check("artifact-files")),
    Row("var-lib-nixos", {"nixos"}, Unseen, FALSE, Check("platform-scanners"))}
TransitionRows == {
    Row("decoy-filesystems", All, Check("fstab-policy"), TRUE, Unseen),
    Row("session-disk-mounts", All, Unseen, FALSE, Unseen),
    Row("run-carry-over", All, Unseen, FALSE, Check("session-leftovers")),
    Row("interrupted-entry", All, Check("session-state"), TRUE, Check("session-leftovers")),
    Row("kmsg-import", All, Check("decoy-persistence"), FALSE, Check("journal-scan"))}
KernelRows == {
    Row(id, All, Unseen, FALSE, Unseen) : id \in {"network-state", "soft-reboot-counter",
        "login-boot-records", "decoy-mount-table", "firmware-state"}}
ClockAndDiskRows == {
    Row("ram-remanence", All, Check("memory-wipe"), FALSE, Check("memory-swap")),
    Row("timesync-clock", All, PathsAt("info"), FALSE, PathsAt("info")),
    Row("timer-stamps", All, PathsAt("info"), FALSE, PathsAt("info")),
    Row("smart-power-on-hours", All, Unseen, FALSE, Unseen),
    Row("ssd-ftl-remnants", All, Unseen, FALSE, Unseen)}
DistributionRows == {
    Row("chrony-drift", Fhs, PathsAt("info"), FALSE, PathsAt("info")),
    Row("networkmanager-connection-records", All, Unseen, FALSE, Unseen),
    Row("plymouth-boot-log", Fhs, Unseen, FALSE, PathsAt("info")),
    Row("snapper-timeline", Fhs, PathsAt("info"), FALSE, PathsAt("info")),
    Row("btrfs-cow-history", All, Unseen, FALSE, Unseen),
    Row("grubenv-boot-success", {"fedora"}, Unseen, FALSE, PathsAt("info"))}
SetupRows == {
    Row("lvm-metadata-archive", All, PathsAt("warn"), FALSE, Check("examiner-lvm")),
    Row("udisks2-state", All, PathsAt("warn"), FALSE, PathsAt("warn")),
    Row("crypttab-fstab", All, Check("backend-entries"), TRUE, Check("examiner-config")),
    Row("luks-headers", All, Check("backend-detect"), FALSE, Check("examiner-disk")),
    Row("high-entropy-space", All, Unseen, FALSE, Check("examiner-disk")),
    Row("container-candidates", All, Check("backend-detect"), FALSE, Check("examiner-containers")),
    Row("backend-tooling", All, Unseen, FALSE, Check("examiner-tooling")),
    Row("container-history", All, Check("incremental-history-flush"), FALSE, Check("examiner-history"))}
SessionRows == LoggingRows \cup LeftFileRows \cup TransitionRows \cup KernelRows
               \cup ClockAndDiskRows \cup DistributionRows
Catalog == SessionRows \cup SetupRows

-----------------------------------------------------------------------------
(* One run: where it looks, what is there, and what it can read.           *)
(*   host: the platforms the host is taken for ({}: not identified)        *)
(*   traces: the ids of the rows whose trace is there                      *)
(*   scoped: the baseline of an activation, hidden volume left out         *)
(*   journal: journalctl answers; onDisk: /var/log/journal holds files     *)
(*   session: the hidden session verify runs in, or none                   *)
AppliesTo(row, host) == host = {} \/ row.on \cap host # {}
(* catalog_platform *)
CatalogHost(r) == IF r.offline THEN {} ELSE r.host

LiveChecks == {"session-leftovers", "processes", "memory-swap", "block-devices", "platform-scanners"}
DeepChecks == {"deep-scan-files", "deep-scan-history", "deep-scan-recent-files"}
(* examiner::examine: the disk is a check of its own, when it was read *)
ExaminerChecks(r) ==
    {"examiner-catalog-paths", "examiner-config", "examiner-lvm", "examiner-tooling",
     "examiner-containers", "examiner-history"} \cup (IF r.disk = "read" THEN {"examiner-disk"} ELSE {})
Examines(r) == r.offline /\ r.examiner

(* The checks Verifier::run notes as run. *)
Ran(r) ==
    {"artifact-files", "catalog-paths"}
    \cup (IF r.offline THEN {} ELSE LiveChecks)
    \cup (IF ~ r.offline /\ r.rootKnown THEN {"config-paths"} ELSE {})
    \cup (IF ~ r.offline /\ r.state # "none" THEN {"state"} ELSE {})
    \cup (IF r.deep THEN DeepChecks ELSE {})
    \cup (IF r.deep /\ ~ r.offline /\ r.journal THEN {"journal-scan"} ELSE {})
    \cup (IF Examines(r) THEN ExaminerChecks(r) ELSE {})

(* catalog_areas_not_checked, by row *)
NotChecked(r) ==
    {row.id : row \in {x \in Catalog :
        /\ AppliesTo(x, CatalogHost(r))
        /\ \/ x \in SetupRows /\ ~ Examines(r)
           \/ x.verify[1] = "check" /\ x.verify[2] \notin Ran(r)
           \/ x.verify[1] = "none"}}

-----------------------------------------------------------------------------
(* The findings, as pairs of the trace and its severity. *)
(* check_catalog_paths, and the examiner's catalog_paths *)
CatalogPaths(r) ==
    {<<row.id, row.verify[2]>> : row \in {x \in SessionRows :
        x.id \in r.traces /\ x.verify[1] = "paths" /\ AppliesTo(x, CatalogHost(r))}}

(* journal_finding: r.entries tells sudo's records of commands from others *)
JournalSeverity(r) ==
    IF r.onDisk \/ ("other" \in r.entries /\ ~ r.inSession) THEN "warn" ELSE "info"

(* What each check finds of the rows it stands for.  The recent files are  *)
(* read only where a hidden root is known, and a platform scanner runs     *)
(* only on a platform that was identified.                                 *)
Sees(r, check) ==
    CASE check = "journal-scan" -> r.deep /\ ~ r.offline /\ r.journal
      [] check = "deep-scan-recent-files" -> r.deep /\ r.rootKnown
      [] check \in DeepChecks -> r.deep
      [] check = "platform-scanners" -> ~ r.offline /\ r.host # {}
      [] check \in LiveChecks -> ~ r.offline
      [] check = "examiner-disk" -> Examines(r) /\ r.disk = "read"
      [] check = "artifact-files" -> TRUE
      [] OTHER -> Examines(r)
SeenBy(r, check) ==
    {row.id : row \in {x \in Catalog : x.id \in r.traces /\ x.verify = Check(check) /\ Sees(r, check)}}
Findings(r) ==
    CatalogPaths(r)
    \cup SeenBy(r, "journal-scan") \X {JournalSeverity(r)}
    \cup UNION {SeenBy(r, check) \X {"warn"} : check \in
                  {x.verify[2] : x \in {y \in Catalog : y.verify[1] = "check"}} \ {"journal-scan"}}
    \cup (IF Examines(r)
          THEN {<<row.id, "setup">> : row \in {x \in SetupRows : x.id \in r.traces /\ x.verify[1] = "paths"}}
          ELSE {})
Seen(r) == {f[1] : f \in Findings(r)}

(* A run never overclaims: a trace that is there is found, or the run says *)
(* that it did not look for it ("this names what was skipped so the        *)
(* headline never overclaims", VerifyResult::areas_not_checked).  The host *)
(* is identified and its hidden root configured.                           *)
NothingSkipped(r) ==
    r.rootKnown /\ (r.offline \/ r.host # {}) =>
        \A row \in Catalog :
            row.id \in r.traces /\ AppliesTo(row, CatalogHost(r)) => row.id \in Seen(r) \cup NotChecked(r)

-----------------------------------------------------------------------------
(* hidden_session: the root overlay's upper is the plan's, or lies on the  *)
(* configured hidden root.                                                 *)
InSession(s) ==
    /\ s.root # "plain"
    /\ s.plan = s.root \/ (s.root = "hidden" /\ s.rootKnown)
ReadOnlyDisks(s) == IF s.plan = s.root THEN s.planReadOnly ELSE s.configReadOnly

(* check_session_leftovers *)
\* Mutant: a plan in /run is taken for a session's.
SessionFindingsPlan(s) ==
    IF InSession(s) \/ s.plan # "none" THEN {}
    ELSE {<<l, "critical">> : l \in s.left \cap {"nextroot", "runtime", "dropin", "guard", "unit"}}
         \cup (IF "overlay" \in s.left /\ s.rootKnown THEN {<<"overlay", "critical">>} ELSE {})
         \cup {<<l, "warn">> : l \in s.left \cap {"mask"}}

SessionFindings(s) ==
    IF InSession(s) THEN {}
    ELSE {<<l, "critical">> : l \in s.left \cap {"nextroot", "runtime", "dropin", "guard", "unit"}}
         \cup (IF s.plan # "none" THEN {<<"plan", "critical">>} ELSE {})
         \cup (IF "overlay" \in s.left /\ s.rootKnown THEN {<<"overlay", "critical">>} ELSE {})
         \cup {<<l, "warn">> : l \in s.left \cap {"mask"}}

(* ARTIFACTS *)
Artifact(id, kind, scope, severity) == [id |-> id, kind |-> kind, scope |-> scope, severity |-> severity]
Artifacts ==
    {Artifact(id, "HiddenRootPath", "HiddenRoot", "info") : id \in
        {"config-file", "state-file", "log-file", "deactivation-reports", "nixos-module-source"}}
    \cup {Artifact(id, "AbsolutePath", "Runtime", "warn") : id \in
        {"runtime-dir-legacy", "runtime-copy-dir", "read-only-disks-rule", "pivot-staging-run-legacy"}}
    \cup {Artifact(id, "AbsolutePath", "Decoy", "critical") : id \in
        {"pivot-staging-legacy", "nixos-staged-link"}}
    \cup {Artifact("nixos-import-marker", "ContentMarker", "Decoy", "critical"),
          Artifact("autostart-notify", "Basename", "Decoy", "warn"),
          Artifact("shell-rc-marker", "ContentMarker", "Decoy", "warn")}

(* Artifact::resolve_path *)
Resolves(a, s) == a.kind = "AbsolutePath" \/ (a.kind = "HiddenRootPath" /\ s.rootKnown /\ ~ s.scoped)
(* owns_runtime_path *)
OwnsRuntimePath(a, s) ==
    a.id = "runtime-copy-dir" \/ (a.id = "read-only-disks-rule" /\ ReadOnlyDisks(s))

(* check_artifact_files, decoy_artifact_in_session: s.inUpper holds the    *)
(* paths the session's upper layer has.                                    *)
ArtifactFindings(s) ==
    {<<a.id, IF InSession(s) /\ a.scope = "Decoy" /\ a.id \in s.inUpper THEN "info" ELSE a.severity>> :
        a \in {x \in Artifacts :
            /\ x.id \in s.present /\ Resolves(x, s)
            /\ ~ (InSession(s) /\ x.scope = "Runtime" /\ OwnsRuntimePath(x, s))
            /\ ~ (~ InSession(s) /\ x.id = "runtime-copy-dir")}}

(* check_config_paths: the volume's own paths are no finding while it is   *)
(* attached on purpose.                                                    *)
ConfigFindings(s) ==
    IF ~ s.rootKnown THEN {}
    ELSE (IF s.state = "Inactive" \/ s.scoped \/ InSession(s) THEN {}
          ELSE {<<"config", "warn">> : x \in s.volume \cap {"root", "state"}})
         \cup {<<"log", "warn">> : x \in s.volume \cap {"log-outside"}}

(* check_state *)
StateFindings(s) ==
    CASE s.state = "Active" /\ ~ InSession(s) -> {<<"state", "warn">>}
      [] s.state = "Degraded" -> {<<"state", "warn">>}
      [] OTHER -> {}

Status(findings) ==
    LET has(severity) == \E f \in findings : f[2] = severity IN
    IF has("critical") THEN "Critical" ELSE IF has("warn") THEN "Warning" ELSE "Secure"
VerifyStatus(s) ==
    Status(SessionFindings(s) \cup ArtifactFindings(s) \cup ConfigFindings(s) \cup StateFindings(s))

(* On a decoy, whatever its own root is mounted from, what an interrupted  *)
(* entry leaves is never reported as clean, and what would let a later     *)
(* soft-reboot enter the session is critical.                              *)
LeftoversTold(s) ==
    ~ InSession(s) =>
        /\ (s.plan # "none" \/ s.left \cap {"nextroot", "runtime", "dropin", "guard", "unit"} # {})
              => VerifyStatus(s) = "Critical"
        /\ s.left # {} /\ s.rootKnown => VerifyStatus(s) # "Secure"
        /\ s.state \in {"Active", "Degraded"} => VerifyStatus(s) # "Secure"

(* In a session its own runtime files and the attached volume are no       *)
(* finding, but a runtime file of another build, a rule the session did    *)
(* not ask for and a trace seen through to the decoy are.                  *)
SessionQuiet(s) ==
    InSession(s) /\ s.state # "Degraded" /\ "log-outside" \notin s.volume =>
        (VerifyStatus(s) = "Secure" <=>
            /\ s.present \cap {"runtime-dir-legacy", "pivot-staging-run-legacy"} = {}
            /\ "read-only-disks-rule" \in s.present => ReadOnlyDisks(s)
            /\ s.present \cap {"pivot-staging-legacy", "nixos-staged-link"} \subseteq s.inUpper)

(* The baseline an activation takes of a clean decoy is clean, though the  *)
(* hidden volume is attached with everything nails keeps on it.            *)
BaselineClean(s) ==
    /\ ~ InSession(s) /\ s.scoped /\ s.left = {} /\ s.plan = "none" /\ s.state \in {"none", "Inactive"}
    /\ "log-outside" \notin s.volume
    /\ \A a \in Artifacts : a.id \in s.present => a.kind = "HiddenRootPath"
    => VerifyStatus(s) = "Secure"

-----------------------------------------------------------------------------
(* user_homes: root, the login users, and who ran sudo. *)
FirstLoginUid == 1000
RealUser(u) == u.uid = 0 \/ (u.uid >= FirstLoginUid /\ u.shell = "login")
UserHomes(r) ==
    {"/root"}
    \cup {u.home : u \in {x \in r.users : RealUser(x) /\ x.home # ""}}
    \cup (IF r.offline THEN {} ELSE {u.home : u \in {x \in r.users : x.name = r.sudoUser /\ x.home # ""}})

(* The home of whoever typed the command is searched, whatever account it  *)
(* is, on the live host.                                                   *)
InvokerSearched(r) ==
    ~ r.offline => \A u \in r.users : u.name = r.sudoUser /\ u.home # "" => u.home \in UserHomes(r)

-----------------------------------------------------------------------------
(* check_block_devices: a crypt mapping or an attached loop device is the  *)
(* hidden volume's own when its mount names it as the source.  A node is a *)
(* directory and a name.                                                   *)
IsOwn(device, sources) ==
    \E s \in sources : s = device.node \/ (device.kind = "crypt" /\ s[2] = device.node[2])
                       \/ (device.kind = "loop" /\ s = device.backing)
BlockDeviceFindings(b) ==
    {<<d.node, IF IsOwn(d, b.sources) THEN "info" ELSE "warn">> :
        d \in {x \in b.devices : x.kind # "other" /\ ~ (IsOwn(x, b.sources) /\ b.scoped)}}

(* A second crypt mapping or loop device is a warning whatever its name    *)
(* is, in an activation's baseline too ("because it can expose a second    *)
(* hidden volume").  The volume is mounted by its mapping or loop device.  *)
SecondVolumeSeen(b) ==
    \A d \in b.devices :
        d.kind # "other" /\ {d.node, d.backing} \cap b.sources = {} => <<d.node, "warn">> \in BlockDeviceFindings(b)

=============================================================================
