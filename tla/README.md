# NAILS in TLA+

NAILS soft-reboots a decoy Linux system into an overlay over its whole root, whose
writable layer lies on a hidden volume, and back. Commands, PID 1, signals, power
cuts, threads, other programs and the clock all touch the same few things, and most
of their interleavings are out of a test's reach. This directory models the system
part by part, checks the models with TLC and proves what matters most with TLAPS.

`PROJECT.json` lists the parts with their sources, the runs with their properties, a
mutant for each property, the lines the definitions stand for, the hazards and the
theorems. Where several definitions stand for the same lines, the one that covers them
is listed and its small helpers are not, nor are lists of names and limits that the code
has as constants. All paths below are under `src/`.

## The system and its parts

A session is a walk through shared state: what is mounted at `/run/nextroot`; the
runtime directory `/run/overlay-runtime` with the session **plan** and a copy of the
binary; the **drop-in** that hooks the transition step into
`systemd-soft-reboot.service`; the **masks** on the decoy's units; `noexec` on `/run`;
the kernel's helper paths, which a NixOS activation rewrites; and the state file on
the hidden volume. `/run` and the kernel survive a soft-reboot and nothing else; only
the hidden volume survives a power cut.

| Part | Source | Module |
|---|---|---|
| commands, entry, rollback, way back, emergency | `nails-core/src/app`, `manager`, `nails-session/src/session`, `nails-teardown/src/whole_root` | `Machine`, `Activation`, `Leave` |
| PID 1 and the transition step | `whole_root/transition.rs` | `Transition` |
| the whole lifecycle, and what a session promises | | `Lifecycle`, `Session` |
| state file and lock | `nails-base/src/state`, `filesystem/safe_path.rs` | `StateFile` |
| watcher, disk guard, sleep guard, hot path, kill | `nails-session/src/watcher`, `sleep_guard`, `whole_root/disk_guard.rs`, `kill.rs` | `Watch`, `DiskGuard`, `Kill` |
| external programs | `nails-base/src/process/run.rs` | `ChildProcess` |
| `/run`, mounts and utab over both switches | `whole_root/run_scrub.rs`, `decoy_mounts.rs`, `utab.rs` ... | `RunDir`, `MountTree`, `MountInfo` |
| mounts of the next root | `whole_root/nextroot.rs` | `Staging` |
| hidden store | `session/store.rs` | `Store` |
| hidden NixOS configuration | `nails-platform/src/nixos/config` | `HiddenConfig`, `NixScan` |
| network identity, boot records | `whole_root/network.rs`, `boot_records.rs` | `Identity` |
| home and persona | `nails-session/src/persona` | `Persona` |
| pre-flight checks and what they read | `preflight_runner.rs`, `preflight/checks`, `hidden_root` | `Preflight`, `Storage`, `Backend`, `Posture` |
| `init`, `reset-upper` | `app/init.rs`, `discard_upper.rs` | `Setup` |
| file operations, operation log | `nails-base/src/filesystem`, `logging` | `SafeFs`, `Logs` |
| configuration, alerts, platform | `nails-base/src/config`, `nails-platform` | `Settings`, `Platform` |
| readers and writers of others' text | `mountinfo.rs`, `utab.rs`, `fstab.rs` ... | `Readers` |
| rehearse, verify, raw search, oracle | `nails-forensics`, `nails-oracle` | `Rehearse`, `Verify`, `Oracle` |

How they meet: the lifecycle modules share one state (`Machine`). `Watch` extends
`DiskGuard` and `Kill`: the watcher sweeps disks, and watcher, sleep guard and operator
may each start the hot path and its kill, two at once. `RunDir` drives `MountTree`
through the same entry and return. `Preflight` uses `Storage`, `Backend` and `Posture`
for its verdicts. The others share no state and are composed in `MCSteps` and
`MCDecisions`, one at a time: no step of one can disturb another.

### State and actions against the code

A command is a process with a program counter (`pc`). It moves by one action per step
whose effect another actor, a signal or a kill can see. In the lifecycle `mem` is the
plan a command holds in memory while the one on disk changes, `cancel` its cancel
flag, `opt` its one relevant option (`--no-preflight`, or power-off instead of a
return), `todo` what a rollback has left to do. `plan.armed` is the `Arm` of `plan.rs`;
"lapsed" stands for an arming older than `ARM_VALIDITY_SECS`. `plan.entered` is
`entered_at`. `entry::rollback` (a failed activation, `recover`) and the decoy side of
`emergency` run the same steps.

`Faults` lists what may go wrong in an instance, so that a run or a theorem says
exactly what its property withstands:

| Fault | In the code |
|---|---|
| step, save, reload | a step, a state save or a daemon-reload returns an error |
| enqueue | `systemctl start` refuses, or is cut short with an unknown outcome |
| planwrite | the entry transition's ignored plan write fails |
| precheck | the next root's init does not resolve, or masks cannot be written |
| lapse | an arming outlives its validity |
| cancel, kill, power | SIGINT/SIGTERM, SIGKILL between any two steps, power cut |
| plain | `systemctl soft-reboot` by anybody |
| skip | `activate --no-preflight` |
| overlap | commands run at once; `recover` goes on without the lock |

In `StateFile`, `shown` is `state.json` as processes see it and `after` the files a power
cut may leave under that name; `v` numbers them, `acked` is the newest whose save has
returned Ok, and `hit` records which faults a behaviour has met. In `ChildProcess` the
runner, its two readers, the program ("leader") and one helper it may leave behind
take their steps in any order; a pipe holds `Cap` units. In `Watch` a round of the
watcher is a sequence of steps and time advances in poll intervals. In `Kill` a cgroup
is its path, a process is in one of them, and a walk visits the tree child by child while
processes fork, services are revived and other walks go on. In `Store` a path is a set of parts, copied part
by part by several workers. Each module's header says how its data is abstracted.

Abstractions of the lifecycle: detaching a next root and removing the runtime
directory always work; a clock that steps back does not revalidate a lapsed arming; the
deferred close of the backend is left out; a detached hidden volume shows as a failed
save; each process runs one command; restoring `noexec` on the way back works; PID 1's
switch works once the init check has passed; an activation script orphaned by SIGKILL
of its `nails` is not modelled; outside `overlap`, commands start after the decoy's first
start (`Calm`); the runtime directory and the plan in it appear in one step (a kill between
them leaves what a failed write of the plan leaves), and a runtime directory that the mount
of the lower makes again counts as whole; the way back gives back all masks of the entry
(`RunDir` has the scrub that does it). Elsewhere: the ancestry of an emergency is fixed
while it runs, logs are rotated by one process at a time, and the neutralised lines of a
seeded configuration are one flag. Of the state file only the state, the presence of the last activation's
timing and whether it is torn are kept. The trust of an executable is a property of the
file. Text is a sequence of tokens, and of characters only where escaping is the point
(`Readers`, `Platform`, `Oracle`).

## Runs

Three commands let one meet the leftovers of two, or run beside two; everything else
in the lifecycle is finite by nature, so the searches are complete. Symmetry over
commands is used where no liveness is checked. `CHECK_DEADLOCK FALSE` throughout: an
operator who starts nothing more, or has used up the processes, is not a fault.

| Run | Instance | Checks |
|---|---|---|
| `session` | 3 commands, no emergency; all faults but planwrite, skip, overlap | `StagedGuarded`, `KernelOwed`, `WayBackReady`, `NeverEnterWithoutMasks`, `CleanReturn`, refinement of `Session` (`KeepsPromise`) |
| `race` | 3 commands of any kind, overlapping; all faults but save, reload, lapse, plain | `WayBackKept` |
| `ends` | 2 of any kind; planwrite, step, save, reload, cancel | `EverythingEnds`, `EmergencyLeaves` |
| `settles` | 2 activations or deactivations; no kill, enqueue, plain, skip, overlap | `DecoyClean`, `ActivationSettles` |
| `state_file` | 3 commands of any kind, all faults | `NeverTorn`, `SavedSurvives`, `TimingKept` |
| `children` | one program and a helper, pipes of 1, output of 2, all faults | `OutputWhole`, `RunsAsAsked`, `DeadlineKept` |
| `watch` | 2 disks with 5 devices, 12 processes in 12 cgroups, 2 mount ids, 7 configurations, debounce 2; a delay of logind's that covers the sleep guard's four steps, and one that does not | `DisksAsFound`, `KillExact`, `EmergencyJustified`, `SleepHeld`, `EmergencyComes` |
| `run_dir` | 4 decoy mount trees, each with utab lines by id, by device and stale; 9 small contents of `/run`; 2 mounts made by the session; one write by a unit that stops after the scrub | `MountsBack`, `RunBack` |
| `steps` | ten parts by themselves: 2 store paths and workers, 3 entries, 3 stagings, 3 inits, 2 swaps by another program and 2 temporary names, 2 rehearsals with up to `MaxLeaks` leaked copies on devices that can or cannot be read, a mount by the decoy between any two calls of the next root's staging, 3 days of logs, 31 machines for preflight | `PreflightGates`, `FilesAsAsked`, `ClosureServes`, `RootSealed`, `IdentityBack`, `StagingSound`, `RehearsalSound`, `SmallPartsSound`, `InitSound` |
| `decisions` | every input over small alphabets, one per behaviour | `ReadersAgree`, `SettingsSound`, `NixTextsRead`, `VolumeApart`, `DecoyDisksSafe`, `PostureSound`, `VerdictsHonest` |

The bounds of `steps` are the smallest at which a part meets what it left itself: a
second run over the remains of a first, and a third over what the second made of them.
Inputs of `decisions` are short sequences over the tokens that are treated differently,
or machines with a flaw or two; the reference definitions (libmount's and
systemd's rules, Nix's comments, what a boot uses) are stated without the code's loops.

Two runs end in a violation, each of one statement made in the repository:

- `recover_races`: `recover` stops waiting for the lock after two seconds and tears down
  under an activation, which then soft-reboots with no transition step left and enters
  unmasked. `app/lock.rs` says a second operation "fails fast rather than racing it".
- `kept_torn` (`ClosureOnVolume`): a path whose copy stopped half way and that the decoy
  then collects is not missed at the next entry, and is recorded as kept; and `reset-upper`
  empties the store's upper but not the record, so that a copy that then stops half way is
  taken as kept too. `session/store.rs:30` says the closure "lives entirely on the hidden
  volume". `ClosureServes` excuses exactly these paths (`suspect`).

### Fairness

Lifecycle: weak fairness on a running command (the kernel schedules it), on PID 1's
steps, on PID 1 stopping the commands of a job it carries out (systemd's stop timeout
ends in SIGKILL), and on a pending power-off. Nothing makes the operator start a
command, and no fault is fair. Watch: the watcher, the sleep guard, an emergency that
runs, and a guard that has begun with a device. In logind's delay the unit of time is the
longest step of the sleep guard from the announcement to its job, so that a guard that
works is never behind by more than the step it takes. ChildProcess: the runner's thread, its
clock, its readers, and a program that is not hung writes and exits. The liveness
runs of the lifecycle have no `kill`, `enqueue` or `plain`.

### Known disagreements without a run of their own

- A rollback killed between removing the plan and remounting `/run` leaves `/run`
  executable with nothing that knows (`entry.rs:317`; line 469 says a rollback "always
  knows to set it again"). `DecoyClean` is stated without kills for this reason.
- An emergency waits a second for the activation it signalled; the hidden system's
  activation script may write the kernel's helper paths after they were restored
  (`emergency.rs:385`, against `kernel_helpers.rs:14`). `KernelOwed` has no emergencies.
- The write that notes the entry is ignored when it fails (`transition.rs:389`), and a
  later refused switch strips the session as if it were a decoy (against
  `transition.rs:317`). `WayBackReady` assumes a noted entry; `WayBackKept` does not, and
  speaks of sessions that are noted.
- An emergency on the decoy that is late can clean up under an activation that began
  after the one it signalled was gone. It takes four commands, the deactivation that
  then returns included, so `CleanReturn` is stated for commands that respect the lock.
- With `--no-preflight` over the remains of a killed entry, `activate` records the hidden
  system's kernel paths as the decoy's (`entry.rs:468`).
- A `recover` started while PID 1 soft-reboots is stopped half way: `DecoyClean` is stated
  for activations and deactivations.
- After a timeout the runner joins its readers (`process/run.rs:579`), and a helper in a
  session of its own keeps the pipe open: the deadline is not one (`OutOfReach`).
- A mount on a parent of the hidden root with no directory there looks like a lost
  volume (fault `hides`), and a mount that gets the id of one unmounted since the last
  round is not reported (fault `reuse`).
- A home left by a session that shared it is not made opaque when the persona is set to
  fresh (`session/persona.rs:52`): `FreshUnlessLeft`, a conjunct of `SmallPartsSound`, says
  so.
- Where logind's `InhibitDelayMaxSec` is shorter than the sleep guard's work, the machine
  sleeps in the middle of it (`sleep_guard/mod.rs:27`). `SleepHeld` claims the rest.
- The scrub of `/run` comes before the bounded wait for units still stopping
  (`transition.rs:466`, `497`): what one writes after it stays. `NothingAdded` excuses
  those entries (`late`).
- `create_user_dir_all` says that "a planted symlink cannot redirect directory creation"
  (`user_write.rs:224`), but mode and owner of a directory it has just made are set by path
  (`user_write.rs:307`, `316`) and follow a link put there meanwhile. `Contained` excuses the
  owner of the directory such a link leads to.
- Between a bind of the decoy's root and its becoming private it is a peer: what the decoy
  mounts there in that instant is detached with the bind (`nextroot.rs:19`, `73`).
  `DecoyMountsKept` excuses those (`caught`).
- A mask that cannot be written is skipped with a warning (`session/persona.rs:213`), and its
  program starts. `MaskedNeverStarts` says that no other one does.
- A probe directory that cannot be removed after a failed probe is reported as the probe's
  failure alone (`upper_fs_probe.rs:207`): the preflight fails, without naming it.
- `rehearse scan` reads a device that is named and not mounted as plain storage, without
  seeing whether its filesystem compresses (`app/rehearse.rs:450`). `PassedIsAbsent` leaves those apart, and
  speaks of the devices a scan read.
- `init` looks for a configuration and writes its template without a lock
  (`app/init.rs:340`): one the operator writes in between is replaced. `InitSound` excuses
  that window alone.
- The separation check follows an image file to the device of its filesystem and no
  further, and not the layers below a second btrfs member (`judge.rs:137`, `216`, against
  `separation/mod.rs:6`). `AttachedIsApart` is stated to that depth.
- Entries of the decoy's fstab for places below the hidden root are left as they are
  (`policy.rs:186`). `FstabNeverWrites` excuses them.

## Proofs

TLAPS proves the following for every value of the constants: any number of commands,
devices, store paths, temporary names, pipe capacities, any debounce. The constants are
subject only to the named `ASSUME`s of the modules that declare them; what a theorem
assumes beyond that is in its statement. Every inductive invariant was an invariant of a TLC run before it
was proved.

| Theorem | Assumes | Argument |
|---|---|---|
| `TypeCorrect` | | `TypeInv`: types, and a command past its first step on the session's side holds a plan |
| `EntryGuarded`, `EntryMasked` | `Orderly`: commands respect the lock, no emergency | `SafeInv`: what each step may rely on (`Station`), what is staged is guarded, an arming points to the other side, and masks precede the switch |
| `WayBackStays`, `ReturnsClean`, `PromiseKept` | `Noting`: `Orderly`, and the entry's note is written | `PromiseInv`: an entered session is noted on disk and in the memory of whoever leaves it. `PromiseKept` maps each action to a step of `Session` or a stutter |
| `KernelPaidBack` | `Checking`: `Orderly`, no `--no-preflight` | `KernelInv`: changed kernel paths are owed by the plan on disk, and a rollback removes that plan only after writing them back |
| `DecoyIsClean` | `Settling`: `Checking`, activations and deactivations only, no kill or plain soft-reboot | `CleanInv`: while nothing has begun the machine is as it was; a plan on disk knows whether `/run` was noexec; a rollback's remaining steps cover what is left |
| `WayStaysOpen` | | `WayInv`: whatever takes the plan away has seen one that is not noted, or gave everything back. The lock plays no part, so it needs none of `SafeInv` |
| `SaveAtomic`, `SaveDurable`, `TimingSafe` | | a rename publishes only synced contents (`WholeInv`); what a power cut may leave is no older than the last acknowledged save (`OrderInv`); one locked command at a time (`TimingInv`). The faults that void a statement are in the property |
| `WatchGuardsDisks` | | every step of `Watch` is a step of `DiskGuard` or leaves the disks alone |
| `DisksAreAsFound` | | `DiskInv`, carried to `Watch` by the refinement: a device set read-only is on the record first, and never under a used one |
| `EmergencyIsJustified` | no reused mount ids, nothing hides the hidden root's directory | the clock of the first failed probe (`Clock`), and what the watches have seen of each mount against what was reported of it (`Told`, `Reports`) |
| `KillIsExact` | | `KillInv`: a walk keeps its books (`Sound`): who is alive is spared, left out or below an entry still ahead; nobody listed is spared or of the machinery; and a walk begins only with a job in the queue, so that nothing is revived behind it |
| `AwakeWhileHeld` | in its statement: the delay covers the guard's four steps | `Watchful`: the inhibitor is held from before the guard waits to the end of its emergency, a sleep that is announced has its signal, and the time spent is never ahead of the steps done |
| `ClosureLivesInUpper` | | `StoreInv`, for all but the suspect paths: what the record lists is whole or gone and to be built again, what is half copied is whole in the decoy and not listed, and every part a copy owes is in the upper, queued or with a worker |
| `OutputIsWhole`, `ProgramAsAsked`, `TimeoutIsClean` | | `ChildInv`: units written are in the pipe or with the reader, a pipe is at its end only when no writer is left, a thread is joined before its output is used, each call before `exec` has happened or the child is gone |
| `StagingIsSound` | | `ConfigInv`: the operator's file is in place or kept at every point of a staging |
| `InitIsSound` | | `SetupInv`: what was looked at under the lock still holds when it is applied, but for the configuration between the look and the template |
| `IdentityComesBack` | | `NetInv`: the record is what the decoy had or there is none, and once it is applied the links are as recorded; `BootInv`: the decoy's own boot is the last record, and not before any other once it is corrected |
| `RehearsalIsHonest` | | `RehearseInv`: the record says where and in which session the canary was planted, as far as that could be read; a leak not written out yet is of the session that runs; the copies on the record are the ones a reset removes |
| `LogLossIsExcused` | | `LogsInv`: what a rotation overwrites next is nothing, or a file whose loss is told |
| `FilesDoAsAsked` | | `FsInv`: which operation takes which step and with which handles (`JobOK`), what can stand at each name (`TreeOK`), where the temporary file is (`TempKept`), that only a whole one is renamed (`Written`), that the name goes last (`Wiping`), whose the new file is (`Owning`) |
| `FreshHomeIsFresh` | | `HomeInv`: a plain home is one that was left, or the one an entry is about to mark |

`SafetyProofs` has the types and `SafeInv`; `PromiseProofs` (the promise, and the way back
that nobody takes away) and `CleanProofs` (what a session owes the decoy) build on it.
`WatchProofs` begins with one walk of the kill in any tree of cgroups and goes on to what
runs beside the session. `WorkerProofs` (store, child processes), `VolumeProofs` (state
file, logs, home), `StepProofs` (staging, init, identity, rehearsal) and `FilesProofs`
(file operations) stand by themselves. Each step lemma has one case per action, and under
it one per conjunct the action can disturb. First-order leaves name Zenon, which needs no
translation to SMT; the few slow ones name a longer time.

The file operations are proved call by call. `FilesAsAsked` says nothing about a job half
way, so `FsInv` has what each step may rely on: the directory handle it works below, the
temporary file still at the name the handle finds it by, contents that are published only
when they are whole, and for `write_user_file` that without a swap what was looked at is
what is replaced.

The kill assumes of the machine (`KillAssumption`) what systemd and the kernel see to:
cgroups are a tree, processes are in its leaves and fork into their own, and neither a
shell nor a restarted service is part of the machinery. The proof made the model say
more: a machinery unit inside a unit that is killed whole, like the bus of a user's
manager, dies with it, so what is promised to live is what only slices hold
(`PassedOver`). That is what the code does and the shutdown needs; the instance of
`watch` has such a unit.

### Only model-checked

- Liveness under fairness is out of the prover's reach: `EverythingEnds`,
  `EmergencyLeaves`, `ActivationSettles`, `EmergencyComes`, and the halves of
  `DeadlineKept` and `SleepHeld` that say something comes.
- What recursion over data computes: `MountsBack`, `RunBack` (the mount tree),
  `RootSealed` (lookups), and every function of `decisions`.
- `PreflightGates` is about sequences filtered by a predicate, for which every fact would
  need a lemma by induction. Of `SmallPartsSound` the logs and the home are proved; the
  rest are functions of their inputs.

## Not modelled

Reports (`status`, readiness), argument parsing, output and events change no state. The
examiners of single file formats are inputs of `Verify`. Libraries (TOML, digests),
systemd, the kernel's mount, overlay and block layers are modelled only as far as the code
relies on them. Messages, wording and progress lines are left out everywhere.
`PROJECT.json` says for each part what of it is left out.
