------------------------------- MODULE RunDir -------------------------------
(***************************************************************************)
(* /run across a session (whole_root/transition.rs, run_scrub.rs,          *)
(* run_records.rs, network.rs, runtime_units.rs, boot_records.rs).  A      *)
(* soft-reboot carries /run whole, so what the session and nails add to it *)
(* is taken away on the way back, and what the decoy left has to be there. *)
(***************************************************************************)
EXTENDS MountTree

CONSTANTS
    Entry,      \* the paths below /run looked at
    Dirs,       \* those that are directories
    Sockets,    \* those that are sockets
    Worlds,     \* [entries: what the decoy and the session write,
                \*  tables: its mount tables, mounts: how many the session makes]
    Faults      \* what may go wrong

ASSUME RunAssumption ==
    /\ Dirs \subseteq Entry /\ Sockets \subseteq Entry \ Dirs
    /\ \A e \in Entry : Len(e) > 1 => Front(e) \in Dirs

VARIABLES
    run,        \* Entry -> whose content is there
    world,
    snap,       \* the snapshot file: what it lists, or NoSnapshot
    recs,       \* the copy of the records
    net,        \* the copy of the network state
    fixup,      \* boot_records' one-shot is installed
    left,       \* history: /run when the decoy had stopped
    before,     \* history: /run when the way back began
    late        \* history: what the session wrote after the way back had dealt with it

vars == <<phase, tables, run, world, snap, recs, net, fixup, left, before, late>>

NoSnapshot == {<<>>}     \* no snapshot; a copy that is not there is <<>>
Content == {"none", "decoy", "later", "hidden", "ours"}
Present(r) == {e \in Entry : r[e] # "none"}
Under(e) == {f \in Entry : IsPrefix(e, f)}
Children(e) == {f \in Entry : Len(f) = Len(e) + 1 /\ IsPrefix(e, f)}
Without(r, gone) ==
    [e \in Entry |-> IF \E g \in gone : IsPrefix(g, e) THEN "none" ELSE r[e]]
With(r, new, what) ==
    [e \in Entry |-> IF e \in new THEN what
                     ELSE IF r[e] = "none" /\ \E n \in new : IsPrefix(e, n) THEN "ours"
                     ELSE r[e]]
RmdirEmpty(r, dirs) == Without(r, {d \in dirs : Children(d) \cap Present(r) = {}})

TypeOK ==
    /\ MountTypeOK
    /\ run \in [Entry -> Content] /\ left \in [Entry -> Content] /\ before \in [Entry -> Content]
    /\ world \in Worlds /\ fixup \in BOOLEAN /\ late \subseteq Entry
    /\ snap = NoSnapshot \/ snap \subseteq Entry

------------------------------------------------------------------------------
(* The entries nails adds. *)
System == <<"systemd", "system">>
Control == <<"systemd", "system.control">>
Mask == Append(System, "mask")
BootMask == Append(Control, "mask")
Unit == Append(System, "unit")
Wants == Append(System, "multi-user.target.wants")
Guards == Append(System, "unit.d")
Guard == Append(Guards, "zz")
Rules == <<"udev", "rules.d">>
Rule == Append(Rules, "rule")
RuntimeDir == <<"nails">>
FixupDir == <<"boot">>
FixupUnit == Append(System, "boot")
Dropins == Append(System, "wtmpdb.d")
Dropin == Append(Dropins, "zz")

(* run_scrub.rs *)
Pruned == {"nextroot", "udev", "credentials"}
SessionDirs == {<<"systemd", "sessions">>}
SessionFiles == {<<"utmp">>}
Listable(e) ==
    /\ e[1] \notin Pruned
    /\ Len(e) <= IF e[1] = "systemd" THEN 3 ELSE 2
List(r) == {e \in Present(r) : Listable(e)}
\* Mutant: what the decoy's shutdown removed stays on the list.
StillPresentAll(s, r) == s
StillPresent(s, r) == s \cap Present(r)
(* remove: the entry and what is below it, never a socket named itself. *)
RemoveEntries(r, gone) == Without(r, gone \ Sockets)
Scrub(r, s, extra) ==
    LET r1 == RemoveEntries(r, UNION {Children(d) : d \in SessionDirs} \cup SessionFiles)
        r2 == RmdirEmpty(r1, Children(<<"user">>) \cap Dirs)
        r3 == RemoveEntries(r2, {e \in List(r2) : e \in extra \/ e \notin s})
    IN  RemoveEntries(r3, extra)

(* run_records.rs: the copy is put back, or without one every record goes. *)
Records == <<"resolvconf">>
Saved(r) == [e \in Under(Records) \ Sockets |-> r[e]]
RestoreRecords(r, copy) ==
    IF copy = <<>>
    THEN [e \in Entry |-> IF e \in Under(Records) \ (Dirs \cup Sockets) THEN "none" ELSE r[e]]
    ELSE LET gone == {e \in DOMAIN copy : copy[e] = "none"}
         IN  [e \in Entry |-> IF e \in DOMAIN copy THEN copy[e] ELSE Without(r, gone)[e]]

(* network.rs: the runtime state is removed whole and written again. *)
NetDir == <<"NetworkManager", "devices">>
Captured(r) == [e \in Under(NetDir) |-> IF e \in Sockets THEN "none" ELSE r[e]]
NothingCaptured == [e \in Under(NetDir) |-> "none"]
RestoreNet(r, copy) ==
    LET bare == Without(r, {NetDir})
    IN  [e \in Entry |->
           IF e \in DOMAIN copy THEN copy[e]
           ELSE IF r[e] = "none" /\ \E n \in DOMAIN copy : copy[n] # "none" /\ IsPrefix(e, n)
           THEN "decoy" ELSE bare[e]]

(* transition.rs and runtime_units.rs *)
InstallDropin(r) == With(r, {Guard}, "ours")
RemoveDropin(r, kept) == RmdirEmpty(Without(r, {Guard}), {Guards} \ kept)
MaskUnits(r) == With(r, {Mask}, "ours")
InstallUnits(r) == With(r, {Unit, Append(Wants, "unit")}, "ours")
BestEffortMasks(r) == IF r[BootMask] = "none" THEN With(r, {BootMask}, "ours") ELSE r
RemoveMasks(r, kept) ==
    RmdirEmpty(Without(r, {m \in {Mask, BootMask} \ kept : r[m] = "ours"}), {Control} \ kept)
RemoveRule(r) == RmdirEmpty(Without(r, {Rule}), {Rules})

(* boot_records.rs: the one-shot of the decoy's first start. *)
InstallFixup(r) ==
    With(r, {Append(FixupDir, "control"), Dropin, FixupUnit, Append(Wants, "boot")}, "ours")
RunFixup(r) ==
    LET r1 == RmdirEmpty(Without(r, {Dropin}), {Dropins})
        r2 == RmdirEmpty(Without(r1, {Append(Wants, "boot")}), {Wants})
    IN  Without(r2, {FixupUnit, FixupDir})

------------------------------------------------------------------------------
Fixed == {e \in Entry : e \in {<<"systemd">>, System, <<"udev">>, <<"user">>} \cup SessionDirs}
Init ==
    /\ world \in Worlds
    /\ \E S \in SUBSET world.entries :
         /\ \A e \in S : Len(e) > 1 => Front(e) \in S \cup Fixed
         /\ run = [e \in Entry |-> IF e \in S \cup Fixed THEN "decoy" ELSE "none"]
    /\ \E d \in world.tables : MountInit(d)
    /\ snap = {} /\ recs = <<>> /\ net = <<>> /\ fixup = FALSE
    /\ left = run /\ before = run /\ late = {}

(* write_runtime and install_dropin: the snapshot is taken before anything is
   added.  A copy of the network state that fails is an empty one in a record
   that is whole; a record that cannot be written is none. *)
Stage ==
    /\ phase = "decoy" /\ phase' = "staged"
    /\ snap' = List(run)
    /\ net' \in {Captured(run)} \cup (IF "net" \in Faults THEN {NothingCaptured, <<>>} ELSE {})
    /\ run' = InstallDropin(With(run, {RuntimeDir}, "ours"))
    /\ StageMounts
    /\ UNCHANGED <<world, recs, fixup, left, before, late>>
(* The decoy works on and shuts down; the hidden session works. *)
Writes(who) ==
    \E e \in world.entries :
        \/ /\ Len(e) > 1 => run[Front(e)] # "none"
           /\ e \in Dirs => run[e] = "none"
           /\ run' = [run EXCEPT ![e] = who]
        \/ run' = Without(run, {e})
DecoyWrites ==
    /\ phase = "staged" /\ Writes("later")
    /\ UNCHANGED <<phase, tables, world, snap, recs, net, fixup, left, before, late>>
HiddenWrites ==
    /\ phase = "hidden" /\ Writes("hidden")
    /\ UNCHANGED <<phase, tables, world, snap, recs, net, fixup, left, before, late>>
(* A hidden unit that is not ordered before the shutdown is still stopping: while
   the way back waits for it, or after the wait, which is bounded.  Bound: one
   late write that is not put right again. *)
OneLate == late = {}
LateWrites ==
    /\ phase = "scrubbed" \/ (phase = "left" /\ "slow" \in Faults)
    /\ OneLate /\ Writes("hidden")
    /\ late' = late \cup UNION {Under(e) : e \in {f \in world.entries : run'[f] # run[f]}}
    /\ UNCHANGED <<phase, tables, world, snap, recs, net, fixup, left, before>>

(* enter. *)
Enter ==
    /\ phase = "staged" /\ phase' = "entered"
    /\ left' = run
    /\ run' = BestEffortMasks(With(InstallUnits(MaskUnits(run)), {Rule}, "ours"))
    /\ snap' = StillPresent(snap, run')
    /\ recs' \in {Saved(run)} \cup (IF "records" \in Faults THEN {<<>>} ELSE {})
    /\ EnterMounts
    /\ UNCHANGED <<world, net, fixup, before, late>>
(* disarm: the check of the next root failed, or a mask could not be written. *)
Disarm ==
    /\ phase = "staged" /\ phase' = "decoy" /\ "check" \in Faults
    /\ left' = run
    /\ \E r \in {run, MaskUnits(run)} :
         run' = Without(RemoveMasks(RemoveDropin(r, snap), snap), {RuntimeDir})
    /\ mounts' = SelectSeq(mounts, LAMBDA m : ~StartsWith(m.point, NextRoot))
    /\ snap' = {} /\ net' = <<>> /\ carried' = <<>> /\ record' = <<>>
    /\ saved' = [lines |-> {}, named |-> {}]
    /\ UNCHANGED <<utab, tree, made, world, recs, fixup, before, late>>

Switch ==
    /\ \/ phase = "entered" /\ phase' = "hidden"
       \/ phase = "left" /\ phase' = "home"
    /\ SwitchMounts
    /\ UNCHANGED <<run, world, snap, recs, net, fixup, left, before, late>>
SessionMounts ==
    /\ phase = "hidden" /\ world.mounts > 0
    /\ (HiddenUnmount \/ (made < world.mounts /\ HiddenMount))
    /\ UNCHANGED <<phase, run, world, snap, recs, net, fixup, left, before, late>>
Prepare ==
    /\ phase = "hidden" /\ phase' = "prepared" /\ PrepareMounts
    /\ UNCHANGED <<run, world, snap, recs, net, fixup, left, before, late>>
(* disarm on the way back: the session goes on. *)
LeaveRefused ==
    /\ phase = "prepared" /\ phase' = "hidden" /\ "check" \in Faults
    /\ mounts' = SelectSeq(mounts, LAMBDA m : ~StartsWith(m.point, NextRoot))
    /\ UNCHANGED <<utab, saved, carried, record, tree, made, run, world, snap, recs, net, fixup, left, before, late>>
LateUnmount ==
    /\ phase = "scrubbed" /\ HiddenUnmount
    /\ \A m \in Range(mounts) : m.by # "hidden" => m \in Range(mounts')
    /\ UNCHANGED <<phase, run, world, snap, recs, net, fixup, left, before, late>>
(* leave, up to its wait for the units that are still stopping. *)
Leave ==
    /\ phase = "prepared" /\ phase' = "scrubbed"
    /\ before' = run
    /\ \E kept \in {snap} \cup (IF "snapshot" \in Faults THEN {NoSnapshot} ELSE {}) :
       \E keeps \in BOOLEAN :
         LET r1 == RemoveDropin(RemoveRule(run), IF kept = NoSnapshot THEN {} ELSE kept)
             r2 == RestoreRecords(Scrub(r1, IF kept = NoSnapshot THEN List(r1) ELSE kept, {RuntimeDir}), recs)
         IN  /\ run' = IF keeps THEN InstallFixup(r2) ELSE r2
             /\ fixup' = keeps /\ snap' = kept
    /\ UNCHANGED <<tables, world, recs, net, left, late>>
(* After the wait: network::restore, and utab. *)
LeaveEnd ==
    /\ phase = "scrubbed" /\ phase' = "left"
    /\ run' = IF net = <<>> THEN run ELSE RestoreNet(run, net)
    /\ late' = IF net = <<>> THEN late ELSE late \ Under(NetDir)
    /\ LeaveMounts
    /\ UNCHANGED <<world, snap, recs, net, fixup, left, before>>
(* boot_records::run, in the decoy's first start. *)
Fixup ==
    /\ phase = "home" /\ fixup /\ fixup' = FALSE
    /\ run' = RunFixup(run)
    /\ UNCHANGED <<phase, tables, world, snap, recs, net, left, before, late>>

Next ==
    \/ Stage \/ DecoyWrites \/ HiddenWrites \/ Enter \/ Disarm \/ Switch
    \/ SessionMounts \/ Prepare \/ LeaveRefused
    \/ Leave \/ LateWrites \/ LateUnmount \/ LeaveEnd \/ Fixup
Spec == Init /\ [][Next]_vars

------------------------------------------------------------------------------
Home == phase = "home" /\ ~fixup
Scrubbed == snap # NoSnapshot

(* After the way back no file nails put into /run is left, and of what the
   session wrote only what the decoy had too, what lies below the depth the
   scrub lists, sockets, and what a unit still stopping wrote after the scrub
   (run_scrub::scrub, remove_dropin, remove_rule, boot_records::run). *)
NothingAdded ==
    Home /\ Scrubbed => \A e \in Entry :
        /\ run[e] = "ours" => e \in Dirs /\ e \notin {Guards, RuntimeDir, Rules, FixupDir}
        /\ run[e] = "hidden" => left[e] # "none" \/ ~Listable(e) \/ e \in Sockets \/ e \in late

(* A switch that is refused leaves every file of the decoy in /run, and no
   guards, masks or runtime directory (transition::disarm). *)
RefusalClean ==
    phase = "decoy" => \A e \in Entry :
        run[e] # "ours" /\ (e \notin Dirs /\ left[e] \in {"decoy", "later"} => run[e] = left[e])

(* The records are the decoy's own again, and the network state is what the
   record of it holds (empty, when the copy failed), whatever the session added,
   changed or removed until each was put back; without a copy no record of the
   session is left (run_records::restore, network::restore_run). *)
RecordsBack ==
    phase = "home" =>
        /\ \A e \in Under(Records) \ (Sockets \cup late) :
              IF recs = <<>> THEN run[e] = "hidden" => e \in Dirs ELSE run[e] = left[e]
        /\ net # <<>> => \A e \in DOMAIN net \ late : run[e] = net[e]

(* Every file of the decoy's that its snapshot lists (one it made after the
   snapshot goes with the session's) and the session did not remove is there for
   the decoy's next start, but for the state of its own sessions; a socket stays
   wherever its directory does (run_scrub::Snapshot). *)
OwnState(e) ==
    \/ \E d \in SessionDirs \cup SessionFiles \cup {<<"user">>, NetDir, Records} : IsPrefix(d, e)
DecoyKept ==
    phase = "home" =>
        /\ \A e \in Entry \ Dirs :
              /\ left[e] \in {"decoy", "later"} /\ before[e] # "none" /\ ~OwnState(e) /\ e \notin late
              /\ \A n \in 1..Len(e) : LET a == SubSeq(e, 1, n)
                                      IN  Listable(a) /\ Scrubbed => a \in snap
              => run[e] # "none"
        /\ \A e \in Sockets :
              left[e] # "none" /\ before[e] # "none" /\ e \notin late /\ (Scrubbed => Front(e) \in snap)
              => run[e] # "none"

(* The decoy's mounts and its lines of utab come back, each where it was,   *)
(* and no line names a mount of the session's (decoy_mounts.rs, utab.rs).   *)
MountsBack == TypeOK /\ NoStaleLine /\ TreeBack /\ LinesBack

(* After a way back, or a switch that was refused, /run holds what the      *)
(* decoy had and nothing of the session's or of nails'                      *)
(* (transition::leave, disarm).                                             *)
RunBack == NothingAdded /\ RefusalClean /\ RecordsBack /\ DecoyKept
=============================================================================
