----------------------------- MODULE DiskGuard -----------------------------
(***************************************************************************)
(* The disks the hidden session does not use are read-only while it runs   *)
(* (whole_root/disk_guard.rs).  The udev rule guards a device when it      *)
(* appears, the session's watcher sweeps all of them on every poll; the    *)
(* two meet on one device in any order, and the record they leave in the   *)
(* runtime directory is all that the way back has.                         *)
(***************************************************************************)
EXTENDS Naturals

CONSTANTS
    Dev,        \* block devices, by number
    Disk,       \* per partition, its disk
    Slaves,     \* per device mapper, its members
    Hardware,   \* the disks with hardware below them
    Used,       \* what is mounted in the hidden volume or at a policy target,
                \* the decoy root's device and the backend's mappers
    Actor,      \* who guards: the sweep, and the handlers udev starts
    DiskFaults  \* of DiskFaultNames

\* "record" the record cannot be written   "ioctl" BLKROSET fails
\* "stop"   a guard is killed half way
DiskFaultNames == {"record", "ioctl", "stop"}
ASSUME DiskAssumption ==
    /\ Disk \in [DOMAIN Disk -> Dev] /\ Slaves \in [DOMAIN Slaves -> SUBSET Dev]
    /\ DOMAIN Disk \subseteq Dev /\ DOMAIN Slaves \subseteq Dev
    /\ Hardware \subseteq Dev /\ Used \subseteq Dev /\ DiskFaults \subseteq DiskFaultNames

VARIABLES
    present,    \* the devices that are plugged in
    own,        \* those that are read-only by themselves
    ro,         \* those whose flag says read-only
    recorded,   \* the devices named in the record
    guard,      \* per actor: the device it is guarding, and how far it is
    failed,     \* the ioctl failed on the way back
    home        \* the decoy runs again

disks == <<present, own, ro, recorded, guard, failed, home>>

NoGuard == [at |-> "idle", dev |-> {}]
Guards == [at : {"idle", "record", "set"}, dev : {{d} : d \in Dev} \cup {{}}]
DiskTypeOK ==
    /\ present \subseteq Dev /\ own \subseteq Dev /\ ro \subseteq Dev
    /\ recorded \subseteq Dev
    /\ guard \in [Actor -> Guards] /\ failed \in BOOLEAN /\ home \in BOOLEAN

------------------------------------------------------------------------------
DiskOf(d) == IF d \in DOMAIN Disk THEN Disk[d] ELSE d
MembersOf(d) == IF d \in DOMAIN Slaves THEN Slaves[d] ELSE {}

(* What the session uses, with every member and every disk below it: the least
   set that has them all. *)
Closed(S) == \A d \in S : DiskOf(d) \in S /\ MembersOf(d) \subseteq S
Protected == {d \in Dev : \A S \in SUBSET Dev : Used \subseteq S /\ Closed(S) => d \in S}

IsHardware(d) == DiskOf(d) \in Hardware
\* A partition of a read-only disk reads as read-only too.
IsReadOnly(d) == d \in ro \/ DiskOf(d) \in ro

ToGuard(d) == d \in present /\ IsHardware(d) /\ d \notin Protected /\ ~IsReadOnly(d)

(* The session begins: what it uses is there and writable. *)
DiskInit ==
    /\ present \in {P \in SUBSET Dev : Protected \subseteq P /\ {DiskOf(d) : d \in P} \subseteq P}
    /\ own \in {o \in SUBSET (Dev \ Protected) : \A c, d \in o : c = d}
    /\ ro = own \cap present /\ recorded = {} /\ guard = [a \in Actor |-> NoGuard]
    /\ failed = FALSE /\ home = FALSE

(* guard, in the three steps another guard can come between: what to do about
   the device, the record, the flag. *)
GuardLook(a, d) ==
    /\ ~home /\ guard[a].at = "idle"
    /\ ToGuard(d)
    /\ guard' = [guard EXCEPT ![a] = [at |-> "record", dev |-> {d}]]
    /\ UNCHANGED <<present, own, ro, recorded, failed, home>>
\* Mutant: the flag first, the record afterwards.
GuardRecordLate(a) ==
    /\ guard[a].at = "record"
    /\ ro' = ro \cup (guard[a].dev \cap present)
    /\ guard' = [guard EXCEPT ![a].at = "set"]
    /\ UNCHANGED <<present, own, recorded, failed, home>>
GuardRecord(a) ==
    /\ guard[a].at = "record"
    /\ \/ recorded' = recorded \cup guard[a].dev /\ guard' = [guard EXCEPT ![a].at = "set"]
       \/ "record" \in DiskFaults /\ guard' = [guard EXCEPT ![a] = NoGuard] /\ UNCHANGED recorded
    /\ UNCHANGED <<present, own, ro, failed, home>>
GuardSet(a) ==
    /\ guard[a].at = "set"
    /\ \/ ro' = ro \cup (guard[a].dev \cap present)
       \/ "ioctl" \in DiskFaults /\ UNCHANGED ro
    /\ guard' = [guard EXCEPT ![a] = NoGuard]
    /\ UNCHANGED <<present, own, recorded, failed, home>>
GuardStopped(a) ==
    /\ "stop" \in DiskFaults /\ guard[a].at # "idle"
    /\ guard' = [guard EXCEPT ![a] = NoGuard]
    /\ UNCHANGED <<present, own, ro, recorded, failed, home>>

(* A device comes with its own flag and goes with it. *)
Plug(d) ==
    /\ ~home /\ d \notin present /\ DiskOf(d) \in present \cup {d}
    /\ present' = present \cup {d} /\ ro' = (ro \ {d}) \cup (own \cap {d})
    /\ UNCHANGED <<own, recorded, guard, failed, home>>
Unplug(d) ==
    /\ ~home /\ d \in present \ Protected
    /\ LET lost == {e \in present : DiskOf(e) = d \/ e = d}
       IN  present' = present \ lost /\ ro' = ro \ lost
    /\ UNCHANGED <<own, recorded, guard, failed, home>>

(* The way back: nothing of the session runs any more, the rule goes, and every
   recorded device that is there is made writable. *)
Release ==
    /\ ~home /\ home' = TRUE
    /\ \/ ro' = ro \ (recorded \cap present) /\ failed' = FALSE
       \/ "ioctl" \in DiskFaults /\ failed' = TRUE /\ UNCHANGED ro
    /\ guard' = [a \in Actor |-> NoGuard]
    /\ UNCHANGED <<present, own, recorded>>

DiskNext ==
    \/ \E a \in Actor : \/ \E d \in Dev : GuardLook(a, d)
                        \/ GuardRecord(a) \/ GuardSet(a) \/ GuardStopped(a)
    \/ \E d \in Dev : Plug(d) \/ Unplug(d)
    \/ Release

DiskSpec == DiskInit /\ [][DiskNext]_disks

------------------------------------------------------------------------------
(* Nothing the session or the way back uses becomes read-only, neither itself
   nor a member or a disk it sits on (disk_guard's "Never guarded"). *)
UsedWritable == \A d \in Protected : ~IsReadOnly(d)

(* A device that a guard set read-only is in the record whatever stopped the
   guard ("a device set read-only must never be missing from the record"), and
   no device that is read-only by itself is. *)
SetIsRecorded == ro \ own \subseteq recorded

(* The decoy finds its disks as it left them: exactly those the session set are
   writable again ("the way back makes exactly those writable again"). *)
FoundAsLeft == home /\ ~failed => ro = own \cap present

(* The guards set read-only no device the session stands on, record every   *)
(* device before they set it, and the decoy finds its disks as it left      *)
(* them (guard, sweep, release).                                            *)
DisksAsFound == UsedWritable /\ SetIsRecorded /\ FoundAsLeft
=============================================================================
