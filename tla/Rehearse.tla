------------------------------- MODULE Rehearse -------------------------------
(***************************************************************************)
(* nails rehearse (nails-forensics/src/rehearse, nails-core/src/app/       *)
(* rehearse.rs): a canary is planted in a hidden session, in files that    *)
(* the overlay redirects to the hidden volume; after the session the       *)
(* decoy's devices are read raw for it, and a reset removes it.            *)
(***************************************************************************)
EXTENDS Integers, Sequences, FiniteSets

CONSTANTS
    Devices,        \* the decoy's devices, mounted or not
    Blind,          \* those whose filesystem may store the canary compressed
    MaxBoots,       \* cold boots
    MaxSoft,        \* soft reboots in one boot
    MaxRehearsals,  \* canaries planted
    MaxLeaks        \* copies of a canary that reach a device

ASSUME RehearseAssumption ==
    /\ IsFiniteSet(Devices) /\ Blind \subseteq Devices
    /\ MaxBoots \in Nat /\ MaxSoft \in Nat /\ MaxRehearsals \in Nat /\ MaxLeaks \in Nat

VARIABLES
    bootId,     \* the boot
    softCount,  \* soft reboots since that boot
    inside,     \* a hidden session runs
    canary,     \* rehearse/state.json on the hidden volume
    uppers,     \* the copies on the hidden volume: <<token, channel>>
    tokens,     \* canaries made so far
    orphans,    \* history: the tokens of a plant or a removal that failed
    cached,     \* <<token, device>>: leaked, and not written out yet
    onDisk,     \* <<token, device>>: leaked, and on the device
    verdict     \* the exit status of the last command, and the devices it clears

rehearseVars == <<bootId, softCount, inside, canary, uppers, tokens, orphans, cached, onDisk, verdict>>
Commanded == <<bootId, softCount, inside>>
Leaks == <<cached, onDisk>>

Unread == -1
Readable == {"boot", "entered", "soft"}
FileChannels == {"OverlayFile", "HomeFiles"}
NoCanary == [token |-> 0]
Ended(exit) == [exit |-> exit, clears |-> {}]

(* The session's entry time; no two sessions are entered at the same time. *)
EnteredAt == <<bootId, softCount>>

(* Here::read and LiveSession: each of the boot id, the entry time (the    *)
(* plan may be unreadable) and the soft-reboot count may be missing.       *)
Here(readable) ==
    [session |-> inside,
     boot    |-> IF "boot" \in readable THEN bootId ELSE Unread,
     entered |-> IF inside /\ "entered" \in readable THEN EnteredAt ELSE <<>>,
     soft    |-> IF inside /\ "soft" \in readable THEN softCount ELSE Unread]

RehearseTypeOK ==
    /\ bootId \in 0 .. MaxBoots /\ softCount \in 0 .. MaxSoft /\ inside \in BOOLEAN
    /\ tokens \in 0 .. MaxRehearsals /\ orphans \subseteq 1 .. tokens
    /\ uppers \subseteq (1 .. tokens) \X FileChannels
    /\ cached \cup onDisk \subseteq (1 .. tokens) \X Devices
    /\ canary.token \in 0 .. tokens
    /\ canary # NoCanary => /\ canary.phase \in {"planted", "scanned"}
                            /\ "OverlayFile" \in canary.channels

RehearseInit ==
    /\ bootId = 0 /\ softCount = 0 /\ inside = FALSE /\ canary = NoCanary
    /\ uppers = {} /\ tokens = 0 /\ orphans = {} /\ cached = {} /\ onDisk = {} /\ verdict = Ended("none")

-----------------------------------------------------------------------------
(* planted_in_this_session: r is where the canary was planted. *)
\* Mutant: what cannot be told apart is taken for another session.
PlantedInThisSessionKnown(r, here) ==
    /\ here.session
    /\ ~ (Unread \notin {r.boot, here.boot} /\ r.boot # here.boot)
    /\ IF <<>> \notin {r.entered, here.entered} THEN r.entered = here.entered
       ELSE Unread \notin {r.soft, here.soft} /\ r.soft = here.soft

PlantedInThisSession(r, here) ==
    /\ here.session
    /\ ~ (Unread \notin {r.boot, here.boot} /\ r.boot # here.boot)
    /\ IF <<>> \notin {r.entered, here.entered} THEN r.entered = here.entered
       ELSE Unread \in {r.soft, here.soft} \/ r.soft = here.soft

RefusedWith(exit) ==
    /\ verdict' = Ended(exit)
    /\ UNCHANGED <<Commanded, canary, uppers, tokens, orphans, Leaks>>

(* Rehearsal::plant *)
PlantRefused ==
    \/ RefusedWith("failed")                                           \* not_attached
    \/ (~ inside \/ canary # NoCanary) /\ RefusedWith("invalid_state")    \* not_active, already_planted

(* The channels that take the canary, then the record of it.  A canary no  *)
(* overlaid tree took, or whose record is not written, stays where it is.  *)
Planted(taken, readable, saved) ==
    /\ tokens' = tokens + 1
    /\ uppers' = uppers \cup ({tokens + 1} \X taken)
    /\ IF "OverlayFile" \in taken /\ saved
       THEN /\ canary' = [token |-> tokens + 1, phase |-> "planted", channels |-> taken,
                          at |-> Here(readable), session |-> EnteredAt]
            /\ verdict' = Ended("ok") /\ UNCHANGED orphans
       ELSE verdict' = Ended("failed") /\ orphans' = orphans \cup {tokens + 1} /\ UNCHANGED canary
    /\ UNCHANGED <<Commanded, Leaks>>

Plant(taken, readable, saved) ==
    inside /\ canary = NoCanary /\ tokens < MaxRehearsals /\ Planted(taken, readable, saved)

(* Rehearsal::scan of the devices mounted then, or of those named.  A      *)
(* device that cannot be read, a byte limit and a blind spot are told; a   *)
(* named device that is not mounted is read as plain storage.              *)
ScanRefused == canary = NoCanary /\ RefusedWith("invalid_state")        \* no_token

ExitStatus(hits, told) ==
    IF hits # {} THEN "critical" ELSE IF told THEN "warnings" ELSE "ok"
Classified(targets, mounted) == targets \ (Blind \ mounted)
Clears(exit, devices) == [exit |-> exit, clears |-> IF exit = "ok" THEN devices ELSE {}]
(* o: where a leak would be matched, and whether something is told. *)
Outcomes(targets, mounted) ==
    {Clears(ExitStatus({d \in o[1] : <<canary.token, d>> \in onDisk}, o[2]), Classified(targets, mounted)) :
       o \in {o \in (SUBSET targets) \X BOOLEAN :
                \/ o[2]
                \/ targets \ Blind \subseteq o[1] /\ targets \cap Blind \cap mounted = {}}}
AllOutcomes ==
    UNION {Outcomes(t[1], t[2]) : t \in (SUBSET Devices \ {{}}) \X SUBSET Devices}

(* In the session that planted it a scan is refused, or forced by a flag;  *)
(* then, and in a scan of images (offline), it clears no device.           *)
Scan ==
    /\ canary # NoCanary
    /\ \E same \in {PlantedInThisSession(canary.at, Here(r)) : r \in SUBSET Readable} :
         \/ same /\ RefusedWith("invalid_state")                        \* same_boot
         \/ RefusedWith("failed")                                       \* no_devices
         \/ /\ \/ verdict' \in {Ended(e) : e \in {"critical", "warnings", "ok"}}
               \/ ~ same /\ verdict' \in AllOutcomes
            /\ \/ canary' = [canary EXCEPT !.phase = "scanned"]
               \/ UNCHANGED canary                             \* the record is not saved
            /\ UNCHANGED <<Commanded, uppers, tokens, orphans, Leaks>>

(* Rehearsal::reset: a copy that cannot be removed is passed over. *)
ResetRefused ==
    \/ (inside \/ canary = NoCanary) /\ RefusedWith("invalid_state")    \* active, no_rehearsal
    \/ ~ inside /\ canary # NoCanary /\ RefusedWith("failed")         \* reset

Reset(removed) ==
    /\ ~ inside /\ canary # NoCanary
    /\ uppers' = uppers \ ({canary.token} \X removed)
    /\ orphans' = IF canary.channels \subseteq removed THEN orphans ELSE orphans \cup {canary.token}
    /\ canary' = NoCanary /\ verdict' = Ended("none")
    /\ UNCHANGED <<Commanded, tokens, Leaks>>

-----------------------------------------------------------------------------
(* The machine around it: a session is entered and left by a soft-reboot,  *)
(* which writes out what is cached; a power cut loses it; something in the *)
(* session that plants the canary may copy it to a decoy device.           *)
SoftReboot ==
    /\ softCount < MaxSoft
    /\ softCount' = softCount + 1 /\ inside' = ~ inside
    /\ onDisk' = onDisk \cup cached /\ cached' = {} /\ verdict' = Ended("none")
    /\ UNCHANGED <<bootId, canary, uppers, tokens, orphans>>

PowerLost ==
    /\ bootId < MaxBoots
    /\ bootId' = bootId + 1 /\ softCount' = 0 /\ inside' = FALSE
    /\ cached' = {} /\ verdict' = Ended("none")
    /\ UNCHANGED <<canary, uppers, tokens, orphans, onDisk>>

Leak(d) ==
    /\ inside /\ canary # NoCanary /\ canary.session = EnteredAt
    /\ Cardinality(cached) + Cardinality(onDisk) < MaxLeaks
    /\ \/ cached' = cached \cup {<<canary.token, d>>} /\ UNCHANGED onDisk
       \/ onDisk' = onDisk \cup {<<canary.token, d>>} /\ UNCHANGED cached
    /\ verdict' = Ended("none")
    /\ UNCHANGED <<Commanded, canary, uppers, tokens, orphans>>

RehearseNext ==
    \/ SoftReboot \/ PowerLost \/ Scan \/ \E d \in Devices : Leak(d)
    \/ PlantRefused \/ ScanRefused \/ ResetRefused
    \/ \E taken \in SUBSET FileChannels, readable \in SUBSET Readable, saved \in BOOLEAN :
         Plant(taken, readable, saved)
    \/ \E removed \in SUBSET FileChannels : Reset(removed)

RehearseSpec == RehearseInit /\ [][RehearseNext]_rehearseVars

(* A rehearsal that passes proves the canary absent: when a scan ends      *)
(* without a warning, nothing of the canary is on the devices it read, or  *)
(* on the way to them ("so its writes may not have reached the disk", the  *)
(* refusal of a scan in the planting session), but for one that it could   *)
(* not tell to be a blind spot because it was named and not mounted.  Of   *)
(* devices neither mounted nor named the scan says nothing (NOT_VISIBLE).  *)
PassedIsAbsent ==
    \A d \in verdict.clears : <<canary.token, d>> \notin cached \cup onDisk

(* A later session can be scanned from, when the boot and the soft-reboot  *)
(* count, or the entry times, were readable both times.                    *)
LaterSessionScans ==
    canary # NoCanary /\ inside /\ canary.session # EnteredAt =>
        \A readable \in SUBSET Readable :
            LET here == Here(readable)
                told(field) == Unread \notin {canary.at[field], here[field]} IN
            (told("boot") /\ told("soft")) \/ <<>> \notin {canary.at.entered, here.entered}
                => ~ PlantedInThisSession(canary.at, here)

(* A copy on the hidden volume that a reset would not find belongs to a    *)
(* plant or a removal that failed.                                         *)
CanaryTracked == \A c \in uppers : c[1] = canary.token \/ c[1] \in orphans

(* A scan that passes proves the canary absent from what it read, a later  *)
(* session is not refused a scan, and no copy of a canary is forgotten     *)
(* where a reset would not find it (rehearse.rs).                          *)
RehearsalSound == RehearseTypeOK /\ PassedIsAbsent /\ LaterSessionScans /\ CanaryTracked

-----------------------------------------------------------------------------
(* redirect_for: a mount is [point, fs, upperHidden, dev], in the table's  *)
(* order; the deepest one above the directory decides, the newest of them  *)
(* where several are at one place.                                         *)
MountsAbove(p, dir) == Len(p) <= Len(dir) /\ SubSeq(dir, 1, Len(p)) = p
DeepestAbove(dir, mounts) ==
    LET over == {i \in DOMAIN mounts : MountsAbove(mounts[i].point, dir)} IN
    CHOOSE i \in over : \A j \in over :
        \/ Len(mounts[j].point) < Len(mounts[i].point)
        \/ mounts[j].point = mounts[i].point /\ j <= i
HiddenDevice(mounts, root) ==
    LET at == {i \in DOMAIN mounts : mounts[i].point = root} IN
    IF at = {} THEN "" ELSE mounts[CHOOSE i \in at : \A j \in at : j <= i].dev
Redirects(dir, mounts, root) ==
    LET m == mounts[DeepestAbove(dir, mounts)] IN
    IF m.fs = "overlay" THEN m.upperHidden
    ELSE m.dev = HiddenDevice(mounts, root) \/ MountsAbove(root, m.point)

(* default_scan_targets: the block devices mounted, the hidden volume's    *)
(* left out, and the swap partitions.                                      *)
DefaultScanTargets(mounts, swaps, root) ==
    {mounts[i].dev : i \in {j \in DOMAIN mounts :
        /\ mounts[j].fs \in {"ext4", "btrfs"} /\ ~ MountsAbove(root, mounts[j].point)
        /\ mounts[j].dev # HiddenDevice(mounts, root)}}
    \cup swaps

(* What a plant writes, the scan does not look for in the place it was     *)
(* meant to be: a directory a file is planted in is on no scanned device   *)
(* (no mount covers a deeper one).                                         *)
PlantedOffDecoy(m) ==
    LET covers == \E i, j \in DOMAIN m.mounts :
            i < j /\ MountsAbove(m.mounts[j].point, m.mounts[i].point) /\ m.mounts[i].point # m.mounts[j].point IN
    ~ covers /\ Redirects(m.dir, m.mounts, m.root) =>
        LET newest == CHOOSE i \in DOMAIN m.mounts :
                /\ MountsAbove(m.mounts[i].point, m.dir)
                /\ \A j \in i + 1 .. Len(m.mounts) : ~ MountsAbove(m.mounts[j].point, m.dir) IN
        \/ m.mounts[newest].fs = "overlay" /\ m.mounts[newest].upperHidden
        \/ m.mounts[newest].dev \notin DefaultScanTargets(m.mounts, {}, m.root)

=============================================================================
