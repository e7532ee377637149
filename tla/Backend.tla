------------------------------- MODULE Backend -------------------------------
(***************************************************************************)
(* What becomes of each decoy filesystem in the hidden root                *)
(* (session/policy.rs, session/checks.rs, session/systemd.rs).  An entry   *)
(* is one of Storage's fstab entries with upper, the upperdir option of an *)
(* overlay entry; a mount has ro and upper besides.  A unit is a pair of   *)
(* its type and the path or device it is named after.                      *)
(***************************************************************************)
EXTENDS Storage

BootPaths == {<<"boot">>, <<"boot", "efi">>, <<"efi">>}
Decision(kind, target, units) == [kind |-> kind, target |-> target, units |-> units]

MountedAt(mounts, target) == Newest(mounts, LAMBDA m : m.point = target)
MountContaining(mounts, path) ==
    LET over == {i \in DOMAIN mounts : StartsWith(path, mounts[i].point)}
        deepest == {i \in over : \A j \in over : Len(mounts[j].point) <= Len(mounts[i].point)}
    IN  IF over = {} THEN {} ELSE {mounts[Max(deepest)]}
PlainAbsolute(p) == ".." \notin Range(p)

SwapUnit(e) == IF e.spec = "none" THEN <<>> ELSE <<<<"swap", <<e.spec>>>>>>
Units(e) ==
    <<<<"mount", e.file>>>> \o IF IsAutomount(e) THEN <<<<"automount", e.file>>>> ELSE <<>>

UpperInRam(e, mounts) ==
    LET uppers == IF e.upper # <<>> THEN {e.upper} ELSE {m.upper : m \in MountedAt(mounts, e.file)}
    IN  \E u \in uppers : \E m \in MountContaining(mounts, u) : IsRam(m.fstype)

\* Mutant: a filesystem that is not mounted now is left alone.
DecideMounted(e, mounts, hidden) ==
    IF e.vfstype = "swap" THEN Decision("mask", <<e.spec>>, SwapUnit(e))
    ELSE IF MountedAt(mounts, e.file) # {} THEN Decision("overlay", e.file, <<>>)
    ELSE Decision("leave", e.file, <<>>)
Decide(e, mounts, hidden) ==
    LET mounted == MountedAt(mounts, e.file)
    IN  CASE e.vfstype = "swap" /\ SwapUnit(e) = <<>> -> Decision("leave", e.file, <<>>)
          [] e.vfstype = "swap" /\ SwapUnit(e) # <<>> -> Decision("mask", <<e.spec>>, SwapUnit(e))
          [] e.vfstype # "swap" ->
               IF ~PlainAbsolute(e.file) THEN Decision("refuse", e.file, <<>>)
               ELSE IF e.file = <<>> \/ e.vfstype \in VirtualTypes \/ StartsWith(e.file, hidden)
               THEN Decision("leave", e.file, <<>>)
               ELSE IF e.vfstype \in HostShareTypes \cup {"overlay"} /\ mounted # {}
               THEN Decision("overlay", e.file, <<>>)
               ELSE IF e.vfstype \in HostShareTypes THEN Decision("leave", e.file, <<>>)
               ELSE IF IsNetwork(e) THEN Decision("mask", e.file, Units(e))
               ELSE IF e.vfstype = "overlay"
               THEN IF UpperInRam(e, mounts) THEN Decision("leave", e.file, <<>>)
                    ELSE Decision("mask", e.file, Units(e))
               ELSE IF mounted # {}
               THEN Decision(IF e.file \in BootPaths \/ \E m \in mounted : m.ro
                             THEN "readonly" ELSE "overlay", e.file, <<>>)
               ELSE IF IsNoauto(e) THEN Decision("leave", e.file, <<>>)
               ELSE Decision("mask", e.file, Units(e))

DecideAll(entries, mounts, hidden) ==
    LET order == SetToSortSeq(DOMAIN entries,
                   LAMBDA i, j : \/ Len(entries[i].file) < Len(entries[j].file)
                                 \/ Len(entries[i].file) = Len(entries[j].file) /\ i < j)
    IN  [n \in DOMAIN order |-> Decide(entries[order[n]], mounts, hidden)]
Placed(ds, file) == \E i \in DOMAIN ds : ds[i].kind \in {"readonly", "overlay"} /\ ds[i].target = file
MaskedUnits(ds) == UNION {Range(ds[i].units) : i \in DOMAIN ds}
Masks(entries, ds) ==
    MaskedUnits(ds)
      \cup {<<"automount", e.file>> : e \in {f \in Range(entries) : IsAutomount(f) /\ Placed(ds, f.file)}}

------------------------------------------------------------------------------
(* The pre-flight checks of session/checks.rs. *)
MinSystemd == 254
SoftRebootUnits == {"soft-reboot.target", "systemd-soft-reboot.service"}
RunningVersion(shown, printed) == IF shown # 0 THEN shown ELSE printed
JudgeVersion(v) == IF v >= MinSystemd THEN "pass" ELSE "fail"
JudgeUnits(installed) == IF SoftRebootUnits \subseteq installed THEN "pass" ELSE "fail"
JudgeSession(view) == IF view = "decoy" THEN "pass" ELSE "fail"
JudgeFstab(ds) ==
    IF \E i \in DOMAIN ds : ds[i].kind = "refuse" THEN "fail"
    ELSE IF \E i \in DOMAIN ds : \E u \in Range(ds[i].units) : u[1] # "swap" THEN "warn" ELSE "pass"

------------------------------------------------------------------------------
(* What systemd does with the same fstab in the hidden root, where it finds the
   decoy's filesystems placed, the hidden volume bound at its path and its units
   masked: it mounts every entry that is not noauto, or on demand, where nothing
   is mounted yet. *)
Mounts(entries, ds, e, hidden) ==
    /\ e.file \notin {<<>>, hidden} /\ PlainAbsolute(e.file) /\ e.vfstype # "swap"
    /\ ~Placed(ds, e.file)
    /\ \/ "noauto" \notin e.options /\ <<"mount", e.file>> \notin Masks(entries, ds)
       \/ /\ IsAutomount(e)
          /\ {<<"mount", e.file>>, <<"automount", e.file>>} \cap Masks(entries, ds) = {}
OnDecoyDisk(e, mounts) ==
    /\ e.vfstype \notin VirtualTypes \cup HostShareTypes
    /\ e.vfstype = "overlay" => ~UpperInRam(e, mounts)

(* decide, masks: the hidden systemd mounts no filesystem of the decoy's disks
   or of a server by itself, and swaps to none of its devices.  An entry for a
   place below the hidden root is the exception: decide leaves it ("the hidden
   volume is bound at its own path"), so the filesystem it names is mounted on
   the hidden volume as it is on the decoy. *)
FstabNeverWrites(entries, mounts, hidden) ==
    LET ds == DecideAll(entries, mounts, hidden)
    IN  \A e \in Range(entries) :
          /\ Mounts(entries, ds, e, hidden) /\ ~StartsWith(e.file, hidden) => ~OnDecoyDisk(e, mounts)
          /\ e.vfstype = "swap" /\ e.spec # "none" => <<"swap", <<e.spec>>>> \in Masks(entries, ds)

(* masks: systemd never sets up an automount where a filesystem is placed. *)
AutomountsFree(entries, mounts, hidden) ==
    LET ds == DecideAll(entries, mounts, hidden)
    IN  \A e \in Range(entries) :
          IsAutomount(e) /\ Placed(ds, e.file) => <<"automount", e.file>> \in Masks(entries, ds)

(* decide_all: a filesystem is put in place before those below it, and every
   entry is decided. *)
ParentsFirst(entries, mounts, hidden) ==
    LET ds == DecideAll(entries, mounts, hidden)
    IN  /\ Len(ds) = Len(entries)
        /\ \A i, j \in DOMAIN ds :
             /\ ds[i].kind \in {"readonly", "overlay"} /\ ds[j].kind \in {"readonly", "overlay"}
             /\ ds[i].target # ds[j].target /\ StartsWith(ds[j].target, ds[i].target)
             => i < j

-----------------------------------------------------------------------------
(***************************************************************************)
(* The storage backend under the hidden root as backend-detect sees it     *)
(* (preflight/checks/backend_detect): the layers of its device stack down  *)
(* to the first loop device, discards forwarded to the disk, and the       *)
(* hazards of file containers and LUKS2 tokens.  A layer has, besides      *)
(* Storage's fields, discard (the most bytes it discards at a time), zram  *)
(* and header, the LUKS2 header at its start.                              *)
(***************************************************************************)
BinaryHeaderLen == 4096
MaxHeaderLen == 4194304
HardwareTokens == {"systemd-tpm2", "systemd-fido2"}
CowFilesystems == {"btrfs", "zfs", "bcachefs"}

Header(magic, version, len, flags, tokens) ==
    [magic |-> magic, version |-> version, len |-> len, flags |-> flags, tokens |-> tokens]
NoHeader == Header(FALSE, 0, 0, {}, {})
NoMetadata == [flags |-> {}, tokens |-> {}]
Luks2HeaderLen(b) ==
    IF b.magic /\ b.version = 2 /\ b.len > BinaryHeaderLen /\ b.len <= MaxHeaderLen THEN b.len ELSE 0
ReadLuks2Header(b) ==
    IF Luks2HeaderLen(b) = 0 THEN NoMetadata ELSE [flags |-> b.flags, tokens |-> b.tokens]

CryptType(l) ==
    CASE l.uuid = "CRYPT-LUKS2" -> "luks"
      [] l.uuid = "CRYPT-TCRYPT" -> "tcrypt"
      [] l.uuid = "CRYPT-PLAIN" -> "plain"
      [] l.uuid \in {"CRYPT-SUBDEV", "CRYPT-INTEGRITY", "CRYPT-VERITY"} -> "other"
      [] OTHER -> "none"
Luks2(h, n) ==
    IF CryptType(h.sys[n]) = "luks" /\ h.sys[n].slaves # <<>>
    THEN ReadLuks2Header(h.sys[h.sys[n].slaves[1]].header) ELSE NoMetadata
ForwardsDiscards(h, n) ==
    CryptType(h.sys[n]) # "none" /\ (h.sys[n].discard > 0 \/ "allow-discards" \in Luks2(h, n).flags)
DiscardsOverHidden(h, layers) ==
    /\ \A n \in layers : ~h.sys[n].zram
    /\ \E n \in layers : ForwardsDiscards(h, n)

Luks2Hazards(h, n) == Luks2(h, n).tokens \cap HardwareTokens
LayerHazards(h, n) ==
    LET l == h.sys[n]
        holder == MountContaining(h.table, l.loop.path)
    IN  Luks2Hazards(h, n) \cup
        (IF l.loop.on = "none" THEN {}
         ELSE IF \E m \in holder : m.fstype = "fuse" THEN {"fuse"}
         ELSE {"timestamps"} \cup (IF \E m \in holder : m.fstype \in CowFilesystems THEN {"cow"} ELSE {}))
Hazards(h, layers) == UNION {LayerHazards(h, n) : n \in layers}

BackendDetect(h, allow) ==
    LET at == {m \in MountContaining(h.table, h.root) : m.point = h.root}
        layers == UNION {Range(Layers(h, d, FALSE)) : d \in UNION {DeviceOfMount(h, m) : m \in at}}
    IN  IF "table" \in h.unreadable \/ at = {} THEN "pass"
        ELSE IF DiscardsOverHidden(h, layers) /\ ~allow THEN "fail"
        ELSE IF DiscardsOverHidden(h, layers) \/ Hazards(h, layers) # {} THEN "warn" ELSE "pass"

(* argon2.rs: a version is <<major, minor, patch>>, <<>> when it cannot be read;
   no release opens an Argon2id volume yet, and the check never refuses. *)
FirstReleaseOpeningArgon2id == <<>>
AtLeast(v, w) ==
    \E i \in 1..3 : /\ \A j \in 1..i-1 : v[j] = w[j]
                    /\ v[i] > w[i] \/ (i = 3 /\ v[i] = w[i])
OpensArgon2id(v, first) == first # <<>> /\ AtLeast(v, first)
Argon2idAdvice(v, first) ==
    IF v = <<>> THEN "unknown" ELSE IF OpensArgon2id(v, first) THEN "opens" ELSE "use PBKDF2"

------------------------------------------------------------------------------
(* BackendDetectCheck: where a dm-crypt layer of the hidden volume, above the
   first loop device, hands discards down now or at every opening by the flag its
   LUKS2 header keeps, and the stack has no RAM disk, the check fails; accepted
   for the run it warns. *)
DiscardsRefused(h) ==
    LET hidden == TopMountAt(h.table, h.root)
        scene == [nodes |-> [n \in DOMAIN h.sys |-> [below |-> h.sys[n].slaves]]]
        stack == StackOf(scene, UNION {DeviceOfMount(h, m) : m \in hidden})
        kept(n) == /\ h.sys[n].uuid = "CRYPT-LUKS2" /\ h.sys[n].slaves # <<>>
                   /\ LET b == h.sys[h.sys[n].slaves[1]].header
                      IN  b.magic /\ b.version = 2 /\ b.len \in BinaryHeaderLen+1..MaxHeaderLen
                          /\ "allow-discards" \in b.flags
        forwards == \E n \in stack : /\ h.sys[n].uuid \in {"CRYPT-LUKS2", "CRYPT-TCRYPT", "CRYPT-PLAIN"}
                                     /\ h.sys[n].discard > 0 \/ kept(n)
    IN  hidden # {} /\ "table" \notin h.unreadable /\ forwards /\ (\A n \in stack : ~h.sys[n].zram) =>
          BackendDetect(h, FALSE) = "fail" /\ BackendDetect(h, TRUE) = "warn"
=============================================================================
