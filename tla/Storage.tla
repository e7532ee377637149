------------------------------ MODULE Storage ------------------------------
(***************************************************************************)
(* Whether the volume at the hidden root lives on storage the decoy uses   *)
(* (hidden_root/separation), and what the attach gate makes of it          *)
(* (hidden_root/mod.rs).                                                   *)
(*                                                                         *)
(* A host h is what the judge reads: the mount table, the fstab and        *)
(* crypttab entries, the block devices of sysfs with what each is made of, *)
(* and the btrfs filesystems by their members.  A device has one name, the *)
(* spec, node and device number alike; a btrfs mount has a number of its   *)
(* own, and its source names the device.                                   *)
(***************************************************************************)
EXTENDS MountInfo

MaxWalk == 32
MaxStackDevices == 16
SystemMounts == {<<"home">>, <<"boot">>}
VirtualTypes == {"tmpfs"}
HostShareTypes == {"9p"}
NetworkTypes == {"nfs"}

(* A layer of a device stack: a plain disk unless said otherwise. *)
NoLoop == [on |-> "none", dev |-> "none", path |-> <<>>, readable |-> TRUE, leadsTo |-> "none"]
Layer == [uuid |-> "none", name |-> "", loop |-> NoLoop, disk |-> "none", slaves |-> <<>>]

IsRam(fstype) == fstype \in {"tmpfs", "ramfs"}
IsStacked(fstype) == fstype \in {"overlay", "fuse"}

------------------------------------------------------------------------------
(* The entries of fstab and crypttab. *)
IsAutomount(e) == "x-systemd.automount" \in e.options
IsNoauto(e) == "noauto" \in e.options /\ ~IsAutomount(e)
IsBind(e) == "bind" \in e.options
IsNetwork(e) == e.vfstype \in NetworkTypes \/ "_netdev" \in e.options
IsTcryptHidden(c) == "tcrypt-hidden" \in c.options
IsTcrypt(c) == "tcrypt" \in c.options \/ IsTcryptHidden(c)

------------------------------------------------------------------------------
(* blockdev: the layers below a device, breadth first, and what device mapper
   says a layer is.  A layer l has the uuid and the name class of device
   mapper, the loop driver's record, the disk of a partition and its slaves. *)
ClassifyDm(l) ==
    CASE l.uuid \in {"CRYPT-LUKS2", "CRYPT-TCRYPT", "CRYPT-PLAIN"} -> "crypt"
      [] l.uuid = "CRYPT-SUBDEV" -> "subdev"
      [] l.uuid \in {"CRYPT-INTEGRITY", "CRYPT-VERITY", "CRYPT-"} -> "other"
      [] l.uuid = "LVM-" -> "lvm"
      [] l.uuid = "" /\ l.name = "veracrypt1" -> "veracrypt"
      [] OTHER -> "other"
IsDm(l) == l.uuid # "none"

BelowLoop(l) == IF l.loop.on = "block" THEN <<l.loop.dev>> ELSE <<>>
LayerStep(h, follow, s) ==
    IF s.pending = <<>> \/ Len(s.seen) >= MaxStackDevices THEN [s EXCEPT !.pending = <<>>]
    ELSE LET top == Head(s.pending)
         IN  IF top \in Range(s.seen) THEN [s EXCEPT !.pending = Tail(@)]
             ELSE [seen |-> Append(s.seen, top),
                   pending |-> Tail(s.pending) \o h.sys[top].slaves
                                 \o IF follow THEN BelowLoop(h.sys[top]) ELSE <<>>]
Layers(h, top, follow) ==
    LET f[n \in 0..MaxStackDevices] ==
          IF n = 0 THEN [seen |-> <<>>, pending |-> <<top>>] ELSE LayerStep(h, follow, f[n-1])
    IN  f[MaxStackDevices].seen

(* device_of_mount: by its device number, else by the name in its source. *)
DeviceOfMount(h, m) ==
    IF m.dev \in DOMAIN h.sys THEN {m.dev} ELSE {m.source} \cap DOMAIN h.sys

(* file_holder: the filesystem on the device the loop driver recorded, never the
   one the path leads to unless the file there is on that device. *)
MountHolding(t, p) ==
    LET mounted == {n \in 0..Len(p) : TopMountAt(t, SubSeq(p, 1, n)) # {}}
    IN  IF mounted = {} THEN {} ELSE TopMountAt(t, SubSeq(p, 1, Max(mounted)))
FileHolder(h, loop) ==
    CASE ~loop.readable -> [at |-> "unreadable", dev |-> "none"]
      [] \E m \in Range(h.table) : m.dev = loop.dev -> [at |-> "mount", dev |-> loop.dev]
      [] /\ \A m \in Range(h.table) : m.dev # loop.dev
         /\ loop.leadsTo = loop.dev
         /\ MountHolding(h.table, loop.path) # {} ->
              [at |-> "mount", dev |-> (CHOOSE m \in MountHolding(h.table, loop.path) : TRUE).dev]
      [] OTHER -> [at |-> "unplaced", dev |-> "none"]

(* add_layer: a layer as a node of the device map. *)
AddLayer(h, n) ==
    LET l == h.sys[n]
    IN  CASE IsDm(l) -> [kind |-> IF ClassifyDm(l) \in {"crypt", "subdev", "veracrypt"}
                                  THEN "crypt" ELSE "mapper", below |-> l.slaves]
          [] ~IsDm(l) /\ l.loop.on = "file" ->
               [kind |-> "loop", below |-> l.slaves, holder |-> FileHolder(h, l.loop)]
          [] ~IsDm(l) /\ l.loop.on = "block" ->
               [kind |-> "loopdev", below |-> Append(l.slaves, l.loop.dev)]
          [] ~IsDm(l) /\ l.loop.on = "none" /\ l.disk # "none" ->
               [kind |-> "part", below |-> l.slaves, disk |-> l.disk]
          [] OTHER -> [kind |-> "disk", below |-> l.slaves]

(* collect: the judge's inputs; a file that exists and cannot be read is listed
   as unreadable, never taken as empty. *)
Collect(h) ==
    [fstab |-> IF "fstab" \in h.unreadable THEN {} ELSE h.fstab,
     crypttab |-> IF "crypttab" \in h.unreadable THEN {} ELSE h.crypttab,
     nodes |-> IF "sys" \in h.unreadable THEN << >>
               ELSE [n \in DOMAIN h.sys |-> AddLayer(h, n)],
     mounts |-> h.table, btrfs |-> h.btrfs, unreadable |-> h.unreadable]

------------------------------------------------------------------------------
(* The device map of a scene s. *)
NodeOfMount(s, m) ==
    IF m.dev \in DOMAIN s.nodes THEN {m.dev} ELSE {m.source} \cap DOMAIN s.nodes
NodeOfSpec(s, spec) == {spec} \cap DOMAIN s.nodes

WalkStep(s, w) ==
    IF w.pending = <<>> THEN w
    ELSE LET next == Last(w.pending)
         IN  IF Len(w.seen) >= MaxWalk \/ next \in Range(w.seen)
             THEN [w EXCEPT !.pending = Front(@)]
             ELSE [seen |-> Append(w.seen, next),
                   pending |-> Front(w.pending) \o
                     (IF next \in DOMAIN s.nodes THEN Reverse(s.nodes[next].below) ELSE <<>>)]
Stack(s, name) ==
    LET f[n \in 0..2 * Cardinality(DOMAIN s.nodes)] ==
          IF n = 0 THEN [seen |-> <<>>, pending |-> <<name>>] ELSE WalkStep(s, f[n-1])
    IN  f[2 * Cardinality(DOMAIN s.nodes)].seen
StackOf(s, names) == UNION {Range(Stack(s, n)) : n \in names}
SameBtrfs(s, a, b) == \E members \in s.btrfs : {a, b} \subseteq members

------------------------------------------------------------------------------
(* The decoy's claims and its entries for the hidden drive. *)
DeviceClaim(s, what, tops, noauto) ==
    [what |-> what, tops |-> tops, nodes |-> StackOf(s, tops), noauto |-> noauto,
     superblocks |-> {m.dev : m \in {n \in Range(s.mounts) : NodeOfMount(s, n) \cap tops # {}}}]
MountClaim(s, m, noauto) ==
    [DeviceClaim(s, "mount", NodeOfMount(s, m), noauto) EXCEPT !.superblocks = @ \cup {m.dev}]

DiskOf(s, n) ==
    IF n \notin DOMAIN s.nodes THEN {}
    ELSE IF s.nodes[n].kind = "part" THEN {s.nodes[n].disk}
    ELSE IF s.nodes[n].kind = "disk" THEN {n} ELSE {}
SameDrive(s, n, stack) ==
    UNION {DiskOf(s, m) : m \in Range(Stack(s, n))} \cap UNION {DiskOf(s, m) : m \in stack} # {}

\* Mutant: only the root filesystem is the decoy's.
SystemClaimsRoot(s, hidden) == {MountClaim(s, m, FALSE) : m \in TopMountAt(s.mounts, <<>>)}
SystemClaims(s, hidden) ==
    {MountClaim(s, m, FALSE) :
       m \in UNION {TopMountAt(s.mounts, p) :
                      p \in {<<>>} \cup {q \in SystemMounts : ~StartsWith(q, hidden.point)}}}

Judged(e) ==
    /\ e.vfstype \notin VirtualTypes \cup HostShareTypes \cup {"overlay"}
    /\ ~IsNetwork(e)
ForHidden(s, e, stack) == NodeOfSpec(s, e.spec) \cap stack # {}
FstabClaims(s, e, hidden, stack) ==
    IF ~Judged(e) \/ (ForHidden(s, e, stack) /\ IsNoauto(e)) THEN {}
    ELSE IF IsBind(e) \/ e.spec = "file"
    THEN {MountClaim(s, m, IsNoauto(e)) : m \in MountHolding(s.mounts, e.path)}
    ELSE {DeviceClaim(s, IF e.vfstype = "swap" THEN "swap" ELSE "mount",
                      NodeOfSpec(s, e.spec), IsNoauto(e))}
         \cup {MountClaim(s, m, FALSE) :
                 m \in {n \in TopMountAt(s.mounts, e.file) :
                          /\ e.vfstype # "swap"
                          /\ ~IsNoauto(e)
                          /\ ~StartsWith(e.file, hidden.point)}}
FstabFindings(s, e, stack) ==
    IF Judged(e) /\ ForHidden(s, e, stack) THEN {"blocking"} ELSE {}

OpensHidden(s, c, stack) ==
    IsTcryptHidden(c) /\ \A n \in NodeOfSpec(s, c.source) : n \in stack \/ SameDrive(s, n, stack)
NamesHidden(s, c, stack) ==
    (NodeOfSpec(s, c.source) \cup NodeOfSpec(s, c.name)) \cap stack # {}
OpensOuter(s, c, stack) ==
    IsTcrypt(c) /\ \E n \in NodeOfSpec(s, c.source) : SameDrive(s, n, stack)
CrypttabClaims(s, c, stack) ==
    IF OpensHidden(s, c, stack) \/ NamesHidden(s, c, stack) \/ OpensOuter(s, c, stack) THEN {}
    ELSE {DeviceClaim(s, "encrypted", NodeOfSpec(s, c.source) \cup NodeOfSpec(s, c.name),
                      "noauto" \in c.options)}
CrypttabFindings(s, c, stack) ==
    IF OpensHidden(s, c, stack) \/ NamesHidden(s, c, stack) THEN {"blocking"}
    ELSE IF OpensOuter(s, c, stack) THEN {"outer"} ELSE {}

Claims(s, hidden, stack) ==
    SystemClaims(s, hidden)
      \cup UNION {FstabClaims(s, e, hidden, stack) : e \in s.fstab}
      \cup UNION {CrypttabClaims(s, c, stack) : c \in s.crypttab}
Findings(s, stack) ==
    UNION {FstabFindings(s, e, stack) : e \in s.fstab}
      \cup UNION {CrypttabFindings(s, c, stack) : c \in s.crypttab}

------------------------------------------------------------------------------
(* The verdict, first match wins. *)
OnClaimed(s, hidden, top, claims) ==
    \E c \in claims : /\ c.what = "mount"
                      /\ \/ hidden.dev \in c.superblocks
                         \/ \E t \in top, d \in c.tops : d = t \/ SameBtrfs(s, d, t)
ClaimedHolder(s, claims, holder) ==
    \E c \in claims : /\ c.what = "mount"
                      /\ holder.dev \in c.superblocks \/ NodeOfMount(s, holder) \cap c.tops # {}
Untraced(s, m) == IsStacked(m.fstype) \/ NodeOfMount(s, m) = {}
Encrypted(s, stack, n) ==
    \E a \in Range(stack) : a \in DOMAIN s.nodes /\ s.nodes[a].kind = "crypt" /\ n \in Range(Stack(s, a))

(* What one image file in the stack says; "go on" leaves it to the next. *)
HeldBy(s, n) == {i \in DOMAIN s.mounts : s.mounts[i].dev = s.nodes[n].holder.dev}
ImageVerdict(s, stack, claims, n) ==
    LET holder == s.mounts[Min(HeldBy(s, n))]
    IN  IF s.nodes[n].holder.at = "unreadable" THEN "could not judge"
        ELSE IF s.nodes[n].holder.at = "unplaced" \/ HeldBy(s, n) = {} THEN "unplaced image"
        ELSE IF ClaimedHolder(s, claims, holder)
        THEN IF Encrypted(s, stack, n) THEN "container on decoy" ELSE "image on decoy"
        ELSE IF ~IsRam(holder.fstype) /\ Untraced(s, holder) THEN "untraced" ELSE "go on"
Images(s, stack) == SelectSeq(stack, LAMBDA n : n \in DOMAIN s.nodes /\ s.nodes[n].kind = "loop")
FirstImage(s, stack, claims) ==
    LET said == SelectSeq([i \in DOMAIN Images(s, stack) |->
                             ImageVerdict(s, stack, claims, Images(s, stack)[i])],
                          LAMBDA v : v # "go on")
    IN  IF said = <<>> THEN "separate" ELSE said[1]

Verdict(s, hidden, top, stack, claims) ==
    LET sharing == {c \in claims : c.nodes \cap Range(stack) # {}}
    IN  IF OnClaimed(s, hidden, top, claims) THEN "on decoy filesystem"
        ELSE IF top = {} THEN "untraced"
        ELSE IF sharing # {}
        THEN IF \A c \in sharing : c.noauto THEN "inside noauto" ELSE "inside decoy storage"
        ELSE FirstImage(s, stack, claims)

HiddenTop(s, hidden) == IF IsStacked(hidden.fstype) THEN {} ELSE NodeOfMount(s, hidden)
HiddenStack(s, hidden) ==
    IF HiddenTop(s, hidden) = {} THEN <<>> ELSE Stack(s, CHOOSE t \in HiddenTop(s, hidden) : TRUE)
Judge(s, hidden) ==
    LET stack == HiddenStack(s, hidden)
        claims == Claims(s, hidden, Range(stack))
    IN  IF IsRam(hidden.fstype) THEN [verdict |-> "separate", entries |-> {}]
        ELSE [verdict |-> IF s.unreadable # {} THEN "could not judge"
                          ELSE Verdict(s, hidden, HiddenTop(s, hidden), stack, claims),
              entries |-> Findings(s, Range(stack))]

Severity(v) ==
    CASE v = "separate" -> "pass"
      [] v \in {"container on decoy", "inside noauto"} -> "warn"
      [] OTHER -> "refuse"

------------------------------------------------------------------------------
(* The attach gate: HiddenRoot::assess. *)
StackBelow(t, m) ==
    LET f[n \in 0..Len(t)] ==
          IF n = 0 THEN {m} ELSE f[n-1] \cup
            {b \in Range(t) : \E a \in f[n-1] : b.id = a.parent /\ b.id # a.id /\ b.point = m.point}
    IN  f[Len(t)] \ {m}
CoveredMount(t, m) == {b \in StackBelow(t, m) : b.dev # m.dev}
HoldsSessionVolume(h, visible) ==
    IF h.recorded # "none" THEN visible.dev = h.recorded ELSE h.upperDev = visible.dev
Refused(kind) == [as |-> "refused", kind |-> kind]
Assess(h) ==
    LET top == TopMountAt(h.table, h.root)
        visible == CHOOSE m \in top : TRUE
        verdict == Judge(Collect(h), visible).verdict
    IN  IF ~h.exists THEN Refused("missing")
        ELSE IF "table" \in h.unreadable THEN Refused("table unreadable")
        ELSE IF top = {} THEN Refused("not a mount point")
        ELSE IF CoveredMount(h.table, visible) # {} THEN Refused("covered")
        ELSE IF h.session /\ ~HoldsSessionVolume(h, visible) THEN Refused("not the session volume")
        ELSE IF ~h.session /\ verdict = "could not judge" THEN Refused("unjudged")
        ELSE IF ~h.session /\ verdict \in {"untraced", "unplaced image"} THEN Refused("untraced")
        ELSE IF ~h.session /\ Severity(verdict) = "refuse" THEN Refused("decoy storage")
        ELSE IF visible.dev = Reached(h.table, <<>>).dev THEN Refused("same device as root")
        ELSE IF ~h.session /\ Severity(verdict) = "warn" THEN [as |-> "warned", kind |-> "decoy storage"]
        ELSE [as |-> "attached", kind |-> "none"]
AssessAllowing(h, allow) ==
    IF allow /\ Assess(h) = Refused("decoy storage")
    THEN [as |-> "warned", kind |-> "decoy storage"] ELSE Assess(h)
IsAttached(a) == a.as # "refused"

(* ensure_state_dir_attached: a state directory must be on the root's own mount. *)
StateDirAttached(h, dir, allow) ==
    /\ IsAttached(AssessAllowing(h, allow))
    /\ StartsWith(dir, h.root)
    /\ \A m \in MountHolding(h.table, dir) : \E r \in MountHolding(h.table, h.root) : m.id = r.id

(* BackendEntriesCheck *)
BackendEntries(h) ==
    LET top == TopMountAt(h.table, h.root)
        hidden == CHOOSE m \in top : TRUE
        entries == Judge(Collect(h), hidden).entries
    IN  IF top = {} THEN "pass"
        ELSE IF IsRam(hidden.fstype) THEN "pass"
        ELSE IF h.unreadable # {} THEN "fail"
        ELSE IF "blocking" \in entries THEN "fail"
        ELSE IF "outer" \in entries THEN "warn" ELSE "pass"

------------------------------------------------------------------------------
(* What the verdict is held against: the devices data written to a mount passes
   through, those of the filesystems its image files are on, the devices a boot
   of the decoy uses, and all the members of its btrfs filesystems. *)
StoredOn(h, tops) ==
    LET f[n \in 0..Cardinality(DOMAIN h.sys)] ==
          IF n = 0 THEN tops
          ELSE f[n-1] \cup UNION {Range(h.sys[d].slaves) \cup Range(BelowLoop(h.sys[d])) : d \in f[n-1]}
    IN  f[Cardinality(DOMAIN h.sys)]
HeldOn(h, tops) ==
    UNION {DeviceOfMount(h, m) : m \in {n \in Range(h.table) :
             \E d \in StoredOn(h, tops) : h.sys[d].loop.on = "file" /\ h.sys[d].loop.dev = n.dev}}
BootUses(h) ==
    UNION {DeviceOfMount(h, Reached(h.table, p)) : p \in {<<>>, <<"home">>} \cup
             {e.path : e \in {f \in h.fstab : IsBind(f) /\ ~IsNoauto(f)}}}
      \cup ({e.spec : e \in {f \in h.fstab : Judged(f) /\ ~IsNoauto(f)}} \cap DOMAIN h.sys)
WithMembers(h, devices) == devices \cup UNION {members \in h.btrfs : members \cap devices # {}}
Visible(h) == CHOOSE m \in TopMountAt(h.table, h.root) : TRUE
Opens(h) ==
    {e.spec : e \in {f \in h.fstab : Judged(f)}}
      \cup UNION {{c.source, c.name} : c \in {d \in h.crypttab : ~IsTcrypt(d)}}

(* HiddenRoot::assess: a hidden root that is attached without a warning is on no
   device a boot of the decoy mounts, binds or swaps on, no member of a btrfs it
   mounts, nor inside such a device, nor in an image file on a filesystem the
   decoy mounts.  An image file is followed to the device of its filesystem and
   no further: where that device shares a disk or a volume group with the decoy,
   or is itself an image file, the judge says separate. *)
AttachedIsApart(h) ==
    Assess(h).as = "attached" /\ ~h.session =>
      LET tops == DeviceOfMount(h, Visible(h))
      IN  /\ StoredOn(h, tops) \cap StoredOn(h, BootUses(h)) = {}
          /\ (tops \cup HeldOn(h, tops)) \cap WithMembers(h, BootUses(h)) = {}

(* BackendEntriesCheck: a line of the decoy's fstab or crypttab that mounts or
   opens a device the mounted hidden volume is stored on is never passed over,
   noauto or not. *)
EnablersReported(h) ==
    /\ TopMountAt(h.table, h.root) # {}
    /\ StoredOn(h, DeviceOfMount(h, Visible(h))) \cap Opens(h) # {}
    /\ ~IsStacked(Visible(h).fstype)
    => BackendEntries(h) = "fail"

(* ensure_state_dir_attached: a state directory it lets through is where a write
   lands on the visible hidden volume, not on what covers it, on a mount below
   it or on the decoy's root. *)
StateOnVolume(h, dir, allow) ==
    StateDirAttached(h, dir, allow) =>
      /\ Reached(h.table, dir) \in TopMountAt(h.table, h.root)
      /\ allow \/ Reached(h.table, dir).dev # Reached(h.table, <<>>).dev
=============================================================================
