------------------------------- MODULE MCHosts -------------------------------
(* Machines to assess: their storage, their configuration files, their      *)
(* memory and bus.                                                          *)
EXTENDS Backend, Posture, TLC

(***************************************************************************)
(* The part of the system a behaviour of a composed instance is about, and *)
(* the input it is given there.  Parts that share no state are explored    *)
(* one at a time: no step of one can disturb another.                      *)
(***************************************************************************)
VARIABLES area, in

(* An input of a part that is a function of what it reads. *)
Pick(part) == area = "none" /\ area' = part

-----------------------------------------------------------------------------
(* Devices, mounts and tables. *)
HiddenAt == <<"hidden">>
Device == Layer @@ [discard |-> 0, zram |-> FALSE, header |-> NoHeader]
Partition(d) == [Device EXCEPT !.disk = d]
Mapping(uuid, on) == [Device EXCEPT !.uuid = uuid, !.slaves = on]
LoopOf(on, dev, readable, leads) ==
    [Device EXCEPT !.loop = [on |-> on, dev |-> dev, path |-> <<"mnt", "img">>,
                             readable |-> readable, leadsTo |-> leads]]
MountOf(id, parent, point, dev, source, fstype) ==
    [id |-> id, parent |-> parent, point |-> point, dev |-> dev, source |-> source,
     fstype |-> fstype, root |-> <<>>, ro |-> FALSE, upper |-> <<>>]
TableEntry(spec, path, mountPoint, vfstype, opts_) ==
    [spec |-> spec, path |-> path, file |-> mountPoint, vfstype |-> vfstype, options |-> opts_]
DeviceTree(loop, crypt, vg) ==
    [n \in {"sda", "sda1", "sda2", "sdb", "sdb1", "loop0", "dm0", "lv0", "lv1"} |->
       CASE n \in {"sda", "sdb"} -> Device
         [] n \in {"sda1", "sda2"} -> Partition("sda")
         [] n = "sdb1" -> Partition("sdb")
         [] n = "loop0" -> loop
         [] n = "dm0" -> Mapping("CRYPT-LUKS2", <<crypt>>)
         [] n \in {"lv0", "lv1"} -> Mapping("LVM-", <<vg>>)]
StorageHost(root, hiddenMount, more, fstab, crypttab, loop, crypt, btrfs, unreadable) ==
    [table |-> <<MountOf(1, 0, <<>>, root, root, "ext4"),
                 MountOf(2, 1, HiddenAt, hiddenMount[1], hiddenMount[2], hiddenMount[3])>> \o more,
     fstab |-> fstab, crypttab |-> crypttab, sys |-> DeviceTree(loop, crypt, "sda2"), btrfs |-> btrfs,
     unreadable |-> unreadable, root |-> HiddenAt, exists |-> TRUE, session |-> FALSE,
     recorded |-> "none", upperDev |-> "none"]

(* Configuration files of systemd, line by line. *)
ConfLine(k, n, v, c) == [kind |-> k, name |-> n, value |-> v, cont |-> c]
ConfText(t) == [there |-> TRUE, readable |-> TRUE, text |-> t]
ConfNone == [there |-> FALSE, readable |-> TRUE, text |-> <<>>]
ConfTree(m, d) == [main |-> [i \in ConfDirs |-> IF i \in DOMAIN m THEN m[i] ELSE ConfNone], drop |-> d]
DropIn(n, d, f) == [name |-> n, dir |-> d, file |-> f]
Section(n) == ConfLine("header", n, "", FALSE)
Sets(k, v) == ConfLine("set", k, v, FALSE)
SetsHeld(k, v) == ConfLine("set", k, v, TRUE)
NoConf == ConfTree(<<>>, {})

(* A machine that keeps nothing of a session. *)
KeepsNothing ==
    [journald |-> ConfTree(<<ConfText(<<Section("Journal"), Sets("Storage", "volatile")>>)>>, {}),
     creds |-> <<>>, major |-> 258, journalDir |-> "none", coredump |-> NoConf, corePattern |-> "core",
     pstore |-> FALSE, kdump |-> FALSE, sudoRs |-> FALSE, sudoers |-> [f \in {"sudoers"} |-> <<>>],
     invocations |-> {}, instances |-> {}, populated |-> {}, processes |-> {}, atime |-> FALSE,
     nixos |-> FALSE, upgradeTimer |-> FALSE,
     logind |-> ConfTree(<<ConfText(<<Section("Login"), Sets("HandleLidSwitch", "poweroff")>>)>>, {}),
     crypttab |-> <<>>, swaps |-> {}, resume |-> FALSE, resumeOption |-> FALSE,
     cmdline |-> <<>>, kernelConfig |-> "on", iommuClass |-> "filled", groups |-> {"DMA"}, tb |-> {},
     lockdown |-> "none", cmdlineReadable |-> TRUE]
=============================================================================
