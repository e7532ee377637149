----------------------------- MODULE MCDecisions -----------------------------
(***************************************************************************)
(* What the tool concludes from what it reads: each behaviour gives one    *)
(* part one input.                                                         *)
(***************************************************************************)
EXTENDS MCHosts

R == INSTANCE Readers
P == INSTANCE Platform
N == INSTANCE NixScan
C == INSTANCE Settings
V == INSTANCE Verify
Q == INSTANCE Oracle

Strings(alphabet, n) == UNION {[1 .. k -> alphabet] : k \in 0 .. n}

-----------------------------------------------------------------------------
(* Readers *)
ReadOverlay ==
    /\ Pick("overlay")
    /\ \/ \E u \in Strings({R!Bs, ",", ":", "0", "4"}, 4) \ {<<>>} : in' = [lower |-> <<<<"a">>>>, upper |-> u]
       \/ \E l1, l2 \in Strings({R!Bs, ":", "a", ","}, 2) \ {<<>>} : in' = [lower |-> <<l1, l2>>, upper |-> <<"a">>]
ReadMount ==
    /\ Pick("mount")
    /\ \E p \in Strings({R!Bs, " ", "0", "4"}, 4), o \in Strings({<<"s">>}, 2), src \in {<<>>, <<"a">>, <<"-">>} :
         in' = [id |-> <<"1">>, parent |-> <<"0">>, dev |-> <<"d">>, root |-> <<"/">>, point |-> p,
                opts |-> <<"r", "w">>, optional |-> o, fstype |-> <<"x">>, source |-> src, super |-> <<"r", "w">>]
ReadUtab ==
    /\ Pick("utab")
    /\ \/ in' \in Strings({" ", "\t", "ID=", "UNIQID=", "SRC=", "1", "0", "-"}, 4)
       \/ in' \in Strings({" ", "\t", "#", "ID=", "SRC=", "TARGET=", "1", "\r"}, 4)
ReadUnit == Pick("unit") /\ in' \in Strings({"/", ".", "a", "-"}, 5)
ReadConfig == Pick("lines") /\ in' \in Strings({<<>>, <<"a">>, <<"a", "b">>}, 4)
ReadTexts == ReadOverlay \/ ReadMount \/ ReadUtab \/ ReadUnit \/ ReadConfig

-----------------------------------------------------------------------------
(* Platform *)
Bare == [ostree |-> FALSE, composefs |-> {}, pid1 |-> <<"systemd">>, osRelease |-> <<>>, currentSystem |-> FALSE,
         dirs |-> [d \in {"bin", "lib"} |-> "link"], selinux |-> [fs |-> FALSE, enforce |-> "", config |-> <<>>]]
OsLine(k, v) == [key |-> k, value |-> v]
QuotedTexts == Pick("quote") /\ in' \in Strings({"$", P!Dq, P!Bs, "a", P!Sq}, 4)
Hosts ==
    /\ Pick("host")
    /\ \/ \E id \in DOMAIN P!Table \cup {"nixos", "rhel", "other"},
             like \in {<<>>, <<"debian">>, <<"x", "ubuntu">>, <<"arch", "fedora">>, <<"x">>},
             v \in {<<>>, <<13>>, <<13, 1>>, <<12, 9>>, <<24, 4>>, <<24>>, <<26, 4>>, <<26, 10>>, <<25, 10>>, <<44>>} :
            in' = [Bare EXCEPT !.osRelease = <<<<OsLine("ID", "debian"), OsLine("ID", id), OsLine("ID_LIKE", like)>>
                                               \o (IF v = <<>> THEN <<>> ELSE <<OsLine("VERSION_ID", v)>>)>>]
       \/ \E o, c \in BOOLEAN, m \in {{}, {"run"}, {"ostree"}, {"root=composefs"}}, p \in {<<>>, <<"init">>, <<"systemd">>},
             d \in [{"bin", "lib"} -> {"absent", "link", "dir"}],
             r \in {<<>>, <<<<OsLine("ID", "nixos")>>>>, <<<<OsLine("ID", "debian"), OsLine("VERSION_ID", <<13>>)>>>>},
             s \in {Bare.selinux, [fs |-> TRUE, enforce |-> "1", config |-> <<"enforcing">>]} :
            in' = [ostree |-> o, composefs |-> m, pid1 |-> p, osRelease |-> r, currentSystem |-> c, dirs |-> d, selinux |-> s]
Flake(l, fl, cwd) ==
    [links |-> l, flakes |-> fl, dirs |-> {<<>>, <<"etc">>, P!Etc, <<"mnt">>, <<"mnt", "nixos">>, <<"srv">>},
     cwd |-> cwd, hidden |-> <<"mnt">>, legacy |-> TRUE, profile |-> TRUE]
Builds ==
    /\ Pick("build")
    /\ \E l \in {<<>>, (<<"l">> :> P!Etc), (P!Etc :> <<"srv">>), (<<"mnt", "nixos">> :> P!Etc), (<<"l">> :> <<"etc">>)},
          fl \in {{}, {P!Etc}, {P!Etc, <<"srv">>}, {<<"mnt", "nixos">>}}, cwd \in {<<>>, <<"etc">>},
          kind \in {"nixos", "fhs"}, oo \in BOOLEAN,
          ex \in {<<>>} \cup {<<[scheme |-> s, absolute |-> a, path |-> p, dir |-> d]>> :
                s \in {"none", "path:", "git+file:", "github:"}, a \in BOOLEAN,
                p \in {P!Etc, <<"l">>, <<"l", "nixos">>, <<"etc">>, <<"..", "etc", "nixos">>, <<"srv">>, <<"mnt", "nixos">>},
                d \in {<<>>, <<<<"nixos">>>>}} :
         in' = [t |-> Flake(l, fl, cwd), kind |-> kind, ex |-> ex, oo |-> oo]
Platforms == QuotedTexts \/ Hosts \/ Builds

-----------------------------------------------------------------------------
(* NixScan *)
NixLine(n, t) == [indent |-> n, toks |-> t]
CodeLines ==
    {NixLine(0, <<"luks", ".", "devices", "=", "{">>), NixLine(2, <<"data", "=", "{">>),
     NixLine(2, <<"data", ".", "name", "=", "q", "x", "q", ";">>), NixLine(2, <<"inherit", "data", ";">>),
     NixLine(2, <<"}", ";">>), NixLine(0, <<"}", ";">>), NixLine(0, <<"devices", "=", "[", "{">>),
     NixLine(2, <<"name", "=", "q", "x", "q", ";">>), NixLine(0, <<"luks", "=", "with", "y", ";", "{">>),
     NixLine(0, <<"devices", ".", "data", "=", "{">>), NixLine(0, <<"text", "=", "ii">>),
     NixLine(2, <<"[", "#", "{">>), NixLine(0, <<"ii", ";">>), NixLine(0, <<"}", "]", ";">>),
     NixLine(0, <<"let">>), NixLine(0, <<"in", "{">>)}
Opening == NixLine(2, <<"#", "luks", ".", "devices", "=", "{">>)
Prose == {NixLine(2, <<"#", "keep", "[", "for">>), NixLine(2, <<"#", "}">>), NixLine(4, <<"#", "five", "q", "disk">>),
          NixLine(2, <<"#">>)}
PlainLines == {l \in CodeLines : ~ \E k \in DOMAIN l.toks : l.toks[k] \in {"ii", "#", "let", "in"}}
Openers == {l \in PlainLines : l.toks[Len(l.toks)] = "{" /\ l.indent = 0}
Commented ==
    /\ Pick("comments")
    /\ \/ \E l1, l2 \in CodeLines, c1, c2 \in Prose \cup {Opening} : in' = <<l1, c1, c2, l2>>
       \/ \E l1, l2, l3 \in CodeLines, c \in {Opening, NixLine(2, <<"#", "keep", "[", "for">>)} : in' = <<l1, l2, c, l3>>
Blocks ==
    /\ Pick("block")
    /\ \E p \in Prose, l1 \in Openers, l2, l3 \in PlainLines :
         \/ in' = [prose |-> p, lines |-> <<l1, l2, l3>>]
         \/ \E l4 \in {l \in PlainLines : l.toks[1] = "}"} : in' = [prose |-> p, lines |-> <<l1, l2, l3, l4>>]
Commands ==
    /\ Pick("shell")
    /\ \E c \in [1 .. 4 -> {"cryptsetup", "open", ";", "data", "x"}], cut \in 1 .. 3 : in' = [command |-> c, cut |-> cut]
DeviceStacks ==
    /\ Pick("stack")
    /\ \E t \in {<<"a">>, <<"a", "b">>, <<"disk">>}, x \in {<<>>, <<"b">>, <<"disk">>}, y \in {<<>>, <<"disk">>},
          z \in {<<>>, <<"disk">>, <<"a">>, <<"b">>, <<"top">>} :
         in' = [n \in {"top", "a", "b", "disk", "decoy"} |->
                  CASE n = "top" -> t [] n = "a" -> x [] n = "b" -> y [] n = "disk" -> <<>> [] OTHER -> z]
SwapLines ==
    {N!HwLine("swapDevices", TRUE, l[1], l[2]) : l \in {<<FALSE, TRUE>>, <<TRUE, TRUE>>, <<FALSE, FALSE>>}}
      \cup {N!HwLine("resumeDevice", FALSE, FALSE, FALSE), N!HwLine("other", FALSE, FALSE, FALSE),
            N!HwLine("other", TRUE, TRUE, TRUE), N!HwLine("other", TRUE, TRUE, FALSE)}
ListLines == {N!HwLine("other", FALSE, i, c) : i, c \in BOOLEAN} \ {N!HwLine("other", FALSE, FALSE, FALSE)}
Balanced(t) ==
    /\ N!ListDepth(t, Len(t)) = 0
    /\ \A i \in 1 .. Len(t) : N!ListDepth(t, i) \in {0, 1} /\ (N!ListDepth(t, i - 1) = 1 <=> t[i] \in ListLines)
HardwareFiles ==
    /\ Pick("hardware")
    /\ \E n \in 1 .. 4 : \E t \in [1 .. n -> SwapLines \cup ListLines] : Balanced(t) /\ in' = t
NixTexts ==
    /\ Pick("imports")
    /\ \E n \in 1 .. 5 : in' \in [1 .. n -> {"/", "*", "#", "nl", "m"}]
NixFiles == Commented \/ Blocks \/ Commands \/ DeviceStacks \/ HardwareFiles \/ NixTexts

-----------------------------------------------------------------------------
(* DecoyMarks *)
MarkTokens == {N!Name, "w", ".", "/", " ", "dq", "#", "luks.devices.", "cryptsetup@", "/dev/", "uuid=", "none", "/dev/mapper/"}
MarkedLines ==
    /\ Pick("marks")
    /\ \/ \E n \in 1 .. 3 : in' \in [1 .. n -> MarkTokens]
       \/ \E t \in [1 .. 4 -> {"w", "/", " ", "dq", "none", "/dev/", "uuid="}], l \in {" ", "w", "dq", "#"} :
            in' = <<l, N!Name>> \o t
CrypttabLines ==
    /\ Pick("crypttab")
    /\ \E b \in {<<>>, <<"w", " ", "sq">>, <<"w", "dq">>}, l \in {<<>>, <<"#">>, <<"#", " ">>, <<" ", "#", "tab">>, <<"/*", " ">>},
          g \in N!Blanks, d \in {"/dev/", "uuid=", "file"}, k \in {"none", "/"} : in' = <<b, l, g, d, k>>
UdevNames == Pick("udev") /\ in' \in N!Layer
Marks == MarkedLines \/ CrypttabLines \/ UdevNames

-----------------------------------------------------------------------------
(* TokenScan *)
DiskLength == 13
PlacedAt(b, at, s) == [i \in 1 .. Len(b) |-> IF i > at /\ i <= at + Len(s) THEN s[i - at] ELSE b[i]]
Disks ==
    /\ Pick("disk")
    /\ \E a, b \in 0 .. DiskLength - 2, n1, n2 \in 1 .. 2, w \in {8, 9}, lim \in {0, 5, 9, 13},
          e \in {<<>>, <<1, 4, 9, 13>>, <<4, 5, 9, 10>>} :
         LET token == <<1, 2>>
             bytes == PlacedAt(PlacedAt([i \in 1 .. DiskLength |-> 0], a, Q!Needles(token)[n1]), b, Q!Needles(token)[n2])
             extents == IF e = <<>> THEN <<>> ELSE <<<<e[1], e[2]>>, <<e[3], e[4]>>>>
         IN  /\ e # <<>> => \A i \in 1 .. DiskLength : bytes[i] # 0 => \E k \in 1 .. 2 : extents[k][1] < i /\ i <= extents[k][2]
             /\ in' = [source |-> [bytes |-> bytes, block |-> e = <<>>, extents |-> extents],
                       window |-> w, limit |-> lim, token |-> token]

-----------------------------------------------------------------------------
(* RootPaths *)
LinkTo(to) == [kind |-> "link", to |-> to]
Absent == [kind |-> "none"]
Plain == [kind |-> "file"]
Nodes == {Absent, R!Dir, Plain, LinkTo(<<"b">>), LinkTo(<<"a">>), LinkTo(<<"b", "c">>)}
TreeOf(full, there(_)) == [q \in {q \in DOMAIN full : full[q] # Absent /\ there(q)} |-> full[q]]
Places ==
    /\ Pick("place")
    /\ \E a, b, c \in Nodes, p \in {<<"a">>, <<"b">>, <<"a", "c">>, <<"b", "c">>, <<"a", "d">>, <<"a", "c", "d">>, <<"d", "e">>} :
         in' = [t |-> TreeOf((<<"a">> :> a) @@ (<<"b">> :> b) @@ (<<"b", "c">> :> c), LAMBDA q : Len(q) = 2 => b = R!Dir),
                p |-> p]
Inits ==
    /\ Pick("init")
    /\ \E s \in {R!Dir, LinkTo(<<"lib">>)}, i, j \in {Absent, Plain, [kind |-> "exec"], LinkTo(<<"lib", "init">>)}, o \in {Absent, Plain} :
         in' = TreeOf((<<"sbin">> :> s) @@ (<<"lib">> :> R!Dir) @@ (<<"sbin", "init">> :> i) @@ (<<"lib", "init">> :> j)
                        @@ (<<"etc">> :> R!Dir) @@ (<<"etc", "os-release">> :> o),
                      LAMBDA q : q = <<"sbin", "init">> => s = R!Dir)
RootMounts ==
    /\ Pick("root")
    /\ \E s \in {"dev", "other"}, f \in {"ext4", "btrfs", "overlay"}, r, v \in {"/", "/@", "/@/x"}, d \in {"/", "/@"} :
         /\ f = "btrfs" => v \in {"/", "/@"} /\ (r = v \/ (r = "/@/x" /\ v = "/@")) /\ (r = "/" => d = "/")
         /\ f # "btrfs" => v = "/" /\ d = "/"
         /\ in' = [source |-> s, fstype |-> f, root |-> r, subvol |-> v, default |-> d, subvolumes |-> {"/", "/@"}]
Remounts ==
    /\ Pick("flags")
    /\ in' \in SUBSET {"ro", "nosuid", "nodev", "noexec", "nodiratime", "relatime"} \cup {{"noatime"}, {"ro", "noatime", "nodev"}}
Roots == Places \/ Inits \/ RootMounts \/ Remounts

-----------------------------------------------------------------------------
(* Settings *)
Vol == <<"/", "vol">>
RunAt == <<"/", "run">>
Inner == {<<"/", "vol", "x">>, Vol, <<"/", "volx">>, <<"/", "vol", "d", "x">>, <<"/", "vol", "..", "x">>}
LinkTrees ==
    {[links |-> l, denied |-> {}, missing |-> {}] : l \in {{}, {<<"/", "vol", "d">>}, {Vol}}}
      \cup {[links |-> {<<"/", "vol", "logs">>}, denied |-> {}, missing |-> {<<"/", "vol", "d">>}],
            [links |-> {}, denied |-> {<<"/", "vol", "d">>}, missing |-> {}]}
Exes == {[known |-> TRUE, path |-> p] : p \in {<<"/", "vol", "nails">>, <<"/", "run", "nails">>, <<"/", "nails">>}}
          \cup {[known |-> FALSE, path |-> <<>>]}
ConfigFile(st, u, k, r, s, l) ==
    [state |-> st, unknownKey |-> u, keys |-> k,
     values |-> [hidden_volume_root |-> r, state_file_path |-> s, log_path |-> l, minimum_space_mb |-> 7, nixos_flake |-> "file"]]
RunCopy(st) ==
    [state |-> st, config |-> C!Settings(Vol, <<"/", "vol", "state.json">>, <<"/", "vol", "logs">>, 500, "unset")]
PathKeys == {"hidden_volume_root", "state_file_path", "log_path"}
Written ==
    /\ Pick("settings")
    /\ \E k \in SUBSET PathKeys, r \in {Vol, C!Root, <<"vol">>, <<>>, <<"/", "vol", "..">>, <<"/", "a,b">>},
          s, l \in Inner, t \in LinkTrees, x \in Exes :
         /\ "hidden_volume_root" \in k \/ r = Vol
         /\ "state_file_path" \in k \/ s = Vol
         /\ "log_path" \in k \/ l = Vol
         /\ x.known => x.path # <<"/", "nails">>
         /\ in' = [exe |-> x, fs |-> t, override |-> TRUE, file |-> ConfigFile("there", FALSE, k, r, s, l),
                   copy |-> RunCopy("absent"), flake |-> "unset"]
Teardowns ==
    /\ Pick("teardown")
    /\ \E k \in SUBSET {"hidden_volume_root", "minimum_space_mb", "nixos_flake"}, r \in {Vol, RunAt}, t \in LinkTrees, x \in Exes,
          o \in BOOLEAN, st \in {"absent", "unreadable", "there"}, u \in BOOLEAN, c \in {"absent", "bad", "there"}, fl \in {"unset", "cli"} :
         /\ u => fl = "cli"
         /\ in' = [exe |-> x, fs |-> t, override |-> o, file |-> ConfigFile(st, u, k, r, Vol, Vol), copy |-> RunCopy(c), flake |-> fl]
Typos ==
    /\ Pick("typo")
    /\ \E w \in Strings({"a", "b"}, 4), p \in Strings({"a", "b"}, 4), q \in Strings({"a", "b"}, 1) :
         in' = [word |-> w, known |-> <<p, q>>, letters |-> {"a", "b"}]
Configurations == Written \/ Teardowns \/ Typos

TextInputs == ReadTexts \/ Platforms \/ NixFiles \/ Marks \/ Disks \/ Roots \/ Configurations

-----------------------------------------------------------------------------
(* Storage, Backend *)
ImageOnRoot == LoopOf("file", "sda1", TRUE, "sda1")
OddLoops ==
    {LoopOf("file", "sda2", TRUE, "sda1"), LoopOf("file", "gone", TRUE, "gone"), LoopOf("file", "sda1", FALSE, "none"),
     LoopOf("block", "sdb1", TRUE, "none"), LoopOf("file", "net", TRUE, "net"), LoopOf("file", "lv1", TRUE, "lv1")}
HiddenMounts ==
    {<<d, d, "ext4">> : d \in {"sdb1", "sda2", "dm0", "lv1", "loop0", "sda1"}}
      \cup {<<"anon", "sdb1", "btrfs">>, <<"ram", "tmpfs", "tmpfs">>, <<"ov", "overlay", "overlay">>}
OtherMounts ==
    {<<>>} \cup {<<MountOf(3, 1, <<"mnt">>, d[1], d[1], d[2])>> : d \in {<<"sda2", "ext4">>, <<"net", "nfs">>, <<"lv1", "ext4">>}}
      \cup {<<MountOf(3, 1, <<"home">>, "lv1", "lv1", "ext4")>>}
      \cup {<<MountOf(3, 2, HiddenAt \o below, "sda2", "sda2", "ext4")>> : below \in {<<>>, <<"s">>}}
Fstabs ==
    {{TableEntry(sp, <<"mnt", "d">>, <<"mnt">>, ty, o)} : sp \in {"sdb1", "sda2", "file"}, ty \in {"ext4", "swap"},
       o \in {{}, {"noauto"}, {"noauto", "x-systemd.automount"}}}
      \cup {{TableEntry("file", <<"mnt", "d">>, <<"srv">>, "none", {"bind"})}}
Crypttabs ==
    {{[name |-> "dm0", source |-> so, options |-> o]} : so \in {"sdb1", "sda2", "unknown"},
       o \in {{}, {"noauto"}, {"tcrypt"}, {"tcrypt-hidden"}}}
Volumes ==
    /\ Pick("volume")
    /\ \/ \E r \in {"sda1", "lv0"}, h \in HiddenMounts, m \in OtherMounts, c \in {"sdb1", "loop0"}, b \in {{}, {{"sda1", "sdb1"}}} :
            in' = StorageHost(r, h, m, {}, {}, ImageOnRoot, c, b, {})
       \/ \E h \in {<<"dm0", "dm0", "ext4">>, <<"loop0", "loop0", "ext4">>}, m \in OtherMounts, l \in OddLoops, c \in {"sda2", "loop0"}, r \in {"sda1", "lv0"} :
            in' = StorageHost(r, h, m, {}, {}, l, c, {}, {})
       \/ \E h \in HiddenMounts, m \in OtherMounts, f \in Fstabs : in' = StorageHost("sda1", h, m, f, {}, ImageOnRoot, "sdb1", {}, {})
       \/ \E h \in HiddenMounts, c \in Crypttabs, u \in {{}, {"fstab"}} :
            in' = StorageHost("sda1", h, <<>>, {}, c, ImageOnRoot, "sdb1", {}, u)
StateDirs == {HiddenAt, HiddenAt \o <<"s">>, <<"mnt">>}

Discards ==
    /\ Pick("discard")
    /\ \E m, z \in BOOLEAN, v \in {1, 2}, n \in {BinaryHeaderLen, BinaryHeaderLen + 1, MaxHeaderLen, MaxHeaderLen + 1},
          f \in SUBSET {"allow-discards", "no-read-workqueue"}, t \in {{}, {"systemd-tpm2"}}, g \in {0, 1},
          h \in {"sdb1", "dm0"}, u \in {"CRYPT-LUKS2", "CRYPT-TCRYPT", "CRYPT-VERITY"} :
         in' = [StorageHost("sda1", <<h, h, "ext4">>, <<>>, {}, {}, ImageOnRoot, "sdb1", {}, {}) EXCEPT
                  !.sys["sdb1"].header = Header(m, v, n, f, t), !.sys["sdb1"].zram = z,
                  !.sys["dm0"].uuid = u, !.sys["dm0"].discard = g]

-----------------------------------------------------------------------------
(* FstabPolicy *)
PolicyEntry(sp, f, ty, o, up) == [spec |-> sp, file |-> f, vfstype |-> ty, options |-> o, upper |-> up]
PolicyEntries ==
    {PolicyEntry("sda2", f, ty, o, <<>>) : f \in {<<>>, <<"home">>, <<"boot">>, <<"home", "x">>, HiddenAt, <<"hidden", "d">>, <<"..", "x">>},
        ty \in {"ext4", "tmpfs", "nfs"}, o \in {{}, {"noauto"}, {"noauto", "x-systemd.automount"}}}
      \cup {PolicyEntry("overlay", f, "overlay", {}, up) : f \in {<<"home">>, <<"home", "x">>},
              up \in {<<>>, <<"run", "u">>, <<"home", "u">>}}
      \cup {PolicyEntry(s, <<"none">>, "swap", {}, <<>>) : s \in {"sda3", "none"}}
PolicyMount(p, ty, ro, up) == [point |-> p, fstype |-> ty, ro |-> ro, upper |-> up]
PolicyTables ==
    {<<PolicyMount(<<>>, "ext4", FALSE, <<>>), PolicyMount(<<"run">>, "tmpfs", FALSE, <<>>)>> \o t :
       t \in {<<>>} \cup {<<PolicyMount(<<"home">>, ty, FALSE, <<"run", "u">>)>> : ty \in {"ext4", "overlay"}}
             \cup {<<PolicyMount(<<"home">>, "ext4", TRUE, <<>>), PolicyMount(p, "ext4", FALSE, <<>>)>> : p \in {<<"home", "x">>, <<"boot">>}}}
DecoyTables ==
    /\ Pick("fstab")
    /\ \E a, b \in PolicyEntries, t \in PolicyTables : in' = [entries |-> <<a, b>>, mounts |-> t]

-----------------------------------------------------------------------------
(* Posture *)
JournalLines ==
    {Section("Other"), ConfLine("malformed", "", "", FALSE), ConfLine("comment", "Storage", "auto", FALSE),
     ConfLine("blank", "", "", FALSE)}
      \cup {Sets("Storage", v) : v \in {"none", "odd", "persistent", ""}}
      \cup {SetsHeld("Storage", v) : v \in {"none", "persistent"}}
JournalTexts ==
    {<<>>} \cup {<<Section("Journal"), a>> : a \in JournalLines} \cup {<<Section("Journal"), a, b>> : a, b \in JournalLines}
ShortTexts ==
    {<<Section("Journal"), Sets("Storage", v)>> : v \in {"persistent", "volatile"}} \cup {<<ConfLine("malformed", "", "", FALSE)>>}
Journals ==
    {ConfTree(<<ConfText(t)>>, {}) : t \in JournalTexts}
      \cup {ConfTree(<<ConfNone, ConfNone, ConfNone, ConfText(t)>>, {DropIn(1, 1, ConfText(u))}) : t \in JournalTexts, u \in ShortTexts}
      \cup {ConfTree(<<ConfText(a)>>, {DropIn(n, d, [ConfText(b) EXCEPT !.readable = r]), DropIn(m, e, ConfText(c))}) :
              a, b, c \in ShortTexts, n, m \in {1, 2}, d \in {1, 4}, e \in {2, 3}, r \in BOOLEAN}
JournalsKept ==
    \/ \E j \in Journals : in' = [KeepsNothing EXCEPT !.journald = j]
    \/ \E j \in {NoConf, ConfTree(<<ConfText(<<Section("Journal"), Sets("Storage", "auto")>>)>>, {}),
                 ConfTree(<<ConfNone, ConfNone, ConfNone, ConfText(<<Section("Journal"), ConfLine("comment", "Storage", "auto", FALSE)>>)>>, {})},
          m \in {0, 258, 259}, d \in {"none", "disk"}, c \in {<<>>, <<"unreadable", "persistent">>, <<"volatile">>} :
         in' = [KeepsNothing EXCEPT !.journald = j, !.major = m, !.journalDir = d, !.creds = c]
SleepKeys == {"HandleLidSwitch", "HandleLidSwitchExternalPower", "HandleLidSwitchDocked", "IdleAction"}
Sleeping ==
    \E k, l \in SleepKeys, v, w \in HandleActions \cup {"odd"},
       drop \in SUBSET {DropIn(1, 1, ConfText(<<Section("Login"), Sets("HandleLidSwitch", "lock")>>))} :
      in' = [KeepsNothing EXCEPT !.logind = ConfTree(<<ConfText(<<Section("Login"), Sets(k, v), Sets(l, w)>>)>>, drop)]
CoresDumped ==
    \E v \in {"external", "none", "odd"}, w \in {"zero", "more", "bad"}, p \in {"core", "/path", "|systemd-coredump"},
       q \in SUBSET {"rsyslogd", "bash"} :
      in' = [KeepsNothing EXCEPT
               !.coredump = ConfTree(<<ConfText(<<Section("Coredump"), Sets("Storage", v), Sets("ProcessSizeMax", w)>>)>>, {}),
               !.corePattern = p, !.processes = q]
SwapDevice(k, b, m) == [kind |-> k, backing |-> b, mapper |-> m]
CryptEntry(n, r, s) == [name |-> n, random |-> r, swap |-> s]
Swapping ==
    \E s \in {SwapDevice("zram", b, "") : b \in {"none", "sda2"}}
               \cup {SwapDevice("part", "", ""), SwapDevice("file", "", ""), SwapDevice("mapper", "", "m")},
       c, d \in {CryptEntry("m", r, w) : r, w \in BOOLEAN} \cup {CryptEntry("n", TRUE, TRUE)}, r \in BOOLEAN :
      in' = [KeepsNothing EXCEPT !.swaps = {s}, !.crypttab = <<c, d>>, !.resume = r]
BootOptions ==
    {[key |-> k, value |-> v] : k \in {"iommu", "init_on_free"}, v \in {"on", "off", "pt", "nopt"}} \cup {[key |-> "--", value |-> ""]}
Wired ==
    \E o, p \in BootOptions, g \in SUBSET {"DMA", "identity"} \cup {{"unreadable"}}, t \in SUBSET {0, 1}, c \in {"unreadable", "empty", "filled"} :
      in' = [KeepsNothing EXCEPT !.cmdline = <<o, p>>, !.groups = g, !.tb = t, !.iommuClass = c]
Postures == Pick("posture") /\ (JournalsKept \/ Sleeping \/ CoresDumped \/ Swapping \/ Wired)

Includes(fs) == [kind |-> "include", to |-> fs, name |-> "", on |-> TRUE, value |-> FALSE]
Defaults(n, on, v) == [kind |-> "defaults", to |-> <<>>, name |-> n, on |-> on, value |-> v]
Tagged(n) == [kind |-> "tag", to |-> <<>>, name |-> n, on |-> TRUE, value |-> FALSE]
SudoLines ==
    {Includes(<<"a">>), Includes(<<"b", "a">>), Defaults("log_output", TRUE, FALSE), Defaults("log_output", FALSE, FALSE),
     Tagged("log_input"), Defaults("logfile", TRUE, TRUE), Defaults("logfile", FALSE, FALSE)}
Sudoers ==
    /\ Pick("sudo")
    /\ \E x, y, z \in SudoLines,
          w \in {<<Includes(<<"sudoers">>)>>, <<Tagged("log_output")>>, <<Defaults("log_output", TRUE, FALSE), Includes(<<"b">>)>>} :
         in' = [f \in {"sudoers", "a", "b"} |-> CASE f = "sudoers" -> <<x, y>> [] f = "a" -> <<z>> [] f = "b" -> w]

-----------------------------------------------------------------------------
(* Verify *)
CheckIds == {r.id : r \in V!Catalog}
VerifyRuns ==
    /\ Pick("verify")
    /\ \E off, deep, ex, j, d, rk, ss \in BOOLEAN, disk \in {"none", "read"}, hst \in {{}, {"nixos"}, {"fedora"}, V!Fhs},
          e \in {{"sudo"}, {"sudo", "other"}}, t \in {CheckIds, {"kmsg-import"}} :
         in' = [offline |-> off, deep |-> deep, examiner |-> ex, journal |-> j, onDisk |-> d, rootKnown |-> rk, disk |-> disk,
                host |-> hst, state |-> "none", traces |-> t, inSession |-> ss, entries |-> e]
SessionScenes ==
    /\ Pick("session")
    /\ \E root \in {"plain", "hidden", "other"}, plan \in {"none", "hidden", "stale"}, rk, pr, cr, sc \in BOOLEAN,
          st \in {"none", "Inactive", "Active"}, l \in {{}, {"nextroot", "overlay"}, {"dropin", "guard"}, {"mask"}},
          p \in {{}, {"config-file", "state-file"}, {"runtime-copy-dir", "read-only-disks-rule"}, {"runtime-dir-legacy"},
                 {"pivot-staging-legacy", "nixos-staged-link"}},
          v \in {{}, {"root", "state"}, {"log-outside"}}, u \in {{}, {"nixos-staged-link"}} :
         /\ v # {} => ~pr
         /\ in' = [root |-> root, plan |-> plan, rootKnown |-> rk, planReadOnly |-> pr, configReadOnly |-> cr, scoped |-> sc,
                   state |-> st, left |-> l, present |-> p, volume |-> v, inUpper |-> u]
Accounts ==
    /\ Pick("users")
    /\ \E a, b \in [name : {"u", "v"}, uid : {0, 999, 1000}, shell : {"login", "nologin"}, home : {"", "/h"}],
          o \in BOOLEAN, su \in {"u", ""} : in' = [users |-> {a, b}, offline |-> o, sudoUser |-> su]
OpenDevices ==
    /\ Pick("devices")
    /\ \E k, l \in {"crypt", "loop", "other"}, n, m \in {"x", "y"},
          src \in {{}, {<<"mapper", <<"x", "">>>>}, {<<"dev", <<"x">>>>}, {<<"image", <<"y">>>>}}, sc \in BOOLEAN :
         LET device(kind, name) ==
               [kind |-> kind, node |-> IF kind = "loop" THEN <<"dev", <<name>>>> ELSE <<"mapper", <<name, "">>>>,
                backing |-> <<"image", <<name>>>>]
         IN in' = [devices |-> {device(k, n), device(l, m)}, sources |-> src, scoped |-> sc]
Verifications == VerifyRuns \/ SessionScenes \/ Accounts \/ OpenDevices

-----------------------------------------------------------------------------
(* Oracle *)
Patterns == {<<"/">> \o p : p \in Strings({"/", "n", "o"}, 3)}
Singly(p) == \A i \in 1 .. Len(p) - 1 : ~ (p[i] = "/" /\ p[i + 1] = "/")
CoverPairs ==
    /\ Pick("covers")
    /\ \E a \in Patterns, b \in Patterns :
         /\ Singly(Q!TrimEnd(a)) /\ Singly(b) /\ b[Len(b)] # "/"
         /\ in' = [pat |-> a, path |-> b]
RowPath == <<"/", "n", "/", "o">>
Left == RowPath \o <<"/", "n">>
LeftBelow == Left \o <<"/", "o">>
LeftBeside == RowPath \o <<"/", "n", "o">>
FeatureType == <<"e">>
CanaryPath == <<"/", "o", "/", "c">>
Event(p, v) == [dataType |-> v, path |-> p, reporter |-> "", body |-> <<>>]
Image(r, f, t) == [restore |-> r, features |-> f, timeline |-> t]
Location(p, v) == [tool |-> "any", path |-> p, field |-> v]
Allowed ==
    {[path |-> p, field |-> v, cite |-> c] : p \in {Left, LeftBeside, RowPath, <<"/", "o">>, FeatureType, CanaryPath},
       v \in {"any", "v"}, c \in {"row", "mech", "doc#a", "doc#b", ""}}
Judgements ==
    /\ Pick("judge")
    /\ \E r \in SUBSET {LeftBelow, LeftBeside},
          f \in {{}, {[type |-> FeatureType, value |-> "v", carved |-> FALSE], [type |-> FeatureType, value |-> "c", carved |-> TRUE]}},
          t \in {{}, {Event(CanaryPath, "c")}}, b \in {{}, {LeftBelow}},
          c \in {Image({}, {}, {}), Image({}, {}, {Event(LeftBeside, "y")}), Image({LeftBeside}, {}, {})},
          e \in {{}} \cup {{x} : x \in Allowed}, k \in {{}, {Location(CanaryPath, "c")}, {Location(CanaryPath, "any")}},
          y \in {Location(CanaryPath, "c"), Location(<<"/", "o">>, "c")} :
         in' = [before |-> Q!ScanImage(Image(b, {}, {})), control |-> Q!ScanImage(c), after |-> Q!ScanImage(Image(r, f, t)),
                allow |-> e, controls |-> k, canary |-> y,
                catalog |-> [rows |-> [row |-> {RowPath}, mech |-> {}], anchors |-> {"doc#a"}, hashed |-> {"doc#a", "doc#b"}]]
LogWords == {"num", "id", "hexword"}
BootLogs ==
    /\ Pick("bootlog")
    /\ \E l, m \in {<<x, "gap", y, "gap", z>> : x, y, z \in LogWords} :
         in' = [line |-> l, other |-> m,
                first |-> [num |-> <<"1">>, id |-> <<"a", "1", "a", "1", "a", "1", "a", "1">>, hexword |-> <<"a", "b">>, gap |-> <<"z">>],
                second |-> [num |-> <<"0", "1">>, id |-> <<"b", "0", "a", "1", "a", "0", "a", "1", "1">>, hexword |-> <<"a", "b">>, gap |-> <<"z">>]]
Oracles == CoverPairs \/ Judgements \/ BootLogs

-----------------------------------------------------------------------------
(* Operator, BackendChain *)
Alerts ==
    /\ Pick("alert")
    /\ \E keys \in SUBSET {"NAILS_TARGET_UID", "SUDO_UID", "DOAS_UID", "SUDO_USER"}, s \in BOOLEAN,
          w \in {{}, {"1000"}, {"0"}, {"7"}}, n \in {"shows", "fails", "missing"}, b \in {"shows", "fails"} :
         \E e \in [keys -> {"junk", "0", "1000", "alice"}] :
           /\ Cardinality(keys) < 4
           /\ in' = [env |-> e, passwd |-> [root |-> "0", alice |-> "1000"], session |-> s, owner |-> w, notifySend |-> n, busctl |-> b]
UpToTwo(S) == {<<>>} \cup {<<x>> : x \in S} \cup {l \in S \X S : l[1] # l[2]}
Chains ==
    /\ Pick("chain")
    /\ \E a \in UpToTwo({"dm1", "dm2", "sda", "loop0"}), b \in UpToTwo({"dm2", "sda", "loop0"}), c \in UpToTwo({"sda", "loop0"}),
          u \in {{}, {"dm1"}}, r \in BOOLEAN, k \in {<<"mapper", "dm0">>, <<"loop", "loop0">>, <<"plain", "sda">>}, n \in 0 .. 1 :
         in' = [slaves |-> [dm0 |-> a, dm1 |-> b, dm2 |-> c], unnamed |-> u, readable |-> r,
                mounts |-> SubSeq(<<[kind |-> k[1], device |-> k[2]]>>, 1, n)]

-----------------------------------------------------------------------------
Init == area = "none" /\ in = <<>>
Next ==
    \/ TextInputs \/ Volumes \/ Discards \/ DecoyTables \/ Postures \/ Sudoers
    \/ Verifications \/ Oracles \/ Alerts \/ Chains
Spec == Init /\ [][Next]_<<area, in>>

-----------------------------------------------------------------------------
(* What other programs write is read as they mean it, and what nails writes *)
(* for them they read as it means it: overlay options and mount lines as    *)
(* the kernel prints them, utab as libmount reads it, unit names as systemd *)
(* makes them, lines with either end; and a place in the next root is the   *)
(* one PID 1 will find there, links included, with an init it can execute,  *)
(* the decoy's own tree on the way back and the flags a mount had           *)
(* (mountinfo.rs, utab.rs, fstab.rs, systemd_conf.rs, nextroot.rs).         *)
ReadersAgree ==
    /\ area = "overlay" => R!OverlayRoundTrip(in)
    /\ area = "mount" => R!MountRoundTrip(in)
    /\ area = "utab" => R!ReadsAsLibmount(in)
    /\ area = "unit" => R!UnitAsSystemd(in)
    /\ area = "lines" => R!LinesKept(in)
    /\ area = "place" => R!PlacesAgree(in.t, in.p)
    /\ area = "init" => R!InitBoots(in)
    /\ area = "root" => R!SameTree(in)
    /\ area = "flags" => R!FlagsKept(in)

(* A command acts on what the operator configured: an accepted file keeps   *)
(* state and logs on a hidden root of their own, a teardown finds the root  *)
(* the session was entered with from whatever binary it runs, the decoy's   *)
(* flake is never built whichever way it is named, a host is tested or told *)
(* about, every device behind the root is recorded, and an alert is shown   *)
(* once, to whoever sits there (config, engine.rs, flake_ref.rs,            *)
(* backend_lock.rs, target_user.rs).                                        *)
SettingsSound ==
    /\ area = "settings" => C!AcceptedIsSafe(in)
    /\ area = "teardown" => C!TeardownReaches(in) /\ C!SourceTrue(in)
    /\ area = "typo" => C!OneEditSuggested(in)
    /\ area = "alert" => C!AlertOnce(in) /\ C!SeatAlerted(in)
    /\ area = "quote" => P!QuoteRoundTrip(in)
    /\ area = "host" => P!TestedOrTold(in)
    /\ area = "build" => P!DecoyFlakeNeverBuilt(in.t, in.kind, in.ex, in.oo)
    /\ area = "chain" => P!ChainComplete(in)

(* The decoy's Nix files are read as Nix reads them: a comment changes      *)
(* nothing after it, a block commented out or a command continued names     *)
(* what the live one does, the volume's marks are found in every dress and  *)
(* in nothing ordinary, the decoy's own disk is no mark; exactly the swap   *)
(* of a hardware file goes, and only an import Nix would follow counts      *)
(* (config/verify, prepare.rs).                                             *)
NixTextsRead ==
    /\ area = "comments" => N!CommentsApart(in)
    /\ area = "block" => N!CommentedOutNamed(in.prose, in.lines)
    /\ area = "shell" => N!ContinuedSame(in.command, in.cut)
    /\ area = "stack" => N!NeverTheDecoys(in, "top")
    /\ area = "marks" => N!OrdinaryPasses(in) /\ N!DeviceWhole(in)
    /\ area = "crypttab" => N!EntryFound(in[1], in[2], in[3], in[4], in[5])
    /\ area = "udev" => N!EitherSource(in)
    /\ area = "hardware" => N!SwapOnlyOut(in)
    /\ area = "imports" => N!ImportActive(in)

(* A hidden root attached without a warning shares no device with what a    *)
(* boot of the decoy mounts, binds or swaps on, at any depth of either's    *)
(* stack and by any btrfs member, and is in no image file on a filesystem   *)
(* of the decoy's (what such a file's filesystem lies on is not followed);  *)
(* a table line that opens it is told, state is written on it alone, and    *)
(* discards it hands down are refused (HiddenRoot::assess,                  *)
(* BackendEntriesCheck, ensure_state_dir_attached, BackendDetectCheck).     *)
VolumeApart ==
    /\ area = "volume" => /\ AttachedIsApart(in) /\ EnablersReported(in)
                          /\ \A d \in StateDirs, allow \in BOOLEAN : StateOnVolume(in, d, allow)
    /\ area = "discard" => DiscardsRefused(in)

(* The hidden systemd mounts no filesystem of the decoy's disks or of a     *)
(* server by itself, entries for places below the hidden root apart, and    *)
(* swaps to none, meets no automount where one is placed, and finds every   *)
(* parent placed before what lies below it (decide, masks, decide_all).     *)
DecoyDisksSafe ==
    area = "fstab" => /\ FstabNeverWrites(in.entries, in.mounts, HiddenAt)
                      /\ AutomountsFree(in.entries, in.mounts, HiddenAt)
                      /\ ParentsFirst(in.entries, in.mounts, HiddenAt)

(* A decoy that passes keeps nothing of a session: no journal, core, log    *)
(* daemon, disk swap or sleep by whatever drop-in systemd reads last, no    *)
(* freed memory unwiped and no open bus, and no sudo log however the files  *)
(* include one another (DecoyPersistenceCheck, SwapCheck, SleepPolicyCheck, *)
(* MemoryWipeCheck, DmaProtectionCheck, scan_file).                         *)
PostureSound ==
    /\ area = "posture" => DropinsDecide(in) /\ PassKeepsNothing(in) /\ PassShieldsMemory(in)
    /\ area = "sudo" => SudoSeen(in)

(* A verdict says no more than was looked at: verify, on a host it knows    *)
(* and with a hidden root configured, finds a trace or names what it did    *)
(* not search, and tells an interrupted entry from a session and a clean    *)
(* decoy from both; the oracle calls clean only what a control cycle or a   *)
(* catalogue row explains; a raw search misses no token it could read       *)
(* (Verifier::run, verdict.rs, forensic/scan.rs).                           *)
VerdictsHonest ==
    /\ area = "verify" => V!NothingSkipped(in)
    /\ area = "session" => V!LeftoversTold(in) /\ V!SessionQuiet(in) /\ V!BaselineClean(in)
    /\ area = "users" => V!InvokerSearched(in)
    /\ area = "devices" => V!SecondVolumeSeen(in)
    /\ area = "covers" => Q!CoversByComponent(in)
    /\ area = "judge" => Q!CleanMeans(in)
    /\ area = "bootlog" => Q!BootsLookAlike(in)
    /\ area = "disk" => Q!TokenFound(in)
=============================================================================
