------------------------------ MODULE MCSteps ------------------------------
(***************************************************************************)
(* The parts of the tool that work in steps and share no state with one    *)
(* another, each explored by itself: while one runs, the others rest in an *)
(* initial state.                                                          *)
(***************************************************************************)
EXTENDS MCHosts, Preflight, SafeFs, Store, Staging, Identity, HiddenConfig,
        Rehearse, Logs, Persona, Setup

Areas == {"none", "preflight", "files", "store", "staging", "identity", "config",
          "rehearse", "logs", "home", "setup"}

-----------------------------------------------------------------------------
(* The machines preflight meets: a good one, and one flaw each. *)
PlainStore(hd) ==
    StorageHost("sda1", <<hd, hd, "ext4">>, <<>>, {}, {}, Device, "sdb1", {}, {})
Ready(hd) ==
    [store |-> PlainStore(hd), keeps |-> KeepsNothing, named |-> {}, writable |-> TRUE, platform |-> "supported",
     nixos |-> TRUE, view |-> "decoy", shown |-> 0, printed |-> 257, units |-> SoftRebootUnits,
     rootOnDisk |-> TRUE, lines |-> <<>>, ownNamespace |-> FALSE, sharedRoot |-> TRUE,
     tools |-> {"systemctl", "loginctl", "nix"}, symlinks |-> TRUE, upper |-> Range(UpperCapabilities),
     cryptsetup |-> <<2, 7, 5>>, lowerReadable |-> TRUE, dirs |-> RequiredDirs \cup {"upper", "work"},
     writableDirs |-> {"upper", "work"}, config |-> "pass", target |-> "local flake", flakeNix |-> TRUE,
     staged |-> {}, residue |-> "pass", available |-> 500, minimum |-> 500, binaryOnVolume |-> TRUE,
     pathLink |-> FALSE, operator |-> TRUE, review |-> {}, flushes |-> FALSE, state |-> "inactive",
     stateFile |-> "none"]
Machines ==
    LET R == Ready("sdb1")
    IN  {R, [R EXCEPT !.stateFile = "sdb1"], [R EXCEPT !.nixos = FALSE, !.platform = "unknown"],
         [R EXCEPT !.platform = "unsupported"], [R EXCEPT !.platform = "untested", !.named = {"label"}],
         [R EXCEPT !.view = "hidden"], [R EXCEPT !.printed = 253], [R EXCEPT !.shown = 254, !.printed = 0],
         [R EXCEPT !.units = {"soft-reboot.target"}], [R EXCEPT !.ownNamespace = TRUE],
         [R EXCEPT !.tools = {"systemctl", "loginctl"}], [R EXCEPT !.symlinks = FALSE],
         [R EXCEPT !.upper = {"xattr", "d_type"}], [R EXCEPT !.dirs = {"config"}],
         [R EXCEPT !.writableDirs = {"upper"}], [R EXCEPT !.config = "fail"], [R EXCEPT !.target = "none"],
         [R EXCEPT !.target = "decoy flake"], [R EXCEPT !.flakeNix = FALSE], [R EXCEPT !.staged = {"decoy"}],
         [R EXCEPT !.available = 499], [R EXCEPT !.pathLink = TRUE],
         [R EXCEPT !.review = {"x"}, !.flushes = TRUE], [R EXCEPT !.state = "active", !.residue = "warn"],
         [R EXCEPT !.writable = FALSE], [R EXCEPT !.keeps.processes = {"rsyslogd"}],
         [R EXCEPT !.rootOnDisk = FALSE], Ready("sda2"), Ready("sda1"), Ready("dm0"),
         [Ready("dm0") EXCEPT !.store.sys["dm0"].discard = 1]}
(* The names of a temporary file, of which another program may have taken some. *)
MCTempNames == <<"tmp1", "tmp2">>
NoOptions == [overlayOnly |-> FALSE, accept |-> FALSE, allow |-> FALSE]

Init ==
    /\ area \in Areas /\ in = <<>>
    /\ IF area = "preflight" THEN \E h \in Machines, o \in [DOMAIN NoOptions -> BOOLEAN] : PreflightStart(h, o)
       ELSE PreflightStart(Ready("sdb1"), NoOptions)
    /\ FsInit
    /\ area # "files" => job.op = "read" /\ SubEntry = Dir("sub") /\ job.leaf = None
    /\ StoreInit /\ (area # "store" => db = {})
    /\ StagingInit
    /\ IdentityInit /\ (area # "identity" => links = <<>> /\ ~etcHostname /\ ~backdates /\ hasIp)
    /\ ConfigInit /\ (area # "config" => decoyHw = NoText /\ original = NoText)
    /\ RehearseInit /\ LogsInit
    /\ PersonaInit /\ (area # "home" => homeMode = "shared")
    /\ SetupInit /\ (area # "setup" => confFile = "none" /\ stateItem = "none" /\ dirs["logs"] = "none"
                                         /\ dirs["config/nixos"] = "none")

-----------------------------------------------------------------------------
(* Inputs of the functions these parts use. *)
Resting == UNCHANGED <<preflightVars, fsVars, storeVars, stagingVars, identityVars, configVars, rehearseVars, logVars, homeVars, setupVars>>

LogPaths ==
    /\ Pick("log") /\ Resting
    /\ \E l \in UNION {[1 .. n -> {"..", ".", "hid", "logs"}] : n \in 0 .. 4},
          r \in {<<"hid">>, <<"logs", "..", "hid">>, <<"..", "hid">>},
          c \in {<<TRUE, FALSE>>, <<FALSE, FALSE>>, <<TRUE, TRUE>>}, at_ \in BOOLEAN, th \in {"none", "dir", "link"} :
         in' = [log |-> l, root |-> r, configRead |-> c[1], unsupported |-> c[2], attached |-> at_, there |-> th]

SyncApp == <<"Dropbox">>
SyncUnit == <<"Dropbox", ".service">>
SyncGnome == <<"gnome-", "Dropbox">>
AppNames == {SyncApp, SyncUnit, SyncGnome, <<"nm-applet">>}
NoApp == [n \in AppNames |-> "none"]
AppDirs == {"config", "etc", "nix-profile", "nix-state", "per-user", "default", "system"}
NoWants == [home |-> {}, etc |-> {}, vendor |-> {}]
Desk == [nixos |-> FALSE, fresh |-> FALSE, at |-> [d \in AppDirs |-> NoApp], wants |-> NoWants, null |-> {},
         gdm |-> <<>>, sddm |-> <<>>, lightdm |-> <<>>, linger |-> FALSE, user |-> "op",
         maskAll |-> FALSE, mask |-> {}, names |-> AppNames]
Desktops ==
    /\ Pick("desktop") /\ Resting
    /\ \/ \E nix \in BOOLEAN, fr \in BOOLEAN, n \in {SyncApp, SyncGnome}, c \in {"none", "shown", "hidden"},
             e \in {"none", "shown", "hidden"}, p \in {"none", "shown"}, w \in {"none", "home", "etc", "vendor"},
             al \in BOOLEAN, mk \in SUBSET {SyncApp, SyncGnome, SyncUnit} :
            /\ mk \subseteq {n, SyncUnit} /\ (fr => c # "shown")
            /\ in' = [Desk EXCEPT !.nixos = nix, !.fresh = fr, !.maskAll = al, !.mask = mk,
                        !.at["config"][n] = c, !.at["etc"][n] = e, !.at["system"][n] = p,
                        !.wants = [d \in DOMAIN NoWants |-> IF d = w THEN {SyncUnit} ELSE {}]]
       \/ \E g \in UNION {[1 .. k -> [enabled : BOOLEAN, login : {"", "x"}]] : k \in 0 .. 2},
             s \in UNION {[1 .. k -> {"", "x", "y"}] : k \in 0 .. 2}, l \in BOOLEAN, c \in {"none", "shown"} :
            in' = [Desk EXCEPT !.gdm = g, !.sddm = s, !.lightdm = s, !.linger = l, !.at["etc"][SyncGnome] = c]

ResetPaths == {<<"a">>, <<"a", "a">>, <<"a", "b">>, <<"b">>}
Resets ==
    /\ Pick("reset") /\ Resting
    /\ \E o \in SUBSET ResetPaths, c \in SUBSET ResetPaths, t \in ResetPaths \cup {<<>>},
          h \in {<<FALSE, TRUE, FALSE, FALSE>>, <<TRUE, TRUE, TRUE, FALSE>>, <<FALSE, FALSE, TRUE, TRUE>>,
                 <<FALSE, FALSE, TRUE, FALSE>>, <<FALSE, FALSE, FALSE, TRUE>>} :
         in' = [overlaid |-> o, changed |-> c, target |-> t, hidden |-> h[1], yes |-> h[2],
                terminal |-> h[3], answer |-> h[4]]

PlantPoints == {<<>>, <<"h">>, <<"h", "x">>, <<"m">>}
PlantMounts ==
    {[point |-> p, fs |-> k[1], upperHidden |-> k[2], dev |-> k[3]] : p \in PlantPoints,
       k \in {<<"overlay", TRUE, "o1">>, <<"overlay", FALSE, "o2">>, <<"ext4", FALSE, "d">>, <<"ext4", FALSE, "v">>}}
Plantings ==
    /\ Pick("plant") /\ Resting
    /\ \E first \in {m \in PlantMounts : m.point = <<>>},
          rest \in UNION {[1 .. n -> PlantMounts] : n \in 0 .. 2}, d \in {<<"h">>, <<"h", "x">>} :
         in' = [mounts |-> <<first>> \o rest, dir |-> d, root |-> <<"m">>]

CopiedTrees ==
    /\ Pick("copy") /\ Resting
    /\ \E t \in [1 .. 3 -> [kind : {"file", "dir"}, ino : 1 .. 3]] :
         /\ \A i, j \in 1 .. 3 : i # j /\ t[i].ino = t[j].ino => t[i].kind = "file" /\ t[j].kind = "file"
         /\ in' = [i \in 1 .. 3 |-> [kind |-> t[i].kind, ino |-> t[i].ino,
                                     nlink |-> Cardinality({j \in 1 .. 3 : t[j].ino = t[i].ino})]]

Inputs == LogPaths \/ Desktops \/ Resets \/ Plantings \/ CopiedTrees

Next ==
    \/ Inputs
    \/ /\ area = "preflight" /\ PreflightNext
       /\ UNCHANGED <<area, in, fsVars, storeVars, stagingVars, identityVars, configVars, rehearseVars, logVars, homeVars, setupVars>>
    \/ /\ area = "files" /\ FsNext
       /\ UNCHANGED <<area, in, preflightVars, storeVars, stagingVars, identityVars, configVars, rehearseVars, logVars, homeVars, setupVars>>
    \/ /\ area = "store" /\ StoreNext
       /\ UNCHANGED <<area, in, preflightVars, fsVars, stagingVars, identityVars, configVars, rehearseVars, logVars, homeVars, setupVars>>
    \/ /\ area = "staging" /\ StagingNext
       /\ UNCHANGED <<area, in, preflightVars, fsVars, storeVars, identityVars, configVars, rehearseVars, logVars, homeVars, setupVars>>
    \/ /\ area = "identity" /\ IdentityNext
       /\ UNCHANGED <<area, in, preflightVars, fsVars, storeVars, stagingVars, configVars, rehearseVars, logVars, homeVars, setupVars>>
    \/ /\ area = "config" /\ ConfigNext
       /\ UNCHANGED <<area, in, preflightVars, fsVars, storeVars, stagingVars, identityVars, rehearseVars, logVars, homeVars, setupVars>>
    \/ /\ area = "rehearse" /\ RehearseNext
       /\ UNCHANGED <<area, in, preflightVars, fsVars, storeVars, stagingVars, identityVars, configVars, logVars, homeVars, setupVars>>
    \/ /\ area = "logs" /\ LogsNext
       /\ UNCHANGED <<area, in, preflightVars, fsVars, storeVars, stagingVars, identityVars, configVars, rehearseVars, homeVars, setupVars>>
    \/ /\ area = "home" /\ PersonaNext
       /\ UNCHANGED <<area, in, preflightVars, fsVars, storeVars, stagingVars, identityVars, configVars, rehearseVars, logVars, setupVars>>
    \/ /\ area = "setup" /\ SetupNext
       /\ UNCHANGED <<area, in, preflightVars, fsVars, storeVars, stagingVars, identityVars, configVars, rehearseVars, logVars, homeVars>>

allVars == <<area, in, preflightVars, fsVars, storeVars, stagingVars, identityVars, configVars, rehearseVars, logVars, homeVars, setupVars>>
Spec == Init /\ [][Next]_allVars

-----------------------------------------------------------------------------

(* The smaller parts answer as asked: a log is lost only for a reason that  *)
(* is told and stays on the volume, a fresh home is opaque unless a plain   *)
(* one was left, a masked name starts from nowhere and what is inherited    *)
(* unmasked is told, a canary is never planted where the decoy keeps it, a  *)
(* copied tree keeps its hard links, and reset-upper removes exactly what   *)
(* was confirmed (rotation, persona, plant.rs, dir_ops.rs,                  *)
(* discard_upper.rs).                                                       *)
SmallPartsSound ==
    /\ LogsTypeOK /\ LossExcused /\ PersonaTypeOK /\ FreshUnlessLeft
    /\ area = "log" => LogsInside(in)
    /\ area = "desktop" => MaskedNeverStarts(in) /\ InheritedTold(in)
    /\ area = "plant" => PlantedOffDecoy(in)
    /\ area = "copy" => LinksKept(in)
    /\ area = "reset" => ResetExactly(in)
=============================================================================
