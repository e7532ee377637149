------------------------------ MODULE MCRunDir ------------------------------
(* Small instances of RunDir: four decoy mount trees, and the parts of /run   *)
(* that are treated differently, a few entries at a time.                     *)
EXTENDS RunDir

M(i, p, at, d, r, t) ==
    [id |-> i, parent |-> p, point |-> at, dev |-> d, root |-> r, fstype |-> t,
     deleted |-> FALSE, settable |-> TRUE, by |-> "decoy"]
Root == <<M(1, 0, <<>>, "d0", <<>>, "disk"), M(2, 1, <<"run">>, "tmp", <<>>, "tmpfs"),
          M(3, 1, <<"home">>, "d1", <<>>, "disk")>>
(* A bind of the home filesystem, and one of the root's below it. *)
Binds == Root \o <<M(4, 1, <<"srv">>, "d1", <<"s">>, "disk"), M(5, 3, <<"home", "x">>, "d0", <<"y">>, "disk")>>
(* A stack at the target whose lower mount is lost, above the root's own stack. *)
Stacked == <<M(1, 1, <<>>, "rootfs", <<>>, "ram"), M(6, 1, <<>>, "d0", <<>>, "disk"),
             M(2, 6, <<"run">>, "tmp", <<>>, "tmpfs"), M(4, 6, <<"home">>, "d2", <<>>, "disk"),
             M(7, 4, <<"home">>, "d1", <<>>, "disk")>>
(* Mounts that cannot come back, and what sits on them. *)
Losses == Root \o <<M(4, 1, <<"data">>, "d3", <<>>, "disk"), M(5, 4, <<"data", "x">>, "d1", <<"x">>, "disk"),
                    [M(6, 1, <<"opt">>, "d1", <<"o">>, "disk") EXCEPT !.settable = FALSE],
                    [M(7, 3, <<"home", "z">>, "d1", <<"z">>, "disk") EXCEPT !.deleted = TRUE]>>
MCTrees == {Root, Binds, Stacked, Losses}
LineOf(m, byId) == [id |-> IF byId THEN m.id ELSE 0, dev |-> m.dev, root |-> m.root,
                    target |-> m.point, of |-> m.id, by |-> "decoy"]
(* A line may be stale: the mount its id names now shows something else. *)
StaleLine(m) == [LineOf(m, TRUE) EXCEPT !.dev = "gone"]
Named(t) == {m \in Range(t) : m.dev \in {"d1", "d3"}}
LineSets(t) == {{LineOf(m, b) : m \in Named(t)} : b \in BOOLEAN} \cup {{StaleLine(m) : m \in Named(t)}}
Tables == UNION {{[mounts |-> t, utab |-> l] : l \in LineSets(t)} : t \in MCTrees}
Plain == {[mounts |-> Root, utab |-> {}]}
MCTargets == <<<<"home">>>>
HM(p, d) == [point |-> p, dev |-> d, root |-> <<>>, fstype |-> "disk"]
MCHidden == {HM(<<"media">>, "d9"), HM(<<"home">>, "d1"), HM(<<"mnt", "carried", "home">>, "d9")}

Dir == {<<"systemd">>, System, Control, Wants, Guards, <<"udev">>, Rules, RuntimeDir, FixupDir, Dropins,
        <<"systemd", "sessions">>, <<"user">>, <<"user", "1">>, Records, Append(Records, "d"),
        <<"NetworkManager">>, NetDir, <<"app">>, <<"app", "d">>}
Socket == {<<"app", "sock">>, <<"resolvconf", "sock">>}
File == {Mask, BootMask, Unit, Append(Wants, "unit"), Append(Wants, "boot"), Guard, Rule,
         Append(FixupDir, "control"), FixupUnit, Dropin, <<"systemd", "sessions", "s">>, <<"utmp">>,
         <<"user", "1", "f">>, <<"resolvconf", "d", "f">>, <<"NetworkManager", "devices", "f">>,
         <<"app", "d", "f">>, <<"pid">>}
MCEntry == Dir \cup Socket \cup File
W(S, n, T) == [entries |-> S, mounts |-> n, tables |-> T]
Runs ==
    {{<<"app">>, <<"app", "sock">>}, {<<"app">>, <<"app", "d">>, <<"app", "d", "f">>},
     {<<"pid">>}, {<<"utmp">>, <<"systemd", "sessions", "s">>}, {<<"user", "1">>, <<"user", "1", "f">>},
     {Records, Append(Records, "d"), <<"resolvconf", "d", "f">>}, {Records, <<"resolvconf", "sock">>},
     {<<"NetworkManager">>, NetDir, <<"NetworkManager", "devices", "f">>},
     {Guards, Dropins}}
MCWorlds == {W({}, 2, Tables)} \cup {W(S, 0, Plain) : S \in Runs}
=============================================================================
