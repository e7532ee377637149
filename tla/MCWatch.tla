------------------------------ MODULE MCWatch ------------------------------
(* A small machine: a system disk with the hidden volume's partition, a second
   disk; the session's services and one login with a terminal. *)
EXTENDS Watch, TLC

MCDisk == "sda1" :> "sda" @@ "sdb1" :> "sdb"
MCSlaves == "dm0" :> {"sda1"}

MCUnits == [init |-> <<"init">>, system |-> <<"system">>, user |-> <<"user">>,
            app |-> <<"system", "app">>, power |-> <<"system", "power">>,
            udev |-> <<"system", "udev">>, watch |-> <<"system", "watch">>,
            login |-> <<"user", "login">>, manager |-> <<"user", "manager">>,
            apps |-> <<"user", "manager", "apps">>, bus |-> <<"user", "manager", "bus">>,
            term |-> <<"user", "manager", "apps", "term">>]
MCCgroup == {MCUnits[u] : u \in DOMAIN MCUnits}
MCSlice == {MCUnits[u] : u \in {"system", "user", "apps"}}
MCMachinery == {MCUnits[u] : u \in {"init", "udev", "bus"}}
MCSorted == <<MCUnits.init, MCUnits.system, MCUnits.app, MCUnits.power, MCUnits.udev, MCUnits.watch,
              MCUnits.user, MCUnits.login, MCUnits.manager, MCUnits.apps, MCUnits.term, MCUnits.bus>>
MCSub == LET below(c) == SelectSeq(MCSorted, LAMBDA d : Len(d) = Len(c) + 1 /\ Contains(c, d))
         IN  [c \in Cgroup \cup {Root} |-> below(c)]
MCHome == [p \in Proc |-> MCUnits[
    CASE p = "pid1" -> "init" [] p = "watcher" -> "watch" [] p = "guard" -> "power"
      [] p = "daemon" -> "app" [] p = "udevd" -> "udev" [] p = "userbus" -> "bus"
      [] p \in {"desktop", "child"} -> "login" [] OTHER -> "term"]]
MCPpid == "watcher" :> "pid1" @@ "guard" :> "pid1" @@ "daemon" :> "pid1" @@ "udevd" :> "pid1"
          @@ "terminal" :> "pid1" @@ "shell" :> "terminal" @@ "operator" :> "shell"
          @@ "tab" :> "terminal" @@ "desktop" :> "pid1" @@ "child" :> "desktop" @@ "userbus" :> "pid1"
          @@ "pid1" :> "pid1"
MCSid == [p \in Proc |-> IF p = "operator" THEN "shell" ELSE IF p = "child" THEN "desktop" ELSE p]
MCPgid == [p \in Proc |-> IF p = "child" THEN "desktop" ELSE p]

Off == [backend |-> FALSE, auto |-> FALSE, alert |-> FALSE, disks |-> FALSE,
        sleep |-> "warn", delay |-> 4, operator |-> FALSE, atomic |-> TRUE]
MCConfigs ==
    {[Off EXCEPT !.disks = TRUE], [Off EXCEPT !.alert = TRUE, !.backend = TRUE],
     [Off EXCEPT !.backend = TRUE, !.auto = TRUE],
     [Off EXCEPT !.sleep = "teardown", !.operator = TRUE],
     [Off EXCEPT !.sleep = "teardown", !.delay = 2],
     [Off EXCEPT !.operator = TRUE, !.atomic = FALSE], [Off EXCEPT !.sleep = "block"]}
=============================================================================
