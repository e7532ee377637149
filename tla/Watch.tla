-------------------------------- MODULE Watch --------------------------------
(***************************************************************************)
(* What runs beside the hidden session: the watcher (watcher/mod.rs,       *)
(* cover.rs, commands/watch.rs) with its sweep of the disks, the sleep     *)
(* guard (sleep_guard/mod.rs), and the emergency hot path each of them,    *)
(* and the operator, may start (whole_root/emergency.rs) - two of them at  *)
(* once included.                                                          *)
(***************************************************************************)
EXTENDS DiskGuard, Kill

CONSTANTS
    Configs,    \* the configurations looked at
    Faults,     \* of FaultNames
    Id,         \* mount ids
    Debounce,   \* the failure an automatic emergency waits for, in poll intervals
    MaxStep     \* how long a round may take, in poll intervals

\* "prepare" the way back cannot be mounted or armed
\* "enqueue" PID 1 takes no job
\* "reuse"   a mount gets the id of one unmounted since the last round
\* "hides"   a mount on a parent has no directory where the hidden root is
FaultNames == {"prepare", "enqueue", "reuse", "hides"}
ASSUME WatchAssumption ==
    /\ Configs \subseteq [backend : BOOLEAN, auto : BOOLEAN, alert : BOOLEAN, disks : BOOLEAN,
                       sleep : {"warn", "block", "teardown"}, delay : Nat, operator : BOOLEAN,
                       atomic : BOOLEAN]
    /\ Faults \subseteq FaultNames /\ Debounce \in Nat /\ MaxStep \in Nat \ {0}
    /\ {"watcher", "guard", "operator"} = Runner /\ "sweep" \in Actor

VARIABLES
    cfg,        \* what the configuration turns on, and whether there is cgroup.kill
    volume,     \* the hidden volume
    mounts,     \* per id: what is mounted under it
    watch,      \* the watcher: where it is, BackendWatch, the disks left to sweep
    table,      \* the mount table it read at the start of the round
    seen,       \* MountWatch's and CoverWatch's ids
    told,       \* per id: how often the mount now under it was reported
    down,       \* whether and for how long every probe has failed
    sleep,      \* logind
    spent,      \* how much of its delay has passed since it announced a sleep
    power,      \* the sleep guard
    hot         \* per runner: the hot path

session == <<cfg, volume, mounts, watch, table, seen, told, down>>
sleeping == <<sleep, spent, power>>
vars == <<disks, kills, session, sleeping, hot>>

Kinds == {"none", "rw", "ro", "inside", "over", "above", "hides"}
NoMounts == [i \in Id |-> "none"]
TypeOK ==
    /\ DiskTypeOK /\ KillTypeOK /\ cfg \in Configs
    /\ volume \in {"fine", "dead", "readonly", "gone", "torn"}
    /\ mounts \in [Id -> Kinds]
    /\ watch.at \in {"tick", "sweep", "alerts", "sleep", "probe", "emergency", "end"}
    /\ watch.first \in BOOLEAN /\ watch.waited \in 0..Debounce /\ watch.alerted \in BOOLEAN
    /\ watch.left \subseteq Dev
    /\ table.mounts \in [Id -> Kinds] /\ table.volume \in BOOLEAN
    /\ seen.mounts \subseteq Id /\ seen.covers \subseteq Id
    /\ told \in [Id -> 0..3]
    /\ down.failing \in BOOLEAN /\ down.since \in 0..Debounce
    /\ sleep \in {"awake", "preparing", "asleep"} /\ spent \in 0..cfg.delay
    /\ power.at \in {"off", "start", "subscribed", "holding", "hot", "end"}
    /\ power.inhibit \in {"none", "block", "delay"}
    /\ power.heard \in BOOLEAN /\ power.signal \in BOOLEAN
    /\ \A r \in Runner : /\ hot[r].at \in {"idle", "prepare", "shells", "enqueue", "kill", "done"}
                         /\ hot[r].finish \in {"return", "reboot", "poweroff"}

Init ==
    /\ cfg \in Configs
    /\ IF cfg.disks THEN DiskInit
       ELSE /\ present = Protected /\ own = {} /\ ro = {} /\ recorded = {}
            /\ guard = [a \in Actor |-> NoGuard] /\ failed = FALSE /\ home = FALSE
    /\ alive = Proc \ Unborn /\ job = "none"
    /\ atomic = cfg.atomic
    /\ walk = [r \in Runner |-> NoWalk]
    /\ volume = "fine" /\ mounts = NoMounts
    /\ watch = [at |-> IF cfg.backend \/ cfg.alert \/ cfg.disks THEN "tick" ELSE "end",
                first |-> FALSE, waited |-> 0, alerted |-> FALSE, left |-> {}]
    /\ table = [mounts |-> NoMounts, volume |-> TRUE]
    /\ seen = [mounts |-> {}, covers |-> {}] /\ told = [i \in Id |-> 0]
    /\ down = [failing |-> FALSE, since |-> 0]
    /\ sleep = "awake" /\ spent = 0
    /\ power = [at |-> IF cfg.sleep = "warn" THEN "off" ELSE "start",
                heard |-> FALSE, inhibit |-> "none", signal |-> FALSE]
    /\ hot = [r \in Runner |-> [at |-> "idle", finish |-> "return"]]

On == job # "off" /\ sleep # "asleep"
Cap(n) == IF n > Debounce THEN Debounce ELSE n

------------------------------------------------------------------------------
(* The hot path in the hidden session, for whoever runs it. *)
HotBegin(r, finish) == hot' = [hot EXCEPT ![r] = [at |-> "prepare", finish |-> finish]]
HotStep(r, from) == On /\ r \in alive /\ hot[r].at = from
\* Mutant: an emergency whose way back cannot be prepared gives up.
HotPrepareStrict(r) ==
    /\ HotStep(r, "prepare")
    /\ hot' = [hot EXCEPT ![r].at = IF "prepare" \in Faults /\ hot[r].finish = "return"
                                   THEN "idle" ELSE "shells"]
    /\ UNCHANGED <<disks, kills, session, sleeping>>
(* Power-off needs no way back; a return whose way back cannot be prepared
   becomes one. *)
HotPrepare(r) ==
    /\ HotStep(r, "prepare")
    /\ \/ hot' = [hot EXCEPT ![r].at = "shells"]
       \/ /\ "prepare" \in Faults /\ hot[r].finish = "return"
          /\ hot' = [hot EXCEPT ![r] = [at |-> "shells", finish |-> "poweroff"]]
    /\ UNCHANGED <<disks, kills, session, sleeping>>
HotShells(r) ==
    /\ HotStep(r, "shells")
    /\ KillShells(r)
    /\ hot' = [hot EXCEPT ![r].at = "enqueue"]
    /\ UNCHANGED <<disks, job, atomic, walk, session, sleeping>>
(* enqueue, irreversibly: the target, else a power-off, else the kernel.  PID 1
   may refuse a second irreversible job.  The kill follows. *)
HotEnqueue(r) ==
    LET refused == "enqueue" \in Faults \/ job # "none"
    IN  /\ HotStep(r, "enqueue")
        /\ \/ job' = hot[r].finish
           \/ refused /\ job' \in {"poweroff", "off"}
        /\ hot' = [hot EXCEPT ![r].at = "kill"]
        /\ KillBegin(r)
        /\ UNCHANGED <<disks, alive, atomic, session, sleeping>>
HotKill(r) ==
    /\ HotStep(r, "kill")
    /\ Killing(r)
    /\ hot' = [hot EXCEPT ![r].at = IF walk'[r].at = "done" THEN "done" ELSE @]
    /\ UNCHANGED <<disks, session, sleeping>>
Hot(r) == HotPrepare(r) \/ HotShells(r) \/ HotEnqueue(r) \/ HotKill(r)
(* The operator's own `nails emergency`. *)
Operator ==
    /\ cfg.operator /\ HotStep("operator", "idle")
    /\ \E f \in {"return", "reboot", "poweroff"} : HotBegin("operator", f)
    /\ UNCHANGED <<disks, kills, session, sleeping>>

------------------------------------------------------------------------------
(* The watcher's round: the mount table, the sweep, the alerts, the sleep, the
   probe. *)
WatchStep(from) == On /\ "watcher" \in alive /\ watch.at = from
WatchTick ==
    /\ WatchStep("tick")
    /\ table' = [mounts |-> mounts, volume |-> volume # "gone"]
    /\ watch' = [watch EXCEPT !.at = IF cfg.disks THEN "sweep" ELSE "alerts", !.left = present]
    /\ UNCHANGED <<disks, kills, cfg, volume, mounts, seen, told, down, sleeping, hot>>
Sweep(d) ==
    /\ WatchStep("sweep") /\ d \in watch.left /\ guard["sweep"].at = "idle"
    /\ watch' = [watch EXCEPT !.left = @ \ {d}]
    /\ IF ToGuard(d) THEN GuardLook("sweep", d) ELSE UNCHANGED disks
    /\ UNCHANGED <<kills, cfg, volume, mounts, table, seen, told, down, sleeping, hot>>
SweepEnd ==
    /\ WatchStep("sweep") /\ watch.left = {} /\ guard["sweep"].at = "idle"
    /\ watch' = [watch EXCEPT !.at = "alerts"]
    /\ UNCHANGED <<disks, kills, cfg, volume, mounts, table, seen, told, down, sleeping, hot>>

(* shadowing_mount: the mount over the hidden root, or on a parent of it. *)
Covers(t) == {i \in Id : t.mounts[i] = "over" \/ (t.mounts[i] \in {"above", "hides"} /\ t.volume)}
(* is_unguarded_mount: a disk, read-write, outside the hidden volume. *)
Unguarded(t) == {i \in Id : t.mounts[i] \in {"rw", "above", "hides"}}
Mounted(t) == {i \in Id : t.mounts[i] # "none"}
(* tick_alerts: what the two watches have seen, and what each reports.  An id
   that is gone is forgotten; the cover is reported as a cover alone. *)
TickAlerts(t, s) ==
    LET covers == s.covers \cap Mounted(t)
        plain  == s.mounts \cap Mounted(t)
    IN  [covers |-> covers \cup Covers(t),
         mounts |-> IF cfg.alert THEN plain \cup Unguarded(t) ELSE s.mounts,
         cover |-> Covers(t) \ covers,
         disk  |-> IF cfg.alert THEN (Unguarded(t) \ plain) \ Covers(t) ELSE {}]
WatchAlerts ==
    /\ WatchStep("alerts")
    /\ LET t == TickAlerts(table, seen)
           reports(i) == (IF i \in t.cover THEN 1 ELSE 0) + (IF i \in t.disk THEN 1 ELSE 0)
       IN  /\ seen' = [mounts |-> t.mounts, covers |-> t.covers]
           /\ told' = [i \in Id |-> IF mounts[i] = table.mounts[i] /\ told[i] < 2
                                    THEN told[i] + reports(i) ELSE told[i]]
    /\ watch' = [watch EXCEPT !.at = "sleep"]
    /\ UNCHANGED <<disks, kills, cfg, volume, mounts, table, down, sleeping, hot>>
WatchSleep ==
    /\ WatchStep("sleep")
    /\ \E dt \in 1..MaxStep :
         /\ watch' = [watch EXCEPT !.at = "probe", !.waited = IF watch.first THEN Cap(@ + dt) ELSE 0]
         /\ down' = [down EXCEPT !.since = IF down.failing THEN Cap(@ + dt) ELSE 0]
    /\ UNCHANGED <<disks, kills, cfg, volume, mounts, table, seen, told, sleeping, hot>>

(* What probe_backend finds, and its verdict. *)
Look ==
    LET cover == Covers([mounts |-> mounts, volume |-> volume # "gone"])
        over  == \E i \in Id : mounts[i] = "over"
        top   == CASE over -> "foreign"
                   [] volume = "gone" \/ cover # {} -> "none"
                   [] OTHER -> "volume"
    IN  [exists   |-> ~\E i \in Id : mounts[i] = "hides",
         lists    |-> over \/ cover # {} \/ volume # "dead",
         top      |-> top,
         shadowed |-> cover # {},
         writable |-> volume # "readonly",
         targets  |-> volume # "torn"]
ProbeBackend(l) ==
    CASE ~l.exists \/ ~l.lists -> "failed"
      [] l.top = "none"    -> IF l.shadowed THEN "covered" ELSE "failed"
      [] l.top = "foreign" -> "covered"
      [] OTHER -> IF l.writable /\ l.targets THEN "healthy" ELSE "failed"

\* Mutant: a healthy probe allows a new alert but keeps the time of the first failure.
ObserveKeeps(w, healthy) ==
    IF healthy THEN [w EXCEPT !.at = "tick", !.alerted = FALSE]
    ELSE IF ~w.alerted THEN [w EXCEPT !.at = "tick", !.first = TRUE, !.alerted = TRUE]
    ELSE IF cfg.auto /\ w.waited >= Debounce THEN [w EXCEPT !.at = "emergency"]
    ELSE [w EXCEPT !.at = "tick"]
(* BackendWatch::observe: a first failure is reported, from a thread of its own,
   one that outlasts the debounce ends the session, a healthy probe resets it. *)
Observe(w, healthy) ==
    IF healthy THEN [w EXCEPT !.at = "tick", !.first = FALSE, !.waited = 0, !.alerted = FALSE]
    ELSE IF ~w.alerted THEN [w EXCEPT !.at = "tick", !.first = TRUE, !.alerted = TRUE]
    ELSE IF cfg.auto /\ w.waited >= Debounce THEN [w EXCEPT !.at = "emergency"]
    ELSE [w EXCEPT !.at = "tick"]
WatchProbe ==
    /\ WatchStep("probe")
    /\ LET healthy == ~cfg.backend \/ ProbeBackend(Look) # "failed"
       IN  /\ watch' = Observe(watch, healthy)
           /\ down' = [failing |-> ~healthy,
                       since |-> IF healthy THEN 0 ELSE down.since]
           /\ IF watch'.at = "emergency" THEN HotBegin("watcher", "return") ELSE UNCHANGED hot
    /\ UNCHANGED <<disks, kills, cfg, volume, mounts, table, seen, told, sleeping>>
Watcher == WatchTick \/ (\E d \in Dev : Sweep(d)) \/ SweepEnd \/ WatchAlerts \/ WatchSleep
           \/ WatchProbe

------------------------------------------------------------------------------
(* The sleep guard.  `block` holds an inhibitor for good; `teardown` subscribes,
   takes a delay inhibitor and powers off when the machine is about to sleep. *)
PowerStep(from) == On /\ "guard" \in alive /\ power.at = from
\* Mutant: the inhibitor first, the subscription afterwards.
SubscribeLate ==
    /\ PowerStep("start")
    /\ power' = IF power.inhibit = "none" THEN [power EXCEPT !.inhibit = "delay"]
                ELSE [power EXCEPT !.at = "holding", !.heard = TRUE]
    /\ UNCHANGED <<disks, kills, session, sleep, spent, hot>>
Subscribe ==
    /\ PowerStep("start")
    /\ power' = IF cfg.sleep = "block"
                THEN [power EXCEPT !.at = "holding", !.inhibit = "block"]
                ELSE [power EXCEPT !.at = "subscribed", !.heard = TRUE]
    /\ UNCHANGED <<disks, kills, session, sleep, spent, hot>>
(* logind grants no inhibitor for a sleep that is under way: the guard ends. *)
Hold ==
    /\ PowerStep("subscribed")
    /\ power' = IF sleep = "preparing"
                THEN [power EXCEPT !.at = "end", !.signal = FALSE]
                ELSE [power EXCEPT !.at = "holding", !.inhibit = "delay"]
    /\ UNCHANGED <<disks, kills, session, sleep, spent, hot>>
Prepared ==
    /\ PowerStep("holding") /\ power.signal
    /\ power' = [power EXCEPT !.at = "hot", !.signal = FALSE]
    /\ HotBegin("guard", "poweroff")
    /\ UNCHANGED <<disks, kills, session, sleep, spent>>
LetGo ==
    /\ PowerStep("hot") /\ hot["guard"].at = "done"
    /\ power' = [power EXCEPT !.at = "end", !.inhibit = "none"]
    /\ UNCHANGED <<disks, kills, session, sleep, spent, hot>>
Guard == Subscribe \/ Hold \/ Prepared \/ LetGo

(* logind: a sleep is asked for, announced, held back while a delay inhibitor is
   held and the delay (InhibitDelayMaxSec) lasts, and not begun with a shutdown
   in PID 1's queue.  The inhibitor of a process goes with it.  The delay is
   counted in steps of the guard from the announcement to its job: the unit of
   time is the longest of them. *)
Held(kind) == power.inhibit = kind /\ "guard" \in alive
GuardSteps == 4
GuardAt == IF power.at = "hot" THEN hot["guard"].at ELSE power.at
StepsDone == CASE GuardAt = "prepare" -> 1 [] GuardAt = "shells" -> 2 [] GuardAt = "enqueue" -> 3
               [] OTHER -> 0
GuardWorks == GuardAt \in {"prepare", "shells", "enqueue"} \/ (GuardAt = "holding" /\ power.signal)
SleepAsked ==
    /\ cfg.sleep # "warn" /\ job = "none" /\ sleep = "awake" /\ ~Held("block")
    /\ sleep' = "preparing" /\ spent' = 0
    /\ power' = [power EXCEPT !.signal = power.heard /\ power.at # "end"]
    /\ UNCHANGED <<disks, kills, session, hot>>
SleepWaits ==
    /\ sleep = "preparing" /\ job = "none" /\ Held("delay") /\ spent < cfg.delay
    /\ GuardWorks => spent < StepsDone
    /\ spent' = spent + 1 /\ UNCHANGED <<disks, kills, session, sleep, power, hot>>
SleepGoes ==
    /\ sleep = "preparing" /\ job = "none" /\ (~Held("delay") \/ spent = cfg.delay)
    /\ sleep' = "asleep" /\ spent' = 0 /\ UNCHANGED <<disks, kills, session, power, hot>>
SleepEnds ==
    /\ sleep = "asleep"
    /\ sleep' = "awake" /\ UNCHANGED <<disks, kills, session, spent, power, hot>>

------------------------------------------------------------------------------
(* The world around: the volume, the mounts, the disks, processes, PID 1. *)
Still == UNCHANGED <<disks, kills, cfg, watch, table, seen, down, sleeping, hot>>
NoParentMount == \A i \in Id : mounts[i] \notin {"above", "hides", "over"}
VolumeChanges(v) ==
    /\ On /\ cfg.backend /\ v # volume /\ (volume # "fine" => v = "fine" /\ NoParentMount)
    /\ volume' = v /\ Still /\ UNCHANGED <<mounts, told>>
Mount(i, k) ==
    /\ On /\ (cfg.alert \/ cfg.backend) /\ mounts[i] = "none"
    /\ IF k \in {"over", "above", "hides"} THEN NoParentMount ELSE cfg.alert
    /\ k = "hides" => "hides" \in Faults
    /\ "reuse" \notin Faults => i \notin seen.mounts \cup seen.covers /\ table.mounts[i] = "none"
    /\ mounts' = [mounts EXCEPT ![i] = k] /\ UNCHANGED <<volume, told>> /\ Still
Unmount(i) ==
    /\ On /\ mounts[i] # "none"
    /\ mounts' = [mounts EXCEPT ![i] = "none"] /\ told' = [told EXCEPT ![i] = 0]
    /\ UNCHANGED volume /\ Still
Disks ==
    /\ On /\ cfg.disks
    /\ \/ \E a \in Actor \ {"sweep"} : \E d \in Dev : GuardLook(a, d)
       \/ \E a \in Actor : GuardRecord(a) \/ GuardSet(a) \/ GuardStopped(a)
       \/ \E d \in Dev : Plug(d) \/ Unplug(d)
    /\ UNCHANGED <<kills, session, sleeping, hot>>
Processes ==
    /\ On /\ cfg.operator /\ \E p \in Proc : Fork(p) \/ Crash(p) \/ Revive(p)
    /\ UNCHANGED <<disks, session, sleeping, hot>>
(* The shutdown: everything is stopped; on the way home the disks are released. *)
Shutdown ==
    /\ On /\ job # "none" /\ job' = "off"
    /\ UNCHANGED <<disks, alive, atomic, walk, session, sleeping, hot>>
Return ==
    /\ On /\ cfg.disks /\ Release /\ job' = "off"
    /\ UNCHANGED <<alive, atomic, walk, session, sleeping, hot>>

Next ==
    \/ Watcher \/ Guard \/ Operator \/ \E r \in Runner : Hot(r)
    \/ SleepAsked \/ SleepWaits \/ SleepGoes \/ SleepEnds
    \/ \E v \in {"fine", "dead", "readonly", "gone", "torn"} : VolumeChanges(v)
    \/ \E i \in Id : Unmount(i) \/ \E k \in Kinds \ {"none"} : Mount(i, k)
    \/ Disks \/ Processes \/ Shutdown \/ Return

Spec == Init /\ [][Next]_vars
(* The loop, the guard and a hot path run on; a guard of a device ends. *)
FairSpec ==
    /\ Spec /\ WF_vars(Watcher) /\ WF_vars(Guard) /\ \A r \in Runner : WF_vars(Hot(r))
    /\ WF_vars(\E a \in Actor : (GuardRecord(a) \/ GuardSet(a)) /\ On /\ UNCHANGED <<kills, session, sleeping, hot>>)

------------------------------------------------------------------------------
(* The watcher ends the session only where it was asked to, and only after
   every probe over the whole debounce failed ("a transient I/O stall that
   recovers is reported but never allowed to kill a live session"). *)
EmergencyDebounced ==
    [][hot["watcher"].at = "idle" /\ hot'["watcher"].at # "idle"
       => cfg.auto /\ down.failing /\ down.since >= Debounce]_vars

(* It never ends a session whose volume is fine: a cover "raises no backend
   alert and never an emergency" (BackendProbe::is_failure). *)
NoFalseEmergency ==
    [][hot["watcher"].at = "idle" /\ hot'["watcher"].at # "idle" => volume # "fine"]_vars

(* A volume that stays lost is noticed: with auto_emergency the session ends,
   whether or not anybody answers the alert (in_background). *)
Lost == cfg.backend /\ cfg.auto /\ volume # "fine" /\ \A i \in Id : mounts[i] # "over"
LossNoticed == Lost /\ NoParentMount ~>
    \/ ~Lost \/ ~NoParentMount \/ hot["watcher"].at # "idle" \/ job # "none" \/ "watcher" \notin alive

(* Every mount a round found is reported once: the disk mounted read-write, and
   the one over the hidden root, as a cover and not also as a disk. *)
ReportedOnce ==
    watch.at = "sleep" => \A i \in Id :
        /\ told[i] <= 1
        /\ (mounts[i] = table.mounts[i] /\ i \in Covers(table) \cup (IF cfg.alert THEN Unguarded(table) ELSE {}))
           => told[i] = 1

(* With a delay that covers the guard's steps, the machine does not sleep while
   the guard holds its inhibitor, and the guard lets go only with a shutdown in
   PID 1's queue.  A shorter one ("confirm the logind delay window ... is long
   enough", sleep_policy.rs) may pass in the middle of the emergency. *)
AwakeWhileGuarded ==
    sleep = "asleep" /\ cfg.sleep = "teardown" =>
        /\ job = "none"
        /\ cfg.delay >= GuardSteps => power.at \in {"start", "subscribed", "end"}

(* A sleep that the guard holds back ends in a power-off, not in a machine that
   hangs until logind loses patience (subscribed before the inhibitor is taken). *)
SleepAnswered ==
    sleep = "preparing" /\ Held("delay") ~>
        job # "none" \/ (sleep = "asleep" /\ cfg.delay < GuardSteps)

(* After the kill nothing of the hidden userspace is left, however its processes
   fork and PID 1 revives: what lives is spared, belongs to the machinery, or
   shares a cgroup with the invocation (where the kill goes by a list). *)
NobodyLeft ==
    \A r \in Runner : hot[r].at = "done" /\ atomic /\ job # "none" =>
        \A p \in alive : \/ p \in walk[r].spare \/ Home[p] \in walk[r].protected
                         \/ Holders[Home[p]] \cap Machinery # {}

(* No emergency kills PID 1, the machinery the shutdown needs, or itself: one
   that dies half way was killed by another that had its job queued. *)
SparesItsOwn ==
    /\ \A p \in Proc \ Unborn : Holders[Home[p]] \cap PassedOver # {} => p \in alive
    /\ \A r \in Runner : hot[r].at \notin {"idle", "done"} /\ r \notin alive =>
           job # "none" /\ \E q \in Runner \ {r} : walk[q].at # "none"

(* An emergency that began ends the session, also when two of them meet and one
   kills the other, and when PID 1 takes neither job; unless the machine sleeps. *)
SessionEnds == \A r \in Runner : hot[r].at # "idle" ~> job # "none" \/ sleep = "asleep"

(* An emergency leaves nobody of the hidden userspace and spares PID 1,     *)
(* what the shutdown needs and itself, also when two meet (kill.rs).        *)
KillExact == TypeOK /\ NobodyLeft /\ SparesItsOwn

(* The watcher ends the session only for a volume that is lost and was so   *)
(* for as long as the debounce, and reports a mount once (observe).         *)
EmergencyJustified == []ReportedOnce /\ EmergencyDebounced /\ NoFalseEmergency

(* The sleep guard holds a sleep for as long as logind lets it, and answers *)
(* it with a power-off where the delay covers its steps (sleep_guard).      *)
SleepHeld == []AwakeWhileGuarded /\ SleepAnswered

(* A volume that stays lost is noticed and an emergency that began ends the *)
(* session, whatever fails on the way (watch.rs, emergency.rs).             *)
EmergencyComes == LossNoticed /\ SessionEnds
=============================================================================
