-------------------------------- MODULE Kill --------------------------------
(***************************************************************************)
(* The kill of the hidden userspace (whole_root/kill.rs, cgroup.rs,        *)
(* proc.rs, shells.rs): one walk over the cgroup tree per emergency, while *)
(* the processes it kills fork and the service manager revives what dies   *)
(* for as long as no stop job is pending.                                  *)
(***************************************************************************)
EXTENDS Naturals, Sequences

CONSTANTS
    Cgroup, Sub,        \* the cgroups, by path, and per cgroup its children, sorted
    Slice,              \* the slices
    Machinery,          \* init.scope, and what is left to the shutdown
    Proc, Pid1,         \* processes
    Home, Ppid,         \* per process: its cgroup and its parent
    Sid, Pgid,          \* per process: its session and its group
    Shell,              \* the interactive shells
    Unborn,             \* those still to be forked
    Restarting,         \* services the service manager starts again
    Runner              \* those that can run the emergency

Root == <<>>
Elements(s) == {s[i] : i \in 1..Len(s)}
(* cgroup::contains: whether a cgroup is another, or holds it. *)
Contains(c, inner) == Len(c) <= Len(inner) /\ \A i \in 1..Len(c) : inner[i] = c[i]
Holders == [c \in Cgroup |-> {d \in Cgroup : Contains(d, c)}]
(* What every kill passes over: the machinery that only slices hold.  A unit's own
   (the bus of a user manager) goes with the unit. *)
PassedOver == {m \in Machinery : Holders[m] \ {m} \subseteq Slice}

(* The cgroups are a tree, a process is in a unit and not in a slice or in what
   holds another process, and it forks into its own; what runs the emergency is
   neither a shell nor started again when it dies. *)
ASSUME KillAssumption ==
    /\ Cgroup \subseteq Seq(STRING) \ {Root}
    /\ \A c \in Cgroup : \A n \in 1..Len(c) : SubSeq(c, 1, n) \in Cgroup
    /\ Sub \in [Cgroup \cup {Root} -> Seq(Cgroup)]
    /\ \A c \in Cgroup \cup {Root} :
          Elements(Sub[c]) = {d \in Cgroup : Len(d) = Len(c) + 1 /\ Contains(c, d)}
    /\ Slice \subseteq Cgroup /\ Machinery \subseteq Cgroup /\ Home \in [Proc -> Cgroup]
    /\ \A p, q \in Proc : Home[p] \notin Slice /\ (Contains(Home[p], Home[q]) => Home[p] = Home[q])
    /\ \A p \in Unborn : Ppid[p] \in Proc /\ Home[p] = Home[Ppid[p]]
    /\ Runner \subseteq Proc \ (Shell \cup Restarting \cup Unborn)
    /\ \A p \in (Shell \cup Restarting) \cap Proc : Holders[Home[p]] \cap PassedOver = {}

VARIABLES
    alive,      \* the processes there are
    job,        \* the shutdown PID 1 has in its queue
    atomic,     \* the kernel has cgroup.kill
    walk        \* per runner: the kill it is in

kills == <<alive, job, atomic, walk>>

(* A walk: the cgroups still to visit, those protected and the processes spared
   (both read once, at its start), the processes listed to be killed one by
   one, and the rounds left of the kill without cgroup.kill. *)
Todo == [dir : Cgroup, last : BOOLEAN]
Walks == [at : {"none", "visit", "done"}, todo : Seq(Todo), protected : SUBSET Cgroup,
          spare : SUBSET Proc, hits : SUBSET Proc, round : 0..3, dir : Cgroup \cup {Root}]
NoWalk == [at |-> "none", todo |-> <<>>, protected |-> {}, spare |-> {}, hits |-> {},
           round |-> 0, dir |-> Root]
KillTypeOK ==
    /\ alive \subseteq Proc /\ job \in {"none", "return", "reboot", "poweroff", "off"}
    /\ atomic \in BOOLEAN /\ walk \in [Runner -> Walks]

------------------------------------------------------------------------------
Entries(c) == [i \in 1..Len(Sub[c]) |-> [dir |-> Sub[c][i], last |-> FALSE]]
(* cgroup::procs: every process of a cgroup and of those below it. *)
Procs(c) == {p \in alive : Contains(c, Home[p])}
DirectProcs(c) == {p \in alive : Home[p] = c}

(* Invocation::current: the process with its ancestors, whatever shares its
   session or its group, and the groups its ancestors lead, a shell's not. *)
AncestryOf[p \in Proc] == {p} \cup (IF p = Pid1 THEN {} ELSE AncestryOf[Ppid[p]])
Ancestry == [p \in Proc |-> AncestryOf[p]]
InInvocation(r, p) ==
    \/ p \in Ancestry[r] \/ Sid[p] = Sid[r] \/ Pgid[p] = Pgid[r]
    \/ \E q \in Ancestry[r] \ {r, Pid1} : Pgid[q] = q /\ q \notin Shell /\ Pgid[p] = q

(* kill_all_interactive_shells: those of others, then the invocation's own. *)
KillShells(r) == alive' = alive \ (Shell \ {r, Pid1})

------------------------------------------------------------------------------
(* kill_userspace: who is spared and which cgroups they are in. *)
KillBegin(r) ==
    LET spare == {p \in alive : InInvocation(r, p)}
    IN  walk' = [walk EXCEPT ![r] =
                    [at |-> "visit", todo |-> Entries(Root), protected |-> {Home[p] : p \in spare},
                     spare |-> spare, hits |-> {}, round |-> 0, dir |-> Root]]

Free(w) == w.at = "visit" /\ w.hits = {} /\ w.round = 0
\* Mutant: a slice is passed over when the invocation is elsewhere.
VisitNoSlices(r) ==
    LET w == walk[r]
        e == Head(w.todo)
        held == e.dir \in UNION {Holders[m] : m \in w.protected}
    IN  /\ Free(w) /\ w.todo # <<>>
        /\ alive' = IF e.dir \in Machinery \cup Slice \/ held THEN alive ELSE alive \ Procs(e.dir)
        /\ walk' = [walk EXCEPT ![r].todo =
                       IF held /\ ~e.last THEN Entries(e.dir) \o Tail(@) ELSE Tail(@)]
        /\ UNCHANGED <<job, atomic>>
(* visit, one entry: the machinery is passed over, a slice and whatever holds
   the invocation is entered, everything else is killed as a whole.  Where a
   spared process is, the others are listed, last, and killed one by one. *)
Visit(r) ==
    LET w == walk[r]
        e == Head(w.todo)
        c == e.dir
        enter == (c \in Slice /\ c \notin w.protected)
                 \/ \E m \in w.protected : Contains(c, m)
        mine == IF c \in w.protected THEN <<[dir |-> c, last |-> TRUE]>> ELSE <<>>
        rest == [w EXCEPT !.todo = Tail(@)]
    IN  /\ Free(w) /\ w.todo # <<>>
        /\ \/ /\ e.last
              /\ walk' = [walk EXCEPT ![r] = [rest EXCEPT !.hits = DirectProcs(c) \ w.spare]]
              /\ UNCHANGED alive
           \/ /\ c \in Machinery /\ ~e.last
              /\ walk' = [walk EXCEPT ![r] = rest] /\ UNCHANGED alive
           \/ /\ c \notin Machinery /\ enter /\ ~e.last
              /\ walk' = [walk EXCEPT ![r] = [rest EXCEPT !.todo = Entries(c) \o mine \o @]]
              /\ UNCHANGED alive
           \/ /\ c \notin Machinery /\ ~enter /\ atomic
              /\ alive' = alive \ Procs(c)
              /\ walk' = [walk EXCEPT ![r] = rest]
           \/ /\ c \notin Machinery /\ ~enter /\ ~atomic
              /\ walk' = [walk EXCEPT ![r] = [rest EXCEPT !.round = 3, !.dir = c]]
              /\ UNCHANGED alive
        /\ UNCHANGED <<job, atomic>>
(* A process listed is opened and killed; one that is gone is passed over. *)
KillListed(r, p) ==
    /\ p \in walk[r].hits
    /\ alive' = alive \ {p}
    /\ walk' = [walk EXCEPT ![r].hits = @ \ {p}]
    /\ UNCHANGED <<job, atomic>>
(* Without cgroup.kill: three rounds of listing, fewer when none is left. *)
KillRound(r) ==
    LET w == walk[r]
        found == Procs(w.dir) \ w.spare
    IN  /\ w.round > 0 /\ w.hits = {}
        /\ walk' = [walk EXCEPT ![r].round = IF found = {} THEN 0 ELSE @ - 1, ![r].hits = found]
        /\ UNCHANGED <<alive, job, atomic>>
KillEnd(r) ==
    /\ Free(walk[r]) /\ walk[r].todo = <<>>
    /\ walk' = [walk EXCEPT ![r].at = "done"]
    /\ UNCHANGED <<alive, job, atomic>>
Killing(r) ==
    \/ Visit(r)
    \/ \E p \in Proc : KillListed(r, p)
    \/ KillRound(r) \/ KillEnd(r)

(* Meanwhile: a process forks; a service dies; PID 1 starts it again unless a
   shutdown is in its queue. *)
Fork(p) ==
    /\ p \in Unborn \ alive /\ Ppid[p] \in alive
    /\ alive' = alive \cup {p} /\ UNCHANGED <<job, atomic, walk>>
Crash(p) ==
    /\ p \in Restarting \cap alive
    /\ alive' = alive \ {p} /\ UNCHANGED <<job, atomic, walk>>
Revive(p) ==
    /\ p \in Restarting \ alive /\ job = "none"
    /\ alive' = alive \cup {p} /\ UNCHANGED <<job, atomic, walk>>
=============================================================================
