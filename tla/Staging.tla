------------------------------ MODULE Staging ------------------------------
(***************************************************************************)
(* The mounts of an entry and their rollback (whole_root/nextroot.rs,      *)
(* carry.rs, session/entry.rs).  The decoy's mounts are shared with every  *)
(* namespace made before the entry, so a mount made on one of them, or     *)
(* taken off it, appears at and goes from its peers.  The entry binds      *)
(* decoy filesystems, makes each bind private, and mounts overlays; it may *)
(* fail or be killed between any two calls, and a rollback follows.        *)
(***************************************************************************)
EXTENDS MountInfo

CONSTANTS
    DetachRounds,   \* rounds of detach_tree
    MaxForeign      \* mounts others make meanwhile

ASSUME StagingAssumption == DetachRounds \in Nat \ {0} /\ MaxForeign \in Nat

VARIABLES
    mtab,       \* the mounts of every namespace
    call,       \* the next mount call of the entry
    mode,       \* build, failed, killed, armed, undo, undone
    undo,       \* how far a rollback is
    foreign,    \* mounts others made
    caught      \* history: those made on what a bind of the entry was still a peer of

stagingVars == <<mtab, call, mode, undo, foreign, caught>>

Runtime == <<"run", "nails">>
Volume == <<"mnt">>
Home == <<"home">>
Places == {<<"media">>, <<"run", "user">>}
Helper(i) == Runtime \o <<i>>

-----------------------------------------------------------------------------
(* The kernel: mounts of one namespace, peers, propagation. *)
Of(t, ns) == SelectSeq(t, LAMBDA m : m.ns = ns)
TopOf(t, ns, p) == Reached(Of(t, ns), p)
Parent(t, m) == CHOOSE q \in Range(t) : q.id = m.parent
Peers(t, m) == {q \in Range(t) : m.group # 0 /\ q.group = m.group /\ q.id # m.id}
NewGroup(t) == 1 + Max({m.group : m \in Range(t)})
(* A new mount sits on what a lookup of its place ends in; on a shared mount it
   is shared, and a copy appears on every peer. *)
PutOn(t, on, rel, what) ==
    Append(t, [what EXCEPT !.id = FreeId(t), !.parent = on.id, !.ns = on.ns, !.point = on.point \o rel])
Attach(t, p, what) ==
    LET on    == TopOf(t, "host", p)
        rel   == Strip(p, on.point)
        group == IF what.group = 0 /\ on.group # 0 THEN NewGroup(t) ELSE what.group
        new   == [what EXCEPT !.group = group]
    IN  FoldLeft(LAMBDA done, on2 : PutOn(done, on2, rel, new),
                 PutOn(t, on, rel, new), SetToSeq(Peers(t, on)))
Change(t, p, New(_)) ==
    LET top == TopOf(t, "host", p) IN [i \in DOMAIN t |-> IF t[i].id = top.id THEN New(t[i]) ELSE t[i]]
Private(m) == [m EXCEPT !.group = 0]
ReadOnly(m) == [m EXCEPT !.ro = TRUE]

(* A lazy unmount takes the mounts below along and, from a shared parent, the
   copies at its peers that hold nothing else. *)
WithChildren(t, held) ==
    LET ids == {m.id : m \in held} IN held \cup {c \in Range(t) : c.parent \in ids}
Under(t, m) ==
    LET deep == Max({Len(x.point) : x \in Range(t)}) + 1
    IN  FoldLeft(LAMBDA held, n : WithChildren(t, held), {m}, [n \in 1..deep |-> n])
Copies(t, m) ==
    {c \in Range(t) : \E q \in Peers(t, Parent(t, m)) :
        c.parent = q.id /\ Strip(c.point, q.point) = Strip(m.point, Parent(t, m).point)}
Lazily(t, m) ==
    LET tree   == Under(t, m)
        copies == UNION {Copies(t, x) : x \in tree}
        gone   == tree \cup {c \in copies : Under(t, c) \subseteq tree \cup copies}
    IN  SelectSeq(t, LAMBDA x : x \notin gone)
IsMountPoint(t, p) == TopOf(t, "host", p).point = p
Unmount(t, p) == IF IsMountPoint(t, p) THEN Lazily(t, TopOf(t, "host", p)) ELSE t

-----------------------------------------------------------------------------
(* The calls of an entry.  bind, bind_read_only, overlay_over, carry. *)
Call(op, from, at) == [op |-> op, from |-> from, at |-> at]
Bind(from, to) == <<Call("bind", from, to), Call("private", from, to)>>
BindReadOnly(from, to) == Bind(from, to) \o <<Call("ro", from, to)>>
OverlayOver(from, helper, to) ==
    BindReadOnly(from, helper) \o <<Call("overlay", helper, to), Call("detach", helper, helper)>>
InNext(p) == NextRoot \o p
\* Mutant: the hidden volume's bind is left to make_below_private.
ApplyMountsLate ==
    OverlayOver(Home, Helper("lower-0"), InNext(Home)) \o <<Call("make_private", Home, InNext(Home))>>
    \o <<Call("bind", Volume, InNext(Volume))>>
(* apply_mounts, parents first: a decoy filesystem under an overlay, the hidden
   volume itself. *)
ApplyMounts ==
    OverlayOver(Home, Helper("lower-0"), InNext(Home)) \o <<Call("make_private", Home, InNext(Home))>>
    \o Bind(Volume, InNext(Volume))
Build ==
    OverlayOver(<<>>, Helper("lower"), NextRoot) \o ApplyMounts
    \o BindReadOnly(Home, InNext(Volume \o <<"carried">>))
    \o Bind(<<"run">>, InNext(<<"run">>)) \o <<Call("below", NextRoot, NextRoot)>>

(* make_below_private: every mount below that its own path reaches. *)
MakeBelowPrivate(t, p) ==
    LET below == {m \in Range(Of(t, "host")) :
                    /\ m.point # p /\ StartsWith(m.point, p)
                    /\ TopOf(t, "host", m.point).id = m.id}
    IN  [i \in DOMAIN t |-> IF t[i] \in below THEN Private(t[i]) ELSE t[i]]

Overlay == [id |-> 0, parent |-> 0, ns |-> "host", point |-> <<>>, dev |-> "overlay", ro |-> FALSE,
            group |-> 0, by |-> "nails", sealed |-> TRUE]
Effect(t, c) ==
    CASE c.op = "bind"    -> Attach(t, c.at, [TopOf(t, "host", c.from) EXCEPT !.by = "nails"])
      [] c.op \in {"private", "make_private"} -> Change(t, c.at, Private)
      [] c.op = "ro"      -> Change(t, c.at, ReadOnly)
      [] c.op = "overlay" -> LET low == TopOf(t, "host", c.from)
                             IN  Attach(t, c.at, [Overlay EXCEPT !.sealed = low.ro /\ low.group = 0])
      [] c.op = "detach"  -> Unmount(t, c.at)
      [] c.op = "below"   -> MakeBelowPrivate(t, c.at)
(* A call that fails: a bind that cannot be made private or read-only is taken
   off again; an overlay that cannot be mounted still gives up its helper; the
   unmount of a helper may fail unnoticed. *)
FailedEffect(t, c) ==
    CASE c.op \in {"private", "ro"} -> Unmount(t, c.at)
      [] c.op = "overlay" -> Unmount(t, c.from)
      [] OTHER            -> t

-----------------------------------------------------------------------------
(* detach_under: deepest first. *)
Deepest(points) == SortSeq(points, LAMBDA p, q : Len(p) > Len(q))
MountPoints(t, p) ==
    LET all == [i \in DOMAIN Of(t, "host") |-> Of(t, "host")[i].point]
    IN  SelectSeq(all, LAMBDA q : StartsWith(q, p))

-----------------------------------------------------------------------------
Decoy(id, parent, ns, point, group) ==
    [id |-> id, parent |-> parent, ns |-> ns, point |-> point, dev |-> point, ro |-> FALSE,
     group |-> group, by |-> "decoy", sealed |-> FALSE]
(* The decoy, and a service's namespace made before the entry: /, /run, the
   hidden volume and a separate home, each shared between the two. *)
NoUndo == [at |-> <<>>, round |-> 0, todo |-> <<>>, off |-> FALSE]
StagingInit ==
    /\ mtab = <<Decoy(1, 0, "host", <<>>, 1), Decoy(2, 1, "host", <<"run">>, 2),
                Decoy(3, 1, "host", Volume, 3), Decoy(4, 1, "host", Home, 4),
                Decoy(5, 0, "service", <<>>, 1), Decoy(6, 5, "service", <<"run">>, 2),
                Decoy(7, 5, "service", Volume, 3), Decoy(8, 5, "service", Home, 4)>>
    /\ call = 1 /\ mode = "build" /\ undo = NoUndo /\ foreign = {} /\ caught = {}

(* build: refused where the next root is a mount point already. *)
MountCall ==
    /\ mode = "build" /\ call \in DOMAIN Build
    /\ call = 1 => ~IsMountPoint(mtab, NextRoot)
    /\ mtab' = Effect(mtab, Build[call]) /\ call' = call + 1
    /\ UNCHANGED <<mode, undo, foreign, caught>>
CallFails ==
    /\ mode = "build" /\ call \in DOMAIN Build /\ Build[call].op # "detach"
    /\ mtab' = FailedEffect(mtab, Build[call]) /\ mode' = "failed" /\ UNCHANGED <<call, undo, foreign, caught>>
(* overlay_over ignores a helper it cannot unmount. *)
HelperStays ==
    /\ mode = "build" /\ call \in DOMAIN Build /\ Build[call].op = "detach"
    /\ call' = call + 1 /\ UNCHANGED <<mtab, mode, undo, foreign, caught>>
ArmStaged ==
    /\ mode = "build" /\ call = Len(Build) + 1
    /\ mode' = "armed" /\ UNCHANGED <<mtab, call, undo, foreign, caught>>
DieStaging ==
    /\ mode \in {"build", "undo"} /\ mode' = "killed"
    /\ undo' = NoUndo /\ UNCHANGED <<mtab, call, foreign, caught>>

(* rollback, by the entry itself or by a recover: detach_tree on the next root,
   in rounds while something comes off, then remove_runtime_dir. *)
Rollback ==
    /\ mode \in {"failed", "killed", "armed"}
    /\ mode' = "undo" /\ undo' = [NoUndo EXCEPT !.at = NextRoot]
    /\ UNCHANGED <<mtab, call, foreign, caught>>
DetachEnds(u) ==
    /\ u.todo = <<>>
    /\ \/ MountPoints(mtab, u.at) = <<>> \/ u.round = DetachRounds
       \/ u.round > 0 /\ ~u.off
DetachRound ==
    /\ mode = "undo" /\ undo.todo = <<>> /\ ~DetachEnds(undo)
    /\ undo' = [undo EXCEPT !.round = @ + 1, !.off = FALSE, !.todo = Deepest(MountPoints(mtab, undo.at))]
    /\ UNCHANGED <<mtab, call, mode, foreign, caught>>
DetachOne ==
    /\ mode = "undo" /\ undo.todo # <<>>
    /\ mtab' = Unmount(mtab, Head(undo.todo))
    /\ undo' = [undo EXCEPT !.todo = Tail(@), !.off = @ \/ mtab' # mtab]
    /\ UNCHANGED <<call, mode, foreign, caught>>
ThenRuntime ==
    /\ mode = "undo" /\ undo.at # Runtime /\ DetachEnds(undo)
    /\ undo' = [NoUndo EXCEPT !.at = Runtime] /\ UNCHANGED <<mtab, call, mode, foreign, caught>>
RemoveRuntimeDir ==
    /\ mode = "undo" /\ undo.at = Runtime /\ DetachEnds(undo)
    /\ mode' = "undone" /\ undo' = NoUndo /\ UNCHANGED <<mtab, call, foreign, caught>>

(* The decoy goes on: a disk is plugged in, a user logs in. *)
Foreign(p) ==
    /\ Cardinality(foreign) < MaxForeign /\ p \notin foreign /\ mode # "undone"
    /\ mtab' = Attach(mtab, p, Decoy(0, 0, "host", p, 0))
    /\ foreign' = foreign \cup {p}
    /\ caught' = IF \E m \in Peers(mtab, TopOf(mtab, "host", p)) : m.by = "nails" /\ m.ns = "host"
                 THEN caught \cup {p} ELSE caught
    /\ UNCHANGED <<call, mode, undo>>

StagingNext ==
    \/ MountCall \/ CallFails \/ HelperStays \/ ArmStaged \/ DieStaging
    \/ Rollback \/ DetachRound \/ DetachOne \/ ThenRuntime \/ RemoveRuntimeDir
    \/ \E p \in Places : Foreign(p)
StagingSpec == StagingInit /\ [][StagingNext]_stagingVars

-----------------------------------------------------------------------------
StagingTypeOK ==
    /\ mode \in {"build", "failed", "undo", "killed", "armed", "undone"}
    /\ undo.round \in 0..DetachRounds /\ (mode = "undo" <=> undo.at # <<>>)
    /\ call \in 1..Len(Build) + 1 /\ foreign \subseteq Places
    /\ \A i, j \in DOMAIN mtab : mtab[i].id = mtab[j].id => i = j

(* In the decoy's own namespace no mount of the entry appears outside the next
   root and the runtime directory, whatever is shared (nextroot::bind). *)
OnlyBelow ==
    \A m \in Range(mtab) : m.by = "nails" /\ m.ns = "host" =>
        StartsWith(m.point, NextRoot) \/ StartsWith(m.point, Runtime)

(* Every overlay has a private, read-only lower, also when a helper of an earlier
   one stayed mounted (nextroot::overlay_over). *)
LowerSealed == \A m \in Range(mtab) : m.dev = "overlay" => m.sealed

(* A rollback leaves nothing mounted below its directories, so that removing the
   runtime directory walks into no filesystem (remove_runtime_dir), and takes the
   copies of its mounts out of every namespace, wherever the entry failed or was
   killed (detach_tree, through a next root that stays shared).  A copy stays only
   where the decoy mounted something meanwhile: the copy of a bind, unlike the
   bind, is never made private, so what the decoy mounts reaches it and holds it. *)
CopiesGone ==
    mode = "undone" => \A m \in Range(mtab) :
        /\ m.ns = "host" => ~StartsWith(m.point, NextRoot) /\ ~StartsWith(m.point, Runtime)
        /\ m.by = "nails" => \E c \in Under(mtab, m) : c.by = "decoy"

(* The rollback leaves every mount the decoy had or made meanwhile, in every
   namespace, but for one made in the instant between a bind and its becoming
   private: its copy below the bind is a peer's, and detaching that takes the
   decoy's own mount along (nextroot::bind, private_or_detach, detach_under). *)
DecoyMountsKept ==
    LET at(ns) == {m.point : m \in {x \in Range(mtab) : x.by = "decoy" /\ x.ns = ns}}
        had    == {<<>>, <<"run">>, Volume, Home} \cup (foreign \ caught)
    IN  mode = "undone" => \A ns \in {"host", "service"} : had \subseteq at(ns)

(* The next root is built and taken down beside the decoy: mounts of nails  *)
(* only below its own directories, no lower left writable, no copy behind   *)
(* after an undone entry, and nothing of the decoy's detached but what was  *)
(* mounted while a bind was a peer (nextroot.rs).                           *)
RootSealed == StagingTypeOK /\ OnlyBelow /\ LowerSealed /\ CopiesGone /\ DecoyMountsKept
=============================================================================
