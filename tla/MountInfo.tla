----------------------------- MODULE MountInfo -----------------------------
(***************************************************************************)
(* The mount table as /proc/self/mountinfo gives it (mountinfo.rs): a      *)
(* sequence of mounts, each with its id, the id of the mount it sits on,   *)
(* its mount point, and the device and the directory in it that it shows.  *)
(* A path is the sequence of its names.                                    *)
(***************************************************************************)
EXTENDS Naturals, Sequences, SequencesExt, FiniteSets, FiniteSetsExt

NextRoot == <<"run", "nextroot">>
StartsWith(p, prefix) == IsPrefix(prefix, p)
Strip(p, prefix) == SubSeq(p, Len(prefix) + 1, Len(p))
Newest(t, Test(_)) ==
    LET found == {i \in DOMAIN t : Test(t[i])}
    IN  IF found = {} THEN {} ELSE {t[Max(found)]}

(* top_mount_at: the mount a lookup of the path ends in, if the path is a mount
   point.  From the bottom of the root's stack, at every prefix of the path, up
   the stack of what is mounted there on the mount the walk is in. *)
Above(t, m, point) ==
    {i \in DOMAIN t : t[i].point = point /\ t[i].parent = m.id /\ t[i].id # m.id}
OneUp(t, m, point) == IF Above(t, m, point) = {} THEN m ELSE t[Min(Above(t, m, point))]
ClimbAt(t, at, point) ==
    LET height == Cardinality({i \in DOMAIN t : t[i].point = point})
        f[n \in 0..height] == IF n = 0 THEN at ELSE OneUp(t, f[n-1], point)
    IN  f[height]
Bottom(t) ==
    {i \in DOMAIN t : /\ t[i].point = <<>>
                      /\ ~\E b \in Range(t) : b.id = t[i].parent /\ b.point = <<>>}
Reached(t, p) ==
    LET f[n \in 0..Len(p)] ==
          IF n = 0 THEN ClimbAt(t, t[Min(Bottom(t))], <<>>)
          ELSE ClimbAt(t, f[n-1], SubSeq(p, 1, n))
    IN  f[Len(p)]
TopMountAt(t, p) ==
    IF Bottom(t) = {} THEN {} ELSE {m \in {Reached(t, p)} : m.point = p}

------------------------------------------------------------------------------
(* The kernel: a new mount takes the lowest id that is free and sits on the
   mount a lookup of its place ends in. *)
FreeId(t) == Min({i \in 1..Len(t) + 1 : \A m \in Range(t) : m.id # i})
MountOn(t, p, what, who) ==
    Append(t, [id |-> FreeId(t), parent |-> Reached(t, p).id, point |-> p,
               dev |-> what.dev, root |-> what.root, fstype |-> what.fstype,
               deleted |-> FALSE, settable |-> TRUE, by |-> who])
(* A soft-reboot: what is at or below the next root stays, as the root. *)
Moved(t, next) ==
    LET stays == SelectSeq(t, LAMBDA m : StartsWith(m.point, next))
    IN  [i \in DOMAIN stays |-> [stays[i] EXCEPT !.point = Strip(@, next),
                                 !.parent = IF stays[i].point = next THEN 0 ELSE @]]
=============================================================================
