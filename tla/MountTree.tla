----------------------------- MODULE MountTree -----------------------------
(***************************************************************************)
(* The mounts across the two switches (whole_root/decoy_mounts.rs,         *)
(* carry.rs, utab.rs, session/way_back.rs).  A soft-reboot keeps what is   *)
(* mounted at or below the next root and drops the rest; the kernel gives  *)
(* the freed mount ids to the next mounts.  libmount's utab names mounts   *)
(* by id and is carried whole, so the transition rewrites it both ways.    *)
(***************************************************************************)
EXTENDS MountInfo

CONSTANTS
    Targets,        \* the policy's mount points, carried for the way back
    HiddenMounts,   \* what the hidden session may mount
    MaxHidden       \* how many mounts the hidden session makes

VARIABLES
    phase,      \* decoy, staged, entered, hidden, prepared, scrubbed, left, home
    mounts,     \* the mount table
    utab,       \* the lines of /run/mount/utab
    saved,      \* the copy of the lines, and of the mounts they named
    carried,    \* Plan.carried
    record,     \* Plan.decoy_mounts, in order
    tree,       \* the decoy's mount table when it was staged
    made        \* mounts the hidden session made

tables == <<mounts, utab, saved, carried, record, tree, made>>

Phases == {"decoy", "staged", "entered", "hidden", "prepared", "scrubbed", "left", "home"}
MountTypeOK ==
    /\ phase \in Phases
    /\ \A i \in DOMAIN mounts : mounts[i].id \in Nat \ {0}
    /\ \A i, j \in DOMAIN mounts : mounts[i].id = mounts[j].id => i = j
    /\ \A l \in utab : l.id \in Nat
    /\ \A i \in DOMAIN record : record[i].restored \in Nat
    /\ made \in 0..MaxHidden

------------------------------------------------------------------------------
(* utab.rs *)
Fits(l, m) == l.dev = m.dev /\ l.root = m.root
(* Line::carried: the mount below the next root that a line names. *)
Carried(l, t, next) ==
    IF l.id > 0
    THEN {m \in Range(t) : m.id = l.id /\ StartsWith(m.point, next) /\ Fits(l, m)}
    ELSE Newest(t, LAMBDA m : m.point = next \o l.target /\ Fits(l, m))
SurvivingLines(lines, t, next) == {l \in lines : Carried(l, t, next) # {}}
NamedMounts(lines, t) == {m \in Range(t) : \E l \in lines : l.id > 0 /\ l.id = m.id}
(* restored_lines: a line takes the id of the mount made in place of the one it
   named when the copy was taken. *)
RestoredIds(l, named, rec, t, next) ==
    {m \in Range(t) : \E then \in named :
        /\ then.id = l.id /\ Fits(l, then)
        /\ m.point = next \o then.point /\ m.dev = then.dev /\ m.root = then.root
        /\ \E i \in DOMAIN rec : rec[i].id = l.id /\ rec[i].restored = m.id}
\* Mutant: the lines come back with the ids they had.
RestoredAsSaved(lines, named, rec, t, next) ==
    {l \in lines : l.id = 0 => Carried(l, t, next) # {}}
RestoredLines(lines, named, rec, t, next) ==
    {l \in lines : l.id = 0 /\ Carried(l, t, next) # {}}
    \cup UNION {{[l EXCEPT !.id = m.id] : m \in RestoredIds(l, named, rec, t, next)} :
                l \in {k \in lines : k.id > 0}}

(* libmount: the mount a line's options go to. *)
Joined(l, t) ==
    IF l.id > 0 THEN {m \in Range(t) : m.id = l.id}
    ELSE Newest(t, LAMBDA m : m.point = l.target /\ Fits(l, m))

------------------------------------------------------------------------------
(* decoy_mounts.rs *)
HiddenRoot == <<"mnt">>
Api == {<<"proc">>, <<"sys">>, <<"dev">>, <<"run">>}
InTree(p) == ~StartsWith(p, HiddenRoot) /\ \A a \in Api : ~StartsWith(p, a)

(* source_of: where the way back finds what a mount shows: in the decoy's root
   filesystem, else in the first carried mount that reaches it. *)
Within(m, dev, shown) == m.dev = dev /\ StartsWith(m.root, shown)
SourcesOf(m, root, held) ==
    IF Within(m, root.dev, root.root) THEN {0}
    ELSE LET found == {i \in DOMAIN held : Within(m, held[i].dev, held[i].root)}
         IN  IF found = {} THEN {} ELSE {Min(found)}
SourceRoot(s, root, held) == IF s = 0 THEN root.root ELSE held[s].root
SourceDev(s, root, held) == IF s = 0 THEN root.dev ELSE held[s].dev

(* stack_base: the mount below a stack at one mount point. *)
Sits(m, t) == {p \in Range(t) : p.id = m.parent}
OneDown(at, m, t) == UNION {IF p.point = m.point THEN Sits(p, t) ELSE {p} : p \in at}
StackBase(m, t) ==
    LET height == Cardinality({i \in DOMAIN t : t[i].point = m.point})
        f[n \in 0..height] == IF n = 0 THEN Sits(m, t) ELSE OneDown(f[n-1], m, t)
    IN  {p \in f[height] : p.point # m.point}
Lost(m, t, kept, tops) ==
    LET parent == {p \in Range(t) : p.id = m.parent}
        onKept == m.id \in tops /\ \E b \in StackBase(m, t) : b.id \in kept
    IN  \/ m.deleted
        \/ \E p \in parent : p.fstype = "autofs"
        \/ m.parent \notin kept /\ ~onKept
        \/ ~m.settable

(* below: every mount, each after the one it sits on. *)
Unplaced(done, t) ==
    {i \in DOMAIN t : t[i] \notin Range(done) /\ Sits(t[i], t) \cap Range(done) # {}}
PlaceOne(done, t) ==
    IF Unplaced(done, t) = {} THEN done ELSE Append(done, t[Min(Unplaced(done, t))])
Below(t, root) ==
    LET f[n \in 0..Len(t)] == IF n = 0 THEN <<root>> ELSE PlaceOne(f[n-1], t)
    IN  Tail(f[Len(t)])
(* record: the decoy's mounts the way back makes again, the root first. *)
DecoyMount(m, s, root, held) ==
    [id |-> m.id, target |-> m.point, source |-> s,
     path |-> Strip(m.root, SourceRoot(s, root, held)), restored |-> 0]
RecordOne(done, m, t, root, held, tops) ==
    IF /\ InTree(m.point) /\ SourcesOf(m, root, held) # {}
       /\ ~Lost(m, t, {r.id : r \in Range(done)}, tops)
    THEN Append(done, DecoyMount(m, CHOOSE s \in SourcesOf(m, root, held) : TRUE, root, held))
    ELSE done
Record(t, held) ==
    LET root == CHOOSE m \in TopMountAt(t, <<>>) : TRUE
        tops == UNION {{m.id : m \in TopMountAt(t, held[i].target)} : i \in DOMAIN held}
        all == Below(t, root)
        f[n \in 0..Len(all)] ==
          IF n = 0 THEN <<DecoyMount(root, 0, root, held)>>
          ELSE RecordOne(f[n-1], all[n], t, root, held, tops)
    IN  f[Len(all)]

------------------------------------------------------------------------------
MountInit(d) ==
    /\ phase = "decoy"
    /\ mounts = d.mounts /\ utab = d.utab
    /\ saved = [lines |-> {}, named |-> {}] /\ carried = <<>> /\ record = <<>>
    /\ tree = <<>> /\ made = 0

Held(p) == HiddenRoot \o <<"carried">> \o p
(* The mounts staging adds: the overlay, the hidden volume in it, and each
   policy target bound below the hidden volume. *)
StagedTree(t) ==
    LET root == [dev |-> "overlay", root |-> <<>>, fstype |-> "overlay"]
        vol  == [dev |-> "hid", root |-> <<>>, fstype |-> "disk"]
        f[n \in 0..Len(Targets)] ==
          IF n = 0
          THEN MountOn(MountOn(t, NextRoot, root, "nails"), NextRoot \o HiddenRoot, vol, "nails")
          ELSE MountOn(f[n-1], NextRoot \o Held(Targets[n]),
                       CHOOSE m \in TopMountAt(t, Targets[n]) : TRUE, "nails")
    IN  f[Len(Targets)]
(* write_runtime and way_back::keep: the lines, the mounts they name, the
   carried mounts, and what the way back makes again. *)
StageMounts ==
    LET all == StagedTree(mounts)
        held == [i \in DOMAIN Targets |->
                   LET m == CHOOSE m \in TopMountAt(all, NextRoot \o Held(Targets[i])) : TRUE
                   IN  [target |-> Targets[i], at |-> Held(Targets[i]), dev |-> m.dev, root |-> m.root]]
    IN  /\ \A i \in DOMAIN Targets : TopMountAt(mounts, Targets[i]) # {}
        /\ saved' = [lines |-> utab, named |-> NamedMounts(utab, mounts)]
        /\ carried' = held /\ record' = Record(mounts, held)
        /\ tree' = mounts /\ mounts' = all
        /\ UNCHANGED <<utab, made>>
EnterMounts ==
    /\ utab' = SurvivingLines(utab, mounts, NextRoot)
    /\ UNCHANGED <<mounts, saved, carried, record, tree, made>>
(* systemd: the next root becomes the root, everything outside it is detached. *)
SwitchMounts ==
    /\ mounts' = Moved(mounts, NextRoot)
    /\ UNCHANGED <<utab, saved, carried, record, tree, made>>

(* The hidden session mounts, with or without a line of its own, and unmounts. *)
HiddenMount ==
    /\ made < MaxHidden
    /\ \E h \in HiddenMounts : \E line \in BOOLEAN :
         LET t == MountOn(mounts, h.point, h, "hidden")
             new == [id |-> t[Len(t)].id, dev |-> h.dev, root |-> h.root, target |-> h.point,
                     of |-> 0, by |-> "hidden"]
         IN  mounts' = t /\ utab' = utab \cup (IF line THEN {new} ELSE {})
    /\ made' = made + 1 /\ UNCHANGED <<saved, carried, record, tree>>
HiddenUnmount ==
    /\ \E m \in Range(mounts) :
         /\ m.point # <<>> /\ \A c \in Range(mounts) : c.parent # m.id
         /\ mounts' = SelectSeq(mounts, LAMBDA x : x.id # m.id)
         /\ utab' = {l \in utab : l.id # m.id}
    /\ UNCHANGED <<saved, carried, record, tree, made>>

(* mount_decoy_root, then restore: the carried mounts are checked first, then
   everything recorded is made again below the next root, in order. *)
OpenCarried(i) ==
    \E m \in TopMountAt(mounts, carried[i].at) : m.dev = carried[i].dev /\ m.root = carried[i].root
Restorable ==
    \A r \in Range(record) : r.source # 0 => OpenCarried(r.source)
(* What a recorded mount is made from. *)
Source(r) ==
    LET root == CHOOSE m \in TopMountAt(tree, <<>>) : TRUE
    IN  [dev |-> SourceDev(r.source, root, carried),
         root |-> SourceRoot(r.source, root, carried) \o r.path, fstype |-> "disk"]
MakeAgain(done, r) ==
    LET t == MountOn(done.t, NextRoot \o r.target, Source(r), "nails")
    IN  [t |-> t, r |-> Append(done.r, [r EXCEPT !.restored = t[Len(t)].id])]
PrepareMounts ==
    LET f[n \in 0..Len(record)] ==
          IF n = 0 THEN [t |-> mounts, r |-> <<>>] ELSE MakeAgain(f[n-1], record[n])
        done == f[Len(record)]
    IN  /\ Restorable
        /\ mounts' = done.t /\ record' = done.r
        /\ UNCHANGED <<utab, saved, carried, tree, made>>
LeaveMounts ==
    /\ utab' = RestoredLines(saved.lines, saved.named, record, mounts, NextRoot)
    /\ UNCHANGED <<mounts, saved, carried, record, tree, made>>

------------------------------------------------------------------------------
(* While the hidden session runs no line of the decoy's reaches one of its
   mounts, whatever ids the kernel gave them (utab::surviving_lines). *)
NoStaleLine ==
    phase \in {"hidden", "prepared", "scrubbed"} =>
        \A l \in utab : l.by = "decoy" => \A m \in Joined(l, mounts) :
            Fits(l, m) /\ (l.id > 0 => m.by # "hidden")

(* The decoy mounts that come back are what they were: the same filesystem at
   the same place on the same mount, a lookup ends in the same filesystem, and a
   mount stays lost only with what holds it, or because it can be made from
   nothing that is carried (decoy_mounts::record and restore). *)
Place(m, t) == <<m.point, m.dev, m.root, {<<p.point, p.dev>> : p \in StackBase(m, t)}>>
CameBack(m) == Place(m, tree) \in {Place(n, mounts) : n \in Range(mounts)}
Recorded(id) == \E i \in DOMAIN record : record[i].id = id
TreeBack ==
    phase = "home" =>
        /\ \A n \in Range(mounts) : \E m \in Range(tree) : Place(m, tree) = Place(n, mounts)
        /\ \A m \in Range(tree) :
              \/ CameBack(m) \/ ~InTree(m.point) \/ m.deleted \/ ~m.settable
              \/ \A i \in DOMAIN carried : ~Within(m, carried[i].dev, carried[i].root)
              \/ ~Recorded(m.parent)
        /\ \A m \in Range(tree) :
              CameBack(m) /\ m \in TopMountAt(tree, m.point) =>
                  \E n \in TopMountAt(mounts, m.point) : n.dev = m.dev /\ n.root = m.root

(* After the way back every line of the decoy's goes to the mount made in place
   of the one it named, none of the session's lines is left, and no mount that
   came back lost its line (utab::restored_lines). *)
LinesBack ==
    phase = "home" =>
        /\ \A l \in utab : l.by = "decoy" /\ \A m \in Joined(l, mounts) :
               \E n \in Range(tree) : n.id = l.of /\ n.point = m.point /\ n.dev = m.dev /\ n.root = m.root
        /\ \A l \in saved.lines : \A i \in DOMAIN record :
               l.id # 0 /\ l.id = record[i].id
               /\ (\E n \in saved.named : n.id = l.id /\ Fits(l, n)) =>
                   \E k \in utab : k.of = l.of /\ k.id = record[i].restored
=============================================================================
