------------------------------ MODULE Platform -------------------------------
(***************************************************************************)
(* What host nails runs on and what it would build there                   *)
(* (nails-platform/src/platform, nixos/flake_ref.rs, nails-core's          *)
(* app/engine.rs).  Pure decisions over one host: os-release and its       *)
(* quoting, the family table and its version gate, and the choice of the   *)
(* NixOS build target.                                                     *)
(***************************************************************************)
EXTENDS Naturals, Sequences, SequencesExt, FiniteSets

Missing == <<>>                 \* a field, file or fragment that is not there
Given1(x) == <<x>>              \* one that is
IfGiven(f, default) == IF f = Missing THEN default ELSE f[1]

-----------------------------------------------------------------------------
(* os-release: lines of a key and the characters of its value, as written. *)
Sq == "'"
Dq == "\""
Bs == "\\"
Specials == {"$", Dq, Bs, "bt"}       \* "bt" is the backquote

RECURSIVE DoubleUnquote(_)
DoubleUnquote(s) ==
    IF s = <<>> THEN <<>>
    ELSE IF Head(s) = Bs /\ Len(s) > 1 /\ s[2] \in Specials
         THEN <<s[2]>> \o DoubleUnquote(SubSeq(s, 3, Len(s)))
    ELSE <<Head(s)>> \o DoubleUnquote(Tail(s))

Unquote(value) ==
    LET inner == SubSeq(value, 2, Len(value) - 1)
    IN  IF Len(value) < 2 \/ Last(value) # Head(value) THEN value
        ELSE IF Head(value) = Sq THEN inner
        ELSE IF Head(value) = Dq THEN DoubleUnquote(inner) ELSE value

(* The value in double quotes, as the round trip writes it back. *)
RECURSIVE Escape(_)
Escape(s) ==
    IF s = <<>> THEN <<>>
    ELSE (IF Head(s) \in Specials THEN <<Bs, Head(s)>> ELSE <<Head(s)>>) \o Escape(Tail(s))
Quote(value) == <<Dq>> \o Escape(value) \o <<Dq>>

(* A value written in double quotes is read back as it was (os-release(5); *)
(* unquote, detect.rs).                                                    *)
QuoteRoundTrip(value) == Unquote(Quote(value)) = value

(* Only the assignment counts: a later line of the same key wins.          *)
ParseOsRelease(lines) ==
    [k \in {"ID", "ID_LIKE", "VERSION_ID"} |->
       LET at == {i \in DOMAIN lines : lines[i].key = k}
       IN  IF at = {} THEN Missing
           ELSE Given1(lines[CHOOSE i \in at : \A j \in at : j <= i].value)]

-----------------------------------------------------------------------------
(* family.rs: versions are <<major, minor>>, unreadable ones Missing. *)
Before(v, w) == v[1] < w[1] \/ (v[1] = w[1] /\ v[2] < w[2])

ParseVersion(raw) ==
    IF raw = <<>> THEN Missing
    ELSE Given1(<<raw[1], IF Len(raw) > 1 THEN raw[2] ELSE 0>>)

Rolling == [min |-> <<0, 0>>, validated |-> {}, caveats |-> {}]
Versioned(min, validated, caveats) ==
    [min |-> min, validated |-> validated, caveats |-> caveats]
Base(family, gate, admitted) ==
    [family |-> family, gate |-> gate, kind |-> "base", admitted |-> admitted]
Derivative(family) ==
    [family |-> family, gate |-> Rolling, kind |-> "derivative", admitted |-> FALSE]

Table ==
    [debian |-> Base("debian", Versioned(<<13, 0>>, {<<13, 0>>}, {}), TRUE),
     ubuntu |-> Base("debian", Versioned(<<24, 4>>, {<<24, 4>>, <<26, 4>>, <<26, 10>>}, {<<26, 4>>}), TRUE),
     fedora |-> Base("fedora", Versioned(<<44, 0>>, {<<44, 0>>}, {}), FALSE),
     arch |-> Base("arch", Rolling, FALSE),
     endeavouros |-> Derivative("arch"), cachyos |-> Derivative("arch"),
     manjaro |-> Derivative("arch"),
     nobara |-> Derivative("fedora"), ultramarine |-> Derivative("fedora")]
NamedRefusals == {"rhel", "centos", "almalinux", "rocky", "ol", "steamos"}

BaseAdmitted(family) ==
    \E id \in DOMAIN Table :
       Table[id].kind = "base" /\ Table[id].family = family /\ Table[id].admitted

(* The verdict on a family: supported, caveat, untested or refused. *)
GateVersion(row, version) ==
    LET v == IF version = Missing THEN Missing ELSE ParseVersion(version[1])
    IN  IF row.gate = Rolling THEN "supported"
        ELSE IF v = Missing THEN "refused"
        ELSE IF Before(v[1], row.gate.min) THEN "refused"
        ELSE IF v[1] \notin row.gate.validated THEN "untested"
        ELSE IF v[1] \in row.gate.caveats THEN "caveat" ELSE "supported"

ClassifyRow(row, version) ==
    IF row.kind = "derivative"
    THEN IF BaseAdmitted(row.family) THEN "untested" ELSE "refused"
    ELSE IF ~ row.admitted THEN "refused" ELSE GateVersion(row, version)

FamilyFromIdLike(like) ==
    LET of(t) == IF t \in {"fedora", "rhel", "centos"} THEN "fedora" ELSE "arch"
        known == SelectSeq(like, LAMBDA t : t \in {"fedora", "rhel", "centos", "arch"})
    IN  IF known = <<>> THEN Missing ELSE Given1(of(Head(known)))

Classify(id, like, version) ==
    IF id # Missing /\ id[1] \in NamedRefusals
    THEN [family |-> Missing, support |-> "refused"]
    ELSE IF id # Missing /\ id[1] \in DOMAIN Table
    THEN [family |-> Given1(Table[id[1]].family), support |-> ClassifyRow(Table[id[1]], version)]
    ELSE IF \E t \in ToSet(like) : t \in {"debian", "ubuntu"}
    THEN [family |-> Given1("debian"), support |-> "untested"]
    ELSE [family |-> FamilyFromIdLike(like), support |-> "refused"]

-----------------------------------------------------------------------------
(* detect.rs *)
ComposefsRefusal(h) ==
    \/ "run" \in h.composefs
    \/ h.composefs \cap {"ostree", "composefs", "composefs.digest", "root=composefs",
                         "root=transient:composefs"} # {}

ProbeUsrMerge(h) == \A d \in DOMAIN h.dirs : h.dirs[d] # "dir"

Refused(family) == [kind |-> "unsupported", warned |-> FALSE, family |-> family]
Admitted(kind, warned, family) == [kind |-> kind, warned |-> warned, family |-> family]

Verdict(h, fields) ==
    LET f == Classify(fields["ID"], IfGiven(fields["ID_LIKE"], <<>>), fields["VERSION_ID"])
    IN  IF h.ostree \/ ComposefsRefusal(h) \/ h.pid1 # Given1("systemd") THEN Refused(Missing)
        ELSE IF fields["ID"] = Given1("nixos") \/ h.currentSystem THEN Admitted("nixos", FALSE, Missing)
        ELSE IF f.support = "refused" \/ ~ ProbeUsrMerge(h) THEN Refused(f.family)
        ELSE Admitted("fhs", f.support \in {"caveat", "untested"}, f.family)

(* host_facts.rs: what the host says of SELinux, read for the reports. *)
ReadSelinux(h) ==
    IF ~ h.selinux.fs /\ h.selinux.config = Missing THEN Missing
    ELSE Given1([enforce |-> IF h.selinux.enforce \in {"0", "1"} THEN Given1(h.selinux.enforce) ELSE Missing,
                 config |-> h.selinux.config])

Detect(h) ==
    LET fields == ParseOsRelease(IfGiven(h.osRelease, <<>>))
    IN  [verdict |-> Verdict(h, fields), fields |-> fields, selinux |-> ReadSelinux(h)]

(* A host that is admitted without a word is one NAILS was tested on: a    *)
(* mutable systemd host that is NixOS, or declares a release the table     *)
(* lists as validated and has no known fault, on a merged /usr (detect,    *)
(* gate_version).  Stated over what the files say, not over the gates.     *)
TestedOrTold(h) ==
    LET p == Detect(h)
        fields == p.fields
        says(id, versions) ==
            fields["ID"] = Given1(id) /\ fields["VERSION_ID"] # Missing
            /\ fields["VERSION_ID"][1] \in versions
    IN  p.verdict.kind # "unsupported" =>
          /\ ~ h.ostree /\ h.composefs = {} /\ h.pid1 = Given1("systemd")
          /\ \/ p.verdict.warned
             \/ fields["ID"] = Given1("nixos") \/ h.currentSystem
             \/ /\ \A d \in DOMAIN h.dirs : h.dirs[d] # "dir"
                /\ says("debian", {<<13>>, <<13, 0>>}) \/ says("ubuntu", {<<24, 4>>, <<26, 10>>})

-----------------------------------------------------------------------------
(* flake_ref.rs, nixos.rs, discover.rs: a reference is its scheme, its     *)
(* location (absolute or not, as components), a dir parameter and a        *)
(* fragment; a tree is the directories that exist and where /etc/nixos and *)
(* the link lead.                                                          *)
Etc == <<"etc", "nixos">>

(* canonicalize and components: ".", ".." and links, where the path is. *)
RECURSIVE Canonical(_, _, _)
Canonical(links, done, rest) ==
    IF rest = <<>> THEN done
    ELSE LET at == Append(done, Head(rest))
         IN  IF Head(rest) = "." THEN Canonical(links, done, Tail(rest))
             ELSE IF Head(rest) = ".."
             THEN Canonical(links, IF done = <<>> THEN done ELSE Front(done), Tail(rest))
             ELSE IF at \in DOMAIN links THEN Canonical(links, <<>>, links[at] \o Tail(rest))
             ELSE Canonical(links, at, Tail(rest))
Resolved(t, path) ==
    LET real == Canonical(t.links, <<>>, path)
    IN  IF real \in t.dirs THEN real ELSE SelectSeq(path, LAMBDA c : c # ".")

HasFlake(t, dir) == Canonical(t.links, <<>>, dir) \in t.flakes

WithDir(path, dir) == path \o IfGiven(dir, <<>>)

ResolveLocalFlakeDir(t, ref) ==
    IF ref.absolute /\ ref.scheme \in {"none", "path:"} THEN Given1(WithDir(ref.path, ref.dir))
    ELSE IF ref.scheme = "path:" \/ (ref.scheme = "none" /\ Head(ref.path) \in {".", ".."})
    THEN Given1(WithDir(t.cwd \o ref.path, ref.dir))
    ELSE Missing                     \* a generic reference, or a relative one that is refused

LocalFlakePath(t, ref) ==
    IF ref.scheme \in {"git+file:", "file:"}
    THEN IF ref.absolute THEN Given1(WithDir(ref.path, ref.dir)) ELSE Missing
    ELSE ResolveLocalFlakeDir(t, ref)

IsDecoyFlakeDir(t, dir) == HasFlake(t, Etc) /\ Resolved(t, dir) = Resolved(t, Etc)

ExplicitDecoyFlake(t, ref) ==
    LET dir == LocalFlakePath(t, ref)
    IN  dir # Missing /\ IsDecoyFlakeDir(t, dir[1])

HiddenFlake(t) ==
    IF ~ HasFlake(t, t.hidden \o <<"nixos">>) THEN "missing"
    ELSE IF IsDecoyFlakeDir(t, t.hidden \o <<"nixos">>) THEN "decoy" ELSE "present"

DiscoverNixosTarget(t) ==
    CASE HiddenFlake(t) = "present" -> "flake"
      [] HiddenFlake(t) = "decoy" -> "decoy_flake"
      [] OTHER -> IF HasFlake(t, Etc) THEN "decoy_flake"
                  ELSE IF t.legacy \/ t.profile THEN "legacy" ELSE "none"

(* Without a profile the NixOS discovery is used. *)
DiscoverHostTarget(t, kind, explicit, overlayOnly) ==
    IF overlayOnly THEN "overlay_only"
    ELSE IF explicit # Missing
    THEN IF ExplicitDecoyFlake(t, explicit[1]) THEN "decoy_flake" ELSE "explicit"
    ELSE IF kind \in {"nixos", "unknown"} THEN DiscoverNixosTarget(t) ELSE "none"

(* engine.rs: the decoy's own flake gets no builder. *)
NixosBuilderFor(target) ==
    IF target \in {"overlay_only", "none", "decoy_flake"} THEN Missing ELSE Given1(target)

(* The directory a build would evaluate, as nix resolves it. *)
Evaluated(t, target, explicit) ==
    CASE target = "explicit" ->
           LET r == explicit[1]
           IN  IF r.scheme = "github:" \/ (~ r.absolute /\ r.scheme \in {"git+file:", "file:"}) THEN Missing
               ELSE IF ~ r.absolute /\ r.scheme = "none" /\ Head(r.path) \notin {".", ".."} THEN Missing
               ELSE Given1(Canonical(t.links, <<>>,
                             (IF r.absolute THEN <<>> ELSE t.cwd) \o r.path \o IfGiven(r.dir, <<>>)))
      [] target = "flake" -> Given1(Canonical(t.links, <<>>, t.hidden \o <<"nixos">>))
      [] OTHER -> Missing

(* The decoy's own flake is never built as the hidden system: whichever    *)
(* way it is named (a link on the hidden volume, an explicit reference     *)
(* with a scheme, a dir parameter, dots or links), no builder evaluates    *)
(* the directory /etc/nixos leads to while it holds a flake (engine.rs:    *)
(* nixos_builder_for; explicit_decoy_flake).                               *)
DecoyFlakeNeverBuilt(t, kind, explicit, overlayOnly) ==
    LET target == DiscoverHostTarget(t, kind, explicit, overlayOnly)
        dir == Evaluated(t, target, explicit)
    IN  NixosBuilderFor(target) # Missing /\ dir # Missing /\ HasFlake(t, Etc)
          => dir[1] # Canonical(t.links, <<>>, Etc)

-----------------------------------------------------------------------------
(***************************************************************************)
(* The device stack behind the hidden root, as the entry records it for    *)
(* the way back and the emergency (nails-platform/src/backend_lock.rs).    *)
(*                                                                         *)
(* A host h has mounts, the sequence of mount table lines at the hidden    *)
(* root, by either of its names, each the source's kind ("dm", "mapper",   *)
(* "loop" or "plain") and the block device behind it; slaves, the devices  *)
(* each device-mapper node lies on, as sysfs lists them; unnamed, the      *)
(* nodes whose name cannot be read; and readable, whether the mount table  *)
(* can be.                                                                 *)
(***************************************************************************)
Loops == {"loop0"}
IsDm(h, dev) == dev \in DOMAIN h.slaves

AddOnce(list, x) == IF x \in Range(list) THEN list ELSE Append(list, x)

(* walk_dm_stack: a node's name, then its slaves, each with what lies      *)
(* below it                                                                *)
RECURSIVE WalkDmStack(_, _, _)
WalkDmStack(h, node, chain) ==
    LET named == IF node \in h.unnamed THEN chain ELSE [chain EXCEPT !.dm = AddOnce(@, node)]
        Below(c, slave) ==
          IF IsDm(h, slave) THEN WalkDmStack(h, slave, c)
          ELSE IF slave \in Loops THEN [c EXCEPT !.loops = AddOnce(@, slave)] ELSE c
    IN FoldLeft(Below, named, h.slaves[node])

NoChain == [dm |-> <<>>, loops |-> <<>>]

(* resolve_backend_chain: the first line of the mount table at the hidden  *)
(* root, and the stack below its source                                    *)
ResolveBackendChain(h) ==
    IF ~ h.readable \/ h.mounts = <<>> THEN NoChain
    ELSE LET first == h.mounts[1]
         IN CASE first.kind \in {"dm", "mapper"} -> WalkDmStack(h, first.device, NoChain)
              [] first.kind = "loop" -> [NoChain EXCEPT !.loops = <<first.device>>]
              [] first.kind = "plain" -> NoChain

-----------------------------------------------------------------------------
Behind(h, dev) ==
    LET Grow(S) == S \cup UNION {Range(h.slaves[d]) : d \in S \cap DOMAIN h.slaves}
    IN Grow(Grow(Grow({dev})))

(* What is recorded is what lies behind the mount: every device-mapper     *)
(* node and loop device reachable from its source, once each, and the      *)
(* mount's own node first (resolve_backend_chain, walk_dm_stack).          *)
ChainComplete(h) ==
    (h.readable /\ h.mounts # <<>> /\ h.mounts[1].kind \in {"dm", "mapper"}) =>
      LET chain == ResolveBackendChain(h)
          behind == Behind(h, h.mounts[1].device)
      IN /\ Range(chain.dm) = (behind \cap DOMAIN h.slaves) \ h.unnamed
         /\ Range(chain.loops) = behind \cap Loops
         /\ Len(chain.dm) = Cardinality(Range(chain.dm))
         /\ h.mounts[1].device \notin h.unnamed => chain.dm[1] = h.mounts[1].device
=============================================================================
