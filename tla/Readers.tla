------------------------------- MODULE Readers -------------------------------
(***************************************************************************)
(* The readers of the kernel's, libmount's and systemd's text, character by *)
(* character where their escaping matters: mountinfo and overlay options   *)
(* (nails-teardown mountinfo.rs), a line of utab (whole_root/utab.rs), unit *)
(* names (nails-base fstab.rs) and the lines of a configuration file       *)
(* (systemd_conf.rs).  The producers they are checked against are the      *)
(* models the repository keeps in fuzz/src.                                *)
(***************************************************************************)
EXTENDS Integers, Sequences, FiniteSets, FiniteSetsExt, SequencesExt, Naturals

Bs == "\\"
From(s, i) == SubSeq(s, i, Len(s))
JoinWith(parts, sep) ==
    FoldLeft(LAMBDA all, p : IF all = <<>> THEN <<p>> ELSE all \o <<sep, p>>, <<>>, parts)
Concat(parts) == FoldLeft(LAMBDA all, p : all \o p, <<>>, parts)
Joined(parts, char) == Concat(JoinWith(parts, <<char>>))

-----------------------------------------------------------------------------
(* Octal escapes.  The codes of the characters the kernel escapes; another
   code up to 255 is a byte the readers do not tell apart. *)
OctalDigits == {"0", "1", "2", "3", "4", "5", "6", "7"}
Codes == [c \in {Bs, ",", " ", "\t", "\n"} |->
            CASE c = Bs -> <<"1", "3", "4">> [] c = "," -> <<"0", "5", "4">>
              [] c = " " -> <<"0", "4", "0">> [] c = "\t" -> <<"0", "1", "1">>
              [] OTHER -> <<"0", "1", "2">>]
ByteOf(code) == IF \E c \in DOMAIN Codes : Codes[c] = code
                THEN CHOOSE c \in DOMAIN Codes : Codes[c] = code ELSE "byte"
PathSpecial == {" ", "\t", "\n", Bs}
OptionSpecial == PathSpecial \cup {","}
KernelEscape(text, special) ==
    Concat([i \in DOMAIN text |-> IF text[i] \in special THEN <<Bs>> \o Codes[text[i]] ELSE <<text[i]>>])

StartsEscape(s) ==
    /\ Len(s) >= 4 /\ s[1] = Bs
    /\ \A i \in 2..4 : s[i] \in OctalDigits
    /\ s[2] \in {"0", "1", "2", "3"}
RECURSIVE Unescape(_)
Unescape(s) ==
    IF s = <<>> THEN <<>>
    ELSE IF StartsEscape(s) THEN <<ByteOf(SubSeq(s, 2, 4))>> \o Unescape(From(s, 5))
    ELSE IF s[1] = Bs /\ Len(s) > 1 THEN <<s[2]>> \o Unescape(From(s, 3))
    ELSE <<s[1]>> \o Unescape(Tail(s))
RECURSIVE UnescapeOctal(_)
UnescapeOctal(s) ==
    IF s = <<>> THEN <<>>
    ELSE IF StartsEscape(s) THEN <<ByteOf(SubSeq(s, 2, 4))>> \o UnescapeOctal(From(s, 5))
    ELSE IF s[1] = Bs /\ Len(s) > 1 THEN SubSeq(s, 1, 2) \o UnescapeOctal(From(s, 3))
    ELSE <<s[1]>> \o UnescapeOctal(Tail(s))
RECURSIVE UnescapeOverlay(_)
UnescapeOverlay(s) ==
    IF s = <<>> THEN <<>>
    ELSE IF s[1] = Bs /\ Len(s) > 1 THEN <<s[2]>> \o UnescapeOverlay(From(s, 3))
    ELSE <<s[1]>> \o UnescapeOverlay(Tail(s))

(* split_raw: split at unescaped delimiters, escapes kept *)
RECURSIVE SplitRaw(_, _, _)
SplitRaw(s, delim, cur) ==
    IF s = <<>> THEN <<cur>>
    ELSE IF s[1] = Bs THEN IF Len(s) = 1 THEN <<Append(cur, Bs)>>
                           ELSE SplitRaw(From(s, 3), delim, cur \o SubSeq(s, 1, 2))
    ELSE IF s[1] = delim THEN <<cur>> \o SplitRaw(Tail(s), delim, <<>>)
    ELSE SplitRaw(Tail(s), delim, Append(cur, s[1]))

EscapeOverlayPath(path) ==
    Concat([i \in DOMAIN path |-> IF path[i] \in {Bs, ":", ","} THEN <<Bs, path[i]>> ELSE <<path[i]>>])

(* parse_overlay_opts; a key is one character here. *)
ParseOverlayOpts(text) ==
    LET raw == SplitRaw(text, ",", <<>>)
        value(key) == LET at == {i \in DOMAIN raw : raw[i] # <<>> /\ raw[i][1] = key}
                      IN IF at = {} THEN <<>> ELSE UnescapeOctal(Tail(raw[Max(at)]))
        layers == SelectSeq(SplitRaw(value("lowerdir="), ":", <<>>), LAMBDA p : p # <<>>)
    IN [lower |-> [i \in DOMAIN layers |-> UnescapeOverlay(layers[i])],
        upper |-> UnescapeOverlay(value("upperdir="))]
Given(o) == [lower |-> Joined([i \in DOMAIN o.lower |-> EscapeOverlayPath(o.lower[i])], ":"),
             upper |-> EscapeOverlayPath(o.upper)]
AsGiven(o) == <<"lowerdir=">> \o Given(o).lower \o <<",", "upperdir=">> \o Given(o).upper
AsShown(o) == <<"r", "w", ",", "lowerdir=">> \o KernelEscape(Given(o).lower, OptionSpecial)
              \o <<",", "upperdir=">> \o KernelEscape(Given(o).upper, OptionSpecial)

(* A line of mountinfo; its fields are sequences of characters. *)
Dash == <<"-">>
MountinfoLine(m) ==
    <<m.id, m.parent, m.dev, KernelEscape(m.root, PathSpecial), KernelEscape(m.point, PathSpecial), m.opts>>
    \o m.optional \o <<Dash, m.fstype, KernelEscape(m.source, PathSpecial), m.super>>
NoMount == [id |-> <<>>]
ParseMountLine(tokens) ==
    LET seps == {i \in DOMAIN tokens : tokens[i] = Dash}
    IN IF seps = {} \/ (seps # {} /\ (Min(seps) < 7 \/ Min(seps) + 3 > Len(tokens))) THEN NoMount
       ELSE LET sep == Min(seps)
            IN [id |-> tokens[1], parent |-> tokens[2], dev |-> tokens[3], root |-> Unescape(tokens[4]),
                point |-> Unescape(tokens[5]), opts |-> tokens[6],
                fstype |-> tokens[sep + 1], source |-> Unescape(tokens[sep + 2]), super |-> tokens[sep + 3]]

(* The layers given to mount(2), read back from the options as given and as the
   kernel shows them, are the paths they were (parse_overlay_opts). *)
OverlayRoundTrip(o) == ParseOverlayOpts(AsGiven(o)) = o /\ ParseOverlayOpts(AsShown(o)) = o

(* A mount the kernel prints is read as it is, whatever its paths hold and
   however many optional fields it has (parse_mountinfo). *)
MountRoundTrip(m) ==
    LET read == ParseMountLine(MountinfoLine(m))
    IN \A f \in DOMAIN m \ {"optional"} : f \in DOMAIN read /\ read[f] = m[f]

-----------------------------------------------------------------------------
(* A line of utab.  A key with its "=" is one character; the widths of the
   numbers are scaled down. *)
I32Max == 1
I64Max == 10
U64Max == 11
Blank == {" ", "\t"}
StringKeys == {"SRC=", "TARGET=", "ROOT=", "BINDSRC=", "OPTS=", "ATTRS="}
NoLine == [read |-> FALSE, id |-> 0, fields |-> <<>>]
At(s, i) == IF i \in DOMAIN s THEN s[i] ELSE "end"
RunLen(s, i, set) == CHOOSE n \in 0..Len(s) :
    /\ \A k \in 0..n - 1 : At(s, i + k) \in set
    /\ At(s, i + n) \notin set
DecimalValue(digits) == FoldLeft(LAMBDA v, d : 10 * v + (IF d = "1" THEN 1 ELSE 0), 0, digits)

(* number: end is past what was read, and bad says the line is given up *)
Number(s, start) ==
    IF start > Len(s) THEN [bad |-> FALSE, negative |-> FALSE, value |-> 0, end |-> start]
    ELSE LET first == start + RunLen(s, start, Blank)
             sign == At(s, first)
             digits == first + (IF sign \in {"-", "+"} THEN 1 ELSE 0)
             n == RunLen(s, digits, {"0", "1"})
             value == DecimalValue(SubSeq(s, digits, digits + n - 1))
         IN [bad |-> n = 0 \/ value > U64Max \/ At(s, digits + n) \notin Blank \cup {"end"},
             negative |-> sign = "-", value |-> value, end |-> digits + n]
ValueEnd(s, start) == start + RunLen(s, start, {At(s, i) : i \in start..Len(s)} \ Blank)
NextField(s, at) == at + RunLen(s, at, {s[i] : i \in DOMAIN s} \ {" "})

\* Mutant: a later ID replaces an earlier one.
TakesIdLast(line) == TRUE
TakesId(line) == line.id = 0
(* Line::parse from a field on *)
RECURSIVE ParseFields(_, _, _, _)
ParseFields(s, from, uniq, line) ==
    LET at == from + RunLen(s, from, {" "})
        key == At(s, at)
        num == Number(s, at + 1)
    IN CASE key = "end" -> line
         [] key = "UNIQID=" /\ uniq = 0 ->
              IF num.bad THEN NoLine ELSE ParseFields(s, num.end, num.value, line)
         [] key = "ID=" /\ TakesId(line) ->
              IF num.bad \/ num.value > I32Max THEN NoLine
              ELSE ParseFields(s, num.end, uniq,
                               [line EXCEPT !.id = IF num.negative THEN -num.value ELSE num.value])
         [] key \in StringKeys \ {f[1] : f \in Range(line.fields)} ->
              LET end == ValueEnd(s, at + 1)
              IN IF end = at + 1 THEN NoLine
                 ELSE ParseFields(s, end, uniq, [line EXCEPT !.fields = Append(@, <<key, SubSeq(s, at + 1, end - 1)>>)])
         [] OTHER -> ParseFields(s, NextField(s, at), uniq, line)
UtabParse(text) ==
    LET s == IF text # <<>> /\ Last(text) = "\r" THEN Front(text) ELSE text
        first == 1 + RunLen(s, 1, Blank)
    IN IF At(s, first) \in {"end", "#"} THEN NoLine
       ELSE ParseFields(s, first, 0, [read |-> TRUE, id |-> 0, fields |-> <<>>])

(* libmount: mnt_parse_utab_line, as a choice of the fields it takes.  A field
   starts after a space; a number may reach over blanks to its digits. *)
RECURSIVE MntFields(_, _, _)
MntFields(s, from, got) ==
    LET at == from + RunLen(s, from, {" "})
        key == At(s, at)
        num == Number(s, at + 1)
        set(k) == k \in DOMAIN got
        with(k, v) == [x \in DOMAIN got \cup {k} |-> IF x = k THEN v ELSE got[x]]
        atEnd == at + 1 > Len(s)
    IN CASE key = "end" -> got
         [] key = "UNIQID=" /\ ~set("uniq") ->
              IF atEnd THEN got
              ELSE IF num.bad THEN [bad |-> TRUE]
              ELSE MntFields(s, num.end, IF num.value # 0 THEN with("uniq", num.value) ELSE got)
         [] key = "ID=" /\ ~set("id") ->
              IF atEnd THEN got
              ELSE IF num.bad \/ num.value > I64Max \/ num.value > I32Max THEN [bad |-> TRUE]
              ELSE MntFields(s, num.end,
                             IF num.value # 0 THEN with("id", IF num.negative THEN -num.value ELSE num.value)
                             ELSE got)
         [] key \in StringKeys /\ ~set(key) ->
              IF At(s, at + 1) \in Blank \cup {"end"} THEN [bad |-> TRUE]
              ELSE MntFields(s, ValueEnd(s, at + 1), with(key, SubSeq(s, at + 1, ValueEnd(s, at + 1) - 1)))
         [] OTHER -> MntFields(s, NextField(s, at), got)
MntParse(text) ==
    LET s == IF text # <<>> /\ Last(text) = "\r" THEN Front(text) ELSE text
        first == 1 + RunLen(s, 1, Blank)
    IN IF At(s, first) \in {"end", "#"} THEN [bad |-> TRUE]
       ELSE MntFields(s, first, [x \in {} |-> 0])

(* A line reads as libmount reads it: skipped by both or by neither, with the
   same ID and the same fields (Line::parse). *)
ReadsAsLibmount(text) ==
    LET mine == UtabParse(text)
        mnt == MntParse(text)
    IN IF "bad" \in DOMAIN mnt THEN ~mine.read
       ELSE /\ mine.read
            /\ mine.id = (IF "id" \in DOMAIN mnt THEN mnt["id"] ELSE 0)
            /\ Range(mine.fields) = {<<k, mnt[k]>> : k \in DOMAIN mnt \ {"id", "uniq"}}

-----------------------------------------------------------------------------
(* Unit names *)
Components(path) == SplitRaw(path, "/", <<>>)
Plain(parts) == SelectSeq(parts, LAMBDA c : c \notin {<<>>, <<".">>})
RECURSIVE WithoutClimb(_)
WithoutClimb(parts) == IF parts # <<>> /\ parts[1] = <<".", ".">> THEN WithoutClimb(Tail(parts)) ELSE parts
Absolute(path) == path # <<>> /\ path[1] = "/"
EscapeByte(i, c) ==
    IF c = "/" THEN <<"-">>
    ELSE IF c = "." /\ i = 1 THEN <<Bs, "x2e">>
    ELSE IF c \in {"a", "."} THEN <<c>> ELSE <<Bs, "x", c>>
Escaped(text) == Concat([i \in DOMAIN text |-> EscapeByte(i, text[i])])
EscapePath(path) ==
    LET parts == Plain(Components(path))
        kept == IF Absolute(path) THEN WithoutClimb(parts) ELSE parts
    IN IF kept = <<>> THEN <<"-">> ELSE Escaped(Joined(kept, "/"))

(* systemd: path_simplify, path_is_normalized, unit_name_from_path *)
PathSimplify(path) ==
    FoldLeft(LAMBDA kept, c :
               IF c \in {<<>>, <<".">>} \/ (Absolute(path) /\ kept = <<>> /\ c = <<".", ".">>)
               THEN kept ELSE Append(kept, c), <<>>, Components(path))
NoUnit == <<"refused">>
UnitNameFromPath(path) ==
    LET kept == PathSimplify(path)
    IN IF kept = <<>> THEN IF path = <<>> \/ Absolute(path) THEN <<"-">> ELSE NoUnit
       ELSE IF \E i \in DOMAIN kept : kept[i] = <<".", ".">> THEN NoUnit
       ELSE Escaped(Joined(kept, "/"))
(* A unit that is masked has the name systemd gives the unit it generates, on
   every path systemd generates one for (fstab::escape_path). *)
UnitAsSystemd(path) == UnitNameFromPath(path) # NoUnit => EscapePath(path) = UnitNameFromPath(path)

-----------------------------------------------------------------------------
(* config_lines: a run of line ends is one end as long as no kind repeats and a
   NUL closes it. *)
Ends == {"\n", "\r", "nul"}
RECURSIVE SkipEnds(_, _)
SkipEnds(s, seen) ==
    IF s = <<>> \/ At(s, 1) \notin Ends \/ "nul" \in seen \/ At(s, 1) \in seen THEN s
    ELSE SkipEnds(Tail(s), seen \cup {s[1]})
SkipRun(s, seen) == SkipEnds(s, seen)
RECURSIVE ConfigLines(_)
ConfigLines(s) ==
    IF s = <<>> THEN <<>>
    ELSE LET n == RunLen(s, 1, {s[i] : i \in DOMAIN s} \ Ends)
         IN <<SubSeq(s, 1, n)>> \o ConfigLines(SkipRun(From(s, n + 1), {}))
(* A file that ends its lines with a carriage return and a newline, in either
   order, has the lines of one that ends them with newlines, blank lines
   included, and decoding loses no character of a line (decode_config_bytes). *)
LinesKept(lines) ==
    \A ending \in {<<"\n">>, <<"\r">>, <<"\r", "\n">>, <<"\n", "\r">>, <<"nul">>} :
        ConfigLines(Concat([i \in DOMAIN lines |-> lines[i] \o ending])) = lines

-----------------------------------------------------------------------------
(***************************************************************************)
(* Paths and mount options around the next root (whole_root/nextroot.rs,   *)
(* session/entry.rs): a path is resolved inside a root the way PID 1 will  *)
(* resolve it there, links included; the decoy root is described so that   *)
(* it can be mounted again; a mount is remounted with the options it has.  *)
(* A tree maps the paths that exist to "dir", "file", "exec" or, for a     *)
(* link, to the absolute path it names.                                    *)
(***************************************************************************)
LookupSteps == 8        \* the kernel gives up on longer chains of links

IsLink(t, p) == p \in DOMAIN t /\ t[p].kind = "link"
(* The kernel: openat2 with RESOLVE_IN_ROOT. *)
Step(t, walk) ==
    IF walk.rest = <<>> THEN walk
    ELSE LET p == Append(walk.at, Head(walk.rest))
         IN  CASE p \notin DOMAIN t -> [walk EXCEPT !.found = FALSE, !.rest = <<>>]
               [] IsLink(t, p)      -> [walk EXCEPT !.at = <<>>, !.rest = t[p].to \o Tail(@)]
               [] OTHER             -> [walk EXCEPT !.at = p, !.rest = Tail(@)]
Walk(t, p) ==
    FoldLeft(LAMBDA w, n : Step(t, w), [at |-> <<>>, rest |-> p, found |-> TRUE],
             [n \in 1..LookupSteps |-> n])
(* open_in_root *)
OpenInRoot(t, p) == LET w == Walk(t, p) IN IF w.found /\ w.rest = <<>> THEN {w.at} ELSE {}
OpenDirInRoot(t, p) == {q \in OpenInRoot(t, p) : q = <<>> \/ t[q].kind = "dir"}

(* canonical_in_root: the longest prefix that exists, resolved, and the rest. *)
CanonicalInRoot(t, p) ==
    LET n == Max({i \in 0..Len(p) : OpenInRoot(t, SubSeq(p, 1, i)) # {}})
    IN  (CHOOSE q \in OpenInRoot(t, SubSeq(p, 1, n)) : TRUE) \o SubSeq(p, n + 1, Len(p))

(* create_dir_all_in_root: each name is looked up from the root, and made in the
   directory the names before it led to.  A name that is taken by a dangling link
   cannot be made. *)
Dir == [kind |-> "dir"]
MakeOne(t, s, p) ==
    LET there == OpenDirInRoot(s.t, p)
        new   == Append(s.at, Last(p))
    IN  CASE s.failed                          -> s
          [] there # {}                        -> [s EXCEPT !.at = CHOOSE q \in there : TRUE]
          [] OpenInRoot(s.t, p) # {} \/ new \in DOMAIN s.t -> [s EXCEPT !.failed = TRUE]
          [] OTHER -> [s EXCEPT !.at = new, !.t = [q \in DOMAIN @ \cup {new} |->
                                                     IF q = new THEN Dir ELSE @[q]]]
CreateDirAllInRoot(t, p) ==
    FoldLeft(LAMBDA s, i : MakeOne(t, s, SubSeq(p, 1, i)), [t |-> t, at |-> <<>>, failed |-> FALSE],
             [i \in 1..Len(p) |-> i])

(* precheck, fhs_init: the init must be a program inside the root, and the root
   an OS tree. *)
FhsInits == <<<<"sbin", "init">>, <<"lib", "init">>>>
OsRelease == {<<"etc", "os-release">>, <<"usr", "os-release">>}
PrecheckInit(t, init) ==
    /\ \E q \in OpenInRoot(t, init) : t[q].kind = "exec"
    /\ \E p \in OsRelease : OpenInRoot(t, p) # {}
FhsInit(t) ==
    LET good == {i \in DOMAIN FhsInits : PrecheckInit(t, FhsInits[i])}
    IN  FhsInits[IF good = {} THEN 1 ELSE Min(good)]

-----------------------------------------------------------------------------
(* decoy_root_of *)
Unmountable == {"zfs", "overlay", "tmpfs", "squashfs", "erofs"}
Refused == [refused |-> TRUE]
DecoyRootOf(m) ==
    IF m.source # "dev" \/ m.fstype \in Unmountable THEN Refused
    ELSE IF m.root = "/" THEN [refused |-> FALSE, data |-> ""]
    ELSE IF m.fstype = "btrfs" /\ m.subvol = m.root THEN [refused |-> FALSE, data |-> m.root]
    ELSE Refused
(* The kernel: what a device shows when it is mounted; btrfs takes subvol= for a
   subvolume only, and without it shows the default subvolume. *)
Shows(m, data) ==
    CASE m.fstype # "btrfs"     -> {"/"}
      [] data = ""              -> {m.default}
      [] data \in m.subvolumes  -> {data}
      [] OTHER                  -> {}

(* set_noexec, remount_bind: the flags are read from statvfs and named again. *)
Named == {"nosuid", "nodev", "noatime", "nodiratime", "relatime"}
SetNoexec(flags, noexec) == (flags \cap (Named \cup {"ro"})) \cup (IF noexec THEN {"noexec"} ELSE {})
RemountBind(flags, ro) == (flags \cap (Named \cup {"noexec"})) \cup (IF ro THEN {"ro"} ELSE {})
(* per_mount_flags, for an option list of mountinfo. *)
PlainMount == {"rw", "ro", "nosuid", "nodev", "noexec", "nodiratime", "nosymfollow"}
Settable(options) == options \subseteq PlainMount \cup {"relatime", "noatime"}
PerMountFlags(options) ==
    (options \cap (PlainMount \ {"rw"}))
    \cup (IF "noatime" \in options THEN {"noatime"}
          ELSE IF "relatime" \in options THEN {"relatime"} ELSE {"strictatime"})
(* The kernel: the options mountinfo shows for flags. *)
ShownOptions(flags) == (flags \ {"strictatime"}) \cup (IF "ro" \in flags THEN {} ELSE {"rw"})

-----------------------------------------------------------------------------
(* The directory made for a mount is inside the root, is reached under its own
   name without a link, and is the one the fstab decision named: what is mounted
   there is what was decided and masked (target_in_nextroot, decide_fstab). *)
PlacesAgree(t, p) ==
    LET made == CreateDirAllInRoot(t, p)
    IN  ~made.failed =>
            /\ OpenDirInRoot(made.t, p) = {made.at} /\ OpenDirInRoot(made.t, made.at) = {made.at}
            /\ \A i \in 1..Len(made.at) : ~IsLink(made.t, SubSeq(made.at, 1, i))
            /\ CanonicalInRoot(t, p) = made.at
            /\ \A q \in DOMAIN t : made.t[q] = t[q]

(* PID 1 can execute the init that is chosen whenever it can execute one of them
   (fhs_init, precheck). *)
InitBoots(t) ==
    (\E i \in DOMAIN FhsInits : PrecheckInit(t, FhsInits[i])) => PrecheckInit(t, FhsInit(t))

(* A decoy root that is accepted shows the same tree when the way back mounts it
   again (decoy_root_of). *)
SameTree(m) ==
    LET d == DecoyRootOf(m) IN ~d.refused => Shows(m, d.data) = {m.root}

(* Flags survive the remounts: /run gets its noexec back with what it had, and a
   carried mount comes back with the options it was recorded with. *)
FlagsKept(flags) ==
    /\ "noexec" \in flags => SetNoexec(SetNoexec(flags, FALSE), TRUE) = flags
    /\ RemountBind(RemountBind(flags, TRUE), "ro" \in flags) = flags
    /\ Settable(ShownOptions(flags)) => PerMountFlags(ShownOptions(flags)) \ {"strictatime"} = flags
=============================================================================
