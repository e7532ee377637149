------------------------------- MODULE Oracle --------------------------------
(***************************************************************************)
(* The forensic oracle (nails-oracle): it compares what three tools find   *)
(* on disk images taken before a hidden session, after a control cycle     *)
(* without one, and after the session, and says whether the session left a *)
(* trace.                                                                  *)
(*                                                                         *)
(* A path is the sequence of its characters; a bulk_extractor feature type *)
(* is a path that does not start with "/".  A finding is a tool, a path    *)
(* and a field; a locator's tool or field "any" is one it does not name.   *)
(***************************************************************************)
EXTENDS Naturals, Sequences, SequencesExt, FiniteSets, Integers, FiniteSetsExt

Slash == "/"
Absolute(path) == path # <<>> /\ path[1] = Slash
SystemRoots == {<<"n">>}
Globs == {"*", "?"}

(* The non-empty segments of a path                                        *)
Segments(path) ==
    LET Cut(done, c) ==
          IF c = Slash THEN Append(done, <<>>) ELSE Append(Front(done), Append(Last(done), c))
    IN SelectSeq(FoldLeft(Cut, <<<<>>>>, path), LAMBDA s : s # <<>>)

TrimEnd(path) ==
    LET kept == {n \in 0 .. Len(path) : \A i \in n + 1 .. Len(path) : path[i] = Slash}
    IN SubSeq(path, 1, CHOOSE n \in kept : \A m \in kept : n <= m)

PathCovers(pat, p) ==
    \/ pat = p
    \/ /\ Absolute(pat) /\ Absolute(p)
       /\ LET t == TrimEnd(pat) IN IsStrictPrefix(t, p) /\ p[Len(t) + 1] = Slash

(* locator_matches *)
LocatorMatches(l, f, subtree) ==
    /\ l.tool \in {"any", f.tool}
    /\ IF subtree THEN PathCovers(l.path, f.path) ELSE l.path = f.path
    /\ l.field \in {"any", f.field}

TooBroad(path) ==
    \/ path = <<>> \/ (\E i \in DOMAIN path : path[i] \in Globs)
    \/ /\ Absolute(path)
       /\ LET s == Segments(path)
          IN Len(s) < 2 \/ (Len(s) < 3 /\ s[1] \in SystemRoots)

-----------------------------------------------------------------------------
(* entry_reject_reason: "reject", or how far an entry's path reaches.      *)
Coverage(e, catalog) ==
    CASE e.cite = "" -> "reject"
      [] ~ Absolute(e.path) /\ e.field \in {"any", ""} -> "reject"
      [] TooBroad(e.path) -> "reject"
      [] e.cite \in catalog.hashed -> IF e.cite \in catalog.anchors THEN "Leaf" ELSE "reject"
      [] e.cite \notin DOMAIN catalog.rows -> "reject"
      [] ~ Absolute(e.path) \/ catalog.rows[e.cite] = {} -> "Leaf"
      [] \E c \in catalog.rows[e.cite] : PathCovers(c, e.path) -> "Subtree"
      [] OTHER -> "reject"

ValidAllow(o) == {e \in o.allow : Coverage(e, o.catalog) # "reject"}
EntryCovers(e, catalog, f) ==
    LocatorMatches([tool |-> "any", path |-> e.path, field |-> e.field], f,
                   Coverage(e, catalog) = "Subtree")

(* validate_self_checks: a control names one value at one place.           *)
SelfCheckOk(c) == ~ TooBroad(c.path) /\ c.field \notin {"any", ""}
SelfChecks(o) == {c \in o.controls \cup {o.canary} : SelfCheckOk(c)}
IsSelfCheck(o, f) == \E c \in SelfChecks(o) : LocatorMatches(c, f, FALSE)

(* compute_residue *)
Residue(o) == (o.after \ o.before) \ o.control

Unexplained(o) ==
    {f \in Residue(o) : ~ IsSelfCheck(o, f) /\ ~ \E e \in ValidAllow(o) : EntryCovers(e, o.catalog, f)}

Detected(o, c) == \E f \in o.after : LocatorMatches(c, f, FALSE)

Failures(o) ==
    Unexplained(o) \cup (o.allow \ ValidAllow(o))
    \cup {c \in o.controls : ~ SelfCheckOk(c) \/ ~ Detected(o, c)}
    \cup {c \in {o.canary} : ~ SelfCheckOk(c) \/ ~ Detected(o, c)}

Verdict(o) == IF Failures(o) = {} /\ o.controls # {} THEN "Clean" ELSE "Fail"

-----------------------------------------------------------------------------
(* scan.rs.  A tool's output for an image may be missing: then it finds    *)
(* nothing.  A journal entry is its reporter and a body whose ids and      *)
(* numbers are put out of sight, so that two boots look the same.          *)
HexIdLength == 8
Digits == {"0", "1"}
HexLetters == {"a", "b"}

NormalRun(run) ==
    LET digit == \E i \in DOMAIN run : run[i] \in Digits
        letter == \E i \in DOMAIN run : run[i] \in HexLetters
    IN CASE Len(run) >= HexIdLength /\ digit /\ letter -> <<"X">>
         [] digit /\ ~ letter -> <<"N">>
         [] OTHER -> run

(* normalize_journal_body: maximal runs of hex digits, the rest as it is.  *)
NormalizeJournalBody(body) ==
    LET Read(t, c) ==                    \* the text so far and the open run
          IF c \in Digits \cup HexLetters THEN [t EXCEPT !.run = Append(@, c)]
          ELSE [done |-> t.done \o NormalRun(t.run) \o <<c>>, run |-> <<>>]
        end == FoldLeft(Read, [done |-> <<>>, run |-> <<>>], body)
    IN end.done \o NormalRun(end.run)

IsJournalFile(path) == IsStrictPrefix(<<Slash, "j", Slash>>, path)

(* plaso_finding: none, one for the journal line, or one for the file.     *)
(* <<>> is a body or a path the event does not have.                       *)
PlasoFinding(event) ==
    IF event.dataType = "journal"
    THEN {[tool |-> "Plaso", path |-> <<"j">>, field |-> <<event.reporter, NormalizeJournalBody(b)>>]
            : b \in {event.body} \ {<<>>}}
    ELSE {[tool |-> "Plaso", path |-> p, field |-> event.dataType]
            : p \in {q \in {event.path} \ {<<>>} : ~ IsJournalFile(q)}}

(* scan_image: the files btrfs-restore recovered, the features of          *)
(* bulk_extractor that are values and not carved objects, and the events   *)
(* of plaso's timeline.  What a tool did not write adds nothing.           *)
ScanImage(image) ==
    {[tool |-> "BtrfsRestore", path |-> p, field |-> ""]
       : p \in {q \in image.restore : ~ IsJournalFile(q)}}
    \cup {[tool |-> "BulkExtractor", path |-> t.type, field |-> t.value]
            : t \in {u \in image.features : ~ u.carved /\ u.value # ""}}
    \cup UNION {PlasoFinding(event) : event \in image.timeline}

-----------------------------------------------------------------------------
(* Component by component: /var/lib/nix covers what is below it and never  *)
(* /var/lib/nixos, with or without slashes at its end (path_covers).       *)
CoversByComponent(i) ==
    PathCovers(i.pat, i.path)
      <=> i.pat = i.path \/ IsStrictPrefix(Segments(i.pat), Segments(i.path))

(* A clean verdict means that whatever the session added and a control     *)
(* cycle did not is a planted self-check or lies where the cited catalogue *)
(* row's channel is, that no entry excuses a whole top-level tree, and     *)
(* that the planted artifacts were seen ("a broken allowlist never yields  *)
(* a clean verdict", verdict.rs).                                          *)
CleanMeans(o) ==
    Verdict(o) = "Clean" =>
      /\ \A f \in (o.after \ o.before) \ o.control :
           \/ \E c \in o.controls \cup {o.canary} : c.path = f.path /\ c.field = f.field
           \/ \E e \in o.allow :
                \/ e.path = f.path /\ e.field \in {"any", f.field}
                   /\ e.cite \in o.catalog.anchors \cup DOMAIN o.catalog.rows
                \/ /\ e.cite \in DOMAIN o.catalog.rows /\ Absolute(e.path)
                   /\ \E c \in o.catalog.rows[e.cite] :
                        IsPrefix(Segments(c), Segments(e.path))
                   /\ IsPrefix(Segments(e.path), Segments(f.path))
      /\ \A e \in o.allow : Absolute(e.path) =>
           LET s == Segments(e.path) IN Len(s) >= 2 /\ (s[1] \in SystemRoots => Len(s) >= 3)
      /\ \E c \in o.controls : \E f \in o.after : c.path = f.path /\ c.field = f.field
      /\ \E f \in o.after : o.canary.path = f.path /\ o.canary.field = f.field

(* Two boots that log the same line with other numbers and other ids give  *)
(* one finding, and different words give two (normalize_journal_body).     *)
BootsLookAlike(i) ==
    LET Image(line, fill) ==
          [restore |-> {}, features |-> {},
           timeline |-> {[dataType |-> "journal", path |-> <<>>, reporter |-> "r",
                          body |-> FlattenSeq([k \in DOMAIN line |-> fill[line[k]]])]}]
    IN (ScanImage(Image(i.line, i.first)) = ScanImage(Image(i.other, i.second)))
         <=> i.line = i.other

-----------------------------------------------------------------------------
(***************************************************************************)
(* The raw search for a token (nails-forensics/src/forensic/scan.rs,       *)
(* raw.rs): a device or a sparse image is read window by window, the tail  *)
(* of a window carried into the next, for the token's bytes in two         *)
(* encodings.  Offsets are from 0; a byte is a number, 0 in a hole.        *)
(***************************************************************************)
Zero == 0
Utf16Le(token) == FlattenSeq([i \in 1 .. Len(token) |-> <<token[i], Zero>>])
Needles(token) == <<token, Utf16Le(token)>>
Longest(token) == Max({Len(Needles(token)[i]) : i \in 1 .. 2})

(* RawSource::data_extents: an image's stretches of data, as <<start, end>> *)
(* in order; a block device is one stretch.                                 *)
DataExtents(s) == IF s.block THEN (IF Len(s.bytes) = 0 THEN <<>> ELSE <<<<0, Len(s.bytes)>>>>) ELSE s.extents

(* widened: each stretch reaches into the holes at its ends. *)
Widened(extents, reach, size) ==
    FoldLeft(LAMBDA out, e :
                LET start == Max({0, e[1] - reach})
                    end == Min({e[2] + reach, size}) IN
                IF out # <<>> /\ start <= Last(out)[2]
                THEN [out EXCEPT ![Len(out)] = <<@[1], Max({@[2], end})>>]
                ELSE Append(out, <<start, end>>),
             <<>>, extents)

Matches(bytes, at, needle) ==
    at + Len(needle) <= Len(bytes) /\ SubSeq(bytes, at + 1, at + Len(needle)) = needle

(* search: find_iter takes matches from the left that do not overlap; one  *)
(* that lies in the carried bytes was found before.                        *)
RECURSIVE FindIter(_, _, _)
FindIter(bytes, from, needle) ==
    LET at == {i \in from .. Len(bytes) : Matches(bytes, i, needle)} IN
    IF at = {} THEN <<>> ELSE <<Min(at)>> \o FindIter(bytes, Min(at) + Len(needle), needle)

Search(window, base, carried, needle) ==
    {base + f : f \in {g \in ToSet(FindIter(window, 0, needle)) : g + Len(needle) > carried}}

(* scan.  A step reads one window of one extent; state is what is carried. *)
Reads(r, left, want) == IF r.limit = 0 THEN want ELSE Min({want, left})
RECURSIVE ScanFrom(_, _, _, _, _)
ScanFrom(r, extents, position, carried, out) ==
    IF extents = <<>> THEN out
    ELSE LET end == Head(extents)[2]
             left == r.limit - out.scanned IN
         IF position >= end
         THEN IF Len(extents) = 1 THEN out
              ELSE ScanFrom(r, Tail(extents), extents[2][1], 0, out)
         ELSE IF r.limit # 0 /\ left <= 0 THEN [out EXCEPT !.limited = TRUE]
         ELSE LET read == Reads(r, left, Min({end - position, r.window}))
                  window == SubSeq(r.source.bytes, position - carried + 1, position + read)
                  found(n) == Search(window, position - carried, carried, Needles(r.token)[n])
                  keep == Min({Longest(r.token) - 1, Len(window)}) IN
              ScanFrom(r, extents, position + read, keep,
                       [out EXCEPT !.scanned = @ + read,
                                   !.hits = @ \cup UNION {found(n) \X {n} : n \in 1 .. 2}])

TokenWindow(token, bytes) == Max({bytes, 2 * Longest(token)})
ScanToken(r) ==
    LET extents == Widened(DataExtents(r.source), Longest(r.token) - 1, Len(r.source.bytes)) IN
    ScanFrom([r EXCEPT !.window = TokenWindow(r.token, @)], extents,
             IF extents = <<>> THEN 0 ELSE extents[1][1], 0,
             [hits |-> {}, scanned |-> 0, limited |-> FALSE])

SumLengths(extents) == FoldLeft(LAMBDA sum, e : sum + e[2] - e[1], 0, extents)

(* A scan finds the token wherever it is: across two windows, at the edge  *)
(* of a hole with its last byte in it, in either encoding; and it says so  *)
(* when a limit kept it from reading all (a token that does not overlap    *)
(* itself).                                                                *)
TokenFound(r) ==
    LET out == ScanToken(r)
        extents == Widened(DataExtents(r.source), Longest(r.token) - 1, Len(r.source.bytes)) IN
    /\ out.limited <=> r.limit # 0 /\ r.limit < SumLengths(extents)
    /\ ~ out.limited =>
         out.hits = {<<at, n>> \in (0 .. Len(r.source.bytes)) \X (1 .. 2) :
                        Matches(r.source.bytes, at, Needles(r.token)[n])}
=============================================================================
