------------------------------- MODULE NixScan -------------------------------
(***************************************************************************)
(* The search of the decoy's /etc/nixos for the hidden volume's names      *)
(* (nails-platform/src/nixos/config/verify): the scanner that follows a    *)
(* .nix file line by line, in code and in comments, the reading of         *)
(* cryptsetup commands over continued lines, and which layers of the       *)
(* storage count.  A line is its indentation (past a comment marker) and   *)
(* its tokens: "q" and "ii" are the two string quotes.                     *)
(***************************************************************************)
EXTENDS Naturals, Sequences, SequencesExt, FiniteSets

Punctuation == {"{", "}", "[", "]", ";", "=", ".", "q", "ii", "${", "#", "/*", "*/", "*", "\\", "(", ")"}
IsWord(tok) == tok \notin Punctuation
No == <<>>

(* Attrs, Frame: one open bracket or string, and the column of its line. *)
Frame(kind, path, at) ==
    [kind |-> kind, path |-> path, at |-> at, value |-> No, valueIndent |-> 0, withs |-> 0,
     listValue |-> FALSE, inList |-> FALSE, binding |-> FALSE, elements |-> FALSE]
Bottom == <<Frame("attrs", <<>>, 0)>>
Deep == 99                              \* usize::MAX: an interpolation in a string

IsValue(f) == f.kind \in {"attrs", "list"} /\ f.path # <<>>
IsString(f) == f.kind \in {"string", "indented"}
Top(stack) == IF stack = <<>> THEN Frame("none", <<>>, 0) ELSE Last(stack)
OnTop(stack, f) == [stack EXCEPT ![Len(stack)] = f]
ExpectsAttribute(stack) == Top(stack).kind = "attrs" /\ Top(stack).value = No
BlockPath(stack) ==
    CASE Top(stack).kind = "attrs" /\ Top(stack).value # No -> Top(stack).value[1]
      [] Top(stack).kind = "list" -> Top(stack).path
      [] OTHER -> <<>>

(* names_entry, value_names: where a path's next component, or its value,  *)
(* names a mapping or a label.                                             *)
NamesEntry(path) ==
    Len(path) >= 2 /\ Last(path) = "devices" /\ path[Len(path) - 1] \in {"luks", "clevis"}
ValueNames(full, inList) ==
    LET parent == Front(full)
    IN  CASE Last(full) = "label" /\ parent # <<>> /\ Last(parent) = "encrypted" -> "mapping"
          [] Last(full) = "label" /\ \E c \in ToSet(parent) : c \in {"filesystems", "swapdevices"} -> "label"
          [] Last(full) = "name" /\ ((inList /\ NamesEntry(parent))
                                     \/ (parent # <<>> /\ NamesEntry(Front(parent)))) -> "mapping"
          [] OTHER -> "none"

(* component, attribute_path: words joined by dots, each bare or quoted.   *)
TokenAt(toks, i) == IF i \in DOMAIN toks THEN toks[i] ELSE "end"
Component(toks, i) ==
    IF TokenAt(toks, i) = "q" /\ TokenAt(toks, i + 2) = "q" THEN <<toks[i + 1], i + 3>>
    ELSE IF TokenAt(toks, i) # "end" /\ IsWord(toks[i]) THEN <<toks[i], i + 1>> ELSE No
RECURSIVE AttributePath(_, _)
Joined(c, rest) ==
    IF rest = No THEN [parts |-> <<c[1]>>, end |-> c[2]]
    ELSE [parts |-> <<c[1]>> \o rest.parts, end |-> rest.end]
PathFrom(toks, c) ==
    IF c = No THEN No
    ELSE Joined(c, IF TokenAt(toks, c[2]) = "." THEN AttributePath(toks, c[2] + 1) ELSE No)
AttributePath(toks, i) == PathFrom(toks, Component(toks, i))

Found(kind, text) == [kind |-> kind, text |-> text]

(* Stack::definition: what the definition that starts at token i names, the *)
(* stack in its value, and where its value starts; No when it is none.      *)
Entries(top) == ~ (top.inList /\ NamesEntry(top.path))
EndOf(toks, i) ==
    CHOOSE e \in i .. Len(toks) + 1 :
        TokenAt(toks, e) \in {";", "end"} /\ \A k \in i .. e - 1 : toks[k] # ";"
Inherits(stack, toks, i, end) ==
    [stack |-> stack, next |-> end,
     names |-> {Found("mapping", toks[k]) :
                  k \in {k \in i + 1 .. end - 1 : /\ IsWord(toks[k]) /\ Entries(Top(stack))
                                                  /\ NamesEntry(Top(stack).path)}}]
Valued(kind, toks, v) ==
    IF kind # "none" /\ TokenAt(toks, v) = "q" /\ TokenAt(toks, v + 2) = "q"
    THEN {Found(kind, toks[v + 1])} ELSE {}
Bound(stack, top, toks, full, v, indent) ==
    [stack |-> OnTop(stack, [top EXCEPT !.value = <<full>>, !.valueIndent = indent, !.withs = 0,
                                        !.listValue = TokenAt(toks, v) = "["]),
     next |-> v,
     names |-> {Found("mapping", full[k]) :
                  k \in {k \in Len(top.path) + 1 .. Len(full) :
                           Entries(top) /\ NamesEntry(SubSeq(full, 1, k - 1))}}
               \cup Valued(ValueNames(full, top.inList), toks, v)]
Binds(stack, top, toks, path, indent) ==
    IF path = No THEN No
    ELSE IF TokenAt(toks, path.end) # "=" THEN No
    ELSE Bound(stack, top, toks, top.path \o path.parts, path.end + 1, indent)
Definition(stack, toks, i, indent) ==
    CASE Top(stack).kind # "attrs" -> No
      [] Top(stack).kind = "attrs" /\ TokenAt(toks, i) = "inherit" -> Inherits(stack, toks, i, EndOf(toks, i))
      [] OTHER -> Binds(stack, Top(stack), toks, AttributePath(toks, i), indent)

(* Stack::close: the innermost bracket of its kind and all opened in it,   *)
(* unless a string or an interpolation is between.                         *)
Close(stack, kinds) ==
    LET able == {at \in 2 .. Len(stack) :
                   /\ stack[at].kind \in kinds
                   /\ \A k \in at + 1 .. Len(stack) :
                        stack[k].kind \notin kinds /\ ~ IsString(stack[k]) /\ stack[k].kind # "interpolation"}
    IN  IF able = {} THEN stack ELSE SubSeq(stack, 1, (CHOOSE at \in able : TRUE) - 1)

Punct(stack, tok, indent) ==
    LET top == Top(stack)
    IN  CASE tok = "${" -> Append(stack, Frame("interpolation", <<>>, indent))
          [] tok = "ii" -> Append(stack, Frame("indented", <<>>, indent))
          [] tok = "q" -> Append(stack, Frame("string", <<>>, indent))
          [] tok = "{" -> Append(stack, [Frame("attrs", BlockPath(stack), indent) EXCEPT
                                            !.inList = top.kind = "list" /\ top.elements])
          [] tok = "[" -> Append(stack, [Frame("list", BlockPath(stack), indent) EXCEPT
                                            !.elements = top.kind = "attrs" /\ top.listValue /\ top.value # No])
          [] tok = "]" -> Close(stack, {"list"})
          [] tok = "}" -> Close(stack, {"attrs", "interpolation"})
          [] tok = ";" /\ top.kind = "attrs" ->
               OnTop(stack, IF top.withs > 0 THEN [top EXCEPT !.withs = @ - 1] ELSE [top EXCEPT !.value = No])
          [] OTHER -> stack

Keyword(stack, word, indent) ==
    LET top == Top(stack)
    IN  CASE word = "let" -> Append(stack, [Frame("attrs", <<>>, indent) EXCEPT !.binding = TRUE])
          [] word = "in" /\ top.kind = "attrs" /\ top.binding -> Front(stack)
          [] word = "with" /\ top.kind = "attrs" /\ top.value # No -> OnTop(stack, [top EXCEPT !.withs = @ + 1])
          [] OTHER -> stack

InString(stack, tok) ==
    CASE tok = "${" -> Append(stack, Frame("interpolation", <<>>, Deep))
      [] tok = "ii" /\ Top(stack).kind = "indented" -> Front(stack)
      [] tok = "q" /\ Top(stack).kind = "string" -> Front(stack)
      [] OTHER -> stack

-----------------------------------------------------------------------------
(* Scanner: the stack of the code, and the copy a comment is read on. *)
Fresh == [code |-> Bottom, comment |-> No, block |-> FALSE]
Copy(s, trailing) == <<[stack |-> s.code, base |-> Len(s.code), trailing |-> trailing]>>

\* Mutant: a comment line closes nothing an earlier one opened.
RecoverNever(c, indent) == c
RECURSIVE Recover(_, _)
Recover(c, indent) ==
    LET top == Top(c.stack)
    IN  IF Len(c.stack) > c.base /\ (top.at > indent \/ (top.at = indent /\ ~ IsValue(top)))
        THEN Recover([c EXCEPT !.stack = Front(@)], indent)
        ELSE IF top.kind = "attrs" /\ top.value # No /\ top.valueIndent >= indent
        THEN [c EXCEPT !.stack = OnTop(@, [top EXCEPT !.value = No, !.withs = 0])]
        ELSE c

EndStrings(c) ==
    LET at == {k \in c.base + 1 .. Len(c.stack) : IsString(c.stack[k])}
    IN  IF at = {} THEN c
        ELSE [c EXCEPT !.stack = SubSeq(@, 1, (CHOOSE k \in at : \A j \in at : k <= j) - 1)]

StackOfText(s, inComment) == IF s.comment # No /\ inComment THEN s.comment[1].stack ELSE s.code
SetStack(s, inComment, stack) ==
    IF s.comment # No /\ inComment THEN [s EXCEPT !.comment[1].stack = stack] ELSE [s EXCEPT !.code = stack]

(* Scanner::tokens: c is the scanner's state at token c.at, whether it is  *)
(* in a comment, whether an attribute may start here, and what was named.  *)
Cursor(s, at, inComment, attribute, names) ==
    [s |-> s, at |-> at, inComment |-> inComment, attribute |-> attribute, names |-> names]
Begin(s, tok) == [s EXCEPT !.block = tok = "/*", !.comment = IF @ = No THEN Copy(s, TRUE) ELSE @]
Live(c) == IF c.inComment THEN c.s ELSE [c.s EXCEPT !.comment = No]
ReadsNext(tok, after) == tok \in {"let", "{"} \/ (tok = ";" /\ ExpectsAttribute(after))
Defined(c, def) ==
    Cursor(SetStack(Live(c), c.inComment, def.stack), def.next, c.inComment, FALSE, c.names \cup def.names)
Moved(c, tok, after) ==
    Cursor(SetStack(Live(c), c.inComment, after), c.at + 1, c.inComment, ReadsNext(tok, after), c.names)
Plain(c, line, tok, stack, def) ==
    IF def # No THEN Defined(c, def)
    ELSE Moved(c, tok, IF IsWord(tok) THEN Keyword(stack, tok, line.indent) ELSE Punct(stack, tok, line.indent))
BeginComment(c, s) ==
    Cursor(s, c.at + 1, TRUE,
           IF c.at = 1 THEN ExpectsAttribute(s.comment[1].stack) ELSE c.attribute, c.names)
Step(c, line, tok, stack) ==
    IF IsString(Top(stack))
    THEN [c EXCEPT !.s = SetStack(c.s, c.inComment, InString(stack, tok)), !.at = @ + 1]
    ELSE IF ~ c.inComment /\ tok \in {"#", "/*"} THEN BeginComment(c, Begin(c.s, tok))
    ELSE IF c.inComment /\ c.s.block /\ tok = "*/"
    THEN Cursor([c.s EXCEPT !.block = FALSE], c.at + 1, FALSE, ExpectsAttribute(c.s.code), c.names)
    ELSE IF c.attribute /\ c.inComment /\ tok \in {"#", "*"} THEN [c EXCEPT !.s = Live(c), !.at = @ + 1]
    ELSE Plain(c, line, tok, stack, IF c.attribute THEN Definition(stack, line.toks, c.at, line.indent) ELSE No)
RECURSIVE Tokens(_, _)
Tokens(c, line) ==
    IF c.at > Len(line.toks) THEN c
    ELSE Tokens(Step(c, line, line.toks[c.at], StackOfText(c.s, c.inComment)), line)

(* Scanner::line *)
HasText(line) == \E k \in DOMAIN line.toks : line.toks[k] \notin {"#", "*", "/*", "*/"}
FirstText(line) ==
    line.toks[CHOOSE k \in DOMAIN line.toks :
                /\ line.toks[k] \notin {"#", "*", "/*", "*/"}
                /\ \A j \in 1 .. k - 1 : line.toks[j] \in {"#", "*", "/*", "*/"}]
Commented(s, line) ==
    s.block \/ (~ IsString(Top(s.code)) /\ line.toks # <<>> /\ line.toks[1] \in {"#", "/*"})
Opens(line) == HasText(line) /\ FirstText(line) \notin {"}", "]"}
CommentOf(s) == IF s.comment = No THEN Copy(s, FALSE)[1] ELSE [s.comment[1] EXCEPT !.trailing = FALSE]
LineStart(s, line, c) ==
    IF Commented(s, line)
    THEN [s EXCEPT !.comment = <<IF Opens(line) THEN Recover(c, line.indent) ELSE c>>] ELSE s
LineEnd(s) ==
    CASE s.comment = No -> s
      [] s.comment # No /\ s.comment[1].trailing /\ ~ s.block -> [s EXCEPT !.comment = No]
      [] OTHER -> [s EXCEPT !.comment = <<EndStrings(@[1])>>]
ScanTokens(s, line, inComment) ==
    Tokens(Cursor(s, 1, inComment, ExpectsAttribute(StackOfText(s, inComment)), {}), line)
Scanned(c) == [names |-> c.names, state |-> LineEnd(c.s)]
ScanLine(s, line) == Scanned(ScanTokens(LineStart(s, line, CommentOf(s)), line, s.block))

RECURSIVE ScanFrom(_, _)
ScanOn(r, rest) == <<r.names>> \o ScanFrom(r.state, rest)
ScanFrom(s, lines) ==
    IF lines = <<>> THEN <<>>
    ELSE ScanOn(ScanLine(s, Head(lines)), Tail(lines))
Scan(lines) == ScanFrom(Fresh, lines)

IsComment(line) == line.toks # <<>> /\ line.toks[1] = "#"
InComment(line) == [indent |-> line.indent + 2, toks |-> <<"#">> \o line.toks]

(* A comment never changes how the code after it is read (scan.rs, lines   *)
(* 16-18): the lines of code name the same with and without the comment    *)
(* lines between them.                                                     *)
CommentsApart(lines) ==
    LET all == Scan(lines)
        codeLines == SelectSeq([k \in DOMAIN lines |-> k], LAMBDA k : ~ IsComment(lines[k]))
    IN  [k \in DOMAIN codeLines |-> all[codeLines[k]]]
          = Scan([k \in DOMAIN codeLines |-> lines[codeLines[k]]])

RECURSIVE After(_, _)
After(s, lines) == IF lines = <<>> THEN s ELSE After(ScanLine(s, Head(lines)).state, Tail(lines))

(* A block commented out line by line names an entry as plainly as the     *)
(* live one (scan.rs, lines 15-16): when its lines are indented at least   *)
(* as deep as its first and it closes what it opens, each line names in    *)
(* the comment what it names live, whatever prose stands in a comment      *)
(* above it.                                                               *)
CommentedOutNamed(prose, lines) ==
    (/\ After(Fresh, lines) = Fresh
     /\ \A k \in DOMAIN lines : lines[k].indent >= lines[1].indent) =>
    Tail(Scan(<<prose>> \o [k \in DOMAIN lines |-> InComment(lines[k])]))
      = Scan(lines)

-----------------------------------------------------------------------------
(* nix_text.rs, Shell: the words of a line that are arguments of a         *)
(* cryptsetup command whose verb names a mapping.                          *)
MappingVerbs == {"open", "close", "status"}
Ends == {";", "|", "&", "#"}

(* The span of arguments runs from the verb to the end of the command; a   *)
(* second verb without an end between starts it anew.                      *)
RECURSIVE Words(_, _, _, _)
Words(toks, command, span, found) ==
    IF toks = <<>> THEN [command |-> command, found |-> IF span = No THEN found ELSE found \o span[1]]
    ELSE LET w == Head(toks)
             taken == IF span = No \/ w = "\\" THEN span ELSE <<Append(span[1], w)>>
         IN  IF w \in Ends
             THEN Words(Tail(toks), "none", No, IF span = No THEN found ELSE found \o span[1])
             ELSE IF w = "cryptsetup" THEN Words(Tail(toks), "cryptsetup", taken, found)
             ELSE IF command = "cryptsetup" /\ w \in MappingVerbs
             THEN Words(Tail(toks), "arguments", <<<<>>>>, found)
             ELSE Words(Tail(toks), command, taken, found)

ShellLine(carried, toks) ==
    LET r == Words(toks, carried, IF carried = "arguments" THEN <<<<>>>> ELSE No, <<>>)
    IN  [carried |-> IF toks # <<>> /\ Last(toks) = "\\" THEN r.command ELSE "none", found |-> r.found]

RECURSIVE ShellLines(_, _)
ShellLines(carried, lines) ==
    IF lines = <<>> THEN <<>>
    ELSE LET r == ShellLine(carried, Head(lines)) IN r.found \o ShellLines(r.carried, Tail(lines))

(* A command continued with a backslash names its mapping as it does on    *)
(* one line (mapping_name: "continued lines included").                    *)
ContinuedSame(command, cut) ==
    Cardinality({k \in DOMAIN command : command[k] = "cryptsetup"}) <= 1 =>
    ShellLines("none", <<Append(SubSeq(command, 1, cut), "\\"), SubSeq(command, cut + 1, Len(command))>>)
      = ShellLines("none", <<command>>)

-----------------------------------------------------------------------------
(* storage.rs: below - the layers in the order of the walk; one counts     *)
(* while all that is built on it counts.                                   *)
Alone(layers, own, k) ==
    k = 1 \/ (layers[k].holders # {} /\ layers[k].holders \subseteq own)
RECURSIVE OwnFrom(_, _, _)
OwnFrom(layers, own, k) ==
    IF k > Len(layers) THEN own
    ELSE OwnFrom(layers, IF Alone(layers, own, k) THEN own \cup {layers[k].name} ELSE own, k + 1)
Below(layers) == OwnFrom(layers, {}, 1)

(* The walk (blockdev::stack): breadth first from the top, each device once. *)
RECURSIVE Walk(_, _, _)
Walk(slaves, pending, seen) ==
    IF pending = <<>> THEN seen
    ELSE IF Head(pending) \in ToSet(seen) THEN Walk(slaves, Tail(pending), seen)
    ELSE Walk(slaves, Tail(pending) \o slaves[Head(pending)], Append(seen, Head(pending)))
LayersOf(slaves, top) ==
    LET w == Walk(slaves, <<top>>, <<>>)
    IN  [k \in DOMAIN w |-> [name |-> w[k],
                             holders |-> {d \in DOMAIN slaves : w[k] \in ToSet(slaves[d])}]]

(* Whatever the walk's order, a device counts as the hidden volume's only  *)
(* if nothing that lies outside the volume's stack is built on it,         *)
(* directly or through other layers: the decoy's own disk is never taken   *)
(* for a trace in its configuration (storage.rs, below).                   *)
RECURSIVE Users(_, _, _)
Users(slaves, found, n) ==
    LET more == found \cup {d \in DOMAIN slaves : \E f \in found : f \in ToSet(slaves[d])}
    IN  IF n = 0 \/ more = found THEN found ELSE Users(slaves, more, n - 1)
NeverTheDecoys(slaves, top) ==
    LET stack == LayersOf(slaves, top)
        reached == {stack[k].name : k \in DOMAIN stack}
        all == Cardinality(DOMAIN slaves)
    IN  \A d \in Below(stack) :
          Users(slaves, {d}, all) \subseteq reached \cup Users(slaves, {top}, all)

-----------------------------------------------------------------------------
(***************************************************************************)
(* What in the decoy's /etc/nixos names the hidden volume                  *)
(* (nails-platform/src/nixos/config/verify): the markers made from the     *)
(* mount table, sysfs and udev, and how a line is matched against them.    *)
(* NixScan models the scanner that finds names in nested blocks.  A line   *)
(* is a sequence of tokens; the texts a marker is made of are tokens of    *)
(* their own, every other byte stands for its class.                       *)
(***************************************************************************)
Name == "data"                          \* the mapping's name
Nothing == "edge"                       \* before the first byte, after the last

EntryPrefixes == {"luks.devices.", "clevis.devices."}
MarkWords == {Name, "w", "none", "nails"}
FirstByte(t) == IF t \in MarkWords \cup EntryPrefixes \cup {"uuid=", "cryptsetup@"} THEN "w" ELSE t
LastByte(t) == CASE t \in MarkWords -> "w"
                 [] t \in EntryPrefixes -> "."
                 [] t = "cryptsetup@" -> "@"
                 [] OTHER -> t
ContinuesFileName(byte) == byte \in {"w", ".", "@"}
IsIdentifier(byte) == byte = "w"
Quotes == {"dq", "sq"}                  \* a double quote; the two quotes of an indented string
Blanks == {" ", "tab"}                  \* "tab" is also the escape a string writes it with

Before(line, i) == IF i = 1 THEN Nothing ELSE line[i - 1]
Following(line, i) == IF i > Len(line) THEN Nothing ELSE line[i]

(* find_where: where the needle stands between accepted bytes. *)
FindWhere(line, needle, Accept(_, _)) ==
    {i \in 1 .. Len(line) - Len(needle) + 1 :
        /\ SubSeq(line, i, i + Len(needle) - 1) = needle
        /\ Accept(LastByte(Before(line, i)), FirstByte(Following(line, i + Len(needle))))}

WholePath(before, after) == ~ ContinuesFileName(before) /\ ~ ContinuesFileName(after)
Bounded(before, after) == ~ IsIdentifier(before) /\ ~ IsIdentifier(after)
EndOfName(before, after) == ~ IsIdentifier(after)

-----------------------------------------------------------------------------
(* mapping_name *)
(* luks_entry: the entry's attribute, quoted or not. *)
LuksEntry(line) ==
    {i \in 1 .. Len(line) :
        /\ line[i] = Name
        /\ \/ Before(line, i) \in EntryPrefixes /\ ~ IsIdentifier(FirstByte(Following(line, i + 1)))
           \/ /\ i > 2 /\ line[i - 1] = "dq" /\ line[i - 2] \in EntryPrefixes
              /\ Following(line, i + 1) = "dq"}

(* A word among the arguments of a cryptsetup command (NixScan's spans). *)
Arguments(line, spans) ==
    {i \in FindWhere(line, <<Name>>, Bounded) :
        i \in spans /\ Before(line, i) # "/" /\ Following(line, i + 1) # "/"}

Instance(line) == {i + 1 : i \in FindWhere(line, <<"cryptsetup@", Name>>, EndOfName)}

(* crypttab_line: at the start of the line or of a string, past blanks,    *)
(* comment signs and quotes, the name, a gap, and a device; a plain file   *)
(* counts as one when a key field follows.                                 *)
CrypttabStarts(line) == {1} \cup {i + 1 : i \in {k \in 1 .. Len(line) : line[k] \in Quotes}}
Skipped == Blanks \cup Quotes \cup {"#", "*", "/*"}
RECURSIVE PastLead(_, _)
PastLead(line, i) == IF Following(line, i) \in Skipped THEN PastLead(line, i + 1) ELSE i
RECURSIVE FieldGap(_, _)
FieldGap(line, i) == IF Following(line, i) \in Blanks THEN FieldGap(line, i + 1) ELSE i

Devices == {"/dev/", "uuid="}
FileDevice(line, i) ==
    /\ Following(line, i) = "/"
    /\ LET ends == {k \in i + 1 .. Len(line) : line[k] \in Blanks}
       IN ends # {} /\ LET key == FieldGap(line, Min(ends)) IN
             \/ Following(line, key) = "none" /\ Following(line, key + 1) \in Blanks \cup Quotes \cup {Nothing}
             \/ Following(line, key) \in {"/", "/dev/"}

Crypttab(line) ==
    {i \in {PastLead(line, s) : s \in CrypttabStarts(line)} :
        /\ Following(line, i) = Name
        /\ LET device == FieldGap(line, i + 1) IN
           device > i + 1 /\ (Following(line, device) \in Devices \/ FileDevice(line, device))}

MappingName(line, spans) ==
    LuksEntry(line) \cup Arguments(line, spans) \cup Instance(line) \cup Crypttab(line)

(* A path marker. *)
DevicePath == <<"/dev/mapper/", Name>>
NamesDevice(line) == FindWhere(line, DevicePath, WholePath) # {}

-----------------------------------------------------------------------------
(* A crypttab entry is found in every dress a decoy's file can give it:    *)
(* commented out, indented, in a string that begins anywhere on the line,  *)
(* with blanks or tabs between the fields (crypttab_line).                 *)
Entry(device, key) == CASE device = "file" -> <<"/", "w", " ", key>>
                        [] OTHER -> <<device, "w", "tab", key>>
Dressed(before, lead, gap, device, key) == before \o lead \o <<Name, gap>> \o Entry(device, key)
EntryFound(before, lead, gap, device, key) ==
    MappingName(Dressed(before, lead, gap, device, key), {}) # {}

(* And a line that only uses the name as a word, as a directory, as part   *)
(* of another name or of another mapping's crypttab entry passes: a hit is *)
(* bounded, and has what makes it a mapping next to it                     *)
(* (verify_base_config_clean, "Ordinary configuration passes").            *)
Makes(line, i) ==
    \/ Before(line, i) \in EntryPrefixes \cup {"cryptsetup@"}
    \/ Before(line, i) = "dq" /\ i > 2 /\ line[i - 2] \in EntryPrefixes
    \/ /\ \A k \in 1 .. i - 1 : line[k] \in Skipped \/ \E q \in k .. i - 1 : line[q] \in Quotes
       /\ Following(line, i + 1) \in Blanks
       /\ \E k \in i + 2 .. Len(line) :
            \/ line[k] \in Devices /\ \A j \in i + 1 .. k - 1 : line[j] \in Blanks
            \/ /\ line[k] \in {"none", "/", "/dev/"} /\ line[k - 1] \in Blanks
               /\ \E f \in i + 2 .. k - 2 : line[f] = "/" /\ line[f - 1] \in Blanks
OrdinaryPasses(line) ==
    \A i \in MappingName(line, {}) : ~ IsIdentifier(FirstByte(Following(line, i + 1))) /\ Makes(line, i)

(* The device counts as a whole path only: /dev/mapper/data2 is another    *)
(* device, and /dev/mapper/data in quotes, in a list or before a slash is  *)
(* this one.                                                               *)
Separators == Blanks \cup Quotes \cup {"/", "#", ";", "/*", "/dev/", "/dev/mapper/"}
DeviceWhole(line) ==
    NamesDevice(line) <=>
        \E i \in 1 .. Len(line) - 1 :
            /\ line[i] = "/dev/mapper/" /\ line[i + 1] = Name
            /\ i = 1 \/ line[i - 1] \in Separators \cup {"uuid="}
            /\ i + 2 > Len(line) \/ line[i + 2] \in Separators

-----------------------------------------------------------------------------
(* storage.rs: the identifiers of one layer, from sysfs, from udev's       *)
(* record and from the links under /dev/disk.                              *)
Layer == [kind : {"crypt", "loop", "disk"}, record : SUBSET {"uuid", "label", "partuuid", "links"},
          disk : SUBSET {"by-uuid", "by-label", "by-partuuid", "by-id"}]

FromSysfs(l) == CASE l.kind = "crypt" -> {<<"path", "dm-uuid">>, <<"text", "luks-uuid">>}
                  [] l.kind = "loop" -> {<<"path", "image">>}
                  [] OTHER -> {<<"path", "node">>, <<"text", "partuuid">>}
FromRecord(l) == (IF "links" \in l.record THEN {<<"path", "link">>} ELSE {})
                 \cup {<<"text", u>> : u \in l.record \cap {"uuid", "partuuid"}}
                 \cup {<<"tag", u>> : u \in l.record \cap {"label"}}
Kinds == ("by-uuid" :> <<"text", "uuid">>) @@ ("by-partuuid" :> <<"text", "partuuid">>)
         @@ ("by-label" :> <<"tag", "label">>)
FromDisk(l) == {<<"path", "link">> : d \in l.disk} \cup {Kinds[d] : d \in l.disk \cap DOMAIN Kinds}
Marked(l) == FromSysfs(l) \cup FromRecord(l) \cup FromDisk(l)

(* Either source suffices: an identifier udev recorded or linked is a      *)
(* marker, whatever the other source lost (add_udev_names).                *)
EitherSource(l) ==
    \A u \in {"uuid", "label", "partuuid"} :
        u \in l.record \/ (\E d \in l.disk \cap DOMAIN Kinds : Kinds[d][2] = u)
            => \E how \in {"text", "tag"} : <<how, u>> \in Marked(l)

-----------------------------------------------------------------------------
(* neutralize_swap_in_hardware_config, line by line.  A line has the kind  *)
(* of text it begins with, and the brackets it holds in order.             *)
HwLine(kind, opens, inner, closes) == [kind |-> kind, opens |-> opens, inner |-> inner, closes |-> closes]
EmptyList(l) == l.opens /\ l.closes /\ ~ l.inner

Neutralize(lines) ==
    LET inBlock[i \in 0 .. Len(lines)] ==
            IF i = 0 THEN FALSE
            ELSE IF inBlock[i - 1] THEN ~ lines[i].closes
            ELSE lines[i].kind = "swapDevices" /\ ~ EmptyList(lines[i]) /\ ~ lines[i].closes
    IN [i \in 1 .. Len(lines) |->
          \/ inBlock[i - 1]
          \/ lines[i].kind = "swapDevices" /\ ~ EmptyList(lines[i])
          \/ lines[i].kind = "resumeDevice"]

(* What the lines of one definition are: from the line that begins it to   *)
(* the line whose last bracket brings the depth back to zero.  In the text *)
(* nixos-generate-config writes no element of swapDevices holds a list.    *)
ListDepth(lines, i) ==
    LET d[k \in 0 .. i] == IF k = 0 THEN 0 ELSE
            d[k - 1] + (IF lines[k].opens THEN 1 ELSE 0) - (IF lines[k].closes THEN 1 ELSE 0)
    IN d[i]
DefinedBy(lines, i) ==
    LET begins == {k \in 1 .. i : ListDepth(lines, k - 1) = 0}
    IN CHOOSE k \in begins : \A j \in begins : j <= k
Swapping(lines, i) ==
    LET l == lines[DefinedBy(lines, i)] IN
    (l.kind = "swapDevices" /\ ~ EmptyList(l)) \/ l.kind = "resumeDevice"

(* Exactly the lines that define swap or a resume device are commented     *)
(* out: none stays active, and nothing else is lost ("valid Nix stays      *)
(* valid").                                                                *)
SwapOnlyOut(lines) ==
    \A i \in 1 .. Len(lines) : Neutralize(lines)[i] <=> Swapping(lines, i)

-----------------------------------------------------------------------------
(* strip_nix_comments over bytes, and the search for the import marker     *)
(* "m" in what is left.                                                    *)
StripComments(text) ==
    LET n == Len(text)
        At2(i, a, b) == i < n /\ text[i] = a /\ text[i + 1] = b
        S[i \in 1 .. n + 1] ==      \* the state before byte i; "open" skips the star, "shut" the slash
            IF i = 1 THEN "code"
            ELSE CASE S[i - 1] = "open" -> "block"
                   [] S[i - 1] = "block" -> IF At2(i - 1, "*", "/") THEN "shut" ELSE "block"
                   [] S[i - 1] = "line" -> IF text[i - 1] = "nl" THEN "code" ELSE "line"
                   [] S[i - 1] = "shut" -> "code"
                   [] OTHER -> IF At2(i - 1, "/", "*") THEN "open"
                               ELSE IF text[i - 1] = "#" THEN "line" ELSE "code"
    IN {i \in 1 .. n : S[i] = "code" /\ ~ At2(i, "/", "*") /\ text[i] # "#"}

ContainsNailsImport(text) == \E i \in StripComments(text) : text[i] = "m"

(* Nix's own rule: a comment runs from its opener to the first closer      *)
(* after it, and an opener inside a comment opens nothing.                 *)
NixComments(text) ==
    LET n == Len(text)
        BlockEnd(i) == LET e == {k \in i + 2 .. n - 1 : text[k] = "*" /\ text[k + 1] = "/"}
                       IN IF e = {} THEN n ELSE (CHOOSE k \in e : \A j \in e : k <= j) + 1
        HashEnd(i) == LET e == {k \in i .. n : text[k] = "nl"}
                      IN IF e = {} THEN n ELSE CHOOSE k \in e : \A j \in e : k <= j
        CommentEnd(i) == IF text[i] = "#" THEN HashEnd(i) ELSE BlockEnd(i)
        Opener(i) == text[i] = "#" \/ (i < n /\ text[i] = "/" /\ text[i + 1] = "*")
        Real[i \in 1 .. n] == Opener(i) /\ \A j \in 1 .. i - 1 : Real[j] => CommentEnd(j) < i
    IN UNION {i .. CommentEnd(i) : i \in {k \in 1 .. n : Real[k]}}

(* The check accepts a hardware configuration exactly when the import is   *)
(* active, not when it stands in a comment.                                *)
ImportActive(text) ==
    ContainsNailsImport(text) <=> \E i \in 1 .. Len(text) \ NixComments(text) : text[i] = "m"
=============================================================================
