------------------------------ MODULE Settings -------------------------------
(***************************************************************************)
(* The configuration (nails-base/src/config, nails-core/src/app/config.rs, *)
(* nails-session/src/runtime_copy.rs): where it is looked for, what its    *)
(* paths must be, which of file, copy under /run and built-in defaults a   *)
(* command acts on, and what it tells of where a value came from.          *)
(*                                                                         *)
(* A path is the sequence of its segments, an absolute one starting with   *)
(* "/".  A host e has the running binary (exe), the files that are links,  *)
(* missing or unreadable, whether --config is given, the file it leads to, *)
(* the copy under /run and the command line's flake.                       *)
(***************************************************************************)
EXTENDS Naturals, Sequences, SequencesExt, FiniteSets

Unset == "unset"
Root == <<"/">>
DefaultHiddenVolumeRoot == <<"/", "mnt", "data">>
DefaultSpace == 500
MountOptionSeparators == {"a,b", "a:b"}
Newlines == {"a<newline>b"}

(* Config, with one setting for those that have a plain default.           *)
ConfigKeys == {"hidden_volume_root", "state_file_path", "log_path", "minimum_space_mb", "nixos_flake"}
DerivedKeys == {"hidden_volume_root", "state_file_path", "log_path"}
Settings(root, state, log, space, flake) ==
    [hidden_volume_root |-> root, state_file_path |-> state, log_path |-> log,
     minimum_space_mb |-> space, nixos_flake |-> flake]

(* derive_hidden_volume_root: beside the binary, its links resolved.       *)
DeriveHiddenVolumeRoot(e) ==
    IF ~ e.exe.known \/ e.exe.path = Root THEN DefaultHiddenVolumeRoot ELSE Front(e.exe.path)

DefaultConfig(e) ==
    LET root == DeriveHiddenVolumeRoot(e)
    IN Settings(root, Append(root, "state.json"), Append(root, "logs"), DefaultSpace, Unset)

-----------------------------------------------------------------------------
(* validate_paths *)
DotSegments(path) == \E i \in DOMAIN path : path[i] \in {".", ".."}
Holds(path, segments) == \E i \in DOMAIN path : path[i] \in segments

LexicalProblem(path, use, root) ==
    CASE path = <<>> \/ path[1] # "/" -> "NotAbsolute"
      [] DotSegments(path) -> "NotNormalized"
      [] Holds(path, Newlines) -> "ForbiddenCharacter"
      [] use = "Root" /\ Holds(path, MountOptionSeparators) -> "ForbiddenCharacter"
      [] use = "Hidden" /\ (path = root \/ ~ IsPrefix(root, path)) -> "OutsideHiddenRoot"
      [] OTHER -> "none"

(* The first prefix that is a link, that cannot be looked at, or that is   *)
(* not there (nothing below it is).                                        *)
SymlinkProblem(path, fs) ==
    LET met == {n \in 2 .. Len(path) : SubSeq(path, 1, n) \in fs.links \cup fs.denied \cup fs.missing}
        first == SubSeq(path, 1, CHOOSE n \in met : \A m \in met : n <= m)
    IN CASE met = {} -> "none"
         [] first \in fs.links -> "Symlink"
         [] first \in fs.denied -> "Uninspectable"
         [] OTHER -> "none"

PathProblems(c, fs) ==
    LET root == c.hidden_volume_root
        hidden == {c.state_file_path, c.log_path}
    IN ({IF root = Root THEN "FilesystemRoot" ELSE LexicalProblem(root, "Root", root)}
        \cup {LexicalProblem(p, "Hidden", root) : p \in hidden}
        \cup {SymlinkProblem(p, fs) : p \in hidden \cup {root}}) \ {"none"}

ValidatePaths(c, fs) == PathProblems(c, fs) = {}

-----------------------------------------------------------------------------
(* Loading.  A result is a record with ok, and the configuration when ok.  *)
Failed(why) == [ok |-> FALSE, why |-> why]
Loaded(c, keys, found) == [ok |-> TRUE, config |-> c, keys |-> keys, found |-> found]

Given(f, key, otherwise) == IF key \in f.keys THEN f.values[key] ELSE otherwise

DerivedPath(f, key, root, name) == Given(f, key, Append(root, name))

ParseConfigFile(e, f) ==
    LET root == Given(f, "hidden_volume_root", DeriveHiddenVolumeRoot(e))
        config == Settings(root, DerivedPath(f, "state_file_path", root, "state.json"),
                           DerivedPath(f, "log_path", root, "logs"),
                           Given(f, "minimum_space_mb", DefaultSpace), Given(f, "nixos_flake", Unset))
    IN CASE f.unknownKey \/ root = <<>> -> Failed("ConfigError")
         [] ~ ValidatePaths(config, e.fs) -> Failed("UnsafeConfigPath")
         [] OTHER -> Loaded(config, f.keys, TRUE)

Load(e) ==
    CASE e.file.state = "absent" -> Failed("ConfigNotFound")
      [] e.file.state = "unreadable" -> Failed("IoError")
      [] OTHER -> ParseConfigFile(e, e.file)

LoadOrDefault(e) ==
    LET l == Load(e)
    IN IF ~ l.ok /\ l.why = "ConfigNotFound" THEN Loaded(DefaultConfig(e), {}, FALSE) ELSE l

(* discover_config_path and resolve_config: e.file is the file --config    *)
(* names, or the one beside the binary; only the first must be there.      *)
ResolveConfig(e) == IF e.override THEN Load(e) ELSE LoadOrDefault(e)

LoadConfigOrDefaults(e) ==
    LET r == ResolveConfig(e) IN IF r.ok THEN r ELSE Loaded(DefaultConfig(e), {}, FALSE)

(* read_config_copy, written in full at the entry.                         *)
ReadConfigCopy(e) == IF e.copy.state = "there" THEN {e.copy.config} ELSE {}

\* Mutant: a missing file beside the binary counts as a file.
FileConfigAny(e) == LET r == ResolveConfig(e) IN IF r.ok THEN {r.config} ELSE {}
FileConfig(e) ==
    LET r == ResolveConfig(e) IN IF r.ok /\ (e.override \/ r.found) THEN {r.config} ELSE {}

(* load_config_for_teardown, pick_teardown_config *)
LoadConfigForTeardown(e) ==
    CASE FileConfig(e) # {} -> [config |-> CHOOSE c \in FileConfig(e) : TRUE, source |-> "File"]
      [] FileConfig(e) = {} /\ ReadConfigCopy(e) # {} ->
           [config |-> CHOOSE c \in ReadConfigCopy(e) : TRUE, source |-> "RuntimeCopy"]
      [] OTHER -> [config |-> LoadConfigOrDefaults(e).config, source |-> "Defaults"]

-----------------------------------------------------------------------------
(* LoadedConfig::source and apply_cli_overrides, as config_view shows them *)
Source(l, cli, key) ==
    CASE key \in cli -> "cli" [] key \in l.keys -> "file" [] key \in DerivedKeys -> "derived" [] OTHER -> "default"

OverriddenKeys(e) == IF e.flake = Unset THEN {} ELSE {"nixos_flake"}
ApplyCliOverrides(c, e) == IF e.flake = Unset THEN c ELSE [c EXCEPT !.nixos_flake = e.flake]
ConfigView(e) ==
    LET r == ResolveConfig(e)
    IN IF ~ r.ok THEN {}
       ELSE {[key |-> k, value |-> ApplyCliOverrides(r.config, e)[k],
              source |-> Source(r, OverriddenKeys(e), k)] : k \in ConfigKeys}

-----------------------------------------------------------------------------
(* closest: a typo is near the key it was meant to be.                     *)
Least(S) == CHOOSE x \in S : \A y \in S : x <= y

(* levenshtein, row by row                                                 *)
Levenshtein(a, b) ==
    LET row[i \in 0 .. Len(a)] ==
          IF i = 0 THEN [j \in 0 .. Len(b) |-> j]
          ELSE LET above == row[i - 1]
                   cur[j \in 0 .. Len(b)] ==
                     IF j = 0 THEN i
                     ELSE Least({above[j - 1] + (IF a[i] = b[j] THEN 0 ELSE 1),
                                 above[j] + 1, cur[j - 1] + 1})
               IN [j \in 0 .. Len(b) |-> cur[j]]
    IN row[Len(a)][Len(b)]

Larger(m, n) == IF m < n THEN n ELSE m
Near(a, b) == Levenshtein(a, b) <= Larger(Larger(Len(a), Len(b)) \div 3, 1)

(* The first of the nearest candidates, when one is near enough.           *)
Closest(word, candidates) ==
    LET near == {i \in DOMAIN candidates : Near(word, candidates[i])}
        best == {i \in near : \A j \in near : Levenshtein(word, candidates[i])
                                              <= Levenshtein(word, candidates[j])}
    IN IF near = {} THEN {} ELSE {candidates[Least(best)]}

(* One insertion, deletion or substitution, over an alphabet.              *)
Edits(w, letters) ==
    {RemoveAt(w, i) : i \in DOMAIN w}
    \cup {InsertAt(w, i, c) : i \in 1 .. Len(w) + 1, c \in letters}
    \cup {ReplaceAt(w, i, c) : i \in DOMAIN w, c \in letters}

-----------------------------------------------------------------------------
(* A configuration read from a file keeps the state file and the logs      *)
(* strictly below a hidden root that is not /, and none of the three is    *)
(* reached through a link, whichever of them the file leaves out           *)
(* (parse_config_file, validate_paths).                                    *)
AcceptedIsSafe(e) ==
    LET r == ResolveConfig(e)
    IN r.ok /\ r.found =>
         /\ r.config.hidden_volume_root # Root
         /\ \A p \in {r.config.state_file_path, r.config.log_path} :
              /\ IsStrictPrefix(r.config.hidden_volume_root, p)
              /\ \A n \in DOMAIN p : SubSeq(p, 1, n) \notin e.fs.links

(* A teardown acts on the root the session was entered with, from whatever *)
(* binary it runs and whatever became of the file on the volume, as long   *)
(* as the copy under /run is there and no readable file says otherwise     *)
(* ("must outrank defaults", pick_teardown_config).                        *)
TeardownReaches(e) ==
    LET t == LoadConfigForTeardown(e)
        entered == e.copy.config.hidden_volume_root
        says == Given(e.file, "hidden_volume_root", DeriveHiddenVolumeRoot(e))
    IN e.copy.state = "there" /\ (e.file.state = "there" => says = entered)
         => t.config.hidden_volume_root = entered

(* What config show says of a value is where the value came from: the      *)
(* command line's, the file's, one that follows from another, or the       *)
(* built-in one (LoadedConfig::source).                                    *)
SourceTrue(e) ==
    \A v \in ConfigView(e) :
      CASE v.source = "cli" -> v.value = e.flake
        [] v.source = "file" -> v.value = e.file.values[v.key]
        [] v.source = "default" -> v.value = DefaultConfig(e)[v.key]
        [] OTHER -> v.key = "hidden_volume_root" => v.value = DeriveHiddenVolumeRoot(e)

(* A key one edit away from a known key is always answered with a known    *)
(* key that is as near, and the row-by-row distance never calls two edits  *)
(* one (closest, levenshtein).                                             *)
OneEditSuggested(t) ==
    LET one == {i \in DOMAIN t.known : t.word \in Edits(t.known[i], t.letters)}
    IN /\ one # {} =>
            \E s \in Closest(t.word, t.known) : s = t.word \/ t.word \in Edits(s, t.letters)
       /\ \A i \in DOMAIN t.known :
            Levenshtein(t.word, t.known[i]) = 1 => t.word = t.known[i] \/ i \in one

-----------------------------------------------------------------------------
(***************************************************************************)
(* The account nails acts for (nails-base/src/target_user.rs), resolved    *)
(* from the environment snapshot (runtime_env/mod.rs), and the alert that  *)
(* runs as that account (notification/mod.rs).                             *)
(*                                                                         *)
(* A host h has env, the variables set and what each value reads as: a     *)
(* uid, a name, or "junk" (not a number, or blank); passwd, the uid each   *)
(* account name has; and what loginctl says of seat0 within its budget:    *)
(* session, whether it names an active one, and its owner.                 *)
(***************************************************************************)
UidEnvSources == <<"NAILS_TARGET_UID", "SUDO_UID", "PKEXEC_UID", "DOAS_UID">>
NameEnvSources == <<"NAILS_TARGET_USER", "SUDO_USER", "DOAS_USER">>

(* RuntimeEnv::lookup, and what the passwd database makes of the value:    *)
(* the names of the accounts meant, none or one.                           *)
ByUid(h, uid) == {n \in DOMAIN h.passwd : h.passwd[n] = uid}
NamedByUid(h, key) == IF key \in DOMAIN h.env THEN ByUid(h, h.env[key]) ELSE {}
NamedByName(h, key) == {h.env[k] : k \in DOMAIN h.env \cap {key}} \cap DOMAIN h.passwd

(* seat0_active_uid: two calls of loginctl, the second for the session the *)
(* first one named; the owner may be unreadable.                           *)
Seat0ActiveUid(h) == IF h.session THEN h.owner ELSE {}

(* resolve_from: the first source that means an account                    *)
Sources(h) ==
    SelectSeq([i \in DOMAIN UidEnvSources |-> NamedByUid(h, UidEnvSources[i])]
              \o [i \in DOMAIN NameEnvSources |-> NamedByName(h, NameEnvSources[i])]
              \o <<UNION {ByUid(h, uid) : uid \in Seat0ActiveUid(h)}>>,
              LAMBDA meant : meant # {})
ResolveWith(h) == IF Sources(h) = <<>> THEN {} ELSE Sources(h)[1]

-----------------------------------------------------------------------------
(* send_immediate and deliver.  A tool is "shows", "fails" or "missing".   *)
(* The alert runs as the operator, on the bus of /run/user/<uid>; what is  *)
(* started is recorded with the account and the bus it is given.           *)
Command(h, tool, who) == [tool |-> tool, as |-> h.passwd[who], bus |-> h.passwd[who]]

Tries(h) == IF h.notifySend = "missing" THEN <<"notify-send", "busctl">> ELSE <<"notify-send">>

SendImmediate(h) ==
    IF ResolveWith(h) = {} THEN <<>>
    ELSE LET who == CHOOSE n \in ResolveWith(h) : TRUE
         IN [i \in DOMAIN Tries(h) |-> Command(h, Tries(h)[i], who)]

(* The alerts that may be on the screen: notify-send may fail, or be cut   *)
(* off by its budget, after the daemon showed the notification.            *)
Shown(h) ==
    {c \in Range(SendImmediate(h)) :
       IF c.tool = "notify-send" THEN h.notifySend # "missing" ELSE h.busctl = "shows"}

-----------------------------------------------------------------------------
(* One alert, no more: it runs as one account, on that account's own bus,  *)
(* an account some source names, and is shown once at most (deliver).      *)
AlertOnce(h) ==
    /\ Cardinality(Shown(h)) <= 1
    /\ \A c \in Range(SendImmediate(h)) :
         c.as = c.bus /\ \E n \in DOMAIN h.passwd : h.passwd[n] = c.as

(* In the session's service, where no escalation variable is set or the    *)
(* ones set mean nobody, the alert goes to whoever sits at seat0           *)
(* (resolve_from).                                                         *)
SeatAlerted(h) ==
    (/\ \E n \in DOMAIN h.passwd : h.passwd[n] \in Seat0ActiveUid(h)
     /\ \A k \in DOMAIN h.env : h.env[k] = "junk")
       => SendImmediate(h) # <<>> /\ \A c \in Range(SendImmediate(h)) : c.as \in Seat0ActiveUid(h)
=============================================================================
