-------------------------------- MODULE Persona --------------------------------
(***************************************************************************)
(* What of the decoy account lives on in the hidden session                *)
(* (nails-session/src/persona, session/persona.rs,                         *)
(* nails-base/src/config/persona.rs): the autostart entries, user units    *)
(* and logins the session inherits, the masks that stop them, and the      *)
(* fresh home that covers the decoy's.                                     *)
(*                                                                         *)
(* A name is the sequence of its parts.  A world w says for each autostart *)
(* directory which entries it has ("shown" or "hidden"), which units the   *)
(* .wants directories name, who is logged in by itself, and the persona    *)
(* table of the configuration.                                             *)
(***************************************************************************)
EXTENDS Naturals, Sequences, FiniteSets

CONSTANT MaxHomes    \* entries tried

ASSUME PersonaAssumption == MaxHomes \in Nat

-----------------------------------------------------------------------------
(* classify.rs, with a part for each spelling that matters                 *)
TraceWriters == {"dropbox"}
DesktopComponents == {[whole |-> FALSE, name |-> <<"gnome-">>], [whole |-> TRUE, name |-> <<"nm-applet">>]}
UnitSuffixes == {".service", ".timer"}
LowerPart(part) == IF part = "Dropbox" THEN "dropbox" ELSE part

UnitStem(name) ==
    IF Len(name) > 1 /\ name[Len(name)] \in UnitSuffixes THEN SubSeq(name, 1, Len(name) - 1) ELSE name
IsUnitName(name) == UnitStem(name) # name
IsTraceWriter(name) == \E i \in DOMAIN name : LowerPart(name[i]) \in TraceWriters
IsDesktopComponent(name) ==
    \E c \in DesktopComponents :
      IF c.whole THEN name = c.name \/ UnitStem(name) = c.name ELSE c.name \in {SubSeq(name, 1, i) : i \in DOMAIN name}

(* PersonaEntry::new *)
Autostart == {"UserAutostart", "GlobalAutostart"}
Maskable == Autostart \cup {"UserUnit", "GlobalUnit"}
Entry(name, source) ==
    [name |-> name, source |-> source, remote |-> IsTraceWriter(name),
     desktop |-> source \in {"GlobalAutostart", "GlobalUnit"} /\ IsDesktopComponent(name)]

-----------------------------------------------------------------------------
(* autostart.rs: the first directory that has an entry decides for it.     *)
InHome == {"config", "nix-profile", "nix-state"}
SearchPath(w) ==
    IF w.nixos THEN <<"config", "etc", "nix-profile", "nix-state", "per-user", "default", "system">>
    ELSE <<"config", "etc">>

Winner(dirs, w, name) ==
    LET has == {i \in DOMAIN dirs : w.at[dirs[i]][name] # "none"}
    IN IF has = {} THEN {} ELSE {dirs[CHOOSE i \in has : \A j \in has : i <= j]}

CollectAutostart(w) ==
    LET dirs == SelectSeq(SearchPath(w), LAMBDA d : ~ (w.fresh /\ d \in InHome))
    IN {Entry(p[1], IF p[2] \in InHome THEN "UserAutostart" ELSE "GlobalAutostart") :
          p \in {q \in w.names \X DOMAIN w.at :
                  q[2] \in Winner(dirs, w, q[1]) /\ w.at[q[2]][q[1]] = "shown"}}

(* inventory.rs *)
CollectWants(units, source) == {Entry(u, source) : u \in units}

(* gdm: the first file that enables it; sddm and lightdm: the first name.  *)
GdmAutologin(files) ==
    LET on == {i \in DOMAIN files : files[i].enabled}
    IN IF on = {} THEN {} ELSE {files[CHOOSE i \in on : \A j \in on : i <= j].login}
ConfDLogin(logins) ==
    LET named == {i \in DOMAIN logins : logins[i] # ""}
    IN IF named = {} THEN {} ELSE {logins[CHOOSE i \in named : \A j \in named : i <= j]}

CollectAutologin(w) ==
    {Entry(<<IF l = "" THEN w.user ELSE l>>, "Autologin") :
       l \in GdmAutologin(w.gdm) \cup ConfDLogin(w.sddm) \cup ConfDLogin(w.lightdm)}

CollectInheritedPersona(w) ==
    CollectAutostart(w)
    \cup (IF w.fresh THEN {} ELSE CollectWants(w.wants["home"], "UserUnit"))
    \cup CollectWants(w.wants["etc"], "GlobalUnit")
    \cup (IF w.linger THEN {Entry(<<w.user>>, "Linger")} ELSE {})
    \cup CollectAutologin(w)

-----------------------------------------------------------------------------
(* review.rs and the persona table.  An entry name is one file name.       *)
IsEntryName(name) == name \notin {<<>>, <<".">>, <<"..">>} /\ \A i \in DOMAIN name : name[i] # "/"
MasksInherited(w, name) == w.maskAll \/ name \in w.mask

Status(w, entry) ==
    CASE entry.source \in Maskable /\ MasksInherited(w, entry.name) -> "Masked"
      [] entry.desktop /\ ~ entry.remote -> "Ignored"
      [] OTHER -> "Review"

UnmatchedMasks(w) ==
    {n \in w.mask : IsEntryName(n)
                    /\ ~ \E e \in CollectInheritedPersona(w) : e.source \in Maskable /\ e.name = n}

MaskTargets(w) ==
    {[name |-> e.name, kind |-> IF e.source \in Autostart THEN "Autostart" ELSE "Unit"] :
       e \in {x \in CollectInheritedPersona(w) : x.source \in Maskable /\ MasksInherited(w, x.name)}}
    \cup {[name |-> n, kind |-> IF IsUnitName(n) THEN "Unit" ELSE "Autostart"] : n \in UnmatchedMasks(w)}

(* write_masks: an override in ~/.config/autostart, a /dev/null link in    *)
(* ~/.config/systemd/user.  A mask that cannot be written is skipped with  *)
(* a warning, all of them where the home cannot be opened; what was there  *)
(* may be unlinked by then.                                                *)
MaskNames(targets, kind) == {t.name : t \in {t \in targets : t.kind = kind}}
WriteMasks(w, skipped, unlinked) ==
    LET written == MaskTargets(w) \ skipped
        autostart(n) == IF n \in MaskNames(written, "Autostart") THEN "hidden"
                        ELSE IF n \in MaskNames(unlinked, "Autostart") THEN "none" ELSE w.at["config"][n]
    IN [w EXCEPT !.at["config"] = [n \in w.names |-> autostart(n)],
                 !.null = (@ \ MaskNames(unlinked, "Unit")) \cup MaskNames(written, "Unit")]

(* What the session starts: the XDG rule over every directory, and the     *)
(* wanted units that are not masked.                                       *)
SessionAutostarts(w) ==
    {n \in w.names : \E d \in Winner(SearchPath(w), w, n) : w.at[d][n] = "shown"}
SessionUnits(w) == UNION {w.wants[d] : d \in DOMAIN w.wants} \ w.null

-----------------------------------------------------------------------------
(* A name the operator masks is not started by the session they enter,     *)
(* wherever it comes from and whatever earlier entries left in the home,   *)
(* unless its own mask was skipped with a warning; "*" stops all that the  *)
(* inventory lists ("a directory the inventory does not read never drops a *)
(* requested mask", session/persona.rs).                                   *)
MaskedNeverStarts(w) ==
    \A skipped \in SUBSET MaskTargets(w) : \A unlinked \in SUBSET skipped :
        LET next == WriteMasks(w, skipped, unlinked)
            listed(sources) == {e.name : e \in {e \in CollectInheritedPersona(w) : e.source \in sources}}
            all(sources) == w.mask \cup (IF w.maskAll THEN listed(sources) ELSE {})
        IN /\ SessionAutostarts(next) \cap all(Autostart) \subseteq MaskNames(skipped, "Autostart")
           /\ SessionUnits(next) \cap all(Maskable \ Autostart) \subseteq MaskNames(skipped, "Unit")

(* Whoever a display manager logs in, whoever lingers, and every inherited *)
(* program that syncs and is not masked, is told for review, or its mask   *)
(* was skipped with a warning (status, collect_inherited_persona).         *)
InheritedTold(w) ==
    LET told == {e \in CollectInheritedPersona(w) : Status(w, e) = "Review"}
        logsIn(s) == IF s = <<>> THEN {} ELSE {s[Len(s)]} \ {""}
    IN /\ \A skipped \in SUBSET MaskTargets(w) : \A n \in w.names :
            IsTraceWriter(n) /\ ~ w.fresh /\ n \in SessionAutostarts(WriteMasks(w, skipped, {}))
              => n \in MaskNames(skipped, "Autostart") \/ \E e \in told : e.name = n
       /\ logsIn(w.sddm) \cup logsIn(w.lightdm) # {} \/ (\E i \in DOMAIN w.gdm : w.gdm[i].enabled)
            => \E e \in told : e.source = "Autologin"
       /\ w.linger => \E e \in told : e.source = "Linger"

-----------------------------------------------------------------------------
VARIABLES
    upperHome,  \* the operator's home in the upper
    homeMode,   \* persona.mode in the configuration
    homeStep,   \* "decoy", "made" (in prepare_fresh_home), "session"
    homes,      \* entries tried
    leftPlain   \* history: a plain home was left by a shared session or a broken entry

homeVars == <<upperHome, homeMode, homeStep, homes, leftPlain>>

PersonaTypeOK ==
    /\ upperHome \in {"absent", "plain", "opaque"} /\ homeMode \in {"shared", "fresh"}
    /\ homeStep \in {"decoy", "made", "session"} /\ homes \in 0 .. MaxHomes /\ leftPlain \in BOOLEAN

PersonaInit ==
    /\ upperHome = "absent" /\ homeMode \in {"shared", "fresh"} /\ homeStep = "decoy"
    /\ homes = 0 /\ leftPlain = FALSE

(* prepare_fresh_home makes the directory, gives it the decoy's mode and   *)
(* owner, and marks it opaque; a home that is there is left as it is.      *)
EnterHome ==
    /\ homeStep = "decoy" /\ homes < MaxHomes /\ homes' = homes + 1
    /\ IF homeMode = "fresh" /\ upperHome = "absent"
       THEN upperHome' = "plain" /\ homeStep' = "made"
       ELSE homeStep' = "session" /\ UNCHANGED upperHome
    /\ UNCHANGED <<homeMode, leftPlain>>

\* Mutant: the directory stays when it cannot be marked.
MarkOpaqueKeeps ==
    /\ homeStep = "made"
    /\ \/ upperHome' = "opaque" /\ homeStep' = "session"
       \/ homeStep' = "decoy" /\ UNCHANGED upperHome
    /\ UNCHANGED <<homeMode, homes, leftPlain>>

(* A mark that cannot be set takes the directory away again.  When its     *)
(* mode or owner cannot be set, or the process ends here, it stays.        *)
MarkOpaque ==
    /\ homeStep = "made"
    /\ \/ upperHome' = "opaque" /\ homeStep' = "session" /\ UNCHANGED leftPlain
       \/ upperHome' = "absent" /\ homeStep' = "decoy" /\ UNCHANGED leftPlain
       \/ homeStep' = "decoy" /\ leftPlain' = TRUE /\ UNCHANGED upperHome
    /\ UNCHANGED <<homeMode, homes>>

(* The session writes below the home: the directory is copied up.          *)
WriteHome ==
    /\ homeStep = "session" /\ upperHome = "absent"
    /\ upperHome' = "plain" /\ leftPlain' = TRUE /\ UNCHANGED <<homeMode, homeStep, homes>>

LeaveHome ==
    homeStep = "session" /\ homeStep' = "decoy" /\ UNCHANGED <<upperHome, homeMode, homes, leftPlain>>

(* reset-upper / empties the root's upper.                                 *)
ResetHome ==
    /\ homeStep = "decoy" /\ upperHome # "absent"
    /\ upperHome' = "absent" /\ leftPlain' = FALSE /\ UNCHANGED <<homeMode, homeStep, homes>>

SwitchMode ==
    /\ homeStep = "decoy" /\ homeMode' = (IF homeMode = "fresh" THEN "shared" ELSE "fresh")
    /\ UNCHANGED <<upperHome, homeStep, homes, leftPlain>>

PersonaNext == EnterHome \/ MarkOpaque \/ WriteHome \/ LeaveHome \/ ResetHome \/ SwitchMode
PersonaSpec == PersonaInit /\ [][PersonaNext]_homeVars

(* A session entered with fresh-home has an opaque home in the upper,      *)
(* unless a shared session or an entry that broke off left a plain one     *)
(* there (prepare_fresh_home).                                             *)
FreshUnlessLeft == homeStep = "session" /\ homeMode = "fresh" /\ ~ leftPlain => upperHome = "opaque"

=============================================================================
