--------------------------------- MODULE Setup ---------------------------------
(***************************************************************************)
(* What prepares and prunes the hidden volume from the decoy: nails init   *)
(* (nails-core/src/app/init.rs) and nails reset-upper                      *)
(* (manager/state_management.rs, app/discard_upper.rs).                    *)
(*                                                                         *)
(* init is a machine: it plans, then writes one item after the other, and  *)
(* may fail or be killed anywhere and be run again, while the operator     *)
(* edits the configuration and other commands record their state.          *)
(***************************************************************************)
EXTENDS Naturals, Sequences, FiniteSets

CONSTANT MaxInits       \* runs of nails init

ASSUME SetupAssumption == MaxInits \in Nat

VARIABLES
    dirs,       \* each directory of the layout: "none", "open", "private" or "file"
    confFile,   \* config/config: "none", "template", "operator" or "dir"
    stateItem,  \* state.json: "none", "default", "recorded" or "dir"
    nixosLayer, \* the hidden NixOS configuration is staged
    lockHeld,   \* who holds the state lock: "nobody", "init" or "other"
    initStep,   \* what init is about to do
    bootstrap,  \* this init stages a hidden NixOS configuration
    inits,      \* runs begun
    finished    \* the last run reported success, and nothing was touched since

setupVars == <<dirs, confFile, stateItem, nixosLayer, lockHeld, initStep, bootstrap, inits, finished>>

\* COMMON_SUBDIRS, then NIXOS_SUBDIRS
LayoutSubdirs == <<"logs", "config", "root", "root/work", "config/nixos">>
LayoutLen(nixos) == IF nixos THEN 5 ELSE 4
LayoutDirs(nixos) == {LayoutSubdirs[i] : i \in 1 .. LayoutLen(nixos)}
Subdirs == LayoutDirs(TRUE)

AtDir(i) == <<"dir", i>>
AtMode(i) == <<"mode", i>>
AtStep(step) == <<step, 0>>
Steps == {AtStep(s) : s \in {"idle", "config", "template", "lock", "save", "nixos"}}
         \cup {AtDir(i) : i \in 1 .. 5} \cup {AtMode(i) : i \in 1 .. 5}

SetupTypeOK ==
    /\ dirs \in [Subdirs -> {"none", "open", "private", "file"}]
    /\ confFile \in {"none", "template", "operator", "dir"}
    /\ stateItem \in {"none", "default", "recorded", "dir"}
    /\ nixosLayer \in BOOLEAN /\ bootstrap \in BOOLEAN /\ finished \in BOOLEAN
    /\ lockHeld \in {"nobody", "init", "other"}
    /\ initStep \in Steps /\ inits \in 0 .. MaxInits

(* A volume that is empty, or holds something else where the layout goes.  *)
SetupInit ==
    /\ \E obstacle \in {"nothing", "logs", "config/nixos"} :
         dirs = [d \in Subdirs |-> IF d = obstacle THEN "file" ELSE "none"]
    /\ confFile \in {"none", "dir"} /\ stateItem \in {"none", "dir"}
    /\ nixosLayer = FALSE /\ bootstrap = FALSE /\ finished = FALSE
    /\ lockHeld = "nobody" /\ initStep = AtStep("idle") /\ inits = 0

VolumeItems == <<dirs, confFile, stateItem, nixosLayer>>

-----------------------------------------------------------------------------
(* obstructions: what apply could not write over                           *)
Obstructions(nixos) ==
    {d \in LayoutDirs(nixos) : dirs[d] = "file"}
    \cup {f \in {confFile, stateItem} : f = "dir"}

(* plan and resolve_bootstrap: the NixOS layer comes with a hardware file  *)
(* the operator names or the host's profile; every refusal writes nothing. *)
PlanInit ==
    /\ initStep = AtStep("idle") /\ inits < MaxInits
    /\ inits' = inits + 1 /\ finished' = FALSE
    /\ \E nixos \in BOOLEAN :
         /\ bootstrap' = nixos
         /\ \/ Obstructions(nixos) = {} /\ initStep' = AtDir(1)
            \/ UNCHANGED initStep        \* obstructed, not separate, not writable, no hardware file
    /\ UNCHANGED <<VolumeItems, lockHeld>>

(* apply: create what is missing, and set the mode of what was there too.  *)
CurrentDir == LayoutSubdirs[initStep[2]]
PastDir == IF initStep[2] < LayoutLen(bootstrap) THEN AtDir(initStep[2] + 1) ELSE AtStep("config")

MakeDir ==
    /\ initStep[1] = "dir" /\ dirs[CurrentDir] # "file"
    /\ dirs' = [dirs EXCEPT ![CurrentDir] = IF @ = "none" THEN "open" ELSE @]
    /\ initStep' = AtMode(initStep[2])
    /\ UNCHANGED <<confFile, stateItem, nixosLayer, lockHeld, bootstrap, inits, finished>>

SetMode ==
    /\ initStep[1] = "mode"
    /\ dirs' = [dirs EXCEPT ![CurrentDir] = "private"]
    /\ initStep' = PastDir
    /\ UNCHANGED <<confFile, stateItem, nixosLayer, lockHeld, bootstrap, inits, finished>>

(* The look for a configuration takes no lock, and the template written    *)
(* after it is renamed over whatever came to be there in between; the mode *)
(* set on it is hidden by the one of config/.                              *)
LookConfig ==
    /\ initStep = AtStep("config")
    /\ initStep' = IF confFile = "none" THEN AtStep("template") ELSE AtStep("lock")
    /\ UNCHANGED <<VolumeItems, lockHeld, bootstrap, inits, finished>>

WriteTemplate ==
    /\ initStep = AtStep("template") /\ confFile # "dir"
    /\ confFile' = "template" /\ initStep' = AtStep("lock")
    /\ UNCHANGED <<dirs, stateItem, nixosLayer, lockHeld, bootstrap, inits, finished>>

(* write_state_file: under the lock, and only when there is none.  The     *)
(* lock is let go with the function.                                       *)
\* Mutant: the look comes before the lock.
LookUnderLockBefore ==
    /\ initStep = AtStep("lock") /\ stateItem # "dir"
    /\ initStep' = IF stateItem = "none" THEN AtStep("save") ELSE AtStep("nixos")
    /\ UNCHANGED <<VolumeItems, lockHeld, bootstrap, inits, finished>>
LookUnderLock ==
    /\ initStep = AtStep("lock") /\ lockHeld = "nobody" /\ stateItem # "dir"
    /\ IF stateItem = "none" THEN initStep' = AtStep("save") /\ lockHeld' = "init"
       ELSE initStep' = AtStep("nixos") /\ UNCHANGED lockHeld
    /\ UNCHANGED <<VolumeItems, bootstrap, inits, finished>>

SaveState ==
    /\ initStep = AtStep("save")
    /\ stateItem' = "default" /\ lockHeld' = (IF lockHeld = "init" THEN "nobody" ELSE lockHeld)
    /\ initStep' = AtStep("nixos")
    /\ UNCHANGED <<dirs, confFile, nixosLayer, bootstrap, inits, finished>>

(* stage_hidden_config_symlink and ensure_hidden_hardware_configuration    *)
(* (HiddenConfig has their steps), then the report.                        *)
StageNixos ==
    /\ initStep = AtStep("nixos")
    /\ nixosLayer' = (nixosLayer \/ bootstrap)
    /\ initStep' = AtStep("idle") /\ finished' = TRUE
    /\ UNCHANGED <<dirs, confFile, stateItem, lockHeld, bootstrap, inits>>

(* A call fails, the lock is taken, or the command is killed.              *)
StopInit ==
    /\ initStep # AtStep("idle")
    /\ initStep' = AtStep("idle")
    /\ lockHeld' = IF lockHeld = "init" THEN "nobody" ELSE lockHeld
    /\ UNCHANGED <<VolumeItems, bootstrap, inits, finished>>

-----------------------------------------------------------------------------
(* Others: between two runs the operator clears an obstacle; at any time   *)
(* they write the configuration, and another command takes the lock and    *)
(* records the state of the session.                                       *)
EditConfig ==
    /\ confFile \in {"none", "template"} /\ dirs["config"] \in {"open", "private"}
    /\ confFile' = "operator"
    /\ UNCHANGED <<dirs, stateItem, nixosLayer, lockHeld, initStep, bootstrap, inits, finished>>

ClearObstacle ==
    /\ initStep = AtStep("idle")
    /\ dirs' = [d \in Subdirs |-> IF dirs[d] = "file" THEN "none" ELSE dirs[d]]
    /\ confFile' = (IF confFile = "dir" THEN "none" ELSE confFile)
    /\ stateItem' = (IF stateItem = "dir" THEN "none" ELSE stateItem)
    /\ UNCHANGED <<nixosLayer, lockHeld, initStep, bootstrap, inits, finished>>

TakeLock ==
    /\ lockHeld = "nobody" /\ lockHeld' = "other"
    /\ UNCHANGED <<VolumeItems, initStep, bootstrap, inits, finished>>

RecordState ==
    /\ lockHeld = "other"
    /\ stateItem' = IF stateItem = "dir" THEN "dir" ELSE "recorded"
    /\ lockHeld' = "nobody"
    /\ UNCHANGED <<dirs, confFile, nixosLayer, initStep, bootstrap, inits, finished>>

SetupNext ==
    \/ PlanInit \/ MakeDir \/ SetMode \/ LookConfig \/ WriteTemplate \/ LookUnderLock \/ SaveState
    \/ StageNixos \/ StopInit \/ EditConfig \/ ClearObstacle \/ TakeLock \/ RecordState

SetupSpec == SetupInit /\ [][SetupNext]_setupVars

-----------------------------------------------------------------------------
(* reset-upper.  A world w has the decoy filesystems the session overlays  *)
(* separately (overlaid), the paths with a hidden copy (changed) and the   *)
(* target; a path is the sequence of its names.  A hidden copy lives in    *)
(* the layers of the deepest overlaid mount point above it, or in the root *)
(* upper (<<>>); escape_path names each mount point's layers apart.        *)
Below(p, dir) == Len(dir) <= Len(p) /\ SubSeq(p, 1, Len(dir)) = dir      \* Path::starts_with
Layout(w, p) ==
    LET above == {m \in w.overlaid \cup {<<>>} : Below(p, m)}
    IN CHOOSE m \in above : \A n \in above : Len(n) <= Len(m)

(* plan_reset_upper_on: "root" is the target's place in the root upper,    *)
(* "layers" the layers of a filesystem mounted at the target itself.       *)
PlanReset(w) == {<<"root", w.target>>, <<"layers", w.target>>}

(* Refused in the hidden session and for /; without -y a terminal must say *)
(* yes.                                                                    *)
Resettable(w) == w.target # <<>> /\ ~ w.hidden
Confirmed(w) == w.yes \/ (w.terminal /\ w.answer)

(* apply_reset_upper: one of the plan's directories takes the copy with it *)
Removes(w, r, p) ==
    IF r[1] = "root" THEN Layout(w, p) = <<>> /\ Below(p, r[2]) ELSE Layout(w, p) = r[2]

(* The command: the copies that are left when it is done                   *)
AfterReset(w) ==
    IF Resettable(w) /\ Confirmed(w)
    THEN {p \in w.changed : \A r \in PlanReset(w) : ~ Removes(w, r, p)} ELSE w.changed

-----------------------------------------------------------------------------
(* Running init again completes what a killed or failed run left: every    *)
(* directory private, a configuration and a state file (apply).            *)
InitCompletes ==
    finished => /\ \A d \in LayoutDirs(bootstrap) : dirs[d] = "private"
                /\ confFile \in {"template", "operator"}
                /\ stateItem \in {"default", "recorded"}
                /\ bootstrap => nixosLayer

(* Once planned, init meets nothing it could not write over: "every other  *)
(* precondition is checked before the first write" (init.rs).              *)
NoSurprise ==
    initStep # AtStep("idle") =>
      /\ \A d \in LayoutDirs(bootstrap) : dirs[d] # "file"
      /\ confFile # "dir" /\ stateItem # "dir"

(* init never undoes what another command recorded, in whatever order they *)
(* come: "init cannot race a concurrent activate/deactivate"               *)
(* (write_state_file).  What the operator wrote is kept too, unless they   *)
(* wrote it after init had looked for it and before it wrote its own: that *)
(* look is under no lock (apply).                                          *)
InitKeepsOthers ==
    [][/\ confFile = "operator" /\ initStep # AtStep("template") => confFile' = "operator"
       /\ stateItem = "recorded" => stateItem' = "recorded"]_setupVars

(* A reset removes hidden copies at and below its target only, never       *)
(* without a yes, and all of them when the target is in the layers its     *)
(* whole subtree is in.                                                    *)
ResetExactly(w) ==
    /\ \A p \in w.changed \ AfterReset(w) : Below(p, w.target) /\ (w.yes \/ w.answer)
    /\ (/\ Resettable(w) /\ Confirmed(w)
        /\ \A m \in w.overlaid : Below(w.target, m) \/ Below(m, w.target) => m = w.target)
         => \A p \in AfterReset(w) : ~ Below(p, w.target)

(* Over any sequence of inits, killed or failing anywhere, beside the       *)
(* operator and other commands: one that finishes has made the whole        *)
(* layout, meets nothing its plan did not see, and undoes nobody's work but *)
(* a configuration written between its look and its template (init.rs).     *)
InitSound == [](InitCompletes /\ NoSurprise) /\ InitKeepsOthers
=============================================================================
