----------------------------- MODULE HiddenConfig -----------------------------
(***************************************************************************)
(* Staging the hidden NixOS configuration on the hidden volume             *)
(* (nails-platform/src/nixos/config, preflight/nixos_config): the hidden   *)
(* module, the link to it, and the hardware configuration, which becomes a *)
(* fixed wrapper over the original.  Staging runs before the pre-flight    *)
(* checks of every activation, any of its calls can fail, and it can be    *)
(* killed between two of them.                                             *)
(***************************************************************************)
EXTENDS Naturals, Sequences

CONSTANT MaxStagings     \* stagings begun

ASSUME HiddenConfigAssumption == MaxStagings \in Nat

VARIABLES
    decoyHw,    \* the decoy's hardware-configuration.nix
    conf,       \* the files below the hidden root, by what they hold
    stage,      \* where the staging is
    options,    \* overlay_only, and whether the attach gate accepts the root
    stagings,   \* stagings begun
    original    \* history: the first hardware configuration of the hidden system

configVars == <<decoyHw, conf, stage, options, stagings, original>>

NoText == "none"

ConfigInit ==
    /\ decoyHw \in {NoText, "swapping", "plain"}
    /\ \E own \in {NoText, "users"} :
         /\ conf = [module |-> NoText, link |-> NoText, base |-> NoText, hw |-> own]
         /\ original = own
    /\ stage = "idle" /\ options = [overlayOnly |-> FALSE, refused |-> FALSE] /\ stagings = 0

AtStage(s) == stage = s
Then(s) == stage' = s
Hold(f, text) == conf' = [conf EXCEPT ![f] = text]
CallRefused == Then("failed") /\ UNCHANGED <<conf, original>>
Aside == UNCHANGED <<decoyHw, options, stagings>>

-----------------------------------------------------------------------------
(* stage_hidden_nixos_config asks the attach gate, then writes. *)
BeginStaging ==
    /\ stage \in {"idle", "failed", "staged"} /\ stagings < MaxStagings
    /\ \E o \in [overlayOnly : BOOLEAN, refused : BOOLEAN] :
         /\ options' = o
         /\ Then(IF o.refused THEN "failed" ELSE "module")
    /\ stagings' = stagings + 1
    /\ UNCHANGED <<decoyHw, conf, original>>

(* ensure_hidden_configuration_module: the template where there is none. *)
SeedModule ==
    /\ AtStage("module") /\ Aside
    /\ \/ CallRefused
       \/ /\ Hold("module", IF conf.module = NoText THEN "template" ELSE conf.module)
          /\ Then("link") /\ UNCHANGED original

(* stage_hidden_config_symlink: an existing link is kept when it points    *)
(* where it should, and refuses the staging otherwise.                     *)
LinkModule ==
    /\ AtStage("link") /\ Aside
    /\ \/ CallRefused
       \/ /\ conf.link # "elsewhere"
          /\ Hold("link", "here")
          /\ Then(IF options.overlayOnly THEN "staged" ELSE "hardware") /\ UNCHANGED original

(* neutralize_swap_in_hardware_config, as far as the staging is concerned *)
Seeded(text) == IF text = "swapping" THEN "plain" ELSE text

(* ensure_hidden_hardware_configuration: a fresh store is seeded from the  *)
(* decoy; ensure_hardware_wrapper keeps an original it finds.              *)
\* Mutant: the wrapper is installed before the original is kept.
KeepOriginalLate ==
    /\ AtStage("hardware") /\ Aside
    /\ \/ CallRefused
       \/ /\ conf.base = NoText /\ conf.hw \notin {NoText, "wrapper"}
          /\ Hold("hw", "wrapper") /\ Then("wrap") /\ UNCHANGED original
       \/ /\ conf.base = NoText /\ conf.hw = NoText /\ decoyHw # NoText
          /\ Hold("base", Seeded(decoyHw)) /\ original' = Seeded(decoyHw) /\ Then("wrap")
       \/ /\ conf.base # NoText \/ conf.hw = "wrapper"
          /\ Then("wrap") /\ UNCHANGED <<conf, original>>

KeepOriginal ==
    /\ AtStage("hardware") /\ Aside
    /\ \/ CallRefused
       \/ /\ conf.base = NoText /\ conf.hw \notin {NoText, "wrapper"}
          /\ Hold("base", conf.hw) /\ Then("wrap") /\ UNCHANGED original
       \/ /\ conf.base = NoText /\ conf.hw = NoText /\ decoyHw # NoText
          /\ Hold("base", Seeded(decoyHw)) /\ original' = Seeded(decoyHw) /\ Then("wrap")
       \/ /\ conf.base # NoText \/ conf.hw = "wrapper"
          /\ Then("wrap") /\ UNCHANGED <<conf, original>>

InstallWrapper ==
    /\ AtStage("wrap") /\ Aside
    /\ \/ CallRefused
       \/ Hold("hw", "wrapper") /\ Then("staged") /\ UNCHANGED original

StagingDies == stage \notin {"idle", "failed", "staged"} /\ Then("idle")
               /\ UNCHANGED <<decoyHw, conf, options, stagings, original>>

-----------------------------------------------------------------------------
(* Between two stagings the user edits the module, nixos-generate-config   *)
(* rewrites the live hardware file in a session, the decoy's file changes, *)
(* and the volume is mounted elsewhere.                                    *)
BetweenStagings == stage \in {"idle", "failed", "staged"}

UserEdits ==
    /\ BetweenStagings
    /\ \/ conf.module # NoText /\ Hold("module", "users") /\ UNCHANGED <<decoyHw, original>>
       \/ conf.base # NoText /\ Hold("hw", "generated") /\ UNCHANGED <<decoyHw, original>>
       \/ \E text \in {NoText, "swapping", "plain"} : decoyHw' = text /\ UNCHANGED <<conf, original>>
       \/ /\ conf.link # NoText
          /\ Hold("link", IF conf.link = "here" THEN "elsewhere" ELSE "here")
          /\ UNCHANGED <<decoyHw, original>>
    /\ Then("idle") /\ UNCHANGED <<options, stagings>>

ConfigNext ==
    \/ BeginStaging \/ SeedModule \/ LinkModule \/ KeepOriginal \/ InstallWrapper
    \/ StagingDies \/ UserEdits

ConfigSpec == ConfigInit /\ [][ConfigNext]_configVars

-----------------------------------------------------------------------------
(* NixOSConfigCheck::run, over the staged files; "broken" are the files    *)
(* nix-instantiate --parse rejects.                                        *)
Imports(text) == text = "wrapper"
ConfigCheck(hasConfig, broken) ==
    /\ decoyHw # NoText /\ hasConfig
    /\ conf.hw # NoText /\ Imports(conf.hw)
    /\ conf.module # NoText
    /\ \A f \in {"hw", "base", "module"} : conf[f] # NoText => f \notin broken

(* The first hardware configuration of the hidden system is on the volume  *)
(* at every moment, killed or failed stagings included ("preserved         *)
(* verbatim as hardware-configuration.base.nix").                          *)
OriginalKept == original = NoText \/ original \in {conf.base, conf.hw}

(* A staging that succeeds leaves a configuration the check accepts and    *)
(* that imports the original and the hidden module.                        *)
StagedComposes ==
    stage = "staged" =>
        /\ conf.module # NoText /\ conf.link = "here"
        /\ options.overlayOnly \/ (conf.hw = "wrapper" /\ conf.base = original)
        /\ ~ options.overlayOnly /\ decoyHw # NoText => ConfigCheck(TRUE, {})

(* The decoy's swap never reaches the hidden system, whatever the order of *)
(* stagings, failures and changes of the decoy's file.                     *)
NoDecoySwap == conf.base # "swapping" /\ conf.hw # "swapping"

(* No staging takes the user's hidden module away. *)
ModuleKept == [][conf.module = "users" => conf'.module = "users"]_configVars

(* Over any sequence of stagings, killed or refused anywhere, and of edits  *)
(* by the operator and the decoy: the first hardware file is kept, what is  *)
(* staged composes, no swap of the decoy's gets in, and the operator's      *)
(* module stays (prepare.rs).                                               *)
StagingSound == [](OriginalKept /\ StagedComposes /\ NoDecoySwap) /\ ModuleKept
=============================================================================
