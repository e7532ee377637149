----------------------------- MODULE StepProofs -----------------------------
(***************************************************************************)
(* What a staging, a rehearsal, a session and an init leave behind, over any *)
(* number of them and killed anywhere: the hidden configuration, the record of *)
(* a canary, the network identity and the layout of the volume.            *)
(***************************************************************************)
EXTENDS HiddenConfig, Setup, Identity, Rehearse, WellFoundedInduction, TLAPS

Confs == [module : {NoText, "template", "users"}, link : {NoText, "here", "elsewhere"},
          base : {NoText, "users", "plain"}, hw : {NoText, "users", "wrapper", "generated"}]

(* The original is in the base file once there is one, and in the live file until
   then; what the stages behind the current one wrote is still there. *)
ConfigInv ==
    /\ conf \in Confs /\ original \in {NoText, "users", "plain"}
    /\ decoyHw \in {NoText, "swapping", "plain"}
    /\ IF conf.base = NoText THEN conf.hw = original ELSE conf.base = original
    /\ stage \in {"link", "hardware", "wrap", "staged"} => conf.module # NoText
    /\ stage \in {"hardware", "wrap", "staged"} => conf.link = "here"
    /\ stage = "wrap" => conf.base # NoText
    /\ stage = "staged" /\ ~options.overlayOnly => conf.hw = "wrapper" /\ conf.base # NoText

(* A volume begins with the user's own hardware file or with none. *)
LEMMA ConfigInvInit == ConfigInit => ConfigInv
BY DEF ConfigInit, ConfigInv, Confs, NoText

(* What Hold writes, and what it leaves alone. *)
LEMMA HoldOne ==
    ASSUME conf \in Confs, NEW text
    PROVE  /\ Hold("module", text) => conf' = [module |-> text, link |-> conf.link, base |-> conf.base, hw |-> conf.hw]
           /\ Hold("link", text) => conf' = [module |-> conf.module, link |-> text, base |-> conf.base, hw |-> conf.hw]
           /\ Hold("base", text) => conf' = [module |-> conf.module, link |-> conf.link, base |-> text, hw |-> conf.hw]
           /\ Hold("hw", text) => conf' = [module |-> conf.module, link |-> conf.link, base |-> conf.base, hw |-> text]
BY Zenon DEF Hold, Confs

(* Every stage keeps the invariant, done, refused or killed. *)
LEMMA StagesKeep ==
    ASSUME ConfigInv, BeginStaging \/ SeedModule \/ LinkModule \/ InstallWrapper \/ StagingDies
    PROVE  ConfigInv'
<1>. USE DEF ConfigInv, NoText, AtStage, Then, Aside, CallRefused
<1>1. CASE BeginStaging
  BY <1>1, Zenon DEF BeginStaging
<1>2. CASE SeedModule
  BY <1>2, HoldOne, SMTT(30) DEF SeedModule, Confs
<1>3. CASE LinkModule
  BY <1>3, HoldOne, SMTT(30) DEF LinkModule, Confs
<1>4. CASE InstallWrapper
  BY <1>4, HoldOne DEF InstallWrapper, Confs
<1>5. CASE StagingDies
  BY <1>5, Zenon DEF StagingDies
<1>. QED
  BY <1>1, <1>2, <1>3, <1>4, <1>5, Zenon

(* The original is kept before the wrapper takes its place
   (ensure_hardware_wrapper). *)
LEMMA OriginalFirst ==
    ASSUME ConfigInv, KeepOriginal
    PROVE  ConfigInv'
BY HoldOne
    DEF KeepOriginal, Seeded, ConfigInv, Confs, NoText, AtStage, Then, Aside, CallRefused

(* What changes between two stagings leaves the original where it is. *)
LEMMA EditsKeep ==
    ASSUME ConfigInv, UserEdits
    PROVE  ConfigInv'
BY HoldOne DEF UserEdits, BetweenStagings, ConfigInv, Confs, NoText, Then

(* ConfigInv is inductive. *)
THEOREM ConfigInvariant == ConfigSpec => []ConfigInv
<1>1. ConfigInv /\ UNCHANGED configVars => ConfigInv'
  BY Zenon DEF ConfigInv, configVars
<1>2. ConfigInv /\ [ConfigNext]_configVars => ConfigInv'
  BY <1>1, StagesKeep, OriginalFirst, EditsKeep, Zenon DEF ConfigNext
<1>. QED
  BY ConfigInvInit, <1>2, PTL DEF ConfigSpec

(* The hidden system's first hardware configuration is on the volume at every
   moment ("preserved verbatim as hardware-configuration.base.nix"). *)
THEOREM OriginalNeverLost == ConfigSpec => []OriginalKept
<1>1. ConfigInv => OriginalKept
  BY Zenon DEF ConfigInv, OriginalKept
<1>. QED
  BY ConfigInvariant, <1>1, PTL

(* No staging lets the decoy's swap into the hidden system. *)
THEOREM SwapStaysOut == ConfigSpec => []NoDecoySwap
<1>1. ConfigInv => NoDecoySwap
  BY Zenon DEF ConfigInv, NoDecoySwap, Confs, NoText
<1>. QED
  BY ConfigInvariant, <1>1, PTL

(* A staging that succeeds leaves what NixOSConfigCheck accepts. *)
THEOREM StagingComposes == ConfigSpec => []StagedComposes
<1>1. ConfigInv => StagedComposes
  BY Zenon DEF ConfigInv, StagedComposes, ConfigCheck, Imports, Confs, NoText
<1>. QED
  BY ConfigInvariant, <1>1, PTL

(* The user's hidden module outlives every step (ensure_hidden_configuration_module). *)
THEOREM UsersModuleKept == ConfigSpec => ModuleKept
<1>1. ConfigInv /\ [ConfigNext]_configVars =>
        [conf.module = "users" => conf'.module = "users"]_configVars
  <2>. SUFFICES ASSUME ConfigInv, ConfigNext, conf.module = "users"
                PROVE  conf'.module = "users"
    BY Zenon
  <2>. USE DEF ConfigInv, NoText, Aside, CallRefused
  <2>1. CASE BeginStaging \/ StagingDies
    BY <2>1, Zenon DEF BeginStaging, StagingDies
  <2>2. CASE SeedModule \/ LinkModule
    BY <2>2, HoldOne, SMTT(30) DEF SeedModule, LinkModule
  <2>3. CASE KeepOriginal \/ InstallWrapper
    BY <2>3, HoldOne DEF KeepOriginal, InstallWrapper
  <2>4. CASE UserEdits
    BY <2>4, HoldOne DEF UserEdits
  <2>. QED
    BY <2>1, <2>2, <2>3, <2>4, Zenon DEF ConfigNext
<1>. QED
  BY ConfigInvariant, <1>1, PTL DEF ConfigSpec, ModuleKept

(* The whole promise of a staging (stage_hidden_config): original, composition,
   swap and the user's module. *)
THEOREM StagingIsSound == ConfigSpec => StagingSound
BY OriginalNeverLost, StagingComposes, SwapStaysOut, UsersModuleKept, PTL DEF StagingSound

-----------------------------------------------------------------------------
(* Rehearsals. *)
(* What the record says of where the canary was planted is what was so there,
   as far as it could be read. *)
Recorded ==
    canary # NoCanary =>
        /\ canary = [token |-> canary.token, phase |-> canary.phase, channels |-> canary.channels,
                     at |-> canary.at, session |-> canary.session]
        /\ canary.token \in 1..tokens /\ canary.phase \in {"planted", "scanned"}
        /\ "OverlayFile" \in canary.channels /\ canary.channels \subseteq FileChannels
        /\ canary.session \in Nat \X Nat
        /\ canary.at.boot \in {Unread, canary.session[1]}
        /\ canary.at.soft \in {Unread, canary.session[2]}
        /\ canary.at.entered \in {<<>>, canary.session}

(* A leak that is not written out yet is of the session that runs. *)
Fresh == \A d \in Devices : <<canary.token, d>> \in cached => inside /\ canary.session = EnteredAt

(* The copies of the canary on the record are the ones a reset removes. *)
Listed ==
    /\ CanaryTracked
    /\ canary # NoCanary => \A c \in uppers : c[1] = canary.token => c[2] \in canary.channels

RehearseInv == RehearseTypeOK /\ Recorded /\ Fresh /\ Listed /\ PassedIsAbsent

(* The session that planted the canary is recognised, whatever of it can be read
   then and now (planted_in_this_session). *)
LEMMA SameSession ==
  ASSUME RehearseInv, canary # NoCanary, inside, canary.session = EnteredAt, NEW readable \in SUBSET Readable
  PROVE  PlantedInThisSession(canary.at, Here(readable))
<1> DEFINE h == Here(readable)
<1>1. /\ h.session /\ h.boot \in {Unread, bootId} /\ h.soft \in {Unread, softCount}
      /\ h.entered \in {<<>>, <<bootId, softCount>>}
  BY Zenon DEF Here, EnteredAt, RehearseInv, RehearseTypeOK
<1>2. /\ canary.at.boot \in {Unread, bootId} /\ canary.at.soft \in {Unread, softCount}
      /\ canary.at.entered \in {<<>>, <<bootId, softCount>>}
  BY DEF RehearseInv, Recorded, EnteredAt
<1>. HIDE DEF h
<1>3. PlantedInThisSession(canary.at, h)
  BY <1>1, <1>2, Zenon DEF PlantedInThisSession
<1>. QED
  BY <1>3, Zenon DEF h

(* What a command clears: nothing, unless it is a scan that ends well. *)
LEMMA VerdictParts ==
  /\ \A exit : Ended(exit).clears = {}
  /\ \A exit, devices : Clears(exit, devices).clears = IF exit = "ok" THEN devices ELSE {}
BY DEF Clears, Ended

(* A scan that ends well would have matched a leak on every device it speaks of. *)
LEMMA CleanOutcome ==
  ASSUME NEW targets, NEW mounted, NEW v \in Outcomes(targets, mounted)
  PROVE  v.clears \subseteq targets /\ \A d \in v.clears : <<canary.token, d>> \notin onDisk
<1>1. PICK o \in (SUBSET targets) \X BOOLEAN :
        /\ o[2] \/ (targets \ Blind \subseteq o[1] /\ targets \cap Blind \cap mounted = {})
        /\ v = Clears(ExitStatus({d \in o[1] : <<canary.token, d>> \in onDisk}, o[2]), Classified(targets, mounted))
  BY Zenon DEF Outcomes
<1> DEFINE exit == ExitStatus({d \in o[1] : <<canary.token, d>> \in onDisk}, o[2])
<1>2. v.clears = IF exit = "ok" THEN Classified(targets, mounted) ELSE {}
  BY <1>1, VerdictParts
<1>3. exit = "ok" => {d \in o[1] : <<canary.token, d>> \in onDisk} = {} /\ ~o[2]
  BY Zenon DEF ExitStatus
<1>. QED
  BY <1>1, <1>2, <1>3, Zenon DEF Classified

(* A refusal changes nothing but the verdict. *)
LEMMA RefusalStep ==
  ASSUME RehearseInv, NEW exit, RefusedWith(exit)
  PROVE  RehearseInv'
<1>1. UNCHANGED <<bootId, softCount, inside, canary, uppers, tokens, orphans, cached, onDisk>> /\ verdict'.clears = {}
  BY VerdictParts, Zenon DEF RefusedWith, Commanded, Leaks
<1>2. RehearseTypeOK'
  BY <1>1, Zenon DEF RehearseInv, RehearseTypeOK
<1>. QED
  BY <1>1, <1>2, Zenon
      DEF RehearseInv, Recorded, Fresh, Listed, CanaryTracked, PassedIsAbsent, EnteredAt

(* The steps of the machine around it. *)
LEMMA AroundStep ==
  ASSUME RehearseInv, SoftReboot \/ PowerLost \/ \E d \in Devices : Leak(d)
  PROVE  RehearseInv'
<1>1. canary' = canary /\ uppers' = uppers /\ tokens' = tokens /\ orphans' = orphans /\ verdict'.clears = {}
  BY VerdictParts, Zenon DEF SoftReboot, PowerLost, Leak
<1>2. Recorded' /\ Listed' /\ PassedIsAbsent'
  BY <1>1, Zenon DEF RehearseInv, Recorded, Listed, CanaryTracked, PassedIsAbsent
<1>3. CASE SoftReboot
  <2>1. RehearseTypeOK'
    BY <1>1, <1>3, RehearseAssumption DEF SoftReboot, RehearseInv, RehearseTypeOK
  <2>. QED
    BY <1>2, <1>3, <2>1, Zenon DEF SoftReboot, RehearseInv, Fresh
<1>4. CASE PowerLost
  <2>1. bootId' \in 0..MaxBoots /\ softCount' \in 0..MaxSoft /\ inside' \in BOOLEAN /\ cached' = {} /\ onDisk' = onDisk
    <3>1. bootId \in 0..MaxBoots /\ bootId < MaxBoots /\ bootId' = bootId + 1 /\ softCount' = 0 /\ inside' = FALSE
          /\ cached' = {} /\ onDisk' = onDisk
      BY <1>4, Zenon DEF PowerLost, RehearseInv, RehearseTypeOK
    <3>2. bootId' \in 0..MaxBoots /\ softCount' \in 0..MaxSoft
      BY <3>1, RehearseAssumption
    <3>. QED
      BY <3>1, <3>2, Zenon
  <2>2. RehearseTypeOK'
    BY <1>1, <2>1, Zenon DEF RehearseInv, RehearseTypeOK
  <2>. QED
    BY <1>2, <2>1, <2>2, Zenon DEF RehearseInv, Fresh
<1>5. ASSUME NEW d \in Devices, Leak(d) PROVE RehearseInv'
  <2>1. /\ UNCHANGED <<bootId, softCount, inside>> /\ inside /\ canary # NoCanary /\ canary.session = EnteredAt
        /\ cached' \cup onDisk' \subseteq cached \cup onDisk \cup {<<canary.token, d>>}
    BY <1>5, Zenon DEF Leak, Commanded
  <2>2. canary.token \in 1..tokens
    BY <2>1, Zenon DEF RehearseInv, Recorded
  <2>3. RehearseTypeOK'
    BY <1>1, <1>5, <2>1, <2>2 DEF RehearseInv, RehearseTypeOK
  <2>4. Fresh'
    BY <1>1, <2>1, Zenon DEF Fresh, EnteredAt
  <2>. QED
    BY <1>2, <2>3, <2>4, Zenon DEF RehearseInv
<1>. QED
  BY <1>3, <1>4, <1>5, Zenon

(* A plant: its copies are on the record, or orphans when it could not be saved. *)
LEMMA PlantStep ==
  ASSUME RehearseInv, NEW taken \in SUBSET FileChannels, NEW readable \in SUBSET Readable, NEW saved \in BOOLEAN,
         Plant(taken, readable, saved)
  PROVE  RehearseInv'
<1>1. /\ inside /\ canary = NoCanary /\ tokens < MaxRehearsals /\ tokens' = tokens + 1
      /\ uppers' = uppers \cup ({tokens + 1} \X taken) /\ verdict'.clears = {}
      /\ UNCHANGED <<bootId, softCount, inside, cached, onDisk>>
  BY VerdictParts, Zenon DEF Plant, Planted, Commanded, Leaks
<1>2. tokens \in Nat /\ tokens + 1 \in 1..MaxRehearsals /\ NoCanary.token = 0
  BY <1>1, RehearseAssumption DEF RehearseInv, RehearseTypeOK, NoCanary
<1>3. \A c \in uppers : c[1] \in 1..tokens /\ c[1] \in orphans
  BY <1>1, <1>2 DEF RehearseInv, RehearseTypeOK, Listed, CanaryTracked
<1>4. \A d \in Devices : <<tokens + 1, d>> \notin cached /\ <<0, d>> \notin cached
  BY <1>2 DEF RehearseInv, RehearseTypeOK
<1>5. CASE "OverlayFile" \in taken /\ saved
  <2> DEFINE r == [token |-> tokens + 1, phase |-> "planted", channels |-> taken,
                   at |-> Here(readable), session |-> EnteredAt]
  <2>1. canary' = r /\ orphans' = orphans
    BY <1>5, Zenon DEF Plant, Planted
  <2>2. /\ r.token = tokens + 1 /\ r.phase = "planted" /\ r.channels = taken /\ r.at = Here(readable)
        /\ r.session = EnteredAt
        /\ r = [token |-> r.token, phase |-> r.phase, channels |-> r.channels, at |-> r.at, session |-> r.session]
    BY Zenon
  <2>. HIDE DEF r
  <2>3. Recorded'
    <3>1. EnteredAt \in Nat \X Nat /\ EnteredAt[1] = bootId /\ EnteredAt[2] = softCount
      BY DEF RehearseInv, RehearseTypeOK, EnteredAt
    <3>2. /\ r.at.boot \in {Unread, bootId} /\ r.at.soft \in {Unread, softCount}
          /\ r.at.entered \in {<<>>, EnteredAt}
      BY <2>2, SMTT(30) DEF Here
    <3>. QED
      BY <1>1, <1>2, <1>5, <2>1, <2>2, <3>1, <3>2, SMTT(30) DEF Recorded
  <2>4. RehearseTypeOK'
    BY <1>1, <1>2, <1>5, <2>1, <2>2 DEF RehearseInv, RehearseTypeOK
  <2>5. Fresh' /\ PassedIsAbsent'
    BY <1>1, <1>4, <2>1, <2>2, Zenon DEF Fresh, PassedIsAbsent
  <2>6. Listed'
    BY <1>1, <1>2, <1>3, <2>1, <2>2, SMTT(30) DEF Listed, CanaryTracked
  <2>. QED
    BY <2>3, <2>4, <2>5, <2>6, Zenon DEF RehearseInv
<1>6. CASE ~("OverlayFile" \in taken /\ saved)
  <2>1. canary' = NoCanary /\ orphans' = orphans \cup {tokens + 1}
    BY <1>1, <1>6, Zenon DEF Plant, Planted
  <2>2. RehearseTypeOK'
    BY <1>1, <1>2, <2>1 DEF RehearseInv, RehearseTypeOK
  <2>3. Fresh' /\ PassedIsAbsent' /\ Recorded'
    BY <1>1, <1>2, <1>4, <2>1, Zenon DEF Fresh, PassedIsAbsent, Recorded
  <2>4. Listed'
    BY <1>1, <1>3, <2>1, Zenon DEF Listed, CanaryTracked
  <2>. QED
    BY <2>2, <2>3, <2>4, Zenon DEF RehearseInv
<1>. QED
  BY <1>5, <1>6, Zenon

(* A scan: one that passes runs in another session, whose predecessor wrote its leaks
   out, and found nothing. *)
LEMMA ScanStep ==
  ASSUME RehearseInv, Scan
  PROVE  RehearseInv'
<1>1. canary # NoCanary
  BY Zenon DEF Scan
<1>2. PICK r \in SUBSET Readable :
        \/ RefusedWith("invalid_state") \/ RefusedWith("failed")
        \/ /\ \/ verdict' \in {Ended(e) : e \in {"critical", "warnings", "ok"}}
              \/ ~PlantedInThisSession(canary.at, Here(r)) /\ verdict' \in AllOutcomes
           /\ canary' = [canary EXCEPT !.phase = "scanned"] \/ UNCHANGED canary
           /\ UNCHANGED <<Commanded, uppers, tokens, orphans, Leaks>>
  BY Zenon DEF Scan
<1>3. CASE RefusedWith("invalid_state") \/ RefusedWith("failed")
  BY <1>3, RefusalStep, Zenon
<1>4. CASE /\ \/ verdict' \in {Ended(e) : e \in {"critical", "warnings", "ok"}}
              \/ ~PlantedInThisSession(canary.at, Here(r)) /\ verdict' \in AllOutcomes
           /\ canary' = [canary EXCEPT !.phase = "scanned"] \/ UNCHANGED canary
           /\ UNCHANGED <<Commanded, uppers, tokens, orphans, Leaks>>
  <2>1. UNCHANGED <<bootId, softCount, inside, uppers, tokens, orphans, cached, onDisk>> /\ EnteredAt' = EnteredAt
    BY <1>4, Zenon DEF Commanded, Leaks, EnteredAt
  <2>2. /\ canary'.token = canary.token /\ canary'.channels = canary.channels /\ canary'.at = canary.at
        /\ canary'.session = canary.session /\ canary'.phase \in {canary.phase, "scanned"}
        /\ canary' = [token |-> canary'.token, phase |-> canary'.phase, channels |-> canary'.channels,
                      at |-> canary'.at, session |-> canary'.session]
    <3>1. canary = [token |-> canary.token, phase |-> canary.phase, channels |-> canary.channels,
                    at |-> canary.at, session |-> canary.session]
      BY <1>1, Zenon DEF RehearseInv, Recorded
    <3>. QED
      BY <1>4, <3>1, Zenon
  <2>3. Recorded' /\ Fresh' /\ Listed'
    BY <1>1, <2>1, <2>2, Zenon DEF RehearseInv, Recorded, Fresh, Listed, CanaryTracked
  <2>4. RehearseTypeOK'
    BY <1>1, <2>1, <2>2, Zenon DEF RehearseInv, RehearseTypeOK, Recorded
  <2>5. \A d \in verdict'.clears : <<canary.token, d>> \notin cached \cup onDisk
    <3>1. CASE verdict' \in {Ended(e) : e \in {"critical", "warnings", "ok"}}
      BY <3>1, VerdictParts, Zenon
    <3>2. CASE ~PlantedInThisSession(canary.at, Here(r)) /\ verdict' \in AllOutcomes
      <4>1. PICK t \in (SUBSET Devices \ {{}}) \X SUBSET Devices : verdict' \in Outcomes(t[1], t[2])
        BY <3>2, Zenon DEF AllOutcomes
      <4>2. ~(inside /\ canary.session = EnteredAt)
        BY <1>1, <3>2, SameSession, Zenon
      <4>3. \A d \in Devices : <<canary.token, d>> \notin cached
        BY <4>2, Zenon DEF RehearseInv, Fresh
      <4>4. t[1] \subseteq Devices
        BY <4>1
      <4>. QED
        BY <4>1, <4>3, <4>4, CleanOutcome, Zenon
    <3>. QED
      BY <1>4, <3>1, <3>2, Zenon
  <2>6. PassedIsAbsent'
    BY <2>1, <2>2, <2>5, Zenon DEF PassedIsAbsent
  <2>. QED
    BY <2>3, <2>4, <2>6, Zenon DEF RehearseInv
<1>. QED
  BY <1>2, <1>3, <1>4, Zenon

(* A reset: the copies it could not remove become orphans. *)
LEMMA ResetStep ==
  ASSUME RehearseInv, NEW removed \in SUBSET FileChannels, Reset(removed)
  PROVE  RehearseInv'
<1>1. /\ ~inside /\ canary # NoCanary /\ canary' = NoCanary /\ verdict'.clears = {}
      /\ uppers' = uppers \ ({canary.token} \X removed)
      /\ orphans' = (IF canary.channels \subseteq removed THEN orphans ELSE orphans \cup {canary.token})
      /\ UNCHANGED <<bootId, softCount, inside, tokens, cached, onDisk>>
  BY VerdictParts, Zenon DEF Reset, Commanded, Leaks
<1>2. canary.token \in 1..tokens /\ NoCanary.token = 0
  BY <1>1, Zenon DEF RehearseInv, Recorded, NoCanary
<1>3. RehearseTypeOK'
  <2>1. uppers' \subseteq (1..tokens) \X FileChannels /\ orphans' \subseteq 1..tokens /\ tokens \in Nat
    <3>1. uppers \subseteq (1..tokens) \X FileChannels /\ orphans \subseteq 1..tokens /\ tokens \in 0..MaxRehearsals
      BY Zenon DEF RehearseInv, RehearseTypeOK
    <3>2. orphans' \subseteq 1..tokens
      BY <1>1, <1>2, <3>1, Zenon
    <3>. QED
      BY <1>1, <3>1, <3>2, RehearseAssumption
  <2>2. canary'.token \in 0..tokens
    BY <1>1, <1>2, <2>1
  <2>. QED
    BY <1>1, <2>1, <2>2, Zenon DEF RehearseInv, RehearseTypeOK
<1>4. Recorded' /\ PassedIsAbsent'
  BY <1>1, Zenon DEF Recorded, PassedIsAbsent
<1>5. Fresh'
  BY <1>1, <1>2 DEF RehearseInv, RehearseTypeOK, Fresh
<1>6. Listed'
  <2>1. ASSUME NEW c \in uppers' PROVE c[1] \in orphans'
    <3>1. c \in uppers /\ c = <<c[1], c[2]>> /\ (c[1] = canary.token => c[2] \notin removed /\ c[2] \in canary.channels)
      BY <1>1, <2>1 DEF RehearseInv, RehearseTypeOK, Listed
    <3>2. c[1] = canary.token \/ c[1] \in orphans
      BY <3>1, Zenon DEF RehearseInv, Listed, CanaryTracked
    <3>. QED
      BY <1>1, <3>1, <3>2, Zenon
  <2>. QED
    BY <1>1, <2>1, Zenon DEF Listed, CanaryTracked
<1>. QED
  BY <1>3, <1>4, <1>5, <1>6, Zenon DEF RehearseInv

(* Over any devices, boots, sessions and rehearsals, whatever can be read, saved or
   removed: a scan that passes has proved the canary absent from the devices it read
   (but for one named while not mounted, whose compression it cannot see), a later
   session is told from the planting one, and a copy a reset would miss belongs to
   a plant or a removal that failed (Rehearsal::scan, planted_in_this_session, reset). *)
THEOREM RehearsalIsHonest == RehearseSpec => []RehearsalSound
<1>1. RehearseInit => RehearseInv
  <2>. SUFFICES ASSUME RehearseInit PROVE RehearseInv
    BY Zenon
  <2>1. RehearseTypeOK
    <3>1. 0 \in 0..MaxBoots /\ 0 \in 0..MaxSoft /\ 0 \in 0..MaxRehearsals /\ 0 \in 0..0
      BY RehearseAssumption
    <3>2. NoCanary.token = 0
      BY Zenon DEF NoCanary
    <3>. QED
      BY <3>1, <3>2, Zenon DEF RehearseInit, RehearseTypeOK
  <2>2. Recorded /\ Fresh /\ Listed /\ PassedIsAbsent
    BY VerdictParts, Zenon DEF RehearseInit, Recorded, Fresh, Listed, CanaryTracked, PassedIsAbsent
  <2>. QED
    BY <2>1, <2>2, Zenon DEF RehearseInv
<1>2. RehearseInv /\ [RehearseNext]_rehearseVars => RehearseInv'
  <2>. SUFFICES ASSUME RehearseInv, [RehearseNext]_rehearseVars PROVE RehearseInv'
    BY Zenon
  <2>1. CASE PlantRefused \/ ScanRefused \/ ResetRefused
    BY <2>1, RefusalStep, Zenon DEF PlantRefused, ScanRefused, ResetRefused
  <2>2. CASE UNCHANGED rehearseVars
    BY <2>2
        DEF rehearseVars, RehearseInv, RehearseTypeOK, Recorded, Fresh, Listed, CanaryTracked, PassedIsAbsent,
       EnteredAt
  <2>. QED
    BY <2>1, <2>2, AroundStep, PlantStep, ScanStep, ResetStep, Zenon DEF RehearseNext
<1>3. RehearseInv => RehearseTypeOK /\ PassedIsAbsent /\ CanaryTracked
  BY Zenon DEF RehearseInv, Listed
<1>4. ASSUME RehearseInv PROVE LaterSessionScans
  <2>. SUFFICES ASSUME canary # NoCanary, inside, canary.session # EnteredAt, NEW readable \in SUBSET Readable,
                       \/ {canary.at.boot, Here(readable).boot, canary.at.soft, Here(readable).soft} \cap {Unread} = {}
                       \/ <<>> \notin {canary.at.entered, Here(readable).entered}
                PROVE  ~PlantedInThisSession(canary.at, Here(readable))
    BY Zenon DEF LaterSessionScans
  <2> DEFINE h == Here(readable)
  <2>1. /\ h.boot \in {Unread, bootId} /\ h.soft \in {Unread, softCount} /\ h.entered \in {<<>>, EnteredAt}
    BY Zenon DEF Here
  <2>2. /\ canary.at.boot \in {Unread, canary.session[1]} /\ canary.at.soft \in {Unread, canary.session[2]}
        /\ canary.at.entered \in {<<>>, canary.session} /\ canary.session = <<canary.session[1], canary.session[2]>>
    BY <1>4 DEF RehearseInv, Recorded
  <2>3. canary.session[1] # bootId \/ canary.session[2] # softCount
    BY <2>2, Zenon DEF EnteredAt
  <2>. QED
    BY <2>1, <2>2, <2>3, Zenon DEF PlantedInThisSession
<1>5. RehearseInv => RehearsalSound
  BY <1>3, <1>4, Zenon DEF RehearsalSound
<1>. QED
  BY <1>1, <1>2, <1>5, PTL DEF RehearseSpec

-----------------------------------------------------------------------------
(* The network identity. *)
(* A set of naturals that is not empty has a least element: the minimum the
   well-foundedness of < gives. *)
LEMMA Least ==
  ASSUME NEW T \in SUBSET Nat, T # {}
  PROVE  \E x \in T : \A y \in T : x <= y
<1> DEFINE R == OpToRel(<, Nat)
<1>1. IsWellFoundedOn(R, Nat)
  BY NatLessThanWellFounded, Zenon
<1>2. \A x, y \in Nat : x < y => <<x, y>> \in R
  BY Zenon DEF OpToRel
<1>. HIDE DEF R
<1>3. PICK x \in T : \A y \in T : ~ (<<y, x>> \in R)
  BY <1>1, WFMin, Zenon
<1>4. ASSUME NEW y \in T PROVE x <= y
  <2>1. x \in Nat /\ y \in Nat
    BY Zenon
  <2>2. ~ (y < x)
    BY <1>2, <1>3, <2>1, Zenon
  <2>. QED
    BY <2>1, <2>2
<1>. QED
  BY <1>4, Zenon

(* Max is the greatest element of a set of integers that has a bound. *)
LEMMA Greatest ==
  ASSUME NEW S \in SUBSET Int, S # {}, NEW b \in Int, \A x \in S : x <= b
  PROVE  Max(S) \in S /\ \A x \in S : x <= Max(S)
<1> DEFINE T == {n \in Nat : b - n \in S}
<1>1. T # {}
  <2>1. PICK x \in S : TRUE
    BY Zenon
  <2>2. b - x \in Nat /\ b - (b - x) = x
    BY <2>1
  <2>. QED
    BY <2>1, <2>2, Zenon
<1>2. PICK n \in T : \A m \in T : n <= m
  BY <1>1, Least, Zenon
<1>3. b - n \in S
  BY <1>2, Zenon
<1>4. ASSUME NEW x \in S PROVE x <= b - n
  <2>1. b - x \in Nat /\ b - (b - x) = x
    OBVIOUS
  <2>2. n <= b - x
    BY <1>2, <2>1, Zenon
  <2>. QED
    BY <1>2, <2>1, <2>2
<1>5. \E x \in S : \A y \in S : x >= y
  BY <1>3, <1>4, Zenon
<1>. QED
  BY <1>5, Zenon DEF Max

(* The record is the decoy's or none; once restored, it is what the decoy has. *)
NetInv ==
    /\ place \in {"decoy", "hidden", "left", "started", "home"}
    /\ hostname \in {"decoy", "hidden"} /\ etcHostname \in BOOLEAN /\ hasIp \in BOOLEAN
    /\ netRecord \in {NoRecord, decoyNet}
    /\ netRecord # NoRecord => decoyNet.etc = etcHostname /\ decoyNet.hostname \in {"decoy", "hidden"}
    /\ place \in {"left", "started"} /\ netRecord # NoRecord =>
         /\ hasIp => /\ DOMAIN links \cap Virtual \subseteq DOMAIN decoyNet.links
                     /\ \A n \in DOMAIN links \cap DOMAIN decoyNet.links : links[n] = decoyNet.links[n]
         /\ ~etcHostname => hostname = decoyNet.hostname
         /\ place = "started" /\ etcHostname => hostname = "decoy"

(* No record is from after the clock's end; the decoy's own boot is the last
   record, and in order once the unit ran. *)
BootRecord == [type : {"boot", "shutdown"}, sec : 0..MaxClock]
BootInv ==
    /\ clock \in 0..MaxClock /\ firstBoot = 1 /\ backdates \in BOOLEAN
    /\ wtmp \in Seq(BootRecord) /\ wtmp # <<>>
    /\ place \in {"started", "home"} => wtmp[Len(wtmp)].type = "boot"
    /\ place = "home" => \A j \in 1..Len(wtmp) - 1 : wtmp[j].sec <= wtmp[Len(wtmp)].sec

(* Where the last record is a boot, it is the one corrected, and EarlierMax is the
   greatest time before it (backdated_boot_fix). *)
LEMMA EarlierTimes ==
  ASSUME NEW w \in Seq(BootRecord), w # <<>>, w[Len(w)].type = "boot"
  PROVE  /\ LastBoot(w) = Len(w)
         /\ EarlierMax(w) \in -1..MaxClock
         /\ \A j \in 1..Len(w) - 1 : w[j].sec <= EarlierMax(w)
         /\ \A t \in Int : (\A j \in 1..Len(w) - 1 : w[j].sec <= t) /\ t >= 0 => EarlierMax(w) <= t
<1>. USE IdentityAssumption
<1>0. Len(w) \in Nat \ {0} /\ DOMAIN w = 1..Len(w) /\ \A i \in 1..Len(w) : w[i] \in BootRecord
  OBVIOUS
<1>1. LastBoot(w) = Len(w)
  <2> DEFINE B == {i \in DOMAIN w : w[i].type = "boot"}
  <2>1. Len(w) \in B /\ B \subseteq Int /\ \A i \in B : i <= Len(w)
    BY <1>0
  <2>. HIDE DEF B
  <2>2. Max(B) \in B /\ \A i \in B : i <= Max(B)
    <3>1. B \in SUBSET Int /\ B # {} /\ Len(w) \in Int
      BY <2>1, <1>0, Zenon
    <3>. QED
      BY <2>1, <3>1, Greatest, Zenon
  <2>3. Max(B) = Len(w)
    <3>1. Max(B) \in Int /\ Max(B) <= Len(w) /\ Len(w) <= Max(B)
      BY <2>1, <2>2, Zenon
    <3>. QED
      BY <3>1, <1>0
  <2>. QED
    BY <2>3, Zenon DEF LastBoot, B
<1> DEFINE S == {-1} \cup {w[i].sec : i \in 1..Len(w) - 1}
<1>2. S \subseteq -1..MaxClock /\ -1 \in S
  BY <1>0 DEF BootRecord
<1>3. EarlierMax(w) = Max(S)
  BY <1>1, Zenon DEF EarlierMax
<1>4. (\A j \in 1..Len(w) - 1 : w[j].sec \in S) /\ \A x \in S : x = -1 \/ \E j \in 1..Len(w) - 1 : x = w[j].sec
  BY Zenon
<1>. HIDE DEF S
<1>5. Max(S) \in S /\ \A x \in S : x <= Max(S)
  <2>1. S \in SUBSET Int /\ S # {} /\ MaxClock \in Int /\ \A x \in S : x <= MaxClock
    BY <1>2
  <2>. QED
    BY <2>1, Greatest, Zenon
<1>6. \A t \in Int : (\A j \in 1..Len(w) - 1 : w[j].sec <= t) /\ t >= 0 => Max(S) <= t
  <2>1. Max(S) = -1 \/ \E j \in 1..Len(w) - 1 : Max(S) = w[j].sec
    BY <1>4, <1>5, Zenon
  <2>. QED
    BY <2>1
<1>7. \A j \in 1..Len(w) - 1 : w[j].sec <= Max(S)
  BY <1>4, <1>5, Zenon
<1>. QED
  BY <1>1, <1>2, <1>3, <1>5, <1>6, <1>7, Zenon

(* Two numbers have a greater and a smaller one. *)
LEMMA OfTwo ==
  ASSUME NEW a \in Int, NEW b \in Int
  PROVE  /\ Max({a, b}) \in {a, b} /\ Max({a, b}) >= a /\ Max({a, b}) >= b
         /\ Min({a, b}) \in {a, b} /\ Min({a, b}) <= a /\ Min({a, b}) <= b
<1>1. \E x \in {a, b} : \A y \in {a, b} : x >= y
  OBVIOUS
<1>2. \E x \in {a, b} : \A y \in {a, b} : x =< y
  OBVIOUS
<1>. QED
  BY <1>1, <1>2, Zenon DEF Max, Min

(* Every step of a session keeps what is known of the network. *)
LEMMA NetStep == NetInv /\ [IdentityNext]_identityVars => NetInv'
<1>. SUFFICES ASSUME NetInv, [IdentityNext]_identityVars PROVE NetInv'
  OBVIOUS
<1>. USE IdentityAssumption
<1>1. CASE Enter
  BY <1>1, Zenon DEF NetInv, Enter, Captured, NoRecord, tools
<1>2. CASE ChangeIdentity
  BY <1>2, Zenon DEF NetInv, ChangeIdentity, boots, tools
<1>3. CASE Restore
  <2>1. CASE netRecord = NoRecord
    BY <1>3, <2>1, Zenon DEF NetInv, Restore, boots, tools
  <2>2. CASE netRecord # NoRecord
    <3>1. netRecord = decoyNet /\ decoyNet' = decoyNet /\ netRecord' = netRecord
          /\ hasIp' = hasIp /\ etcHostname' = etcHostname /\ place' = "left"
      BY <1>3, <2>2, Zenon DEF NetInv, Restore, boots, tools
    <3>2. hostname' \in {"decoy", "hidden"} /\ (~etcHostname => hostname' = decoyNet.hostname)
      BY <1>3, <2>2, <3>1, Zenon DEF NetInv, Restore, SetsHostname
    <3>3. hasIp => links' = [n \in DOMAIN links \ Deletes(decoyNet) |->
                               IF n \in SetMac(decoyNet) THEN decoyNet.links[n] ELSE links[n]]
      BY <1>3, <2>2, <3>1, Zenon DEF NetInv, Restore
    <3>4. hasIp => DOMAIN links' \cap Virtual \subseteq DOMAIN decoyNet.links
      BY <3>3, Zenon DEF Deletes
    <3>5. ASSUME hasIp, NEW n \in DOMAIN links' \cap DOMAIN decoyNet.links
          PROVE  links'[n] = decoyNet.links[n]
      BY <3>3, <3>5, Zenon DEF SetMac
    <3>. QED
      BY <2>2, <3>1, <3>2, <3>4, <3>5, Zenon DEF NetInv
  <2>. QED
    BY <2>1, <2>2, Zenon
<1>4. CASE StartDecoy
  BY <1>4, Zenon DEF NetInv, StartDecoy, tools
<1>5. CASE Reconcile
  BY <1>5, Zenon DEF NetInv, Reconcile, net, tools
<1>6. CASE UNCHANGED identityVars
  BY <1>6, Zenon DEF NetInv, identityVars
<1>. QED
  BY <1>1, <1>2, <1>3, <1>4, <1>5, <1>6, Zenon DEF IdentityNext

(* A record added or corrected is one the file can hold, and the corrected one
   comes after all before it. *)
LEMMA BootStep == NetInv /\ BootInv /\ [IdentityNext]_identityVars => BootInv'
<1>. SUFFICES ASSUME NetInv, BootInv, [IdentityNext]_identityVars PROVE BootInv'
  BY Zenon
<1>. USE IdentityAssumption
<1>1. CASE Enter
  <2>1. clock' \in 0..MaxClock /\ [type |-> "shutdown", sec |-> clock'] \in BootRecord
    BY <1>1, Zenon DEF Enter, Tick, BootRecord
  <2>. QED
    BY <1>1, <2>1 DEF BootInv, Enter, tools
<1>2. CASE ChangeIdentity \/ Restore
  <2>1. UNCHANGED boots /\ place' \in {"hidden", "left"}
    BY <1>2, Zenon DEF ChangeIdentity, Restore
  <2>. QED
    BY <2>1, Zenon DEF BootInv, boots, tools
<1>3. CASE StartDecoy
  <2> DEFINE r == [type |-> "boot", sec |-> IF backdates THEN firstBoot ELSE clock']
  <2>1. clock' \in 0..MaxClock /\ r \in BootRecord
    BY <1>3 DEF StartDecoy, Tick, BootRecord, BootInv
  <2>2. wtmp' = Append(wtmp, r) /\ place' = "started" /\ UNCHANGED tools
    BY <1>3, Zenon DEF StartDecoy
  <2>. HIDE DEF r
  <2>3. wtmp' \in Seq(BootRecord) /\ wtmp' # <<>> /\ wtmp'[Len(wtmp')] = r
    BY <2>1, <2>2 DEF BootInv
  <2>. QED
    BY <2>1, <2>2, <2>3, SMTT(30) DEF BootInv, tools, r
<1>4. CASE Reconcile
  <2>1. /\ place = "started" /\ place' = "home" /\ clock' \in 0..MaxClock
        /\ wtmp' = ReconcileWtmp(wtmp, clock') /\ UNCHANGED tools
    BY <1>4, Zenon DEF Reconcile, Tick
  <2> DEFINE n == Len(wtmp)
             e == EarlierMax(wtmp)
             c == Corrected(wtmp, clock')
  <2>2. /\ wtmp \in Seq(BootRecord) /\ wtmp # <<>> /\ wtmp[n].type = "boot"
        /\ n \in Nat \ {0} /\ \A j \in 1..n : wtmp[j] \in BootRecord
    BY <2>1 DEF BootInv
  <2>3. LastBoot(wtmp) = n /\ e \in -1..MaxClock /\ \A j \in 1..n - 1 : wtmp[j].sec <= e
    BY <2>2, EarlierTimes, Zenon
  <2>4. c \in 0..MaxClock /\ e <= c
    <3> DEFINE s == Saturated(e + 1)
    <3>1. s \in {e + 1, MaxClock} /\ s <= MaxClock
      <4>1. e + 1 \in Int /\ MaxClock \in Int
        BY <2>3, SMTT(30)
      <4>. QED
        BY <4>1, OfTwo, Zenon DEF Saturated
    <3>2. s \in 0..MaxClock /\ e <= s
      BY <2>3, <3>1
    <3>. HIDE DEF s
    <3>3. Max({clock', s}) \in {clock', s} /\ Max({clock', s}) >= s
      BY <2>1, <3>2, OfTwo
    <3>4. c = Max({clock', s})
      BY Zenon DEF Corrected, s
    <3>. QED
      BY <2>1, <2>3, <3>2, <3>3, <3>4, SMTT(30)
  <2>. HIDE DEF e, c
  <2>5. CASE Backdated(wtmp)
    <3>1. wtmp' = [wtmp EXCEPT ![n].sec = c]
      BY <2>1, <2>3, <2>5, Zenon DEF ReconcileWtmp, c
    <3>2. /\ wtmp' \in Seq(BootRecord) /\ Len(wtmp') = n /\ wtmp'[n] = [type |-> "boot", sec |-> c]
          /\ \A j \in 1..n - 1 : wtmp'[j] = wtmp[j]
      <4>1. wtmp[n] \in BootRecord
        BY <2>2
      <4>2. [wtmp[n] EXCEPT !.sec = c] = [type |-> "boot", sec |-> c]
        BY <2>2, <4>1, SMTT(30) DEF BootRecord
      <4>3. wtmp' = [wtmp EXCEPT ![n] = [type |-> "boot", sec |-> c]]
        BY <3>1, <4>2, Zenon
      <4>4. [type |-> "boot", sec |-> c] \in BootRecord
        BY <2>4, Zenon DEF BootRecord
      <4>. QED
        BY <2>2, <4>3, <4>4, SMTT(30)
    <3>3. \A j \in 1..n - 1 : wtmp'[j].sec <= c
      <4>1. \A j \in 1..n - 1 : wtmp'[j].sec <= e /\ wtmp[j].sec \in Int
        BY <2>2, <2>3, <3>2, SMTT(30) DEF BootRecord
      <4>. QED
        BY <2>3, <2>4, <3>2, <4>1, SMTT(30)
    <3>. QED
      BY <2>1, <2>2, <3>2, <3>3 DEF BootInv, tools
  <2>6. CASE ~Backdated(wtmp)
    <3>1. wtmp' = wtmp
      BY <2>1, <2>6, Zenon DEF ReconcileWtmp
    <3>2. wtmp[n].sec \in Int /\ e <= wtmp[n].sec
      BY <2>2, <2>3, <2>6, SMTT(30) DEF Backdated, BootRecord, e
    <3>3. \A j \in 1..n - 1 : wtmp[j].sec <= wtmp[n].sec
      BY <2>2, <2>3, <3>2, SMTT(30) DEF BootRecord
    <3>. QED
      BY <2>1, <2>2, <3>1, <3>3, Zenon DEF BootInv, tools
  <2>. QED
    BY <2>5, <2>6, Zenon
<1>5. CASE UNCHANGED identityVars
  BY <1>5, Zenon DEF BootInv, identityVars
<1>. QED
  BY <1>1, <1>2, <1>3, <1>4, <1>5, Zenon DEF IdentityNext

(* Where its record was written, the decoy that starts again has its host name
   and, with ip, no virtual link of the session's and its own address on every
   link it still has; no device is deleted on the way, and the boot records are in
   order, over any number of sessions and changes and however the clock is set
   (network::restore, reconcile_wtmp). *)
THEOREM IdentityComesBack == IdentitySpec => IdentityBack
<1>1. IdentityInit => NetInv /\ BootInv
  <2>1. IdentityInit => NetInv
    BY Zenon DEF IdentityInit, NetInv
  <2>2. ASSUME IdentityInit PROVE BootInv
    <3>1. [type |-> "boot", sec |-> 1] \in BootRecord
      BY IdentityAssumption DEF BootRecord
    <3>. QED
      BY <2>2, <3>1, IdentityAssumption DEF IdentityInit, BootInv
  <2>. QED
    BY <2>1, <2>2, Zenon
<1>2. NetInv => NetworkBack
  BY Zenon DEF NetInv, NetworkBack
<1>3. ASSUME BootInv, place = "home" PROVE BootsInOrder
  <2>1. /\ wtmp \in Seq(BootRecord) /\ wtmp # <<>> /\ wtmp[Len(wtmp)].type = "boot"
        /\ Len(wtmp) \in Nat \ {0} /\ \A j \in 1..Len(wtmp) : wtmp[j] \in BootRecord
        /\ \A j \in 1..Len(wtmp) - 1 : wtmp[j].sec <= wtmp[Len(wtmp)].sec
    BY <1>3 DEF BootInv
  <2>2. LastBoot(wtmp) = Len(wtmp) /\ EarlierMax(wtmp) \in Int
    BY <2>1, EarlierTimes, IdentityAssumption, SMTT(30)
  <2>3. wtmp[Len(wtmp)].sec \in Int /\ wtmp[Len(wtmp)].sec >= 0
    BY <2>1, IdentityAssumption, SMTT(30) DEF BootRecord
  <2>4. EarlierMax(wtmp) <= wtmp[Len(wtmp)].sec
    BY <2>1, <2>3, EarlierTimes, Zenon
  <2>5. ~Backdated(wtmp)
    BY <2>2, <2>3, <2>4 DEF Backdated
  <2>. QED
    BY <2>1, <2>2, <2>5, Zenon DEF BootsInOrder, ReconcileWtmp
<1>4. BootInv => BootsInOrder
  BY <1>3, Zenon DEF BootsInOrder
<1>5. IdentityNext => [place = "hidden" /\ place' = "left" => DOMAIN links \cap Hardware \subseteq DOMAIN links']_identityVars
  <2>1. ASSUME Restore PROVE DOMAIN links \cap Hardware \subseteq DOMAIN links'
    BY <2>1, IdentityAssumption, Zenon DEF Restore, Deletes
  <2>2. Enter \/ ChangeIdentity \/ StartDecoy \/ Reconcile => ~(place = "hidden" /\ place' = "left")
    BY Zenon DEF Enter, ChangeIdentity, StartDecoy, Reconcile
  <2>. QED
    BY <2>1, <2>2, Zenon DEF IdentityNext
<1>. QED
  BY <1>1, <1>2, <1>4, <1>5, NetStep, BootStep, PTL
      DEF IdentitySpec, IdentityBack, DevicesKept

-----------------------------------------------------------------------------
(***************************************************************************)
(* nails init completes what an earlier run left, meets nothing it could   *)
(* not write over, and undoes nothing, for any number of runs.             *)
(***************************************************************************)
(* The layout is four directories, five with the NixOS layer. *)
LEMMA LayoutShape ==
    ASSUME NEW b \in BOOLEAN
    PROVE  /\ LayoutLen(b) \in 4 .. 5
           /\ LayoutDirs(b) \subseteq Subdirs
           /\ \A j \in 1 .. LayoutLen(b) : LayoutSubdirs[j] \in LayoutDirs(b)
<1>1. LayoutLen(b) \in 4 .. 5 /\ LayoutLen(TRUE) = 5
  BY DEF LayoutLen
<1>2. ASSUME NEW n \in 4 .. 5 PROVE 1 .. n \subseteq 1 .. 5
  OBVIOUS
<1>3. LayoutDirs(b) \subseteq Subdirs
  BY <1>1, <1>2, Zenon DEF Subdirs, LayoutDirs
<1>4. \A j \in 1 .. LayoutLen(b) : LayoutSubdirs[j] \in LayoutDirs(b)
  BY Zenon DEF LayoutDirs
<1>. QED
  BY <1>1, <1>3, <1>4, Zenon

(* A step is its name and, at a directory, that directory's place. *)
LEMMA StepParts ==
    /\ \A s \in Steps : s[1] = "idle" <=> s = AtStep("idle")
    /\ \A i \in 1 .. 5 : AtDir(i) \in Steps /\ AtDir(i)[1] = "dir" /\ AtDir(i)[2] = i
    /\ \A i \in 1 .. 5 : AtMode(i) \in Steps /\ AtMode(i)[1] = "mode" /\ AtMode(i)[2] = i
    /\ \A s \in {"idle", "config", "template", "lock", "save", "nixos"} : AtStep(s) \in Steps /\ AtStep(s)[1] = s
BY DEF Steps, AtDir, AtMode, AtStep

(* What init has done when it is at a step, and who holds the lock. *)
SetupInv ==
    /\ SetupTypeOK /\ NoSurprise /\ InitCompletes
    /\ finished => initStep[1] = "idle"
    /\ lockHeld = "init" <=> initStep[1] = "save"
    /\ initStep[1] \in {"dir", "mode"} =>
         /\ initStep[2] \in 1 .. LayoutLen(bootstrap)
         /\ \A j \in 1 .. initStep[2] - 1 : dirs[LayoutSubdirs[j]] = "private"
    /\ initStep[1] \in {"config", "template", "lock", "save", "nixos"} =>
         \A j \in 1 .. LayoutLen(bootstrap) : dirs[LayoutSubdirs[j]] = "private"
    /\ initStep[1] \in {"lock", "save", "nixos"} => confFile \in {"template", "operator"}
    /\ initStep[1] = "save" => stateItem = "none"
    /\ initStep[1] = "nixos" => stateItem \in {"default", "recorded"}

(* Nothing has run yet. *)
LEMMA SetupInvInit == SetupInit => SetupInv
<1>. SUFFICES ASSUME SetupInit PROVE SetupInv
  OBVIOUS
<1>1. AtStep("idle") \in Steps /\ AtStep("idle")[1] = "idle"
  BY StepParts, Zenon
<1>2. dirs \in [Subdirs -> {"none", "open", "private", "file"}]
  BY Zenon DEF SetupInit
<1>3. inits \in 0 .. MaxInits
  BY SetupAssumption DEF SetupInit
<1>4. SetupTypeOK
  BY <1>1, <1>2, <1>3, Zenon DEF SetupInit, SetupTypeOK
<1>5. initStep[1] = "idle" /\ ~finished /\ lockHeld = "nobody"
  BY <1>1, Zenon DEF SetupInit
<1>. QED
  BY <1>4, <1>5, Zenon DEF SetupInit, SetupInv, NoSurprise, InitCompletes

-----------------------------------------------------------------------------
(* A plan begins with nothing in the way (obstructions). *)
LEMMA PlanKeeps ==
    ASSUME SetupInv, PlanInit
    PROVE  SetupInv'
<1>1. UNCHANGED <<dirs, confFile, stateItem, nixosLayer, lockHeld>> /\ finished' = FALSE
      /\ initStep = AtStep("idle") /\ inits' \in 0 .. MaxInits
  BY SetupAssumption DEF PlanInit, VolumeItems, SetupInv, SetupTypeOK
<1>2. bootstrap' \in BOOLEAN
  BY Zenon DEF PlanInit
<1>3. initStep[1] = "idle" /\ initStep \in Steps
  BY <1>1, StepParts, Zenon
<1>4. CASE UNCHANGED initStep
  BY <1>1, <1>2, <1>3, <1>4, ZenonT(60) DEF SetupInv, SetupTypeOK, NoSurprise, InitCompletes
<1>5. CASE Obstructions(bootstrap') = {} /\ initStep' = AtDir(1)
  <2>1. initStep' \in Steps /\ initStep'[1] = "dir" /\ initStep'[2] = 1
    BY <1>5, StepParts
  <2>2. /\ \A d \in LayoutDirs(bootstrap') : dirs[d] # "file"
        /\ confFile # "dir" /\ stateItem # "dir"
    BY <1>5, Zenon DEF Obstructions
  <2>3. 1 \in 1 .. LayoutLen(bootstrap')
    BY <1>2, LayoutShape
  <2>4. SetupTypeOK'
    BY <1>1, <1>2, <2>1, Zenon DEF SetupInv, SetupTypeOK
  <2>5. NoSurprise' /\ InitCompletes'
    BY <1>1, <2>2, Zenon DEF NoSurprise, InitCompletes
  <2>6. lockHeld' # "init"
    BY <1>1, <1>3, Zenon DEF SetupInv
  <2>. QED
    BY <1>1, <2>1, <2>3, <2>4, <2>5, <2>6, SMTT(30) DEF SetupInv
<1>. QED
  BY <1>4, <1>5, Zenon DEF PlanInit

(* The directory a step is at belongs to the layout. *)
LEMMA AtLayout ==
    ASSUME SetupInv, initStep[1] \in {"dir", "mode"}
    PROVE  /\ initStep[2] \in 1 .. LayoutLen(bootstrap) /\ LayoutLen(bootstrap) \in 4 .. 5
           /\ CurrentDir \in Subdirs /\ CurrentDir \in LayoutDirs(bootstrap)
           /\ \A j \in 1 .. LayoutLen(bootstrap) : LayoutSubdirs[j] \in Subdirs
<1>1. bootstrap \in BOOLEAN /\ initStep[2] \in 1 .. LayoutLen(bootstrap)
  BY Zenon DEF SetupInv, SetupTypeOK
<1>. QED
  BY <1>1, LayoutShape, Zenon DEF CurrentDir

(* A directory is made before its mode is set, and none after it is touched. *)
LEMMA DirsKeep ==
    ASSUME SetupInv, MakeDir \/ SetMode
    PROVE  SetupInv'
<1>. DEFINE i == initStep[2]
<1>1. UNCHANGED <<confFile, stateItem, nixosLayer, lockHeld, bootstrap, inits, finished>>
      /\ initStep[1] \in {"dir", "mode"}
  BY Zenon DEF MakeDir, SetMode
<1>2. /\ i \in 1 .. LayoutLen(bootstrap) /\ LayoutLen(bootstrap) \in 4 .. 5
      /\ CurrentDir = LayoutSubdirs[i] /\ CurrentDir \in Subdirs
      /\ \A j \in 1 .. LayoutLen(bootstrap) : LayoutSubdirs[j] \in Subdirs
  BY <1>1, AtLayout, Zenon DEF CurrentDir
<1>3. finished = FALSE /\ lockHeld # "init" /\ initStep # AtStep("idle") /\ i \in 1 .. 5
  BY <1>1, <1>2, StepParts DEF SetupInv, SetupTypeOK
<1>4. dirs \in [Subdirs -> {"none", "open", "private", "file"}]
  BY Zenon DEF SetupInv, SetupTypeOK
<1>5. NoSurprise
  BY Zenon DEF SetupInv
<1>6. \A j \in 1 .. i - 1 : dirs[LayoutSubdirs[j]] = "private"
  BY <1>1, Zenon DEF SetupInv
<1>7. CASE MakeDir
  <2>1. initStep' \in Steps /\ initStep'[1] = "mode" /\ initStep'[2] = i
    BY <1>3, <1>7, StepParts, Zenon DEF MakeDir
  <2>2. dirs' \in [Subdirs -> {"none", "open", "private", "file"}]
    BY <1>4, <1>7, Zenon DEF MakeDir
  <2>3. \A d \in Subdirs : dirs'[d] = dirs[d] \/ (dirs[d] = "none" /\ dirs'[d] = "open")
    BY <1>2, <1>4, <1>7, ZenonT(60) DEF MakeDir
  <2>4. \A d \in LayoutDirs(bootstrap) : dirs'[d] # "file"
    BY <1>3, <1>5, <2>3, LayoutShape, SMTT(30) DEF NoSurprise, SetupInv, SetupTypeOK
  <2>5. SetupTypeOK'
    BY <1>1, <2>1, <2>2, Zenon DEF SetupInv, SetupTypeOK
  <2>6. NoSurprise' /\ InitCompletes'
    BY <1>1, <1>3, <1>5, <2>4, ZenonT(60) DEF NoSurprise, InitCompletes
  <2>7. \A j \in 1 .. i - 1 : dirs'[LayoutSubdirs[j]] = "private"
    BY <1>2, <1>6, <2>3
  <2>. QED
    BY <1>1, <1>2, <1>3, <2>1, <2>5, <2>6, <2>7, Zenon DEF SetupInv
<1>8. CASE SetMode
  <2>1. dirs' \in [Subdirs -> {"none", "open", "private", "file"}]
    BY <1>4, <1>8, Zenon DEF SetMode
  <2>2. \A d \in Subdirs : dirs'[d] = IF d = CurrentDir THEN "private" ELSE dirs[d]
    BY <1>4, <1>8, Zenon DEF SetMode
  <2>3. \A d \in LayoutDirs(bootstrap) : dirs'[d] # "file"
    BY <1>3, <1>5, <2>2, LayoutShape, Zenon DEF NoSurprise, SetupInv, SetupTypeOK
  <2>4. NoSurprise' /\ InitCompletes'
    BY <1>1, <1>3, <1>5, <2>3, SMTT(30) DEF NoSurprise, InitCompletes
  <2>5. \A j \in 1 .. i : dirs'[LayoutSubdirs[j]] = "private"
    BY <1>2, <1>6, <2>2, SMTT(30)
  <2>6. CASE i < LayoutLen(bootstrap)
    <3>1. initStep' = AtDir(i + 1) /\ i + 1 \in 1 .. 5
      BY <1>2, <1>8, <2>6 DEF SetMode, PastDir
    <3>2. initStep' \in Steps /\ initStep'[1] = "dir" /\ initStep'[2] = i + 1
      BY <3>1, StepParts, ZenonT(60)
    <3>3. SetupTypeOK'
      BY <1>1, <2>1, <3>2 DEF SetupInv, SetupTypeOK
    <3>. QED
      BY <1>1, <1>2, <1>3, <2>4, <2>5, <2>6, <3>2, <3>3, SMTT(30) DEF SetupInv
  <2>7. CASE ~ (i < LayoutLen(bootstrap))
    <3>1. initStep' = AtStep("config") /\ i = LayoutLen(bootstrap)
      BY <1>2, <1>8, <2>7 DEF SetMode, PastDir
    <3>2. initStep' \in Steps /\ initStep'[1] = "config"
      BY <3>1, StepParts, Zenon
    <3>3. SetupTypeOK'
      BY <1>1, <2>1, <3>2, Zenon DEF SetupInv, SetupTypeOK
    <3>. QED
      BY <1>1, <1>3, <2>4, <2>5, <3>1, <3>2, <3>3, ZenonT(60) DEF SetupInv
  <2>. QED
    BY <2>6, <2>7, Zenon
<1>. QED
  BY <1>7, <1>8, Zenon

(* The files are written where a look found none, at the state under the lock
   (apply, write_state_file). *)
LEMMA FilesKeep ==
    ASSUME SetupInv, LookConfig \/ WriteTemplate \/ LookUnderLock \/ SaveState \/ StageNixos
    PROVE  SetupInv'
<1>1. bootstrap \in BOOLEAN /\ initStep \in Steps
  BY Zenon DEF SetupInv, SetupTypeOK
<1>2. CASE WriteTemplate
  <2>1. initStep[1] = "template" /\ initStep'[1] = "lock" /\ initStep' \in Steps
    BY <1>2, StepParts, Zenon DEF WriteTemplate
  <2>2. initStep # AtStep("idle")
    BY <1>1, <2>1, StepParts, Zenon
  <2>3. UNCHANGED <<dirs, stateItem, nixosLayer, lockHeld, bootstrap, inits, finished>> /\ confFile' = "template"
    BY <1>2, Zenon DEF WriteTemplate
  <2>. QED
    BY <2>1, <2>2, <2>3, Zenon DEF SetupInv, SetupTypeOK, NoSurprise, InitCompletes
<1>6. CASE LookConfig
  <2>1. initStep[1] = "config" /\ initStep # AtStep("idle")
    BY <1>1, <1>6, StepParts, Zenon DEF LookConfig
  <2>2. UNCHANGED <<dirs, confFile, stateItem, nixosLayer, lockHeld, bootstrap, inits, finished>>
    BY <1>6, Zenon DEF LookConfig, VolumeItems
  <2>3. confFile \in {"none", "template", "operator"}
    BY <2>1, Zenon DEF SetupInv, SetupTypeOK, NoSurprise
  <2>4. /\ initStep' \in Steps
        /\ \/ initStep'[1] = "template"
           \/ confFile \in {"template", "operator"} /\ initStep'[1] = "lock"
    BY <1>6, <2>3, StepParts, Zenon DEF LookConfig
  <2>. QED
    BY <2>1, <2>2, <2>4, Zenon DEF SetupInv, SetupTypeOK, NoSurprise, InitCompletes
<1>3. CASE LookUnderLock
  <2>1. initStep[1] = "lock" /\ lockHeld = "nobody" /\ stateItem # "dir"
    BY <1>3, StepParts, Zenon DEF LookUnderLock
  <2>2. initStep # AtStep("idle")
    BY <1>1, <2>1, StepParts, Zenon
  <2>3. UNCHANGED <<dirs, confFile, stateItem, nixosLayer, bootstrap, inits, finished>>
    BY <1>3, Zenon DEF LookUnderLock, VolumeItems
  <2>4. \/ stateItem = "none" /\ lockHeld' = "init" /\ initStep' = AtStep("save")
        \/ stateItem # "none" /\ lockHeld' = "nobody" /\ initStep' = AtStep("nixos")
    BY <1>3, <2>1, Zenon DEF LookUnderLock
  <2>5. /\ initStep' \in Steps
        /\ \/ stateItem = "none" /\ lockHeld' = "init" /\ initStep'[1] = "save"
           \/ stateItem # "none" /\ lockHeld' = "nobody" /\ initStep'[1] = "nixos"
    BY <2>4, StepParts, Zenon
  <2>. QED
    BY <2>1, <2>2, <2>3, <2>5, Zenon DEF SetupInv, SetupTypeOK, NoSurprise, InitCompletes
<1>4. CASE SaveState
  <2>1. initStep[1] = "save" /\ initStep'[1] = "nixos" /\ initStep' \in Steps
    BY <1>4, StepParts, Zenon DEF SaveState
  <2>2. initStep # AtStep("idle")
    BY <1>1, <2>1, StepParts, Zenon
  <2>3. UNCHANGED <<dirs, confFile, nixosLayer, bootstrap, inits, finished>>
        /\ stateItem' = "default" /\ lockHeld' = "nobody"
    BY <1>4, <2>1, Zenon DEF SaveState, SetupInv
  <2>. QED
    BY <2>1, <2>2, <2>3, Zenon DEF SetupInv, SetupTypeOK, NoSurprise, InitCompletes
<1>5. CASE StageNixos
  <2>1. initStep[1] = "nixos" /\ initStep'[1] = "idle" /\ initStep' \in Steps /\ initStep' = AtStep("idle")
    BY <1>5, StepParts, Zenon DEF StageNixos
  <2>2. UNCHANGED <<dirs, confFile, stateItem, lockHeld, bootstrap, inits>> /\ finished' = TRUE
        /\ nixosLayer' = (nixosLayer \/ bootstrap)
    BY <1>5, Zenon DEF StageNixos
  <2>3. nixosLayer' \in BOOLEAN /\ (bootstrap => nixosLayer')
    BY <2>2, Zenon
  <2>4. \A d \in LayoutDirs(bootstrap) : dirs[d] = "private"
    BY <2>1, Zenon DEF SetupInv, LayoutDirs
  <2>5. SetupTypeOK'
    BY <2>1, <2>2, <2>3, Zenon DEF SetupInv, SetupTypeOK
  <2>6. InitCompletes'
    BY <2>1, <2>2, <2>3, <2>4, Zenon DEF SetupInv, InitCompletes
  <2>. QED
    BY <2>1, <2>2, <2>5, <2>6, Zenon DEF SetupInv, NoSurprise
<1>. QED
  BY <1>2, <1>3, <1>4, <1>5, <1>6, Zenon

(* A run that stops lets the lock go; what others do undoes nothing of init's. *)
LEMMA OtherStepsKeep ==
    ASSUME SetupInv, StopInit \/ EditConfig \/ ClearObstacle \/ TakeLock \/ RecordState \/ UNCHANGED setupVars
    PROVE  SetupInv'
<1>1. bootstrap \in BOOLEAN /\ initStep \in Steps /\ finished \in BOOLEAN
  BY Zenon DEF SetupInv, SetupTypeOK
<1>2. AtStep("idle") \in Steps /\ AtStep("idle")[1] = "idle"
  BY StepParts, Zenon
<1>3. LayoutDirs(bootstrap) \subseteq Subdirs
  BY <1>1, LayoutShape, ZenonT(60)
<1>4. CASE StopInit
  <2>1. UNCHANGED <<dirs, confFile, stateItem, nixosLayer, bootstrap, inits, finished>>
        /\ initStep' = AtStep("idle") /\ lockHeld' \in {"nobody", "other"}
    BY <1>4, Zenon DEF StopInit, VolumeItems, SetupInv, SetupTypeOK
  <2>. QED
    BY <1>2, <2>1 DEF SetupInv, SetupTypeOK, NoSurprise, InitCompletes
<1>5. CASE EditConfig
  <2>1. UNCHANGED <<dirs, stateItem, nixosLayer, lockHeld, initStep, bootstrap, inits, finished>>
        /\ confFile' = "operator"
    BY <1>5, Zenon DEF EditConfig
  <2>. QED
    BY <1>2, <2>1, ZenonT(60) DEF SetupInv, SetupTypeOK, NoSurprise, InitCompletes
<1>6. CASE ClearObstacle
  <2>1. UNCHANGED <<nixosLayer, lockHeld, initStep, bootstrap, inits, finished>> /\ initStep = AtStep("idle")
    BY <1>6, Zenon DEF ClearObstacle
  <2>2. dirs' \in [Subdirs -> {"none", "open", "private", "file"}]
    BY <1>6, Zenon DEF ClearObstacle, SetupInv, SetupTypeOK
  <2>3. \A d \in Subdirs : dirs[d] = "private" => dirs'[d] = "private"
    BY <1>6, Zenon DEF ClearObstacle
  <2>4. /\ confFile' \in {"none", "template", "operator", "dir"}
        /\ stateItem' \in {"none", "default", "recorded", "dir"}
        /\ confFile \in {"template", "operator"} => confFile' = confFile
        /\ stateItem \in {"default", "recorded"} => stateItem' = stateItem
    BY <1>6, Zenon DEF ClearObstacle, SetupInv, SetupTypeOK
  <2>5. SetupTypeOK'
    BY <2>1, <2>2, <2>4, Zenon DEF SetupInv, SetupTypeOK
  <2>6. InitCompletes'
    BY <1>3, <2>1, <2>3, <2>4, ZenonT(60) DEF SetupInv, InitCompletes
  <2>. QED
    BY <1>2, <2>1, <2>5, <2>6, Zenon DEF SetupInv, NoSurprise
<1>7. CASE TakeLock
  <2>1. UNCHANGED <<dirs, confFile, stateItem, nixosLayer, initStep, bootstrap, inits, finished>>
        /\ lockHeld = "nobody" /\ lockHeld' = "other"
    BY <1>7, ZenonT(60) DEF TakeLock, VolumeItems
  <2>. QED
    BY <2>1 DEF SetupInv, SetupTypeOK, NoSurprise, InitCompletes
<1>8. CASE RecordState
  <2>1. UNCHANGED <<dirs, confFile, nixosLayer, initStep, bootstrap, inits, finished>>
        /\ lockHeld = "other" /\ lockHeld' = "nobody"
        /\ stateItem' = IF stateItem = "dir" THEN "dir" ELSE "recorded"
    BY <1>8, ZenonT(60) DEF RecordState
  <2>. QED
    BY <2>1 DEF SetupInv, SetupTypeOK, NoSurprise, InitCompletes
<1>9. CASE UNCHANGED setupVars
  BY <1>9, SMTT(30) DEF setupVars, SetupInv, SetupTypeOK, NoSurprise, InitCompletes
<1>. QED
  BY <1>4, <1>5, <1>6, <1>7, <1>8, <1>9, Zenon

-----------------------------------------------------------------------------
(* SetupInv is inductive. *)
THEOREM SetupInvariant == SetupSpec => []SetupInv
<1>1. SetupInv /\ [SetupNext]_setupVars => SetupInv'
  BY PlanKeeps, DirsKeep, FilesKeep, OtherStepsKeep, Zenon DEF SetupNext
<1>. QED
  BY SetupInvInit, <1>1, PTL DEF SetupSpec

(* A run that reports success has completed the layout, whatever earlier runs
   left (apply). *)
THEOREM RerunCompletes == SetupSpec => []InitCompletes
<1>1. SetupInv => InitCompletes
  BY Zenon DEF SetupInv
<1>. QED
  BY SetupInvariant, <1>1, PTL

(* Past its plan init meets nothing it could not write over: "every other
   precondition is checked before the first write". *)
THEOREM PlanForesees == SetupSpec => []NoSurprise
<1>1. SetupInv => NoSurprise
  BY Zenon DEF SetupInv
<1>. QED
  BY SetupInvariant, <1>1, PTL

(* init undoes neither a state another command recorded nor the operator's
   configuration, in whatever order they come, but for a configuration written
   between init's look for one and its template (apply, write_state_file). *)
THEOREM OthersWorkKept == SetupSpec => InitKeepsOthers
<1>1. SetupInv /\ [SetupNext]_setupVars =>
        [/\ confFile = "operator" /\ initStep # AtStep("template") => confFile' = "operator"
         /\ stateItem = "recorded" => stateItem' = "recorded"]_setupVars
  <2>1. SetupInv /\ SaveState => stateItem # "recorded"
    BY StepParts, Zenon DEF SetupInv, SaveState
  <2>. QED
    BY <2>1, Zenon
        DEF SetupNext, PlanInit, MakeDir, SetMode, LookConfig, WriteTemplate, LookUnderLock, SaveState,
                StageNixos, StopInit, EditConfig, ClearObstacle, TakeLock, RecordState, VolumeItems
<1>. QED
  BY SetupInvariant, <1>1, PTL DEF SetupSpec, InitKeepsOthers

(* The whole promise of nails init (apply): it completes, meets nothing its
   plan did not foresee, and undoes nobody's work but a configuration written
   between its look and its template. *)
THEOREM InitIsSound == SetupSpec => InitSound
BY RerunCompletes, PlanForesees, OthersWorkKept, PTL DEF InitSound

=============================================================================
