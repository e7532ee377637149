------------------------------ MODULE Posture ------------------------------
(***************************************************************************)
(* What the decoy keeps of a session on its disk or in its memory, as the  *)
(* pre-flight checks read it: the configuration of systemd's daemons with  *)
(* its drop-ins, journald, core dumps, logind, sudo, the log daemons, swap *)
(* and hibernation, freed memory and DMA.                                  *)
(*                                                                         *)
(* A file is [there, readable, text]; a text is a sequence of lines        *)
(* [kind, name, value, cont], where cont says the line ends in an          *)
(* unescaped backslash.                                                    *)
(***************************************************************************)
EXTENDS Naturals, Sequences, SequencesExt, FiniteSets, FiniteSetsExt

LastOf(base, seq, Test(_)) ==
    LET found == {i \in DOMAIN seq : Test(seq[i])}
    IN  IF found = {} THEN base ELSE seq[Max(found)]

------------------------------------------------------------------------------
(* systemd_conf.rs: the main file of the first directory that has one, then
   the drop-ins by name, the first directory's of each name. *)
ConfDirs == 1..4
ConfigFiles(conf) ==
    LET mains == {d \in ConfDirs : conf.main[d].there}
        names == {f.name : f \in conf.drop}
        OfName(n) == CHOOSE f \in conf.drop : /\ f.name = n
                                              /\ \A g \in conf.drop : g.name = n => f.dir <= g.dir
    IN  (IF mains = {} THEN <<>> ELSE <<conf.main[Min(mains)]>>)
          \o [i \in 1..Cardinality(names) |-> OfName(SetToSortSeq(names, <)[i]).file]

Join(line, next) ==
    IF line.kind = "blank" THEN next
    ELSE IF next.kind = "blank" THEN [line EXCEPT !.cont = next.cont]
    ELSE IF line.kind = "header" /\ next.kind = "header" THEN [line EXCEPT !.name = "joined", !.cont = next.cont]
    ELSE IF line.kind = "header" THEN [line EXCEPT !.kind = "malformed", !.cont = next.cont]
    ELSE [line EXCEPT !.value = "joined", !.cont = next.cont]
ParseLine(line, section, p) ==
    IF line.kind = "malformed" THEN [p EXCEPT !.failed = TRUE]
    ELSE IF line.kind = "header" THEN [p EXCEPT !.inSection = (line.name = section)]
    ELSE IF line.kind = "set" /\ p.inSection
    THEN [p EXCEPT !.out = Append(@, [key |-> line.name, value |-> line.value])] ELSE p
ParseSection(text, section, out) ==
    LET Step(p, raw) ==
          LET line == IF p.held = <<>> THEN raw ELSE Join(p.held[1], raw)
          IN  IF p.failed \/ raw.kind = "comment" THEN p
              ELSE IF line.cont THEN [p EXCEPT !.held = <<line>>]
              ELSE ParseLine(line, section, [p EXCEPT !.held = <<>>])
        end == FoldLeft(Step, [inSection |-> FALSE, held |-> <<>>, out |-> out, failed |-> FALSE], text)
    IN  IF end.failed \/ end.held = <<>> THEN end ELSE ParseLine(end.held[1], section, end)
SectionAssignments(conf, section) ==
    LET Read(p, file) ==
          IF p.failed \/ ~file.readable THEN p ELSE ParseSection(file.text, section, p.out)
    IN  FoldLeft(Read, [out |-> <<>>, failed |-> FALSE], ConfigFiles(conf)).out

------------------------------------------------------------------------------
(* journald_storage.rs *)
StorageValues == {"persistent", "volatile", "none", "auto"}
PersistentDefaultSince == 259
StorageFrom(as) ==
    LastOf([key |-> "Storage", value |-> ""], as,
           LAMBDA a : a.key = "Storage" /\ a.value \in StorageValues \cup {""}).value
BuiltInDefault(major, vendorHint) ==
    IF major = 0 THEN "persistent"
    ELSE IF major < PersistentDefaultSince THEN "auto"
    ELSE IF vendorHint # "" THEN vendorHint ELSE "persistent"
StorageCredential(creds) ==
    LET readable == {i \in DOMAIN creds : creds[i] # "unreadable"}
    IN  IF readable = {} \/ creds[Min(readable)] \notin StorageValues THEN ""
        ELSE creds[Min(readable)]
VendorStorageHint(text) ==
    LET Step(p, l) ==
          IF l.kind \in {"header", "malformed"} THEN [p EXCEPT !.in = (l.kind = "header" /\ l.name = "Journal")]
          ELSE IF p.in /\ l.kind = "comment" /\ l.name = "Storage" /\ l.value \in StorageValues
          THEN [p EXCEPT !.hint = l.value] ELSE p
    IN  FoldLeft(Step, [in |-> FALSE, hint |-> ""], text).hint
ResolveStorage(explicit, credential, vendorHint, major) ==
    IF explicit # "" THEN explicit ELSE IF credential # "" THEN credential
    ELSE BuiltInDefault(major, vendorHint)
EffectiveStorage(h) ==
    ResolveStorage(StorageFrom(SectionAssignments(h.journald, "Journal")), StorageCredential(h.creds),
                   VendorStorageHint(h.journald.main[4].text), h.major)
JournalPersists(h) ==
    EffectiveStorage(h) = "persistent" \/ (EffectiveStorage(h) = "auto" /\ h.journalDir = "disk")

------------------------------------------------------------------------------
(* coredump.rs.  parse_iec_size tells three classes of size apart: zero, more, and
   what is not a size. *)
Sizes == {"zero", "more"}
CoredumpSettings(as) ==
    [storage |-> LastOf([value |-> ""], as,
                    LAMBDA a : a.key = "Storage" /\ a.value \in {"", "external", "journal", "none"}).value,
     size |-> LastOf([value |-> "unset"], as,
                    LAMBDA a : a.key = "ProcessSizeMax" /\ a.value \in Sizes).value]
KeepsCoresOffDisk(s) == s.storage = "none" /\ s.size = "zero"
PatternTargetsCoredump(p) == p \in {"|systemd-coredump", "@systemd-coredump"}
CrashPosture(h) ==
    {f \in {"coredump", "core_pattern", "pstore", "kdump"} :
       CASE f = "coredump" -> /\ PatternTargetsCoredump(h.corePattern)
                              /\ ~KeepsCoresOffDisk(CoredumpSettings(SectionAssignments(h.coredump, "Coredump")))
         [] f = "core_pattern" -> h.corePattern = "/path"
         [] f = "pstore" -> h.pstore
         [] f = "kdump" -> h.kdump}

------------------------------------------------------------------------------
(* sudo_logging.rs.  sudoers is a function from files to sequences of lines:
   [kind, to] for the includes, [kind, name, on, value] for a Defaults
   parameter and [kind, name] for the tag of a user specification.  The limit on
   nested includes is 8 in the code. *)
MaxIncludeDepth == 2
IoFlags == {"log_input", "log_output"}
ApplyParam(l, s) ==
    IF l.name \in {"logfile", "iolog_dir"}
    THEN [s EXCEPT !.set[l.name] = IF ~l.on THEN FALSE ELSE IF l.value THEN TRUE ELSE @]
    ELSE IF l.name \in IoFlags /\ ~l.value
    THEN [s EXCEPT !.flags = Append(@, <<l.name, l.on>>)] ELSE s
ScanFile(files, s) ==
    LET Lines[d \in 0..MaxIncludeDepth] ==
          [f \in DOMAIN files |->
             FlattenSeq([i \in DOMAIN files[f] |->
               IF files[f][i].kind # "include" THEN <<files[f][i]>>
               ELSE IF d = 0 THEN <<>>
               ELSE FlattenSeq([j \in DOMAIN files[f][i].to |->
                      IF files[f][i].to[j] \in DOMAIN files THEN Lines[d-1][files[f][i].to[j]] ELSE <<>>])])]
        Step(t, l) ==
          CASE l.kind = "defaults" -> ApplyParam(l, t)
            [] l.kind = "tag" -> [t EXCEPT !.tags = @ \cup {l.name}]
            [] OTHER -> t
    IN  FoldLeft(Step, s, Lines[MaxIncludeDepth]["sudoers"])
ScanSudoers(files) ==
    LET s == ScanFile(files, [set |-> [n \in {"logfile", "iolog_dir"} |-> FALSE], flags |-> <<>>, tags |-> {}])
    IN  [logfile |-> s.set["logfile"], iologDir |-> s.set["iolog_dir"],
         io |-> s.tags \cup {f \in IoFlags : LastOf(<<f, FALSE>>, s.flags, LAMBDA x : x[1] = f)[2]}]
SudoFindings(s) ==
    (IF s.io # {} \/ s.iologDir THEN {"io log"} ELSE {}) \cup (IF s.logfile THEN {"log file"} ELSE {})
DecoySudoFindings(h) == IF h.sudoRs THEN {} ELSE SudoFindings(ScanSudoers(h.sudoers))

------------------------------------------------------------------------------
(* loggers.rs: a log daemon that is a running unit or a running process. *)
LoggerUnits == {<<"rsyslog", "syslog">>, <<"syslog", "syslog">>, <<"auditd", "auditd">>}
LoggerProcesses == {<<"rsyslogd", "syslog">>, <<"auditd", "auditd">>}
UnitActive(h, u) == u \in h.invocations \/ u \in h.instances \/ u \in h.populated
ActiveLoggers(h) ==
    {l[2] : l \in {k \in LoggerUnits : UnitActive(h, k[1])}}
      \cup {l[2] : l \in {k \in LoggerProcesses : k[1] \in h.processes}}

(* decoy_posture.rs *)
Blockers(h) == (IF JournalPersists(h) THEN {"journal"} ELSE {}) \cup ActiveLoggers(h)
Warnings(h) ==
    (IF h.atime THEN {"atime"} ELSE {}) \cup CrashPosture(h) \cup DecoySudoFindings(h)
      \cup (IF h.nixos /\ h.upgradeTimer THEN {"upgrade timer"} ELSE {})
DecoyPersistence(h, accept) ==
    IF Blockers(h) # {} THEN IF accept THEN "warn" ELSE "fail"
    ELSE IF Warnings(h) # {} THEN "warn" ELSE "pass"

------------------------------------------------------------------------------
(* sleep_policy.rs *)
HandleActions == {"ignore", "poweroff", "suspend", "hibernate", "lock"}
ActionSleeps(v) == v \in {"suspend", "hibernate"}
LogindSleep(conf) ==
    LET as == SectionAssignments(conf, "Login")
        Handled(key) == LastOf([value |-> ""], as, LAMBDA a : a.key = key /\ a.value \in HandleActions).value
    IN  [lid |-> Handled("HandleLidSwitch"), external |-> Handled("HandleLidSwitchExternalPower"),
         docked |-> Handled("HandleLidSwitchDocked"), idle |-> Handled("IdleAction")]
OrElse(v, default) == IF v = "" THEN default ELSE v
\* Mutant: logind's defaults are not counted.
SleepRisksAsWritten(s) ==
    {r \in {"lid", "external", "docked", "idle"} :
       ActionSleeps(CASE r = "lid" -> s.lid [] r = "external" -> s.external [] r = "docked" -> s.docked [] r = "idle" -> s.idle)}
SleepRisks(s) ==
    {r \in {"lid", "external", "docked", "idle"} :
       ActionSleeps(CASE r = "lid" -> OrElse(s.lid, "suspend")
                      [] r = "external" -> s.external
                      [] r = "docked" -> OrElse(s.docked, "ignore")
                      [] r = "idle" -> OrElse(s.idle, "ignore"))}
UnlockedLid(s) == OrElse(s.lid, "suspend") = "ignore" \/ s.external = "ignore"
SleepPolicy(conf) ==
    LET s == LogindSleep(conf)
    IN  IF SleepRisks(s) = {} /\ ~UnlockedLid(s) THEN "pass" ELSE "warn"

------------------------------------------------------------------------------
(* swap.rs.  A swap is [kind, backing, mapper]. *)
CrypttabRandomKey(crypttab, name) ==
    LET found == {i \in DOMAIN crypttab : crypttab[i].name = name}
    IN  found # {} /\ (crypttab[Min(found)].random \/ crypttab[Min(found)].swap)
ClassifyDevice(h, s) ==
    CASE s.kind = "zram" -> IF s.backing = "none" THEN "pass" ELSE "fail"
      [] s.kind = "file" -> "fail"
      [] s.kind = "mapper" -> IF CrypttabRandomKey(h.crypttab, s.mapper) THEN "warn" ELSE "fail"
      [] OTHER -> "fail"
Hibernation(h) == h.resume \/ h.resumeOption
SwapCheck(h) ==
    LET found == {ClassifyDevice(h, s) : s \in h.swaps}
    IN  IF "fail" \in found \/ Hibernation(h) THEN "fail" ELSE IF "warn" \in found THEN "warn" ELSE "pass"

------------------------------------------------------------------------------
(* memory_wipe.rs and dma_protection.rs.  A kernel command line is a sequence
   of options [key, value]; an option "--" ends what the kernel reads. *)
ForKernel(cmdline) ==
    LET ends == {i \in DOMAIN cmdline : cmdline[i].key = "--"}
    IN  IF ends = {} THEN cmdline ELSE SubSeq(cmdline, 1, Min(ends) - 1)
ParseInitOnFree(cmdline) ==
    LastOf([value |-> "unset"], ForKernel(cmdline),
           LAMBDA o : o.key = "init_on_free" /\ o.value \in {"on", "off"}).value
FreedPagesZeroed(cmdline, config) ==
    IF ParseInitOnFree(cmdline) # "unset" THEN ParseInitOnFree(cmdline) ELSE config
MemoryWipe(h) == IF FreedPagesZeroed(h.cmdline, h.kernelConfig) = "off" THEN "warn" ELSE "pass"

ParseIommuCmdline(cmdline) ==
    LET os == ForKernel(cmdline)
        off == \E i \in DOMAIN os : os[i].key \in {"iommu", "intel_iommu"} /\ os[i].value = "off"
        pt == LastOf([key |-> "", value |-> ""], os,
                     LAMBDA o : \/ o.key = "iommu" /\ o.value \in {"pt", "nopt"}
                                \/ o.key = "iommu.passthrough" /\ o.value \in {"on", "off"})
    IN  IF off THEN "off" ELSE IF pt.value \in {"pt", "on"} THEN "passthrough" ELSE "unset"
IommuPresent(h) ==
    IF h.iommuClass = "unreadable" /\ h.groups = {"unreadable"} THEN "unknown"
    ELSE IF "DMA" \in h.groups THEN "yes"
    ELSE IF "identity" \in h.groups THEN "no"
    ELSE IF h.iommuClass = "filled" \/ h.groups \ {"unreadable"} # {} THEN "yes" ELSE "no"
IommuState(intent, present) ==
    IF intent # "unset" THEN "exposed"
    ELSE CASE present = "yes" -> "translating" [] present = "no" -> "exposed" [] OTHER -> "unknown"
Thunderbolt(h) ==
    IF 0 \in h.tb THEN "exposed" ELSE IF 1 \in h.tb THEN "protected" ELSE "absent"
DmaProtection(h) ==
    LET iommu == IommuState(ParseIommuCmdline(h.cmdline), IommuPresent(h))
    IN  IF iommu = "unknown" /\ Thunderbolt(h) = "absent" /\ h.lockdown = "unavailable" /\ ~h.cmdlineReadable
        THEN "skipped"
        ELSE IF Thunderbolt(h) = "exposed" \/ iommu = "exposed" THEN "warn"
        ELSE IF iommu = "unknown" /\ Thunderbolt(h) = "absent" THEN "warn" ELSE "pass"

------------------------------------------------------------------------------
(* What the readings are held against.  The files systemd reads with their rank,
   the lines that stand alone (no continuation joins them to another), and the
   places that assign a key. *)
Sources(conf) ==
    {[rank |-> 0, file |-> conf.main[d]] :
       d \in {e \in ConfDirs : conf.main[e].there /\ \A x \in 1..e-1 : ~conf.main[x].there}}
      \cup {[rank |-> f.name, file |-> f.file] :
               f \in {g \in conf.drop : \A k \in conf.drop : k.name = g.name => g.dir <= k.dir}}
Alone(text, i) ==
    LET before == {j \in 1..i-1 : text[j].kind # "comment"}
        after == {j \in i+1..Len(text) : text[j].kind # "comment"}
    IN  /\ before # {} => ~text[Max(before)].cont
        /\ text[i].cont /\ after # {} => text[Min(after)].kind = "blank"
Within(text, i, section) ==
    LET headers == {j \in 1..i-1 : text[j].kind = "header" /\ Alone(text, j)}
    IN  headers # {} /\ text[Max(headers)].name = section
BrokenBefore(text, i) == \E j \in 1..i-1 : text[j].kind = "malformed" /\ Alone(text, j)
Sites(conf, section, key, values) ==
    {<<x.rank, i, x.file.text[i].value>> :
       <<x, i>> \in {<<y, j>> \in {z \in Sources(conf) : z.file.readable} \X (1..4) :
         /\ j <= Len(y.file.text)
         /\ y.file.text[j].kind = "set" /\ y.file.text[j].name = key /\ y.file.text[j].value \in values
         /\ Alone(y.file.text, j) /\ Within(y.file.text, j, section) /\ ~BrokenBefore(y.file.text, j)
         /\ \A z \in Sources(conf) :
              z.rank < y.rank /\ z.file.readable => ~BrokenBefore(z.file.text, Len(z.file.text) + 1)}}
Decided(conf, section, key, values) ==
    LET sites == Sites(conf, section, key, values)
    IN  IF sites = {} THEN ""
        ELSE (CHOOSE s \in sites : \A t \in sites : t[1] < s[1] \/ (t[1] = s[1] /\ t[2] <= s[2]))[3]

Reachable(files) ==
    LET f[n \in 0..Cardinality(DOMAIN files)] ==
          IF n = 0 THEN {"sudoers"}
          ELSE f[n-1] \cup (UNION {Range(l.to) : l \in {k \in UNION {Range(files[g]) : g \in f[n-1]} :
                                                        k.kind = "include"}} \cap DOMAIN files)
    IN  f[Cardinality(DOMAIN files)]
OnDisk(h, s) ==
    \/ s.kind \in {"file", "part"}
    \/ s.kind = "zram" /\ s.backing # "none"
    \/ s.kind = "mapper" /\ ~\E c \in Range(h.crypttab) : c.name = s.mapper /\ (c.random \/ c.swap)

(* section_assignments: the value a key ends up with is the one of the last
   place that sets it, by the name of the drop-in and not by its directory; a
   drop-in of the same name in a later directory, a line joined to another by a
   backslash and everything after a malformed header set nothing. *)
DropinsDecide(h) ==
    StorageFrom(SectionAssignments(h.journald, "Journal"))
      = Decided(h.journald, "Journal", "Storage", StorageValues \cup {""})

(* scan_file: an I/O log that a sudoers file turns on, by a tag or by a Defaults
   no file turns off again, is reported however the files include one another. *)
SudoSeen(files) ==
    LET lines == UNION {Range(files[f]) : f \in Reachable(files)}
        Sets(on) == {l.name : l \in {k \in lines : k.kind = "defaults" /\ k.on = on}}
    IN  /\ (\E l \in lines : l.kind = "tag") \/ (Sets(TRUE) \ Sets(FALSE)) \cap IoFlags # {}
          => "io log" \in SudoFindings(ScanSudoers(files))
        /\ "logfile" \in Sets(TRUE) \ Sets(FALSE)
             /\ (\A l \in lines : l.kind = "defaults" /\ l.name = "logfile" => l.value)
          => "log file" \in SudoFindings(ScanSudoers(files))

(* DecoyPersistenceCheck, SwapCheck, SleepPolicyCheck: a host on which they all
   pass keeps no journal and no core on its disk, runs no log daemon, swaps to
   no disk and goes to sleep at no closing of the lid and at no idle time. *)
PassKeepsNothing(h) ==
    DecoyPersistence(h, FALSE) = "pass" /\ SwapCheck(h) = "pass" /\ SleepPolicy(h.logind) = "pass" =>
      /\ LET set == Decided(h.journald, "Journal", "Storage", StorageValues \cup {""})
         IN  /\ set # "persistent"
             /\ set = "auto" => h.journalDir # "disk"
             /\ set = "" => "persistent" # StorageCredential(h.creds)
      /\ PatternTargetsCoredump(h.corePattern) =>
           Decided(h.coredump, "Coredump", "Storage", {"", "external", "journal", "none"}) = "none"
      /\ {"rsyslogd", "auditd"} \cap h.processes = {}
      /\ \A s \in h.swaps : ~OnDisk(h, s)
      /\ LET Lid(key) == Decided(h.logind, "Login", key, HandleActions)
         IN  /\ Lid("HandleLidSwitch") \notin {"", "suspend", "hibernate"}
             /\ ~ActionSleeps(Lid("HandleLidSwitchExternalPower"))
             /\ ~ActionSleeps(Lid("HandleLidSwitchDocked"))
             /\ ~ActionSleeps(Lid("IdleAction"))

(* MemoryWipeCheck, DmaProtectionCheck: a pass means that the last init_on_free
   the kernel reads is not off, that the IOMMU is not off nor bypassed, and that
   no Thunderbolt domain is open. *)
PassShieldsMemory(h) ==
    LET os == ForKernel(h.cmdline)
        Final(key) == {i \in DOMAIN os : os[i].key = key /\ \A j \in i+1..Len(os) : os[j].key # key}
    IN  /\ MemoryWipe(h) = "pass" =>
             ~\E i \in Final("init_on_free") : os[i].value = "off"
        /\ DmaProtection(h) = "pass" =>
             /\ 0 \notin h.tb
             /\ \A i \in Final("iommu") : os[i].value \notin {"off", "pt"}
             /\ h.groups # {"identity"} \/ h.tb # {}
=============================================================================
