------------------------------ MODULE Identity ------------------------------
(***************************************************************************)
(* What identifies the decoy to the network and in its boot records, over  *)
(* sessions (whole_root/network.rs, boot_records.rs).  Links, hardware     *)
(* addresses and the hostname are the kernel's and shared with the hidden  *)
(* session; the way back puts them back from a record.  The decoy's wtmp   *)
(* gets a boot record after every way back, which older service managers   *)
(* stamp with the first boot; a one-shot unit corrects it.                 *)
(***************************************************************************)
EXTENDS Integers, Sequences, FiniteSets, FiniteSetsExt

CONSTANTS
    Virtual,        \* names of links the kernel makes
    Hardware,       \* names of devices
    Addresses,      \* hardware addresses
    MaxClock,       \* the last second the records can hold
    MaxChanges,     \* changes a session makes
    MaxSessions     \* sessions

ASSUME IdentityAssumption ==
    /\ Virtual \cap Hardware = {} /\ Addresses # {} /\ "none" \notin Addresses
    /\ MaxClock \in Nat \ {0} /\ MaxChanges \in Nat /\ MaxSessions \in Nat

VARIABLES
    place,         \* decoy, hidden, left, home
    links,      \* the address of each link that is up
    hostname, etcHostname,
    netRecord,  \* the record of the entry, or None
    decoyNet,   \* history: the decoy at the entry
    changes, sessions,
    clock,
    wtmp,       \* the records, oldest first
    firstBoot,  \* when the decoy was booted
    backdates,  \* the service manager stamps the boot with firstBoot
    hasIp       \* the ip tool is there

identityVars == <<place, links, hostname, etcHostname, netRecord, decoyNet, changes, sessions,
                  clock, wtmp, firstBoot, backdates, hasIp>>
net == <<links, hostname, etcHostname, netRecord, decoyNet, changes>>
tools == <<firstBoot, backdates, hasIp>>
boots == <<clock, wtmp, tools>>

NoRecord == [links |-> <<>>, hostname |-> "", etc |-> FALSE]
LinkNames == Virtual \cup Hardware

(* capture: a record that cannot be written is no record. *)
Captured == [links |-> links, hostname |-> hostname, etc |-> etcHostname]
IdentityInit ==
    /\ place = "decoy" /\ hostname = "decoy" /\ etcHostname \in BOOLEAN
    /\ \E up \in SUBSET LinkNames : links = [n \in up |-> CHOOSE a \in Addresses : TRUE]
    /\ netRecord = NoRecord /\ decoyNet = NoRecord /\ changes = 0 /\ sessions = 0
    /\ clock = 1 /\ firstBoot = 1 /\ backdates \in BOOLEAN /\ hasIp \in BOOLEAN
    /\ wtmp = <<[type |-> "boot", sec |-> 1]>>

Tick == clock' \in {clock, clock + 1, clock - 1} \cap 0..MaxClock
Enter ==
    /\ place \in {"decoy", "home"} /\ sessions < MaxSessions
    /\ netRecord' \in {Captured, NoRecord} /\ decoyNet' = Captured
    /\ place' = "hidden" /\ changes' = 0 /\ sessions' = sessions + 1
    /\ Tick /\ wtmp' = Append(wtmp, [type |-> "shutdown", sec |-> clock'])
    /\ UNCHANGED <<links, hostname, etcHostname, tools>>

(* The hidden session: links come, go and change their address. *)
ChangeIdentity ==
    /\ place = "hidden" /\ changes < MaxChanges /\ changes' = changes + 1
    /\ \/ \E n \in LinkNames, a \in Addresses :
            /\ n \in DOMAIN links => links[n] # a
            /\ links' = [m \in DOMAIN links \cup {n} |-> IF m = n THEN a ELSE links[m]]
            /\ UNCHANGED hostname
       \/ \E n \in DOMAIN links :
            links' = [m \in DOMAIN links \ {n} |-> links[m]] /\ UNCHANGED hostname
       \/ hostname = "decoy" /\ hostname' = "hidden" /\ UNCHANGED links
    /\ UNCHANGED <<place, etcHostname, netRecord, decoyNet, sessions, boots>>

-----------------------------------------------------------------------------
(* plan *)
Deletes(r) == {n \in DOMAIN links \cap Virtual : n \notin DOMAIN r.links}
SetMac(r) == {n \in DOMAIN r.links \cap DOMAIN links : links[n] # r.links[n]}
SetsHostname(r) == ~r.etc /\ r.hostname # "" /\ hostname # r.hostname
(* restore, apply_links: nothing without a record; links only with an ip tool. *)
Restore ==
    /\ place = "hidden" /\ place' = "left"
    /\ IF netRecord = NoRecord THEN UNCHANGED <<links, hostname>>
       ELSE /\ hostname' = IF SetsHostname(netRecord) THEN netRecord.hostname ELSE hostname
            /\ links' = IF ~hasIp THEN links
                        ELSE [n \in DOMAIN links \ Deletes(netRecord) |->
                                IF n \in SetMac(netRecord) THEN netRecord.links[n] ELSE links[n]]
    /\ UNCHANGED <<etcHostname, netRecord, decoyNet, changes, sessions, boots>>

(* The decoy starts: it sets its own hostname where it has one, and its boot
   writer adds a record. *)
StartDecoy ==
    /\ place = "left" /\ place' = "started"
    /\ hostname' = IF etcHostname THEN "decoy" ELSE hostname
    /\ Tick
    /\ wtmp' = Append(wtmp, [type |-> "boot", sec |-> IF backdates THEN firstBoot ELSE clock'])
    /\ UNCHANGED <<links, etcHostname, netRecord, decoyNet, changes, sessions, tools>>

-----------------------------------------------------------------------------
(* backdated_boot_fix, reconcile_wtmp *)
LastBoot(w) == Max({i \in DOMAIN w : w[i].type = "boot"})
EarlierMax(w) == Max({-1} \cup {w[i].sec : i \in 1..LastBoot(w) - 1})
Saturated(s) == Min({s, MaxClock})
\* Mutant: the time is always the clock's.
CorrectedNow(w, now) == now
Corrected(w, now) == Max({now, Saturated(EarlierMax(w) + 1)})
Backdated(w) == w[LastBoot(w)].sec < EarlierMax(w)
ReconcileWtmp(w, now) == IF Backdated(w) THEN [w EXCEPT ![LastBoot(w)].sec = Corrected(w, now)] ELSE w
(* The one-shot unit; it may never run. *)
Reconcile ==
    /\ place = "started" /\ place' = "home" /\ Tick
    /\ wtmp' = ReconcileWtmp(wtmp, clock')
    /\ UNCHANGED <<net, sessions, tools>>

IdentityNext == Enter \/ ChangeIdentity \/ Restore \/ StartDecoy \/ Reconcile
IdentitySpec == IdentityInit /\ [][IdentityNext]_identityVars

-----------------------------------------------------------------------------
(* With a record, the decoy comes back with its hostname and, where the host has
   ip, without a virtual link of the session's and with its own address on every
   link it still has (network::restore). *)
NetworkBack ==
    place = "started" /\ netRecord # NoRecord =>
        /\ hasIp => DOMAIN links \cap Virtual \subseteq DOMAIN decoyNet.links
        /\ hasIp => \A n \in DOMAIN links \cap DOMAIN decoyNet.links : links[n] = decoyNet.links[n]
        /\ hostname = IF etcHostname THEN "decoy" ELSE decoyNet.hostname

(* A device the session found plugged in is still there (network::plan). *)
DevicesKept == [][place = "hidden" /\ place' = "left" => DOMAIN links \cap Hardware \subseteq DOMAIN links']_identityVars

(* Once the unit ran, every boot record is at or after everything before it,
   however the clock was set in between, and a second run finds nothing to
   correct (boot_records::reconcile_wtmp). *)
BootsInOrder ==
    place = "home" =>
        /\ \A i \in DOMAIN wtmp : wtmp[i].type = "boot" /\ i = LastBoot(wtmp) =>
               \A j \in 1..i - 1 : wtmp[j].sec <= wtmp[i].sec
        /\ ReconcileWtmp(wtmp, clock) = wtmp

(* Where its record was written, the decoy started again has its hostname   *)
(* back and, with ip, its addresses and no virtual link of the session's;   *)
(* no device was deleted on the way, and its boot records are in order and  *)
(* stay so when they are corrected again (network.rs, boot_records.rs).     *)
IdentityBack == [](NetworkBack /\ BootsInOrder) /\ DevicesKept
=============================================================================
