---------------------------- MODULE ChildProcess ----------------------------
(***************************************************************************)
(* The process runner (nails-base, process/run.rs): one external command,  *)
(* from the lookup of its program to the result the caller gets.  The      *)
(* runner's thread, its two reader threads, the program and one helper the *)
(* program may leave behind take their steps in any order.                 *)
(***************************************************************************)
EXTENDS Naturals, Sequences, FiniteSets

CONSTANTS
    Faults,     \* what may go wrong, of FaultNames
    Cap,        \* what a pipe holds before a writer has to wait
    MaxOut      \* what a program may write to a pipe

\* "file"   the program is missing, or not a file root may run
\* "drop"   a system call between fork and exec fails
\* "wait"   waitpid fails
\* "hang"   the program never ends on its own
\* "escape" the helper starts a session of its own and keeps the pipes
\* "stuck"  a process is in an uninterruptible sleep
FaultNames == {"file", "drop", "wait", "hang", "escape", "stuck"}
ASSUME ChildAssumption ==
    Faults \subseteq FaultNames /\ Cap \in Nat \ {0} /\ MaxOut \in Nat

Modes == {"plain", "deadline", "stream"}
Pipes == {"out", "err"}
Tree  == {"leader", "helper"}
Steps == {"setgroups", "setgid", "setuid", "setsid", "nnp", "exec"}
Dirs  == {"system", "first", "second", "relative"}
Files == {"none", "loose", "trusted"}
Vars  == {"LANG", "PATH", "DISPLAY", "OTHER"}

VARIABLES
    call,       \* the ProcessCommand, and whether nails itself runs as root
    asked,      \* the rest of it, until the start: the program, the environment
    pc,         \* where the runner's thread is
    exe,        \* the file it found
    ids,        \* the identity and the environment the program was executed with
    proc,       \* per process of the tree: what it is doing
    grp,        \* per process: the process group it is in
    open,       \* per process: the pipe ends it holds
    size,       \* per pipe: what the program still means to write
    buf, wrote, \* per pipe: what it holds, and what was written to it
    read,       \* per pipe: what its reader thread has
    reader,     \* per pipe: the reader thread
    due,        \* the budget has elapsed
    status,     \* how the program ended
    answer,     \* what the runner returns once the readers have joined
    result      \* what the caller got

pipes == <<size, buf, wrote, read, reader>>
tree  == <<proc, grp, open, status>>
ask   == <<call, asked>>
vars  == <<ask, pc, exe, ids, tree, pipes, due, answer, result>>

\* An account is either nails' own ("same") or another one.
Calls == [mode : Modes, account : {"none", "same", "other"}, root : BOOLEAN]
Lookups == [program : {"tool", "caller", "exact"}, searchPath : BOOLEAN,
            allowed : SUBSET {"OTHER"}, session : SUBSET {"PATH", "DISPLAY"},
            files : [Dirs -> Files]]
Used == [program |-> "exact", searchPath |-> FALSE, allowed |-> {}, session |-> {},
         files |-> [d \in Dirs |-> "none"]]
NoIds == [uid |-> "none", gid |-> "none", groups |-> FALSE, session |-> FALSE,
          nnp |-> FALSE, env |-> {}]
Running == {"run", "hang", "stuck"}
PCs == {"start", "poll", "late", "kill", "reap", "collect", "wait", "done"}

TypeOK ==
    /\ call \in Calls /\ asked \in Lookups
    /\ pc \in PCs /\ exe \in Files \cup {"exact"}
    /\ ids.uid \in {"none", "nails", "account"} /\ ids.gid \in {"none", "nails", "account"}
    /\ ids.groups \in BOOLEAN /\ ids.session \in BOOLEAN /\ ids.nnp \in BOOLEAN
    /\ ids.env \in SUBSET (Vars \X {"nails", "given", "fixed"})
    /\ proc \in [Tree -> {"none", "zombie", "dead"} \cup Running]
    /\ grp \in [Tree -> {"nails", "own", "escaped"}]
    /\ open \in [Tree -> SUBSET Pipes]
    /\ \A v \in {size, wrote, read} : v \in [Pipes -> 0..MaxOut]
    /\ buf \in [Pipes -> 0..Cap]
    /\ reader \in [Pipes -> {"none", "reading", "done"}]
    /\ due \in BOOLEAN
    /\ status \in {"none", "success", "failure", "killed"}
    /\ answer \in {"none", "output", "timeout"}
    /\ result \in {"none", "output", "timeout", "notfound", "waiterror", "leader"} \cup Steps

(* Only the alerts, which run under a deadline, give an account; root is never
   the operator; only a lookup on the caller's path looks at a search path. *)
Init ==
    /\ call \in {c \in Calls : /\ c.account # "none" => c.mode = "deadline"
                               /\ c.account = "same" => ~c.root}
    /\ asked \in {a \in Lookups : /\ a.searchPath => a.program = "caller"
                                  /\ a.allowed # {} /\ Cardinality(a.session) = 2
                                  /\ "file" \notin Faults => \A d \in Dirs : a.files[d] = "trusted"}
    /\ pc = "start" /\ exe = "none" /\ ids = NoIds
    /\ proc = [f \in Tree |-> "none"] /\ grp = [f \in Tree |-> "nails"]
    /\ open = [f \in Tree |-> {}]
    /\ size \in [Pipes -> {0, MaxOut}]
    /\ buf = [p \in Pipes |-> 0] /\ wrote = buf /\ read = buf
    /\ reader = [p \in Pipes |-> "none"]
    /\ due = FALSE /\ status = "none" /\ answer = "none" /\ result = "none"

------------------------------------------------------------------------------
(* Whether nails is willing to run a file: root only runs one that root alone
   can write. *)
FindExecutable(dirs, files, root) ==
    LET Willing(d) == files[d] = "trusted" \/ (files[d] = "loose" /\ ~root)
        found == {i \in DOMAIN dirs : Willing(dirs[i])}
    IN  IF found = {} THEN "none"
        ELSE files[dirs[CHOOSE i \in found : \A j \in found : i <= j]]

(* The file a command stands for.  The relative directory of a path is passed
   over; a search path of the caller's has no fallback. *)
Path == <<"relative", "first", "second">>
ResolveProgram(a, root) ==
    LET absolute == {i \in DOMAIN Path : Path[i] # "relative"}
        onPath == FindExecutable([i \in absolute |-> Path[i]], a.files, root)
        system == FindExecutable(<<"system">>, a.files, root)
    IN  CASE a.program = "tool"  -> system
          [] a.program = "exact" -> "exact"
          [] OTHER -> IF onPath = "none" /\ ~a.searchPath THEN system ELSE onPath

(* The child's environment: what is allowed of nails' own, what the session
   sets, and a PATH of its own whatever they hold. *)
ApplyEnvironment(a) ==
    LET kept == {v \in Vars : v = "LANG" \/ v \in a.allowed}
    IN  {<<v, "nails">> : v \in kept \ (a.session \cup {"PATH"})}
        \cup {<<v, "given">> : v \in a.session \ {"PATH"}} \cup {<<"PATH", "fixed">>}

(* What the child is before it executes the program: a group of its own under
   a deadline, unless it is going to start a session. *)
OwnGroup(c) == c.mode = "deadline" /\ c.account = "none"

\* Mutant: the identity is not checked once the calls were made.
DropToUnchecked(c, leads, failing) ==
    IF c.root /\ failing \in {"setgroups", "setgid", "setuid"} THEN [err |-> failing]
    ELSE [err |-> "none", uid |-> IF c.root \/ c.account = "same" THEN "account" ELSE "nails",
          gid |-> "account", groups |-> ~c.root, session |-> TRUE, nnp |-> TRUE]
(* drop_to: as root the groups, the gid and the uid, in this order; then the
   check, a session, and no_new_privs.  A refused call, or `failing`, stops it. *)
DropTo(c, leads, failing) ==
    LET changed == c.root \/ c.account = "same"
        who == IF changed THEN "account" ELSE "nails"
    IN  CASE c.root /\ failing \in {"setgroups", "setgid", "setuid"} -> [err |-> failing]
          [] ~changed -> [err |-> "setuid"]
          [] leads -> [err |-> "leader"]
          [] failing \in {"setsid", "nnp"} -> [err |-> failing]
          [] OTHER -> [err |-> "none", uid |-> who, gid |-> who,
                       groups |-> ~c.root, session |-> TRUE, nnp |-> TRUE]

PreExec(c, failing) ==
    IF c.account # "none" THEN DropTo(c, OwnGroup(c), failing)
    ELSE [err |-> "none", uid |-> "nails", gid |-> "nails", groups |-> TRUE,
          session |-> FALSE, nnp |-> FALSE]

------------------------------------------------------------------------------
Return(r) == pc' = "done" /\ result' = r

(* run and run_streaming up to the running program: the lookup, fork, the steps
   before exec, and exec.  A start that fails leaves nothing behind. *)
Start ==
    /\ pc = "start"
    /\ exe' = ResolveProgram(asked, call.root) /\ asked' = Used
    /\ \E failing \in {"none"} \cup (IF "drop" \in Faults THEN Steps ELSE {}) :
         LET c == PreExec(call, failing)
             refused == IF exe' = "none" THEN "notfound" ELSE
                        IF c.err # "none" THEN c.err ELSE
                        IF failing = "exec" THEN "exec" ELSE "none"
         IN  IF refused # "none"
             THEN Return(refused) /\ UNCHANGED <<ids, tree, pipes>>
             ELSE /\ ids' = [uid |-> c.uid, gid |-> c.gid, groups |-> c.groups,
                             session |-> c.session, nnp |-> c.nnp,
                             env |-> ApplyEnvironment(asked)]
                  /\ proc' = [proc EXCEPT !["leader"] = "run"]
                  /\ grp' = [grp EXCEPT !["leader"] = IF OwnGroup(call) \/ c.session
                                                      THEN "own" ELSE "nails"]
                  /\ open' = [open EXCEPT !["leader"] = Pipes]
                  /\ reader' = [p \in Pipes |-> "reading"]
                  /\ pc' = IF call.mode = "plain" THEN "collect" ELSE "poll"
                  /\ UNCHANGED <<status, size, buf, wrote, read, result>>
    /\ UNCHANGED <<call, due, answer>>

(* The runner looks: the program ended, waitpid fails, or the budget is over. *)
Reaped == proc' = [proc EXCEPT !["leader"] = "dead"]
TryWait ==
    /\ pc \in {"poll", "late"}
    /\ proc["leader"] = "zombie"
    /\ Reaped /\ pc' = "collect" /\ answer' = "output"
    /\ UNCHANGED <<ask, exe, ids, grp, open, status, pipes, due, result>>
TryWaitFails ==
    /\ "wait" \in Faults /\ pc = "poll"
    /\ Return("waiterror")
    /\ UNCHANGED <<ask, exe, ids, tree, pipes, due, answer>>
BudgetOver ==
    /\ pc = "poll" /\ call.mode = "deadline" /\ due
    /\ proc["leader"] # "zombie"
    /\ pc' = "late"
    /\ UNCHANGED <<ask, exe, ids, tree, pipes, due, answer, result>>
(* The second look: a failed one counts as none. *)
LastLook ==
    /\ pc = "late" /\ (proc["leader"] # "zombie" \/ "wait" \in Faults)
    /\ pc' = "kill"
    /\ UNCHANGED <<ask, exe, ids, tree, pipes, due, answer, result>>

(* kill_group: SIGKILL to the program's group, then the wait for the program.
   A process that sleeps uninterruptibly does not die of it. *)
Hit == {f \in Tree : grp[f] = "own" /\ proc[f] \in {"run", "hang"}}
\* Mutant: the signal goes to the program alone.
KillGroupLeader ==
    /\ pc = "kill"
    /\ LET hit == Hit \cap {"leader"}
       IN  /\ proc' = [f \in Tree |-> IF f \in hit THEN "zombie" ELSE proc[f]]
           /\ open' = [f \in Tree |-> IF f \in hit THEN {} ELSE open[f]]
           /\ status' = IF hit # {} THEN "killed" ELSE status
    /\ pc' = "reap" /\ answer' = "timeout"
    /\ UNCHANGED <<ask, exe, ids, grp, pipes, due, result>>
KillGroup ==
    /\ pc = "kill"
    /\ proc' = [f \in Tree |-> IF f \notin Hit THEN proc[f]
                               ELSE IF f = "leader" THEN "zombie" ELSE "dead"]
    /\ open' = [f \in Tree |-> IF f \in Hit THEN {} ELSE open[f]]
    /\ status' = IF "leader" \in Hit THEN "killed" ELSE status
    /\ pc' = "reap" /\ answer' = "timeout"
    /\ UNCHANGED <<ask, exe, ids, grp, pipes, due, result>>
Reap ==
    /\ pc \in {"reap", "wait"}
    /\ proc["leader"] = "zombie"
    /\ Reaped
    /\ IF pc = "wait" THEN Return(answer) ELSE pc' = "collect" /\ UNCHANGED result
    /\ UNCHANGED <<ask, exe, ids, grp, open, status, pipes, due, answer>>

\* Mutant: what has been read so far is returned.
CollectSoFar ==
    /\ pc = "collect"
    /\ IF call.mode = "plain"
       THEN pc' = "wait" /\ answer' = "output" /\ UNCHANGED result
       ELSE Return(answer) /\ UNCHANGED answer
    /\ UNCHANGED <<ask, exe, ids, tree, pipes, due>>
(* collect joins both readers; `output()` then waits for the program too. *)
Collect ==
    /\ pc = "collect"
    /\ \A p \in Pipes : reader[p] = "done"
    /\ IF call.mode = "plain"
       THEN pc' = "wait" /\ answer' = "output" /\ UNCHANGED result
       ELSE Return(answer) /\ UNCHANGED answer
    /\ UNCHANGED <<ask, exe, ids, tree, pipes, due>>

(* drain: a reader reads until nobody holds the other end. *)
Drain(p) ==
    /\ reader[p] = "reading"
    /\ \/ /\ buf[p] > 0
          /\ buf' = [buf EXCEPT ![p] = @ - 1] /\ read' = [read EXCEPT ![p] = @ + 1]
          /\ UNCHANGED reader
       \/ /\ buf[p] = 0 /\ \A f \in Tree : p \notin open[f]
          /\ reader' = [reader EXCEPT ![p] = "done"]
          /\ UNCHANGED <<buf, read>>
    /\ UNCHANGED <<ask, pc, exe, ids, tree, size, wrote, due, answer, result>>

------------------------------------------------------------------------------
(* The program and its helper. *)
Write(f, p) ==
    /\ proc[f] = "run" /\ p \in open[f]
    /\ size[p] > 0 /\ buf[p] < Cap
    /\ buf' = [buf EXCEPT ![p] = @ + 1]
    /\ wrote' = [wrote EXCEPT ![p] = @ + 1]
    /\ size' = [size EXCEPT ![p] = @ - 1]
    /\ UNCHANGED <<ask, pc, exe, ids, tree, read, reader, due, answer, result>>
Exit(f) ==
    /\ proc[f] = "run"
    /\ \A p \in open[f] : size[p] = 0
    /\ proc' = [proc EXCEPT ![f] = IF f = "leader" THEN "zombie" ELSE "dead"]
    /\ open' = [open EXCEPT ![f] = {}]
    /\ \/ f = "leader" /\ status' \in {"success", "failure"}
       \/ f = "helper" /\ UNCHANGED status
    /\ UNCHANGED <<ask, pc, exe, ids, grp, pipes, due, answer, result>>
Fork ==
    /\ proc["leader"] = "run" /\ proc["helper"] = "none"
    /\ \E P \in {{}, Pipes} :
         /\ proc' = [proc EXCEPT !["helper"] = "run"]
         /\ open' = [open EXCEPT !["helper"] = P]
         /\ \/ grp' = [grp EXCEPT !["helper"] = grp["leader"]]
            \/ "escape" \in Faults /\ grp' = [grp EXCEPT !["helper"] = "escaped"]
    /\ UNCHANGED <<ask, pc, exe, ids, status, pipes, due, answer, result>>
Halt(f, s) ==
    /\ s \in Faults /\ proc[f] = "run"
    /\ proc' = [proc EXCEPT ![f] = s]
    /\ UNCHANGED <<ask, pc, exe, ids, grp, open, status, pipes, due, answer, result>>
Tick ==
    /\ call.mode = "deadline" /\ ~due /\ pc \in {"poll", "collect"}
    /\ due' = TRUE
    /\ UNCHANGED <<ask, pc, exe, ids, tree, pipes, answer, result>>

Runner == Start \/ TryWait \/ BudgetOver \/ LastLook \/ KillGroup \/ Reap \/ Collect
Program == \E f \in Tree : Exit(f) \/ \E p \in Pipes : Write(f, p)
Next ==
    \/ Runner \/ TryWaitFails \/ Program \/ Fork \/ Tick
    \/ \E p \in Pipes : Drain(p)
    \/ \E f \in Tree, s \in {"hang", "stuck"} : Halt(f, s)

Spec == Init /\ [][Next]_vars
FairSpec ==
    /\ Spec
    /\ WF_vars(Runner) /\ WF_vars(Tick)
    /\ \A p \in Pipes : WF_vars(Drain(p))
    /\ \A f \in Tree : WF_vars(Exit(f)) /\ \A p \in Pipes : WF_vars(Write(f, p))

------------------------------------------------------------------------------
(* A caller that gets an output gets all of it: both pipes to their end, and
   the status the program itself ended with (run_with_deadline and
   run_streaming_to_completion join both readers after the reap). *)
OutputWhole ==
    result = "output" => /\ status \in {"success", "failure"}
                         /\ \A p \in Pipes : read[p] = wrote[p] /\ buf[p] = 0

(* A timeout leaves nothing of the program's group but what no signal removes:
   the program is reaped and its helpers are dead. *)
TimeoutCleans ==
    result = "timeout" => /\ proc["leader"] = "dead"
                          /\ \A f \in Tree : grp[f] = "own" => proc[f] \notin {"run", "hang"}

(* Only a run under a deadline, and only once its budget is over, kills
   anything: a build or a switch is never interrupted (the module comment on
   the budgets). *)
KillsOnlyLate == status = "killed" => call.mode = "deadline" /\ due

(* A program given an account runs as it, in a session of its own and without
   new privileges, and without nails' groups where nails could drop them; setsid
   never meets a group leader, where it would fail ("leader"); root runs no file
   that others can write; PATH is never the caller's. *)
RunsAsAsked ==
    /\ result # "leader"
    /\ proc["leader"] # "none" =>
        /\ call.account # "none" => /\ ids.uid = "account" /\ ids.gid = "account"
                           /\ ids.session /\ ids.nnp /\ (call.root => ~ids.groups)
        /\ call.root => exe # "loose"
        /\ \A b \in ids.env : b[1] = "PATH" => b[2] = "fixed"

(* A program that would end by itself is never held up by what it writes: both
   pipes are read while it runs, so a full pipe empties. *)
NeverBlocked ==
    proc["leader"] = "run" ~> proc["leader"] \notin {"run"}

(* Once the budget of a program that does not end is over, the call returns,
   unless a process that the signal to the group cannot reach, or cannot end,
   still holds a pipe or is waited for (kill_group: "reaches every descendant that has not escaped it"). *)
OutOfReach(f) == proc[f] = "stuck" \/ (proc[f] \in Running /\ grp[f] = "escaped" /\ open[f] # {})
DeadlineReturns == due /\ proc["leader"] = "hang" ~> pc = "done" \/ \E f \in Tree : OutOfReach(f)

(* A budget is kept: no kill before it is over, nothing of the group alive  *)
(* after it, and the call returns (await_child, kill_group).                *)
DeadlineKept == [](TimeoutCleans /\ KillsOnlyLate) /\ NeverBlocked /\ DeadlineReturns
==============================================================================
