------------------------------- MODULE SafeFs -------------------------------
(***************************************************************************)
(* The file operations NAILS performs itself: those anchored on a root     *)
(* directory (SafeRoot, safe_path.rs), the write of a file into a user's   *)
(* home (user_write.rs), the write through a sibling and the write in      *)
(* place (file_ops/mod.rs), the overwrite before a delete                  *)
(* (secure_delete.rs) and the copy of a tree (dir_ops.rs).  One job works  *)
(* on root/sub/leaf, one system call per step; another program of the      *)
(* machine may replace an entry between two steps, and the process may be  *)
(* killed at any step.                                                     *)
(***************************************************************************)
EXTENDS Naturals, Sequences

CONSTANTS TempNames,   \* the names tried for a temporary file, in order (8 in the code)
          MaxSwaps     \* entries another program replaces during one job

Temps == {TempNames[k] : k \in 1..Len(TempNames)}
ASSUME SafeFsAssumption ==
  /\ TempNames \in Seq(STRING) /\ TempNames # <<>> /\ MaxSwaps \in Nat
  /\ {"nothing", "sub", "leaf", "sibling"} \cap Temps = {}

VARIABLES tree,        \* tree[d][n]: what name n is in directory d
          file,        \* file[i]: content, owner and mode of file i
          dirOwner,    \* who owns each directory
          job,         \* the operation under way
          swaps        \* entries replaced so far

fsVars == <<tree, file, dirOwner, job, swaps>>

Names == Temps \cup {"sub", "leaf", "sibling"}
Dirs  == {"root", "sub", "made", "outside"}
Files == {"own", "fresh", "stale", "foreign"}

None    == [kind |-> "none", to |-> "nothing"]
Dir(d)  == [kind |-> "dir", to |-> d]
File(i) == [kind |-> "file", to |-> i]
Link(x) == [kind |-> "link", to |-> x]

Atomic    == {"write_atomic", "write_user_file"}
Creating  == {"write_atomic", "create_new", "open_rw_create"}
Anchored  == Creating \cup {"read", "overwrite", "remove_file", "remove_dir",
                            "exists", "is_dir"}
Plain     == {"write_file_content", "secure_delete"}
Ops       == Anchored \cup Plain \cup {"write_user_file"}

(* The job walks its program counter; `end` is "running" until it returns  *)
(* "ok", "yes", "no" or "refused", or is "killed".                         *)
Goto(pc)    == job' = [job EXCEPT !.pc = pc]
Return(end) == job' = [job EXCEPT !.pc = "done", !.end = end]
Calls(pc)   == job.pc = pc
FsQuiet     == UNCHANGED <<tree, file, dirOwner, swaps>>

Put(d, n, e) == tree' = [tree EXCEPT ![d][n] = e]

(* openat2 of one component with containment_flags: a link is refused.     *)
SubEntry   == tree["root"]["sub"]
Contained1 == SubEntry.kind = "dir"
Followed   == Contained1 \/ SubEntry = Link("outside")
LeafEntry  == IF Contained1 THEN tree[SubEntry.to]["leaf"] ELSE None

FirstStep(op) ==
  CASE op \in Creating               -> "ensure"
    [] op = "write_user_file"        -> "lookDir"
    [] op \in {"remove_file", "remove_dir"} -> "parent"
    [] op = "write_file_content"     -> "sibling"
    [] op = "secure_delete"          -> "size"
    [] op = "overwrite"              -> "inPlace"
    [] OTHER                         -> "open"

-----------------------------------------------------------------------------
(* ensure_child_dir: open the child, make it when it is missing, open it   *)
(* again.  The second open is what refuses an entry put there meanwhile.   *)
AfterDirs == IF job.op = "write_atomic" THEN "parent" ELSE "open"

EnsureOpen ==
  /\ Calls("ensure")
  /\ \/ SubEntry.kind = "dir"  /\ Goto(AfterDirs)
     \/ SubEntry.kind = "none" /\ Goto("mkdir")
     \/ SubEntry.kind \in {"file", "link"} /\ Return("refused")
  /\ FsQuiet

MkDirAt ==
  /\ Calls("mkdir")
  /\ IF SubEntry.kind = "none" THEN Put("root", "sub", Dir("made")) ELSE UNCHANGED tree
  /\ Goto("reopen")
  /\ UNCHANGED <<file, dirOwner, swaps>>

\* Mutant: the directory is taken as made, and what stands there followed.
EnsureReopenFollowing ==
  /\ Calls("reopen")
  /\ IF SubEntry.kind \in {"dir", "link"}
     THEN job' = [job EXCEPT !.pc = IF job.op = "write_atomic" THEN "temp" ELSE "open",
                             !.cwd = SubEntry.to]
     ELSE Return("refused")
  /\ FsQuiet

EnsureReopen ==
  /\ Calls("reopen")
  /\ IF SubEntry.kind = "dir" THEN Goto(AfterDirs) ELSE Return("refused")
  /\ FsQuiet

(* open_parent_rw: from here on the job works below a directory handle.    *)
OpenParent ==
  /\ Calls("parent")
  /\ IF Contained1
     THEN job' = [job EXCEPT !.pc = IF job.op = "write_atomic" THEN "temp" ELSE "unlink",
                             !.cwd = SubEntry.to]
     ELSE Return("refused")
  /\ FsQuiet

(* SafeRoot::create_new, open_rw_create, read_to_string, exists and        *)
(* is_dir: one contained openat2 of the whole path.                        *)
OpenLeaf ==
  /\ Calls("open")
  /\ LET e == LeafEntry
         absent == SubEntry.kind = "none" \/ (Contained1 /\ e.kind = "none")
         makes  == Contained1 /\ absent /\ job.op \in {"create_new", "open_rw_create"}
     IN \/ /\ makes
           /\ Put(SubEntry.to, "leaf", File("fresh"))
           /\ Return("ok")
        \/ /\ ~ makes
           /\ UNCHANGED tree
           /\ CASE job.op = "exists" /\ (absent \/ (Contained1 /\ e.kind # "link")) ->
                     Return(IF absent THEN "no" ELSE "yes")
                [] job.op = "is_dir" /\ e.kind # "link" /\ SubEntry.kind # "link" ->
                     Return(IF e.kind = "dir" THEN "yes" ELSE "no")
                [] job.op \in {"open_rw_create", "read"} /\ e.kind = "file" ->
                     job' = [job EXCEPT !.pc = "done", !.end = "ok", !.ino = e.to]
                [] OTHER -> Return("refused")
  /\ UNCHANGED <<file, dirOwner, swaps>>

(* remove_file and remove_dir: unlinkat below the handle; missing is done. *)
UnlinkLeaf ==
  /\ Calls("unlink")
  /\ LET e == tree[job.cwd]["leaf"]
         fits == IF job.op = "remove_dir" THEN e.kind = "dir" ELSE e.kind \in {"file", "link"}
     IN /\ IF fits THEN Put(job.cwd, "leaf", None) ELSE UNCHANGED tree
        /\ Return(IF fits \/ e.kind = "none" THEN "ok" ELSE "refused")
  /\ UNCHANGED <<file, dirOwner, swaps>>

-----------------------------------------------------------------------------
(* create_user_dir_all: the parent is looked at without following it, made *)
(* by path when it is missing, and given to the user by path.              *)
LookUserDir ==
  /\ Calls("lookDir")
  /\ \/ SubEntry.kind = "dir"  /\ Goto("openUserDir")
     \/ SubEntry.kind = "none" /\ Goto("makeUserDir")
     \/ SubEntry.kind \in {"file", "link"} /\ Return("refused")
  /\ FsQuiet

MakeUserDir ==
  /\ Calls("makeUserDir")
  /\ IF SubEntry.kind = "none"
     THEN Put("root", "sub", Dir("made")) /\ Goto("giveUserDir")
     ELSE Goto("openUserDir") /\ UNCHANGED tree
  /\ UNCHANGED <<file, dirOwner, swaps>>

GiveUserDir ==
  /\ Calls("giveUserDir")
  /\ IF SubEntry.kind = "none"
     THEN Return("refused") /\ UNCHANGED dirOwner
     ELSE /\ Goto("openUserDir")
          /\ dirOwner' = IF SubEntry.to \in Dirs
                         THEN [dirOwner EXCEPT ![SubEntry.to] = "user"] ELSE dirOwner
  /\ UNCHANGED <<tree, file, swaps>>

(* open_dir_no_symlinks, then fstatat: an existing file's owner and mode   *)
(* are kept, a new one takes the user's and the default; a link has its    *)
(* own owner and every permission bit.                                     *)
OpenUserDir ==
  /\ Calls("openUserDir")
  /\ IF Contained1 THEN job' = [job EXCEPT !.pc = "statLeaf", !.cwd = SubEntry.to]
                   ELSE Return("refused")
  /\ FsQuiet

StatLeaf ==
  /\ Calls("statLeaf")
  /\ LET e == tree[job.cwd]["leaf"]
     IN job' = [job EXCEPT !.pc = "temp",
                           !.owner = IF e.kind = "file" THEN file[e.to].owner
                                     ELSE IF e.kind = "none" THEN "user" ELSE "root",
                           !.mode = CASE e.kind = "file" -> file[e.to].mode
                                      [] e.kind = "none" -> "default"
                                      [] OTHER           -> "wide"]
  /\ FsQuiet

-----------------------------------------------------------------------------
(* The exclusive temporary file: a taken name costs a try.                 *)
MakeTemp ==
  /\ Calls("temp")
  /\ LET t == TempNames[job.tried + 1]
     IN IF tree[job.cwd][t].kind = "none"
        THEN /\ Put(job.cwd, t, File("fresh"))
             /\ file' = [file EXCEPT !["fresh"] =
                            [data |-> "empty", owner |-> "root", mode |-> job.mode]]
             /\ job' = [job EXCEPT !.pc = "write", !.temp = t]
        ELSE /\ UNCHANGED <<tree, file>>
             /\ IF job.tried + 1 = Len(TempNames)
                THEN Return("refused") ELSE job' = [job EXCEPT !.tried = @ + 1]
  /\ UNCHANGED <<dirOwner, swaps>>

(* write_all, fchmod/fchown and fsync: each may fail, which unlinks the    *)
(* temporary file.                                                         *)
WriteTemp ==
  /\ Calls("write")
  /\ \/ file["fresh"].data = "empty" /\ file' = [file EXCEPT !["fresh"].data = "part"] /\ UNCHANGED job
     \/ file["fresh"].data = "part" /\ file' = [file EXCEPT !["fresh"].data = "new",
                                                            !["fresh"].owner = job.owner]
                                    /\ Goto("rename")
     \/ Goto("cleanup") /\ UNCHANGED file
  /\ UNCHANGED <<tree, dirOwner, swaps>>

RenameTemp ==
  /\ Calls("rename")
  /\ IF tree[job.cwd]["leaf"].kind = "dir"
     THEN Goto("cleanup") /\ UNCHANGED tree
     ELSE /\ tree' = [tree EXCEPT ![job.cwd]["leaf"] = tree[job.cwd][job.temp],
                                  ![job.cwd][job.temp] = None]
          /\ Return("ok")
  /\ UNCHANGED <<file, dirOwner, swaps>>

CleanTemp ==
  /\ Calls("cleanup")
  /\ Put(job.cwd, job.temp, None)
  /\ Return("refused")
  /\ UNCHANGED <<file, dirOwner, swaps>>

-----------------------------------------------------------------------------
(* overwrite_file_in_place: the parent is opened by its path and becomes   *)
(* the root of open_rw_existing, which refuses a link and a missing file;  *)
(* then the open file is truncated and written.                            *)
OpenInPlace ==
  /\ Calls("inPlace")
  /\ LET e == IF Followed THEN tree[SubEntry.to]["leaf"] ELSE None
     IN IF e.kind = "file" THEN job' = [job EXCEPT !.pc = "truncate", !.ino = e.to]
                           ELSE Return("refused")
  /\ FsQuiet

Truncate ==
  /\ Calls("truncate")
  /\ file' = [file EXCEPT ![job.ino].data = "empty"]
  /\ Goto("refill")
  /\ UNCHANGED <<tree, dirOwner, swaps>>

Refill ==
  /\ Calls("refill")
  /\ \/ file' = [file EXCEPT ![job.ino].data = "new"] /\ Return("ok")
     \/ UNCHANGED file /\ Return("refused")
  /\ UNCHANGED <<tree, dirOwner, swaps>>

(* write_file_content: the sibling has a fixed name and is left behind by  *)
(* a write that fails; the next write opens it again.                      *)
WriteSibling ==
  /\ Calls("sibling")
  /\ Contained1
  /\ Put(SubEntry.to, "sibling", File("fresh"))
  /\ \/ file' = [file EXCEPT !["fresh"].data = "new", !["fresh"].owner = "root"]
        /\ job' = [job EXCEPT !.pc = "rename", !.cwd = SubEntry.to, !.temp = "sibling"]
     \/ file' = [file EXCEPT !["fresh"].data = "part", !["fresh"].owner = "root"] /\ Return("refused")
  /\ UNCHANGED <<dirOwner, swaps>>

(* secure_delete: zeros, random data, zeros, then the name goes.  An empty *)
(* file is only removed.                                                   *)
DeleteSize ==
  /\ Calls("size")
  /\ IF LeafEntry.kind = "file"
     THEN job' = [job EXCEPT !.pc = IF file[LeafEntry.to].data = "empty" THEN "drop" ELSE "pass1",
                             !.ino = LeafEntry.to, !.cwd = SubEntry.to]
     ELSE Return("refused")
  /\ FsQuiet

Passes == <<"pass1", "pass2", "pass3", "drop">>

OverwritePass ==
  /\ \E k \in 1 .. 3 :
       /\ Calls(Passes[k])
       /\ file' = [file EXCEPT ![job.ino].data = IF k = 2 THEN "random" ELSE "zeros"]
       /\ \/ Goto(Passes[k + 1])
          \/ Return("refused")
  /\ UNCHANGED <<tree, dirOwner, swaps>>

DropName ==
  /\ Calls("drop")
  /\ Put(job.cwd, "leaf", None)
  /\ Return("ok")
  /\ UNCHANGED <<file, dirOwner, swaps>>

-----------------------------------------------------------------------------
(* Another program puts something else at one name, or moves it away.      *)
Swap ==
  /\ job.pc # "done" /\ job.op \notin Plain
  /\ swaps < MaxSwaps
  /\ swaps' = swaps + 1
  /\ \/ \E e \in {None, Link("outside"), File("stale")} : Put("root", "sub", e)
     \/ \E d \in {"sub", "made"}, e \in {None, Link("foreign"), File("stale")} : Put(d, "leaf", e)
  /\ UNCHANGED <<file, dirOwner, job>>

Killed == job.pc # "done" /\ Return("killed") /\ FsQuiet

FsNext ==
  \/ EnsureOpen \/ MkDirAt \/ EnsureReopen \/ OpenParent \/ OpenLeaf \/ UnlinkLeaf
  \/ LookUserDir \/ MakeUserDir \/ GiveUserDir \/ OpenUserDir \/ StatLeaf
  \/ MakeTemp \/ WriteTemp \/ RenameTemp \/ CleanTemp
  \/ OpenInPlace \/ Truncate \/ Refill \/ WriteSibling \/ DeleteSize \/ OverwritePass \/ DropName
  \/ Swap \/ Killed

(* A job on a tree: what root/sub and the leaf are, and the temporary      *)
(* names already taken there.                                              *)
FsStart(op, sub, leaf, taken) ==
  /\ tree = [d \in Dirs |-> [n \in Names |->
               CASE d = "root" /\ n = "sub" -> sub
                 [] d = "sub" /\ n = "leaf" -> leaf
                 [] d = "sub" /\ n \in taken -> File("stale")
                 [] d = "outside" /\ n = "leaf" -> File("foreign")
                 [] OTHER -> None]]
  /\ file = [i \in Files |-> [data |-> IF i = "fresh" THEN "empty" ELSE "old",
                              owner |-> IF i = "own" THEN "other" ELSE "root", mode |-> "kept"]]
  /\ dirOwner = [d \in Dirs |-> IF d = "sub" THEN "user" ELSE "root"]
  /\ job = [op |-> op, pc |-> FirstStep(op), cwd |-> "root", temp |-> "nothing", tried |-> 0,
            leaf |-> leaf, ino |-> "nothing", owner |-> "root", mode |-> "default", end |-> "running"]
  /\ swaps = 0

(* What another program left where a file goes: a stale file, a link out   *)
(* of the tree, temporary names already taken.  A plain operation is for a *)
(* file of the tool's own.                                                 *)
FsInit ==
  \E op \in Ops, sub \in {None, Dir("sub"), Link("outside"), File("stale")},
     leaf \in {None, File("own"), Link("foreign"), Dir("made")}, taken \in SUBSET Temps :
    /\ op \in Plain => sub = Dir("sub") /\ leaf.kind \in {"none", "file"} /\ taken = {}
    /\ sub # Dir("sub") => leaf = None /\ taken = {}
    /\ taken # {} => op \in Atomic
    /\ FsStart(op, sub, leaf, taken)

FsSpec == FsInit /\ [][FsNext]_fsVars

-----------------------------------------------------------------------------
(* copy_dir_contents over the entries of a tree, in the order they are     *)
(* met: a file reached again through a hard link is linked to its first    *)
(* copy.  An entry's copy is named by the entry it was made from.          *)
CopyDirContents(src) ==
  LET First(i) == CHOOSE j \in 1 .. i : /\ src[j].kind = "file" /\ src[j].ino = src[i].ino
                                        /\ \A k \in 1 .. j - 1 : ~ (src[k].kind = "file" /\ src[k].ino = src[i].ino)
  IN [i \in DOMAIN src |->
        [kind |-> src[i].kind,
         ino |-> IF src[i].kind = "file" /\ src[i].nlink > 1 THEN First(i) ELSE i]]

-----------------------------------------------------------------------------
FsTypeOK ==
  /\ tree \in [Dirs -> [Names -> [kind : {"none", "dir", "file", "link"},
                                  to : Dirs \cup Files \cup {"nothing"}]]]
  /\ file \in [Files -> [data : {"empty", "part", "old", "new", "zeros", "random"},
                         owner : {"root", "user", "other"}, mode : {"kept", "default", "wide"}]]
  /\ dirOwner \in [Dirs -> {"root", "user"}]
  /\ job.op \in Ops /\ job.cwd \in Dirs /\ job.temp \in Names \cup {"nothing"}
  /\ job.tried \in 0 .. Len(TempNames) - 1
  /\ swaps \in 0 .. MaxSwaps

(* No operation but the one in place, whose root is the parent the caller  *)
(* names, creates, changes or removes a file outside the root, whatever is *)
(* put at a name between two of its calls (containment_flags,              *)
(* ensure_child_dir, open_dir_no_symlinks).  A directory outside changes   *)
(* hands in one window only: create_user_dir_all gives the directory it    *)
(* made to the user by its path, and a link may be there by then.          *)
Contained ==
  job.op # "overwrite" =>
    /\ \A n \in Names : tree["outside"][n] = IF n = "leaf" THEN File("foreign") ELSE None
    /\ file["foreign"].data = "old"
    /\ dirOwner["outside"] # "root" => job.op = "write_user_file" /\ swaps # 0

(* Whoever reads the leaf finds all of the old or all of the new content,  *)
(* also when the process is killed half way (write_atomic,                 *)
(* write_user_file and write_file_content all rename a synced file).       *)
WholeLeaf ==
  job.op \in Atomic \cup {"write_file_content"} =>
    \A d \in Dirs : tree[d]["leaf"].kind = "file" => file[tree[d]["leaf"].to].data \in {"old", "new"}

(* A write that returns leaves no temporary file, also when it failed and  *)
(* when its directory was moved meanwhile: the handle finds it again.      *)
TempGone ==
  job.op \in Atomic /\ job.end \in {"ok", "refused"} =>
    \A d \in Dirs, t \in Temps : tree[d][t] # File("fresh")

(* A file replaced in a user's home keeps its owner and mode; a new one,   *)
(* and a directory made for it, are the user's (write_user_file).          *)
UserOwns ==
  job.op = "write_user_file" /\ job.end = "ok" /\ swaps = 0 /\ job.leaf.kind # "link" =>
    LET had == job.leaf.kind = "file"
    IN /\ file["fresh"].owner = IF had THEN "other" ELSE "user"
       /\ file["fresh"].mode = IF had THEN "kept" ELSE "default"
       /\ dirOwner[SubEntry.to] = "user"

(* A file deleted securely loses its name only once its content has been   *)
(* overwritten, whatever pass fails or is cut short (secure_delete).       *)
WipedFirst ==
  job.op = "secure_delete" /\ LeafEntry.kind = "none" /\ job.leaf.kind = "file" =>
    file[job.leaf.to].data = "zeros"

(* A file is written, replaced or deleted as asked, under every failing    *)
(* call and every swap of a directory in between: inside its tree, whole,  *)
(* owned by its user, its temporary gone, wiped before its name goes       *)
(* (safe_path.rs, user_write.rs, file_ops).                                *)
FilesAsAsked == FsTypeOK /\ Contained /\ UserOwns /\ WholeLeaf /\ TempGone /\ WipedFirst

(* Two names of the copy are one file exactly when they were one file in   *)
(* the source (copy_dir_contents' hard_links map).                         *)
LinksKept(src) ==
  LET dst == CopyDirContents(src)
  IN \A i, j \in DOMAIN src :
       src[i].kind = "file" /\ src[j].kind = "file" =>
         (dst[i].ino = dst[j].ino <=> src[i].ino = src[j].ino)
=============================================================================
