---------------------------- MODULE FilesProofs ----------------------------
(***************************************************************************)
(* A file is written, replaced or deleted as asked, whatever call fails,   *)
(* wherever the process is killed and however often another program swaps  *)
(* an entry, for any names of temporary files.                             *)
(***************************************************************************)
EXTENDS SafeFs, TLAPS

Entry == [kind : {"none", "dir", "file", "link"}, to : Dirs \cup Files \cup {"nothing"}]
JobSteps == {"ensure", "mkdir", "reopen", "parent", "open", "unlink", "lookDir", "makeUserDir",
             "giveUserDir", "openUserDir", "statLeaf", "temp", "write", "rename", "cleanup", "inPlace",
             "truncate", "refill", "sibling", "size", "pass1", "pass2", "pass3", "drop", "done"}
JobEnds == {"running", "ok", "yes", "no", "refused", "killed"}
Jobs == [op : Ops, pc : JobSteps, cwd : Dirs, temp : Names \cup {"nothing"}, tried : 0 .. Len(TempNames) - 1,
         leaf : {None, File("own"), Link("foreign"), Dir("made")}, ino : Files \cup {"nothing"},
         owner : {"root", "user", "other"}, mode : {"kept", "default", "wide"}, end : JobEnds]

Contents == [Files -> [data : {"empty", "part", "old", "new", "zeros", "random"},
                       owner : {"root", "user", "other"}, mode : {"kept", "default", "wide"}]]

(* Which operation takes which step, and the handles it has there. *)
JobOK ==
    /\ job \in Jobs
    /\ job.end = "running" <=> job.pc # "done"
    /\ job.pc \in {"ensure", "mkdir", "reopen"} => job.op \in Creating
    /\ job.pc = "parent" => job.op \in {"write_atomic", "remove_file", "remove_dir"}
    /\ job.pc = "unlink" => job.op \in {"remove_file", "remove_dir"}
    /\ job.pc = "open" => job.op \in {"create_new", "open_rw_create", "read", "exists", "is_dir"}
    /\ job.pc \in {"lookDir", "makeUserDir", "giveUserDir", "openUserDir", "statLeaf"}
          => job.op = "write_user_file"
    /\ job.pc \in {"temp", "write"} => job.op \in Atomic
    /\ job.pc \in {"rename", "cleanup"} => job.op \in Atomic \cup {"write_file_content"}
    /\ job.pc = "sibling" => job.op = "write_file_content"
    /\ job.pc \in {"inPlace", "truncate", "refill"} => job.op = "overwrite"
    /\ job.pc \in {"size", "pass1", "pass2", "pass3", "drop"} => job.op = "secure_delete"
    /\ job.pc \in {"statLeaf", "temp", "write", "rename", "cleanup", "unlink", "drop"}
          => job.cwd \in {"sub", "made"}
    /\ job.pc \in {"truncate", "refill"} => job.ino \in Files

(* What can stand at each name, whatever another program puts there. *)
TreeOK ==
    /\ tree \in [Dirs -> [Names -> Entry]]
    /\ tree["root"]["sub"] \in {None, Dir("sub"), Dir("made"), Link("outside"), File("stale")}
    /\ \A n \in Names : tree["outside"][n] = IF n = "leaf" THEN File("foreign") ELSE None
    /\ \A d \in {"sub", "made"} :
         tree[d]["leaf"] \in {None, File("own"), File("stale"), File("fresh"), Link("foreign"), Dir("made")}
    /\ \A n \in Names \ {"sub"} : tree["root"][n] = None
FilesOK ==
    /\ file \in Contents
    /\ dirOwner \in [Dirs -> {"root", "user"}] /\ swaps \in 0 .. MaxSwaps
    /\ job.op # "overwrite" => file["foreign"].data = "old"

(* The temporary file is where the job's handle finds it until it is renamed or
   removed, and nothing but a finished one gets the name. *)
TempKept ==
    /\ job.op \in Atomic /\ job.pc \in {"write", "rename", "cleanup"} => job.temp \in Temps
    /\ job.pc \in {"write", "rename", "cleanup"} =>
         job.temp \in Temps \cup {"sibling"} /\ tree[job.cwd][job.temp] = File("fresh")
    /\ job.op \in Atomic /\ job.end # "killed" =>
         \A d \in {"sub", "made"}, t \in Temps : tree[d][t] = File("fresh") =>
           d = job.cwd /\ t = job.temp /\ job.pc \in {"write", "rename", "cleanup"}
Written ==
    job.op \in Atomic \cup {"write_file_content"} =>
         /\ \A i \in Files \ {"fresh"} : file[i].data = "old"
         /\ job.pc = "rename" => file["fresh"].data = "new"
         /\ \A d \in {"sub", "made"} :
              tree[d]["leaf"] = File("fresh") => file["fresh"].data = "new" /\ job.pc = "done"

(* Nobody swaps what secure_delete works on, and the name goes last. *)
Wiping ==
    job.op = "secure_delete" =>
        /\ tree["root"]["sub"] = Dir("sub") /\ job.leaf \in {None, File("own")}
        /\ tree["sub"]["leaf"] \in {job.leaf, None}
        /\ job.pc = "size" => file["own"].data = "old"
        /\ job.pc # "done" => tree["sub"]["leaf"] = job.leaf
        /\ job.pc \in {"pass1", "pass2", "pass3", "drop"} =>
             job.ino = "own" /\ job.leaf = File("own") /\ job.cwd = "sub"
        /\ job.pc = "drop" => file["own"].data = "zeros"
        /\ tree["sub"]["leaf"] = None /\ job.leaf = File("own") => file["own"].data = "zeros"

(* Without a swap, what write_user_file saw is what it replaces. *)
Owning ==
    job.op = "write_user_file" /\ swaps = 0 =>
        /\ file["own"].owner = "other" /\ file["own"].mode = "kept" /\ dirOwner["sub"] = "user"
        /\ tree["root"]["sub"] # Dir("sub") => job.leaf = None
        /\ job.pc = "lookDir" => tree["root"]["sub"] # Dir("made")
        /\ job.pc = "makeUserDir" => tree["root"]["sub"] = None
        /\ job.pc # "done" => tree["made"]["leaf"] = None /\ tree["sub"]["leaf"] = job.leaf
        /\ job.pc = "giveUserDir" => tree["root"]["sub"] = Dir("made")
        /\ job.pc = "openUserDir" => tree["root"]["sub"].kind = "dir" /\ dirOwner[tree["root"]["sub"].to] = "user"
        /\ job.pc \in {"statLeaf", "temp", "write", "rename", "cleanup"} =>
             tree["root"]["sub"] = Dir(job.cwd) /\ dirOwner[job.cwd] = "user"
        /\ job.pc \in {"temp", "write", "rename"} =>
             /\ job.leaf.kind = "file" => job.owner = "other" /\ job.mode = "kept"
             /\ job.leaf.kind = "none" => job.owner = "user" /\ job.mode = "default"
        /\ job.pc \in {"write", "rename"} => file["fresh"].mode = job.mode
        /\ job.pc = "rename" => file["fresh"].owner = job.owner
        /\ job.end = "ok" =>
             /\ job.leaf.kind # "dir" /\ tree["root"]["sub"].kind = "dir"
             /\ dirOwner[tree["root"]["sub"].to] = "user"
             /\ job.leaf.kind = "file" => file["fresh"].owner = "other" /\ file["fresh"].mode = "kept"
             /\ job.leaf.kind = "none" => file["fresh"].owner = "user" /\ file["fresh"].mode = "default"

FsInv == JobOK /\ TreeOK /\ FilesOK /\ TempKept /\ Written /\ Wiping /\ Owning

-----------------------------------------------------------------------------
(* What an entry says. *)
LEMMA EntryFacts ==
  /\ None \in Entry /\ None.kind = "none" /\ None.to = "nothing"
  /\ \A d \in Dirs : Dir(d) \in Entry /\ Dir(d).kind = "dir" /\ Dir(d).to = d
  /\ \A i \in Files : File(i) \in Entry /\ File(i).kind = "file" /\ File(i).to = i
  /\ \A x \in Files \cup Dirs : Link(x) \in Entry /\ Link(x).kind = "link" /\ Link(x).to = x
BY Zenon DEF None, Dir, File, Link, Entry

(* What a step leaves of the job. *)
Same == job'.op = job.op /\ job'.leaf = job.leaf
Rest == job'.cwd = job.cwd /\ job'.temp = job.temp /\ job'.tried = job.tried /\ job'.ino = job.ino
        /\ job'.owner = job.owner /\ job'.mode = job.mode

(* A step moves the program counter. *)
LEMMA GotoMoves ==
  ASSUME job \in Jobs, NEW x \in JobSteps, Goto(x)
  PROVE  job' \in Jobs /\ Same /\ Rest /\ job'.pc = x /\ job'.end = job.end
BY Zenon DEF Jobs, Goto, Same, Rest

(* A return ends the job. *)
LEMMA ReturnMoves ==
  ASSUME job \in Jobs, NEW x \in JobEnds, Return(x)
  PROVE  job' \in Jobs /\ Same /\ Rest /\ job'.pc = "done" /\ job'.end = x
<1>1. "done" \in JobSteps BY Zenon DEF JobSteps
<1> QED BY <1>1, Zenon DEF Jobs, Return, Same, Rest

(* A step that takes a directory's handle. *)
LEMMA MovesIn ==
  ASSUME job \in Jobs, NEW x \in JobSteps, NEW c \in Dirs,
         job' = [job EXCEPT !.pc = x, !.cwd = c]
  PROVE  job' \in Jobs /\ Same /\ job'.pc = x /\ job'.cwd = c /\ job'.end = job.end
<1>1. "done" \in JobSteps /\ "ok" \in JobEnds BY Zenon DEF JobSteps, JobEnds
<1> QED BY <1>1, Zenon DEF Jobs, Same

(* A step that takes a file opened to the end. *)
LEMMA Reads ==
  ASSUME job \in Jobs, NEW i \in Files,
         job' = [job EXCEPT !.pc = "done", !.end = "ok", !.ino = i]
  PROVE  job' \in Jobs /\ Same /\ job'.pc = "done" /\ job'.end = "ok"
<1>1. "done" \in JobSteps /\ "ok" \in JobEnds BY Zenon DEF JobSteps, JobEnds
<1> QED BY <1>1, Zenon DEF Jobs, Same

(* A step that takes a file and its directory. *)
LEMMA Aims ==
  ASSUME job \in Jobs, NEW x \in JobSteps, NEW i \in Files, NEW c \in Dirs,
         job' = [job EXCEPT !.pc = x, !.ino = i, !.cwd = c]
  PROVE  job' \in Jobs /\ Same /\ job'.pc = x /\ job'.ino = i /\ job'.cwd = c /\ job'.end = job.end
<1>1. "done" \in JobSteps /\ "ok" \in JobEnds BY Zenon DEF JobSteps, JobEnds
<1> QED BY <1>1, Zenon DEF Jobs, Same

(* Content and owner of a file that is filled. *)
LEMMA Fills ==
  ASSUME file \in Contents, NEW x \in {"empty", "part", "old", "new", "zeros", "random"},
         NEW o \in {"root", "user", "other"},
         file' = [file EXCEPT !["fresh"].data = x, !["fresh"].owner = o]
  PROVE  /\ file' \in Contents /\ \A i \in Files \ {"fresh"} : file'[i] = file[i]
         /\ file'["fresh"].data = x /\ file'["fresh"].owner = o /\ file'["fresh"].mode = file["fresh"].mode
<1>1. "fresh" \in Files BY Zenon DEF Files
<1> QED BY <1>1, ZenonT(60) DEF Contents

(* An entry put at a name changes that name alone. *)
LEMMA PutAt ==
  ASSUME tree \in [Dirs -> [Names -> Entry]], NEW d \in Dirs, NEW n \in Names, NEW e \in Entry, Put(d, n, e)
  PROVE  /\ tree' \in [Dirs -> [Names -> Entry]]
         /\ \A c \in Dirs, m \in Names : tree'[c][m] = IF c = d /\ m = n THEN e ELSE tree[c][m]
BY Zenon DEF Put

(* The names are there. *)
LEMMA NameFacts ==
  /\ Temps \subseteq Names /\ {"sub", "leaf", "sibling"} \subseteq Names
  /\ \A t \in Temps : t \notin {"nothing", "sub", "leaf", "sibling"}
BY SafeFsAssumption, Zenon DEF Names

(* A name is tried while there are any. *)
LEMMA NextName ==
  ASSUME NEW k \in 0 .. Len(TempNames) - 1
  PROVE  TempNames[k + 1] \in Temps
BY SafeFsAssumption DEF Temps

USE EntryFacts, NameFacts
    DEF Dirs, Files, Atomic, Creating

(* What an operation does not do it does not disturb. *)
LEMMA Beside ==
  ASSUME Same
  PROVE  /\ job.op \notin Atomic \cup {"write_file_content"} => Written'
         /\ job.op # "secure_delete" => Wiping'
         /\ job.op # "write_user_file" => Owning'
         /\ job.op \notin Atomic /\ job'.pc \notin {"write", "rename", "cleanup"} => TempKept'
BY Zenon DEF Same, Written, Wiping, Owning, TempKept

(* Something else put at the directory's name. *)
LEMMA PutSub ==
  ASSUME TreeOK, NEW e \in {None, Dir("made"), Link("outside"), File("stale")}, Put("root", "sub", e)
  PROVE  /\ TreeOK' /\ tree'["root"]["sub"] = e
         /\ \A d \in Dirs, n \in Names : d # "root" => tree'[d][n] = tree[d][n]
<1>1. e \in Entry OBVIOUS
<1>2. /\ tree' \in [Dirs -> [Names -> Entry]]
      /\ \A c \in Dirs, m \in Names : tree'[c][m] = IF c = "root" /\ m = "sub" THEN e ELSE tree[c][m]
  BY <1>1, PutAt DEF TreeOK
<1> QED BY <1>2 DEF TreeOK

(* Something else put at the leaf of a directory below the root. *)
LEMMA PutLeaf ==
  ASSUME TreeOK, NEW d \in {"sub", "made"},
         NEW e \in {None, File("stale"), File("fresh"), Link("foreign")}, Put(d, "leaf", e)
  PROVE  /\ TreeOK' /\ tree'[d]["leaf"] = e /\ tree'["root"]["sub"] = tree["root"]["sub"]
         /\ \A c \in Dirs, n \in Names : c # d \/ n # "leaf" => tree'[c][n] = tree[c][n]
<1>1. e \in Entry OBVIOUS
<1>2. /\ tree' \in [Dirs -> [Names -> Entry]]
      /\ \A c \in Dirs, m \in Names : tree'[c][m] = IF c = d /\ m = "leaf" THEN e ELSE tree[c][m]
  BY <1>1, PutAt DEF TreeOK
<1> QED BY <1>2 DEF TreeOK

(* A temporary file, or none, put at its name. *)
LEMMA PutTemp ==
  ASSUME TreeOK, NEW d \in {"sub", "made"}, NEW t \in Temps \cup {"sibling"},
         NEW e \in {None, File("fresh")}, Put(d, t, e)
  PROVE  /\ TreeOK' /\ tree'[d][t] = e
         /\ \A c \in Dirs, n \in Names : c # d \/ n # t => tree'[c][n] = tree[c][n]
<1>1. e \in Entry BY Zenon
<1>2. /\ tree' \in [Dirs -> [Names -> Entry]]
      /\ \A c \in Dirs, m \in Names : tree'[c][m] = IF c = d /\ m = t THEN e ELSE tree[c][m]
  BY <1>1, PutAt DEF TreeOK
<1> QED BY <1>2 DEF TreeOK

(* Before there is a temporary file, a step that leaves the files alone. *)
LEMMA Early ==
  ASSUME FsInv, Same, UNCHANGED <<file, swaps>>, dirOwner' \in [Dirs -> {"root", "user"}],
         job.pc \notin {"write", "rename", "cleanup", "done"},
         job'.pc \notin {"write", "rename", "cleanup"},
         \A d \in {"sub", "made"}, n \in Names : tree'[d][n] = tree[d][n]
  PROVE  TempKept' /\ Written' /\ FilesOK'
<1>1. FilesOK' BY Zenon DEF FsInv, FilesOK, Same
<1>2. TempKept'
  <2>1. job.op \in Atomic => \A d \in {"sub", "made"}, t \in Temps : tree[d][t] # File("fresh")
    BY DEF FsInv, TempKept, JobOK
  <2> QED BY <2>1 DEF TempKept, Same
<1>3. Written' BY DEF FsInv, Written, Same
<1> QED BY <1>1, <1>2, <1>3, Zenon

(* A step that looks changes nothing of the files. *)
LEMMA Looks ==
  ASSUME FsInv, FsQuiet, Same, job.pc \notin {"write", "rename", "cleanup", "done"},
         job'.pc \notin {"write", "rename", "cleanup"}
  PROVE  TreeOK' /\ FilesOK' /\ TempKept' /\ Written'
<1>1. UNCHANGED <<tree, file, dirOwner, swaps>> BY Zenon DEF FsQuiet
<1>2. TreeOK' BY <1>1, Zenon DEF FsInv, TreeOK
<1>3. dirOwner' \in [Dirs -> {"root", "user"}] BY <1>1, Zenon DEF FsInv, FilesOK
<1> QED BY <1>1, <1>2, <1>3, Early, Zenon

(* Looking at the directory and the leaf: safe_path.rs. *)
LEMMA EnsureKeeps == FsInv /\ (EnsureOpen \/ EnsureReopen \/ OpenParent) => FsInv'
<1> SUFFICES ASSUME FsInv, EnsureOpen \/ EnsureReopen \/ OpenParent PROVE FsInv' BY Zenon
<1>1. JobOK /\ TreeOK BY Zenon DEF FsInv
<1>2. job \in Jobs BY <1>1, Zenon DEF JobOK
<1>3. FsQuiet /\ job.pc \in {"ensure", "reopen", "parent"}
  BY Zenon DEF EnsureOpen, EnsureReopen, OpenParent, Calls
<1>4. job.op \in {"write_atomic", "create_new", "open_rw_create", "remove_file", "remove_dir"}
  BY <1>1, <1>3, Zenon DEF JobOK
<1>5. ASSUME job' \in Jobs, Same, JobOK', job'.pc \notin {"write", "rename", "cleanup"}
      PROVE  FsInv'
  <2>1. TreeOK' /\ FilesOK' /\ TempKept' /\ Written' BY <1>3, <1>5, Looks, Zenon
  <2>2. Wiping' /\ Owning' BY <1>4, <1>5, Beside, Zenon
  <2> QED BY <1>5, <2>1, <2>2, Zenon DEF FsInv
<1>6. CASE Return("refused")
  <2>1. job' \in Jobs /\ Same /\ job'.pc = "done" /\ job'.end = "refused"
    BY <1>2, <1>6, ReturnMoves, Zenon
      DEF JobEnds
  <2> QED BY <1>5, <2>1, Zenon DEF JobOK
<1>7. CASE \E x \in {"mkdir", "parent", "open"} : Goto(x) /\ job.pc \in {"ensure", "reopen"}
                /\ (x = "parent" => job.op = "write_atomic") /\ (x = "open" => job.op # "write_atomic")
  <2>1. PICK x \in {"mkdir", "parent", "open"} : Goto(x) /\ job.pc \in {"ensure", "reopen"}
          /\ (x = "parent" => job.op = "write_atomic") /\ (x = "open" => job.op # "write_atomic")
    BY <1>7, Zenon
  <2>2. job' \in Jobs /\ Same /\ job'.pc = x /\ job'.end = job.end BY <1>2, <2>1, GotoMoves
      DEF JobSteps
  <2>3. job.op \in Creating /\ job.end = "running" BY <1>1, <2>1, Zenon DEF JobOK
  <2>4. JobOK' BY <2>1, <2>2, <2>3, Zenon DEF JobOK, Same
  <2> QED BY <1>5, <2>2, <2>4, Zenon
<1>8. CASE OpenParent /\ ~Return("refused")
  <2>1. /\ job' = [job EXCEPT !.pc = IF job.op = "write_atomic" THEN "temp" ELSE "unlink",
                              !.cwd = tree["root"]["sub"].to]
        /\ tree["root"]["sub"].kind = "dir" /\ job.pc = "parent"
    BY <1>8, Zenon DEF OpenParent, Contained1, SubEntry, Calls
  <2>2. tree["root"]["sub"].to \in {"sub", "made"} BY <1>1, <2>1 DEF TreeOK
  <2>3. /\ job' \in Jobs /\ Same /\ job'.cwd \in {"sub", "made"} /\ job'.end = job.end
        /\ job'.pc = IF job.op = "write_atomic" THEN "temp" ELSE "unlink"
    <3>1. CASE job.op = "write_atomic" BY <1>2, <2>1, <2>2, <3>1, MovesIn, ZenonT(60) DEF JobSteps
    <3>2. CASE job.op # "write_atomic" BY <1>2, <2>1, <2>2, <3>2, MovesIn, ZenonT(60) DEF JobSteps
    <3> QED BY <3>1, <3>2, Zenon
  <2>4. JobOK' BY <1>1, <1>4, <2>1, <2>3 DEF JobOK, Same
  <2> QED BY <1>5, <2>3, <2>4, Zenon
<1>9. Return("refused") \/ (OpenParent /\ ~Return("refused"))
      \/ \E x \in {"mkdir", "parent", "open"} : Goto(x) /\ job.pc \in {"ensure", "reopen"}
            /\ (x = "parent" => job.op = "write_atomic") /\ (x = "open" => job.op # "write_atomic")
  BY Zenon DEF EnsureOpen, EnsureReopen, OpenParent, Calls, AfterDirs
<1> QED BY <1>6, <1>7, <1>8, <1>9, Zenon

(* The directories are made: ensure_child_dir, create_user_dir_all. *)
LEMMA MkDirKeeps == FsInv /\ MkDirAt => FsInv'
<1> SUFFICES ASSUME FsInv, MkDirAt PROVE FsInv' BY Zenon
<1>1. JobOK /\ TreeOK /\ job \in Jobs /\ job.pc = "mkdir" /\ Goto("reopen")
      /\ UNCHANGED <<file, dirOwner, swaps>>
  BY Zenon DEF FsInv, JobOK, MkDirAt, Calls
<1>2. /\ job' \in Jobs /\ Same /\ job'.pc = "reopen" /\ job'.end = job.end
  BY <1>1, GotoMoves, Zenon DEF JobSteps
<1>3. job.op \in Creating /\ job.end = "running" BY <1>1, Zenon DEF JobOK
<1>4. JobOK' BY <1>2, <1>3, Zenon DEF JobOK, Same
<1>5. UNCHANGED tree \/ Put("root", "sub", Dir("made")) BY Zenon DEF MkDirAt
<1>6. TreeOK' BY <1>1, <1>5, PutSub DEF TreeOK
<1>7. \A d \in {"sub", "made"}, n \in Names : tree'[d][n] = tree[d][n]
  <2>1. CASE Put("root", "sub", Dir("made")) BY <1>1, <2>1, PutSub
  <2> QED BY <1>5, <2>1, Zenon
<1>8. dirOwner' \in [Dirs -> {"root", "user"}] BY <1>1, Zenon DEF FsInv, FilesOK
<1>9. TempKept' /\ Written' /\ FilesOK' BY <1>1, <1>2, <1>7, <1>8, Early, Zenon
<1>10. Wiping' /\ Owning' BY <1>2, <1>3, Beside, Zenon
<1> QED BY <1>4, <1>6, <1>9, <1>10, Zenon DEF FsInv

(* One contained open of the whole path: create_new, read_to_string, exists. *)
LEMMA OpenLeafKeeps == FsInv /\ OpenLeaf => FsInv'
<1> SUFFICES ASSUME FsInv, OpenLeaf PROVE FsInv' OBVIOUS
<1>1. JobOK /\ TreeOK /\ job \in Jobs /\ job.pc = "open" /\ UNCHANGED <<file, dirOwner, swaps>>
  BY Zenon DEF FsInv, JobOK, OpenLeaf, Calls
<1>2. job.op \in {"create_new", "open_rw_create", "read", "exists", "is_dir"} BY <1>1, Zenon
    DEF JobOK
<1>3. UNCHANGED tree \/ (SubEntry.kind = "dir" /\ Put(SubEntry.to, "leaf", File("fresh")))
  BY Zenon DEF OpenLeaf, Contained1
<1>4. \/ \E x \in {"ok", "yes", "no", "refused"} : Return(x)
      \/ LeafEntry.kind = "file" /\ job' = [job EXCEPT !.pc = "done", !.end = "ok", !.ino = LeafEntry.to]
  BY Zenon DEF OpenLeaf
<1>5. job' \in Jobs /\ Same /\ job'.pc = "done" /\ job'.end # "running"
  <2>1. CASE \E x \in {"ok", "yes", "no", "refused"} : Return(x) BY <1>1, <2>1, ReturnMoves, Zenon
      DEF JobEnds
  <2>2. CASE LeafEntry.kind = "file" /\ job' = [job EXCEPT !.pc = "done", !.end = "ok", !.ino = LeafEntry.to]
    <3>1. LeafEntry.to \in Files BY <1>1, <2>2 DEF TreeOK, LeafEntry, Contained1, SubEntry
    <3> QED BY <1>1, <2>2, <3>1, Reads, ZenonT(60)
  <2> QED BY <1>4, <2>1, <2>2, Zenon
<1>6. JobOK' BY <1>5, Zenon DEF JobOK
<1>7. TreeOK'
  <2>1. CASE UNCHANGED tree BY <1>1, <2>1, Zenon DEF TreeOK
  <2>2. CASE SubEntry.kind = "dir" /\ Put(SubEntry.to, "leaf", File("fresh"))
    <3>1. SubEntry.to \in {"sub", "made"} BY <1>1, <2>2 DEF TreeOK, SubEntry
    <3> QED BY <1>1, <2>2, <3>1, PutLeaf, Zenon
  <2> QED BY <1>3, <2>1, <2>2, Zenon
<1>8. FilesOK' BY <1>1, <1>5, Zenon DEF FsInv, FilesOK, Same
<1>9. TempKept' /\ Written' /\ Wiping' /\ Owning' BY <1>2, <1>5, Beside, Zenon
<1> QED BY <1>6, <1>7, <1>8, <1>9, Zenon DEF FsInv

(* unlinkat below the handle: remove_file, remove_dir. *)
LEMMA UnlinkKeeps == FsInv /\ UnlinkLeaf => FsInv'
<1> SUFFICES ASSUME FsInv, UnlinkLeaf PROVE FsInv' OBVIOUS
<1>1. JobOK /\ TreeOK /\ job \in Jobs /\ job.pc = "unlink" /\ UNCHANGED <<file, dirOwner, swaps>>
  BY Zenon DEF FsInv, JobOK, UnlinkLeaf, Calls
<1>2. job.op \in {"remove_file", "remove_dir"} /\ job.cwd \in {"sub", "made"} BY <1>1, Zenon
    DEF JobOK
<1>3. \E x \in {"ok", "refused"} : Return(x) BY Zenon DEF UnlinkLeaf
<1>4. job' \in Jobs /\ Same /\ job'.pc = "done" /\ job'.end # "running"
  BY <1>1, <1>3, ReturnMoves, Zenon
    DEF JobEnds
<1>5. JobOK' BY <1>4 DEF JobOK
<1>6. UNCHANGED tree \/ Put(job.cwd, "leaf", None) BY Zenon DEF UnlinkLeaf
<1>7. TreeOK'
  <2>1. CASE UNCHANGED tree BY <1>1, <2>1 DEF TreeOK
  <2>2. CASE Put(job.cwd, "leaf", None) BY <1>1, <1>2, <2>2, PutLeaf, Zenon
  <2> QED BY <1>6, <2>1, <2>2, Zenon
<1>8. FilesOK' BY <1>1, <1>4 DEF FsInv, FilesOK, Same
<1>9. TempKept' /\ Written' /\ Wiping' /\ Owning' BY <1>2, <1>4, Beside, Zenon
<1> QED BY <1>5, <1>7, <1>8, <1>9 DEF FsInv

(* The directory of a user's file: create_user_dir_all, open_dir_no_symlinks. *)
LEMMA UserDirKeeps ==
  FsInv /\ (LookUserDir \/ MakeUserDir \/ GiveUserDir \/ OpenUserDir) => FsInv'
<1> SUFFICES ASSUME FsInv, LookUserDir \/ MakeUserDir \/ GiveUserDir \/ OpenUserDir PROVE FsInv'
  BY Zenon
<1>1. JobOK /\ TreeOK /\ Owning /\ job \in Jobs /\ UNCHANGED <<file, swaps>>
      /\ job.pc \in {"lookDir", "makeUserDir", "giveUserDir", "openUserDir"}
      /\ dirOwner \in [Dirs -> {"root", "user"}]
  BY Zenon
      DEF FsInv, JobOK, FilesOK, LookUserDir, MakeUserDir, GiveUserDir, OpenUserDir, Calls, FsQuiet
<1>2. job.op = "write_user_file" /\ job.end = "running" BY <1>1, Zenon DEF JobOK
<1>3. ASSUME TreeOK', \A d \in {"sub", "made"}, n \in Names : tree'[d][n] = tree[d][n],
             dirOwner' \in [Dirs -> {"root", "user"}], job' \in Jobs, Same, JobOK', Owning',
             job'.pc \notin {"write", "rename", "cleanup"}
      PROVE  FsInv'
  <2>1. TempKept' /\ Written' /\ FilesOK' BY <1>1, <1>3, Early, Zenon
  <2>2. Wiping' BY <1>2, <1>3, Beside, Zenon
  <2> QED BY <1>3, <2>1, <2>2, Zenon DEF FsInv
<1>4. ASSUME Return("refused"), UNCHANGED <<tree, dirOwner>> PROVE FsInv'
  <2>1. job' \in Jobs /\ Same /\ job'.pc = "done" /\ job'.end = "refused"
    BY <1>1, <1>4, ReturnMoves, Zenon
      DEF JobEnds
  <2>2. JobOK' BY <2>1, Zenon DEF JobOK
  <2>3. TreeOK' BY <1>1, <1>4, Zenon DEF TreeOK
  <2>4. Owning' BY <1>1, <1>4, <2>1 DEF Owning, Same
  <2> QED BY <1>1, <1>3, <1>4, <2>1, <2>2, <2>3, <2>4, Zenon
<1>5. ASSUME NEW x \in {"makeUserDir", "openUserDir"}, Goto(x), UNCHANGED <<tree, dirOwner>>,
             swaps = 0 => (x = "openUserDir" => tree["root"]["sub"].kind = "dir"
                                                /\ dirOwner[tree["root"]["sub"].to] = "user"),
             x = "makeUserDir" => tree["root"]["sub"] = None
      PROVE  FsInv'
  <2>1. job' \in Jobs /\ Same /\ job'.pc = x /\ job'.end = job.end BY <1>1, <1>5, GotoMoves
      DEF JobSteps
  <2>2. JobOK' BY <1>2, <2>1, Zenon DEF JobOK, Same
  <2>3. TreeOK' BY <1>1, <1>5, SMTT(30) DEF TreeOK
  <2>4. Owning' BY <1>1, <1>2, <1>5, <2>1, SMTT(30) DEF Owning, Same
  <2> QED BY <1>1, <1>3, <1>5, <2>1, <2>2, <2>3, <2>4, Zenon
<1>6. ASSUME Put("root", "sub", Dir("made")), Goto("giveUserDir"), SubEntry.kind = "none", UNCHANGED dirOwner
      PROVE  FsInv'
  <2>1. /\ TreeOK' /\ tree'["root"]["sub"] = Dir("made")
        /\ \A d \in Dirs, n \in Names : d # "root" => tree'[d][n] = tree[d][n]
    BY <1>1, <1>6, PutSub, Zenon
  <2>2. job' \in Jobs /\ Same /\ job'.pc = "giveUserDir" /\ job'.end = job.end
    BY <1>1, <1>6, GotoMoves, Zenon
      DEF JobSteps
  <2>3. JobOK' BY <1>2, <2>2, Zenon DEF JobOK, Same
  <2>4. tree["root"]["sub"] # Dir("sub") BY <1>6, Zenon DEF SubEntry
  <2>5. tree'["made"]["leaf"] = tree["made"]["leaf"] /\ tree'["sub"]["leaf"] = tree["sub"]["leaf"]
    BY <2>1, Zenon
  <2>6. Owning' BY <1>1, <1>2, <1>6, <2>1, <2>2, <2>4, <2>5 DEF Owning, Same
  <2> QED BY <1>1, <1>3, <1>6, <2>1, <2>2, <2>3, <2>6
<1>7. CASE GiveUserDir /\ SubEntry.kind # "none"
  <2>1. /\ job.pc = "giveUserDir" /\ Goto("openUserDir") /\ UNCHANGED tree
        /\ dirOwner' = IF SubEntry.to \in Dirs THEN [dirOwner EXCEPT ![SubEntry.to] = "user"] ELSE dirOwner
    BY <1>7, Zenon DEF GiveUserDir, Calls
  <2>2. job' \in Jobs /\ Same /\ job'.pc = "openUserDir" /\ job'.end = job.end
    BY <1>1, <2>1, GotoMoves, Zenon
      DEF JobSteps
  <2>3. JobOK' BY <1>2, <2>2, Zenon DEF JobOK, Same
  <2>4. TreeOK' BY <1>1, <2>1, Zenon DEF TreeOK
  <2>5. /\ dirOwner' \in [Dirs -> {"root", "user"}]
        /\ dirOwner["sub"] = "user" => dirOwner'["sub"] = "user"
        /\ SubEntry = Dir("made") => dirOwner'["made"] = "user"
    BY <1>1, <2>1, ZenonT(60)
  <2>6. Owning' BY <1>1, <1>2, <2>1, <2>2, <2>5 DEF Owning, Same, SubEntry
  <2> QED BY <1>1, <1>3, <2>1, <2>2, <2>3, <2>4, <2>5, <2>6, Zenon
<1>8. CASE OpenUserDir /\ Contained1
  <2>1. /\ job.pc = "openUserDir" /\ tree["root"]["sub"].kind = "dir" /\ UNCHANGED <<tree, dirOwner>>
        /\ job' = [job EXCEPT !.pc = "statLeaf", !.cwd = tree["root"]["sub"].to]
    BY <1>8, Zenon DEF OpenUserDir, Calls, Contained1, SubEntry, FsQuiet
  <2>2. tree["root"]["sub"].to \in {"sub", "made"} /\ tree["root"]["sub"] = Dir(tree["root"]["sub"].to)
    BY <1>1, <2>1 DEF TreeOK
  <2>3. job' \in Jobs /\ Same /\ job'.pc = "statLeaf" /\ job'.cwd = tree["root"]["sub"].to /\ job'.end = job.end
    <3>1. "statLeaf" \in JobSteps /\ tree["root"]["sub"].to \in Dirs BY <2>2 DEF JobSteps
    <3> HIDE DEF Dirs, Files
    <3> QED BY <1>1, <2>1, <3>1, Zenon DEF Jobs, Same
  <2>4. JobOK' BY <1>2, <2>2, <2>3, Zenon DEF JobOK, Same
  <2>5. TreeOK' BY <1>1, <2>1, Zenon DEF TreeOK
  <2>6. Owning' BY <1>1, <1>2, <2>1, <2>2, <2>3 DEF Owning, Same
  <2> QED BY <1>1, <1>3, <2>1, <2>3, <2>4, <2>5, <2>6, Zenon
<1>9. CASE LookUserDir
  <2>1. job.pc = "lookDir" /\ UNCHANGED <<tree, dirOwner>> BY <1>9, Zenon
      DEF LookUserDir, Calls, FsQuiet
  <2>2. CASE SubEntry.kind = "dir" /\ Goto("openUserDir")
    <3>1. swaps = 0 => tree["root"]["sub"] = Dir("sub") /\ dirOwner["sub"] = "user"
      BY <1>1, <1>2, <2>1, <2>2 DEF Owning, TreeOK, SubEntry
    <3> QED BY <1>5, <2>1, <2>2, <3>1
  <2>3. CASE SubEntry.kind = "none" /\ Goto("makeUserDir")
    <3>1. tree["root"]["sub"] = None BY <1>1, <2>3 DEF SubEntry, TreeOK
    <3> QED BY <1>5, <2>1, <2>3, <3>1, Zenon
  <2> QED BY <1>4, <1>9, <2>1, <2>2, <2>3, Zenon DEF LookUserDir
<1>10. CASE MakeUserDir
  <2>1. job.pc = "makeUserDir" /\ UNCHANGED dirOwner BY <1>10, Zenon DEF MakeUserDir, Calls
  <2>2. CASE SubEntry.kind # "none"
    <3>1. swaps # 0 BY <1>1, <1>2, <2>1, <2>2, Zenon DEF Owning, SubEntry
    <3>2. Goto("openUserDir") /\ UNCHANGED tree BY <1>10, <2>2, Zenon DEF MakeUserDir
    <3> QED BY <1>5, <2>1, <3>1, <3>2, Zenon
  <2>3. CASE SubEntry.kind = "none" BY <1>6, <1>10, <2>1, <2>3, Zenon DEF MakeUserDir
  <2> QED BY <2>2, <2>3, Zenon
<1>11. CASE GiveUserDir /\ SubEntry.kind = "none" BY <1>4, <1>11, Zenon DEF GiveUserDir
<1>12. CASE OpenUserDir /\ ~Contained1 BY <1>4, <1>12, Zenon DEF OpenUserDir, FsQuiet
<1> QED BY <1>7, <1>8, <1>9, <1>10, <1>11, <1>12, Zenon

(* fstatat of the leaf: its owner and mode are what the new file gets. *)
LEMMA StatKeeps == FsInv /\ StatLeaf => FsInv'
<1> SUFFICES ASSUME FsInv, StatLeaf PROVE FsInv' OBVIOUS
<1> DEFINE e == tree[job.cwd]["leaf"]
           o == IF e.kind = "file" THEN file[e.to].owner ELSE IF e.kind = "none" THEN "user" ELSE "root"
           m == CASE e.kind = "file" -> file[e.to].mode [] e.kind = "none" -> "default" [] OTHER -> "wide"
<1>1. JobOK /\ TreeOK /\ FilesOK /\ Owning /\ job \in Jobs /\ FsQuiet /\ job.pc = "statLeaf"
      /\ UNCHANGED <<tree, file, dirOwner, swaps>>
  BY Zenon DEF FsInv, JobOK, StatLeaf, Calls, FsQuiet
<1>2. job.op = "write_user_file" /\ job.end = "running" /\ job.cwd \in {"sub", "made"}
  BY <1>1, Zenon
    DEF JobOK
<1>3. e \in {None, File("own"), File("stale"), File("fresh"), Link("foreign"), Dir("made")}
  BY <1>1, <1>2, Zenon DEF TreeOK
<1>4. /\ e.kind = "file" => e.to \in Files /\ o = file[e.to].owner /\ m = file[e.to].mode
      /\ e.kind = "none" => o = "user" /\ m = "default"
      /\ e.kind \notin {"file", "none"} => o = "root" /\ m = "wide"
  <2>1. e.kind = "file" => e.to \in Files BY <1>3
  <2> HIDE DEF e
  <2> QED BY <2>1
<1>5. o \in {"root", "user", "other"} /\ m \in {"kept", "default", "wide"}
  <2>1. \A i \in Files : file[i].owner \in {"root", "user", "other"} /\ file[i].mode \in {"kept", "default", "wide"}
    BY <1>1 DEF FilesOK, Contents
  <2> HIDE DEF e, o, m
  <2> QED BY <1>4, <2>1
<1>6. job' = [job EXCEPT !.pc = "temp", !.owner = o, !.mode = m] BY Zenon DEF StatLeaf
<1> HIDE DEF e, o, m
<1>7. /\ job' \in Jobs /\ Same /\ job'.pc = "temp" /\ job'.cwd = job.cwd /\ job'.end = job.end
      /\ job'.owner = o /\ job'.mode = m
  <2>1. "temp" \in JobSteps BY Zenon DEF JobSteps
  <2> HIDE DEF Dirs, Files
  <2> QED BY <1>1, <1>5, <1>6, <2>1, Zenon DEF Jobs, Same
<1>8. JobOK' BY <1>2, <1>7, Zenon DEF JobOK, Same
<1>9. TreeOK' /\ FilesOK' /\ TempKept' /\ Written' BY <1>1, <1>7, Looks, Zenon
<1>10. swaps = 0 => e = job.leaf /\ job.leaf \in {None, File("own"), Link("foreign"), Dir("made")}
  BY <1>1, <1>2 DEF Owning, Jobs, e
<1>11. swaps = 0 => /\ job.leaf.kind = "file" => o = "other" /\ m = "kept"
                    /\ job.leaf.kind = "none" => o = "user" /\ m = "default"
  BY <1>1, <1>2, <1>4, <1>10, SMTT(30) DEF Owning
<1>12. Owning' BY <1>1, <1>2, <1>7, <1>11 DEF Owning, Same
<1>13. Wiping' BY <1>2, <1>7, Beside, Zenon
<1> QED BY <1>8, <1>9, <1>12, <1>13, Zenon DEF FsInv

(* The exclusive temporary file. *)
LEMMA MakeTempKeeps == FsInv /\ MakeTemp => FsInv'
<1> SUFFICES ASSUME FsInv, MakeTemp PROVE FsInv' OBVIOUS
<1> DEFINE t == TempNames[job.tried + 1]
<1>1. JobOK /\ TreeOK /\ FilesOK /\ TempKept /\ Written /\ Owning /\ job \in Jobs /\ job.pc = "temp"
      /\ UNCHANGED <<dirOwner, swaps>>
  BY Zenon DEF FsInv, JobOK, MakeTemp, Calls
<1>2. job.op \in Atomic /\ job.end = "running" /\ job.cwd \in {"sub", "made"} BY <1>1, Zenon
    DEF JobOK
<1>3. job.tried \in 0 .. Len(TempNames) - 1 BY <1>1, Zenon DEF Jobs
<1>4. t \in Temps BY <1>3, NextName, Zenon
<1>5. CASE tree[job.cwd][t].kind = "none"
  <2>1. /\ Put(job.cwd, t, File("fresh"))
        /\ file' = [file EXCEPT !["fresh"] = [data |-> "empty", owner |-> "root", mode |-> job.mode]]
        /\ job' = [job EXCEPT !.pc = "write", !.temp = t]
    BY <1>5, Zenon DEF MakeTemp
  <2> HIDE DEF t
  <2>2. /\ TreeOK' /\ tree'[job.cwd][t] = File("fresh")
        /\ \A c \in Dirs, n \in Names : c # job.cwd \/ n # t => tree'[c][n] = tree[c][n]
    BY <1>1, <1>2, <1>4, <2>1, PutTemp
  <2>3. /\ job' \in Jobs /\ Same /\ job'.pc = "write" /\ job'.temp = t /\ job'.cwd = job.cwd
        /\ job'.end = job.end /\ job'.owner = job.owner /\ job'.mode = job.mode
    <3>1. "write" \in JobSteps /\ t \in Names BY <1>4 DEF JobSteps
    <3> HIDE DEF Dirs, Files
    <3> QED BY <1>1, <2>1, <3>1, Zenon DEF Jobs, Same
  <2>4. JobOK' BY <1>2, <2>3, Zenon DEF JobOK, Same
  <2>5. job.mode \in {"kept", "default", "wide"} BY <1>1, Zenon DEF Jobs
  <2>6. /\ FilesOK' /\ \A i \in Files \ {"fresh"} : file'[i] = file[i]
        /\ file'["fresh"].mode = job.mode
    BY <1>1, <2>1, <2>3, <2>5 DEF FilesOK, Contents, Same
  <2>7. \A d \in {"sub", "made"}, u \in Temps : tree[d][u] # File("fresh") BY <1>1, <1>2, Zenon
      DEF TempKept
  <2>8. TempKept' BY <1>2, <1>4, <2>2, <2>3, <2>7 DEF TempKept
  <2>9. /\ tree'["sub"]["leaf"] = tree["sub"]["leaf"] /\ tree'["made"]["leaf"] = tree["made"]["leaf"]
        /\ tree'["root"]["sub"] = tree["root"]["sub"]
    BY <1>2, <1>4, <2>2, Zenon
  <2>10. Written' BY <1>1, <1>2, <2>3, <2>6, <2>9 DEF Written, Same
  <2>11. Owning' BY <1>1, <1>2, <2>3, <2>6, <2>9 DEF Owning, Same
  <2>12. Wiping' BY <1>2, <2>3, Beside, Zenon
  <2> QED BY <2>2, <2>4, <2>6, <2>8, <2>10, <2>11, <2>12, Zenon DEF FsInv
<1>6. CASE tree[job.cwd][t].kind # "none"
  <2>1. /\ UNCHANGED <<tree, file>>
        /\ IF job.tried + 1 = Len(TempNames) THEN Return("refused") ELSE job' = [job EXCEPT !.tried = @ + 1]
    BY <1>6, Zenon DEF MakeTemp
  <2> HIDE DEF t
  <2>2. FsQuiet BY <1>1, <2>1, Zenon DEF FsQuiet
  <2>3. ASSUME job' \in Jobs, Same, JobOK', Owning', job'.pc \in {"temp", "done"} PROVE FsInv'
    <3>1. TreeOK' /\ FilesOK' /\ TempKept' /\ Written' BY <1>1, <2>2, <2>3, Looks, Zenon
    <3>2. Wiping' BY <1>2, <2>3, Beside, Zenon
    <3> QED BY <2>3, <3>1, <3>2, Zenon DEF FsInv
  <2>4. CASE Return("refused")
    <3>1. job' \in Jobs /\ Same /\ job'.pc = "done" /\ job'.end = "refused"
      BY <1>1, <2>4, ReturnMoves, Zenon
        DEF JobEnds
    <3>2. JobOK' BY <3>1, Zenon DEF JobOK
    <3>3. Owning' BY <1>1, <2>1, <3>1 DEF Owning, Same
    <3> QED BY <2>3, <3>1, <3>2, <3>3, Zenon
  <2>5. CASE job.tried + 1 # Len(TempNames) /\ job' = [job EXCEPT !.tried = @ + 1]
    <3>1. job.tried + 1 \in 0 .. Len(TempNames) - 1
      <4>1. Len(TempNames) \in Nat BY SafeFsAssumption
      <4> QED BY <1>3, <2>5, <4>1
    <3>2. job' \in Jobs /\ Same /\ job'.pc = "temp" /\ job'.cwd = job.cwd /\ job'.end = job.end
          /\ job'.owner = job.owner /\ job'.mode = job.mode
      BY <1>1, <2>5, <3>1 DEF Jobs, Same
    <3>3. JobOK' BY <1>2, <3>2, Zenon DEF JobOK, Same
    <3>4. Owning' BY <1>1, <1>2, <2>1, <3>2 DEF Owning, Same
    <3> QED BY <2>3, <3>2, <3>3, <3>4, Zenon
  <2> QED BY <2>1, <2>4, <2>5, Zenon
<1> QED BY <1>5, <1>6, Zenon

(* write_all, fchown and fsync of the temporary file. *)
LEMMA WriteKeeps == FsInv /\ WriteTemp => FsInv'
<1> SUFFICES ASSUME FsInv, WriteTemp PROVE FsInv' OBVIOUS
<1>1. JobOK /\ TreeOK /\ FilesOK /\ TempKept /\ Written /\ Owning /\ job \in Jobs /\ job.pc = "write"
      /\ UNCHANGED <<tree, dirOwner, swaps>>
  BY Zenon DEF FsInv, JobOK, WriteTemp, Calls
<1>2. job.op \in Atomic /\ job.end = "running" /\ job.cwd \in {"sub", "made"} BY <1>1, Zenon
    DEF JobOK
<1>3. job.owner \in {"root", "user", "other"} BY <1>1, Zenon DEF Jobs
<1>4. PICK x \in {"write", "rename", "cleanup"} :
        /\ job' \in Jobs /\ Same /\ Rest /\ job'.pc = x /\ job'.end = job.end
        /\ FilesOK' /\ \A i \in Files \ {"fresh"} : file'[i] = file[i]
        /\ x # "cleanup" => file'["fresh"].mode = file["fresh"].mode
        /\ x = "rename" => file'["fresh"].data = "new" /\ file'["fresh"].owner = job.owner
  <2>1. CASE file' = [file EXCEPT !["fresh"].data = "part"] /\ UNCHANGED job
    <3>1. job' \in Jobs /\ Same /\ Rest /\ job'.pc = "write" /\ job'.end = job.end
      BY <1>1, <2>1, Zenon
        DEF Same, Rest
    <3>2. FilesOK' /\ \A i \in Files \ {"fresh"} : file'[i] = file[i] BY <1>1, <2>1
        DEF FilesOK, Contents
    <3>3. file'["fresh"].mode = file["fresh"].mode BY <1>1, <2>1 DEF FilesOK, Contents
    <3> QED BY <3>1, <3>2, <3>3, Zenon
  <2>2. CASE file' = [file EXCEPT !["fresh"].data = "new", !["fresh"].owner = job.owner] /\ Goto("rename")
    <3>1. job' \in Jobs /\ Same /\ Rest /\ job'.pc = "rename" /\ job'.end = job.end
      BY <1>1, <2>2, GotoMoves, Zenon
        DEF JobSteps
    <3>2. /\ file' \in Contents /\ \A i \in Files \ {"fresh"} : file'[i] = file[i]
          /\ file'["fresh"].data = "new" /\ file'["fresh"].owner = job.owner
          /\ file'["fresh"].mode = file["fresh"].mode
      BY <1>1, <1>3, <2>2, Fills, ZenonT(60) DEF FilesOK
    <3>3. FilesOK' BY <1>1, <3>1, <3>2 DEF FilesOK, Same
    <3> QED BY <3>1, <3>2, <3>3, Zenon
  <2>3. CASE Goto("cleanup") /\ UNCHANGED file
    <3>1. job' \in Jobs /\ Same /\ Rest /\ job'.pc = "cleanup" /\ job'.end = job.end
      BY <1>1, <2>3, GotoMoves, Zenon
        DEF JobSteps
    <3>2. FilesOK' BY <1>1, <2>3, <3>1, Zenon DEF FilesOK, Same
    <3> QED BY <2>3, <3>1, <3>2, Zenon
  <2> QED BY <2>1, <2>2, <2>3, Zenon DEF WriteTemp
<1>5. JobOK' BY <1>2, <1>4 DEF JobOK, Same, Rest
<1>6. TreeOK' BY <1>1, Zenon DEF TreeOK
<1>7. TempKept' BY <1>1, <1>2, <1>4, SMTT(30) DEF TempKept, Same, Rest
<1>8. Written' BY <1>1, <1>2, <1>4, SMTT(30) DEF Written, Same
<1>9. Owning' BY <1>1, <1>2, <1>4 DEF Owning, Same, Rest
<1>10. Wiping' BY <1>2, <1>4, Beside, Zenon
<1> QED BY <1>4, <1>5, <1>6, <1>7, <1>8, <1>9, <1>10, Zenon DEF FsInv

(* The finished file takes the leaf's name. *)
LEMMA RenameKeeps == FsInv /\ RenameTemp => FsInv'
<1> SUFFICES ASSUME FsInv, RenameTemp PROVE FsInv' OBVIOUS
<1>1. JobOK /\ TreeOK /\ FilesOK /\ TempKept /\ Written /\ Owning /\ job \in Jobs /\ job.pc = "rename"
      /\ UNCHANGED <<file, dirOwner, swaps>>
  BY Zenon DEF FsInv, JobOK, RenameTemp, Calls
<1>2. /\ job.op \in Atomic \cup {"write_file_content"} /\ job.end = "running" /\ job.cwd \in {"sub", "made"}
  BY <1>1, Zenon DEF JobOK
<1>3. job.temp \in Temps \cup {"sibling"} /\ tree[job.cwd][job.temp] = File("fresh") BY <1>1, Zenon
    DEF TempKept
<1>4. CASE tree[job.cwd]["leaf"].kind = "dir"
  <2>1. Goto("cleanup") /\ UNCHANGED tree BY <1>4, Zenon DEF RenameTemp
  <2>2. job' \in Jobs /\ Same /\ Rest /\ job'.pc = "cleanup" /\ job'.end = job.end
    BY <1>1, <2>1, GotoMoves, Zenon
      DEF JobSteps
  <2>3. JobOK' BY <1>2, <2>2, Zenon DEF JobOK, Same, Rest
  <2>4. TreeOK' BY <1>1, <2>1 DEF TreeOK
  <2>5. FilesOK' BY <1>1, <2>2, Zenon DEF FilesOK, Same
  <2>6. TempKept' BY <1>1, <1>2, <2>1, <2>2 DEF TempKept, Same, Rest
  <2>7. Written' BY <1>1, <1>2, <2>1, <2>2, Zenon DEF Written, Same
  <2>8. Owning' BY <1>1, <2>1, <2>2 DEF Owning, Same, Rest
  <2>9. Wiping' BY <1>2, <2>2, Beside, Zenon
  <2> QED BY <2>3, <2>4, <2>5, <2>6, <2>7, <2>8, <2>9, Zenon DEF FsInv
<1>5. CASE tree[job.cwd]["leaf"].kind # "dir"
  <2>1. /\ tree' = [tree EXCEPT ![job.cwd]["leaf"] = File("fresh"), ![job.cwd][job.temp] = None]
        /\ Return("ok")
    BY <1>3, <1>5 DEF RenameTemp
  <2>2. job' \in Jobs /\ Same /\ Rest /\ job'.pc = "done" /\ job'.end = "ok"
    BY <1>1, <2>1, ReturnMoves, Zenon
      DEF JobEnds
  <2>3. JobOK' BY <2>2, Zenon DEF JobOK
  <2>4. tree \in [Dirs -> [Names -> Entry]] BY <1>1, Zenon DEF TreeOK
  <2>5. /\ tree' \in [Dirs -> [Names -> Entry]]
        /\ \A c \in Dirs, n \in Names :
             tree'[c][n] = IF c = job.cwd /\ n = job.temp THEN None
                           ELSE IF c = job.cwd /\ n = "leaf" THEN File("fresh") ELSE tree[c][n]
    BY <1>2, <1>3, <2>1, <2>4
  <2>6. job.temp \in Names \ {"leaf", "sub"} BY <1>3, Zenon
  <2>7. TreeOK' BY <1>1, <1>2, <2>5, <2>6 DEF TreeOK
  <2>8. FilesOK' BY <1>1, <2>2, Zenon DEF FilesOK, Same
  <2>9. TempKept' BY <1>1, <1>2, <1>3, <2>2, <2>5, <2>6 DEF TempKept, Same
  <2>10. Written' BY <1>1, <1>2, <2>2, <2>5, <2>6, Zenon DEF Written, Same
  <2>11. tree'["root"]["sub"] = tree["root"]["sub"] BY <1>2, <2>5
  <2>12. Owning'
    <3>1. CASE job.op = "write_user_file" /\ swaps = 0
      <4>1. tree[job.cwd]["leaf"] = job.leaf
            /\ tree["root"]["sub"] = Dir(job.cwd) /\ dirOwner[job.cwd] = "user"
        BY <1>1, <1>2, <3>1 DEF Owning
      <4>2. job.leaf.kind # "dir" BY <1>5, <4>1, Zenon
      <4>3. tree["root"]["sub"].kind = "dir" /\ tree["root"]["sub"].to = job.cwd BY <1>2, <4>1
      <4> QED BY <1>1, <2>2, <2>11, <3>1, <4>1, <4>2, <4>3 DEF Owning, Same
    <3> QED BY <1>1, <2>2, <3>1, ZenonT(60) DEF Owning, Same
  <2>13. Wiping' BY <1>2, <2>2, Beside, Zenon
  <2> QED BY <2>3, <2>7, <2>8, <2>9, <2>10, <2>12, <2>13, SMTT(30) DEF FsInv
<1> QED BY <1>4, <1>5, Zenon

(* A write that failed takes its temporary file away. *)
LEMMA CleanKeeps == FsInv /\ CleanTemp => FsInv'
<1> SUFFICES ASSUME FsInv, CleanTemp PROVE FsInv' OBVIOUS
<1>1. JobOK /\ TreeOK /\ FilesOK /\ TempKept /\ Written /\ Owning /\ job \in Jobs /\ job.pc = "cleanup"
      /\ Put(job.cwd, job.temp, None) /\ Return("refused") /\ UNCHANGED <<file, dirOwner, swaps>>
  BY Zenon DEF FsInv, JobOK, CleanTemp, Calls
<1>2. /\ job.op \in Atomic \cup {"write_file_content"} /\ job.end = "running" /\ job.cwd \in {"sub", "made"}
  BY <1>1, Zenon DEF JobOK
<1>3. job.temp \in Temps \cup {"sibling"} BY <1>1, Zenon DEF TempKept
<1>4. job' \in Jobs /\ Same /\ job'.pc = "done" /\ job'.end = "refused" BY <1>1, ReturnMoves, Zenon
    DEF JobEnds
<1>5. JobOK' BY <1>4, SMTT(30) DEF JobOK
<1>6. /\ TreeOK' /\ tree'[job.cwd][job.temp] = None
      /\ \A c \in Dirs, n \in Names : c # job.cwd \/ n # job.temp => tree'[c][n] = tree[c][n]
  BY <1>1, <1>2, <1>3, PutTemp
<1>7. FilesOK' BY <1>1, <1>4, Zenon DEF FilesOK, Same
<1>8. TempKept' BY <1>1, <1>2, <1>4, <1>6 DEF TempKept, Same
<1>9. /\ tree'["sub"]["leaf"] = tree["sub"]["leaf"] /\ tree'["made"]["leaf"] = tree["made"]["leaf"]
      /\ tree'["root"]["sub"] = tree["root"]["sub"]
  BY <1>2, <1>3, <1>6, ZenonT(60)
<1>10. Written' BY <1>1, <1>2, <1>4, <1>9 DEF Written, Same
<1>11. Owning' BY <1>1, <1>4, <1>9, ZenonT(60) DEF Owning, Same
<1>12. Wiping' BY <1>2, <1>4, Beside, Zenon
<1> QED BY <1>5, <1>6, <1>7, <1>8, <1>10, <1>11, <1>12, Zenon DEF FsInv

(* overwrite_file_in_place: the file that was opened is truncated and filled. *)
LEMMA InPlaceKeeps == FsInv /\ (OpenInPlace \/ Truncate \/ Refill) => FsInv'
<1> SUFFICES ASSUME FsInv, OpenInPlace \/ Truncate \/ Refill PROVE FsInv' OBVIOUS
<1>1. JobOK /\ TreeOK /\ FilesOK /\ job \in Jobs /\ job.pc \in {"inPlace", "truncate", "refill"}
      /\ UNCHANGED <<tree, dirOwner, swaps>>
  BY Zenon DEF FsInv, JobOK, OpenInPlace, Truncate, Refill, Calls, FsQuiet
<1>2. job.op = "overwrite" /\ job.end = "running" BY <1>1, Zenon DEF JobOK
<1>3. ASSUME job' \in Jobs, Same, JobOK', job'.pc \in {"truncate", "refill", "done"},
             \/ UNCHANGED file
             \/ \E x \in {"empty", "new"} : job.ino \in Files /\ file' = [file EXCEPT ![job.ino].data = x]
      PROVE  FsInv'
  <2>1. TreeOK' BY <1>1, Zenon DEF TreeOK
  <2>2. FilesOK' BY <1>1, <1>2, <1>3 DEF FilesOK, Contents, Same
  <2>3. TempKept' /\ Written' /\ Wiping' /\ Owning' BY <1>2, <1>3, Beside, Zenon
  <2> QED BY <1>3, <2>1, <2>2, <2>3, Zenon DEF FsInv
<1>4. ASSUME NEW x \in {"ok", "refused"}, Return(x),
             \/ UNCHANGED file
             \/ \E y \in {"empty", "new"} : job.ino \in Files /\ file' = [file EXCEPT ![job.ino].data = y]
      PROVE  FsInv'
  <2>1. job' \in Jobs /\ Same /\ job'.pc = "done" /\ job'.end = x BY <1>1, <1>4, ReturnMoves, Zenon
      DEF JobEnds
  <2>2. JobOK' BY <2>1, Zenon DEF JobOK
  <2> QED BY <1>3, <1>4, <2>1, <2>2, Zenon
<1>5. CASE Refill
  <2>1. job.ino \in Files BY <1>1, <1>5, Zenon DEF JobOK, Refill, Calls
  <2> QED BY <1>4, <1>5, <2>1, Zenon DEF Refill
<1>6. CASE Truncate
  <2>1. job.ino \in Files BY <1>1, <1>6, Zenon DEF JobOK, Truncate, Calls
  <2>2. Goto("refill") /\ file' = [file EXCEPT ![job.ino].data = "empty"] BY <1>6, Zenon
      DEF Truncate
  <2>3. job' \in Jobs /\ Same /\ Rest /\ job'.pc = "refill" /\ job'.end = job.end
    BY <1>1, <2>2, GotoMoves, Zenon
      DEF JobSteps
  <2>4. JobOK' BY <1>2, <2>1, <2>3 DEF JobOK, Same, Rest
  <2> QED BY <1>3, <2>1, <2>2, <2>3, <2>4, Zenon
<1>7. CASE OpenInPlace
  <2> DEFINE e == IF Followed THEN tree[SubEntry.to]["leaf"] ELSE None
  <2>1. UNCHANGED file
        /\ IF e.kind = "file" THEN job' = [job EXCEPT !.pc = "truncate", !.ino = e.to] ELSE Return("refused")
    BY <1>7, Zenon DEF OpenInPlace, FsQuiet
  <2>2. e.kind = "file" => e.to \in Files
    <3>1. Followed => SubEntry \in {Dir("sub"), Dir("made"), Link("outside")}
      BY <1>1, Zenon DEF Followed, Contained1, TreeOK, SubEntry
    <3>2. Followed => SubEntry.to \in {"sub", "made", "outside"} BY <3>1
    <3>3. \A d \in {"sub", "made", "outside"} : tree[d]["leaf"].kind = "file" => tree[d]["leaf"].to \in Files
      BY <1>1 DEF TreeOK
    <3> QED BY <3>2, <3>3
  <2> HIDE DEF e
  <2>3. CASE e.kind = "file"
    <3>1. /\ job' \in Jobs /\ Same /\ job'.pc = "truncate" /\ job'.ino \in Files /\ job'.end = job.end
      <4>1. "truncate" \in JobSteps /\ e.to \in Files BY <2>2, <2>3 DEF JobSteps
      <4>2. job' = [job EXCEPT !.pc = "truncate", !.ino = e.to] BY <2>1, <2>3
      <4> HIDE DEF Dirs, Files
      <4> QED BY <1>1, <4>1, <4>2, Zenon DEF Jobs, Same
    <3>2. JobOK' BY <1>2, <3>1, Zenon DEF JobOK, Same
    <3> QED BY <1>3, <2>1, <3>1, <3>2, Zenon
  <2>4. CASE e.kind # "file" BY <1>4, <2>1, <2>4, Zenon
  <2> QED BY <2>3, <2>4, Zenon
<1> QED BY <1>5, <1>6, <1>7, Zenon

(* write_file_content: the sibling is filled before it is renamed. *)
LEMMA SiblingKeeps == FsInv /\ WriteSibling => FsInv'
<1> SUFFICES ASSUME FsInv, WriteSibling PROVE FsInv' OBVIOUS
<1>1. JobOK /\ TreeOK /\ FilesOK /\ Written /\ job \in Jobs /\ job.pc = "sibling"
      /\ UNCHANGED <<dirOwner, swaps>> /\ SubEntry.kind = "dir" /\ Put(SubEntry.to, "sibling", File("fresh"))
  BY Zenon DEF FsInv, JobOK, WriteSibling, Calls, Contained1
<1>2. job.op = "write_file_content" /\ job.end = "running" BY <1>1, Zenon DEF JobOK
<1>3. SubEntry.to \in {"sub", "made"} BY <1>1 DEF TreeOK, SubEntry
<1>4. /\ TreeOK' /\ tree'[SubEntry.to]["sibling"] = File("fresh")
      /\ \A c \in Dirs, n \in Names : c # SubEntry.to \/ n # "sibling" => tree'[c][n] = tree[c][n]
  BY <1>1, <1>3, PutTemp
<1>5. /\ tree'["sub"]["leaf"] = tree["sub"]["leaf"] /\ tree'["made"]["leaf"] = tree["made"]["leaf"]
  BY <1>4, Zenon
<1>6. PICK x \in {"new", "part"} : file' = [file EXCEPT !["fresh"].data = x, !["fresh"].owner = "root"]
        /\ IF x = "new"
           THEN job' = [job EXCEPT !.pc = "rename", !.cwd = SubEntry.to, !.temp = "sibling"]
           ELSE Return("refused")
  BY Zenon DEF WriteSibling
<1>7. /\ job' \in Jobs /\ Same
      /\ x = "new" => job'.pc = "rename" /\ job'.cwd = SubEntry.to /\ job'.temp = "sibling" /\ job'.end = job.end
      /\ x = "part" => job'.pc = "done" /\ job'.end = "refused"
  <2>1. CASE x = "new"
    <3>1. "rename" \in JobSteps /\ SubEntry.to \in Dirs /\ "sibling" \in Names BY <1>3, Zenon
        DEF JobSteps
    <3>2. job' = [job EXCEPT !.pc = "rename", !.cwd = SubEntry.to, !.temp = "sibling"]
      BY <1>6, <2>1, Zenon
    <3>3. /\ job' \in Jobs /\ Same /\ job'.pc = "rename" /\ job'.cwd = SubEntry.to /\ job'.temp = "sibling"
          /\ job'.end = job.end
      <4> HIDE DEF Dirs, Files
      <4> QED BY <1>1, <3>1, <3>2, Zenon DEF Jobs, Same
    <3> QED BY <2>1, <3>3, Zenon
  <2>2. CASE x = "part" BY <1>1, <1>6, <2>2, ReturnMoves, Zenon DEF JobEnds
  <2> QED BY <2>1, <2>2, Zenon
<1>8. JobOK' BY <1>2, <1>3, <1>7, Zenon DEF JobOK, Same
<1>9. FilesOK' /\ file'["fresh"].data = x /\ \A i \in Files \ {"fresh"} : file'[i] = file[i]
  <2>1. file \in Contents BY <1>1, Zenon DEF FilesOK
  <2>2. /\ file' \in Contents /\ file'["fresh"].data = x /\ \A i \in Files \ {"fresh"} : file'[i] = file[i]
    BY <1>6, <2>1, Fills, Zenon
  <2> QED BY <1>1, <1>7, <2>2 DEF FilesOK, Same
<1>10. Written' BY <1>1, <1>2, <1>5, <1>7, <1>9 DEF Written, Same
<1>11. TempKept' BY <1>2, <1>4, <1>7, Zenon DEF TempKept, Same
<1>12. Wiping' /\ Owning' BY <1>2, <1>7, Beside, Zenon
<1> QED BY <1>4, <1>8, <1>9, <1>10, <1>11, <1>12, Zenon DEF FsInv

(* secure_delete: the passes over the file, then its name. *)
LEMMA DeleteKeeps == FsInv /\ (DeleteSize \/ OverwritePass \/ DropName) => FsInv'
<1> SUFFICES ASSUME FsInv, DeleteSize \/ OverwritePass \/ DropName PROVE FsInv' OBVIOUS
<1>1. JobOK /\ TreeOK /\ FilesOK /\ Wiping /\ job \in Jobs /\ UNCHANGED <<dirOwner, swaps>>
  BY Zenon DEF FsInv, JobOK, DeleteSize, OverwritePass, DropName, FsQuiet
<1>2. job.pc \in {"size", "pass1", "pass2", "pass3", "drop"}
  BY DEF DeleteSize, OverwritePass, DropName, Calls, Passes
<1>3. job.op = "secure_delete" /\ job.end = "running" BY <1>1, <1>2, Zenon DEF JobOK
<1>4. ASSUME job' \in Jobs, Same, JobOK', TreeOK', FilesOK', Wiping', job'.pc \notin {"write", "rename", "cleanup"}
      PROVE  FsInv'
  <2>1. TempKept' /\ Written' /\ Owning' BY <1>3, <1>4, Beside, Zenon
  <2> QED BY <1>4, <2>1, Zenon DEF FsInv
<1>5. ASSUME Return("refused"), UNCHANGED <<tree, file>> PROVE FsInv'
  <2>1. job' \in Jobs /\ Same /\ job'.pc = "done" /\ job'.end = "refused"
    BY <1>1, <1>5, ReturnMoves, Zenon
      DEF JobEnds
  <2>2. JobOK' BY <2>1, Zenon DEF JobOK
  <2>3. TreeOK' BY <1>1, <1>5, Zenon DEF TreeOK
  <2>4. FilesOK' BY <1>1, <1>5, <2>1, Zenon DEF FilesOK, Same
  <2>5. Wiping' BY <1>1, <1>5, <2>1, Zenon DEF Wiping, Same
  <2> QED BY <1>4, <2>1, <2>2, <2>3, <2>4, <2>5, Zenon
<1>6. CASE DeleteSize
  <2>1. job.pc = "size" /\ UNCHANGED <<tree, file>> BY <1>6, Zenon DEF DeleteSize, Calls, FsQuiet
  <2>2. SubEntry = Dir("sub") /\ LeafEntry = job.leaf /\ job.leaf \in {None, File("own")}
        /\ file["own"].data = "old" /\ tree["sub"]["leaf"] = job.leaf
    BY <1>1, <1>3, <2>1 DEF Wiping, SubEntry, LeafEntry, Contained1
  <2>3. CASE LeafEntry.kind = "file"
    <3>1. LeafEntry = File("own") /\ LeafEntry.to = "own" /\ SubEntry.to = "sub"
      BY <2>2, <2>3, Zenon
    <3>2. job' = [job EXCEPT !.pc = "pass1", !.ino = LeafEntry.to, !.cwd = SubEntry.to]
      <4>1. file[LeafEntry.to].data # "empty" BY <2>2, <3>1, Zenon
      <4> QED BY <1>6, <2>3, <4>1, Zenon DEF DeleteSize
    <3>3. /\ job' \in Jobs /\ Same /\ job'.pc = "pass1" /\ job'.ino = "own" /\ job'.cwd = "sub" /\ job'.end = job.end
      BY <1>1, <3>1, <3>2, Aims, Zenon DEF JobSteps
    <3>4. JobOK' BY <1>3, <3>3, Zenon DEF JobOK, Same
    <3>5. TreeOK' BY <1>1, <2>1, Zenon DEF TreeOK
    <3>6. FilesOK' BY <1>1, <2>1, <3>3, Zenon DEF FilesOK, Same
    <3>7. Wiping' BY <1>1, <1>3, <2>1, <2>2, <3>1, <3>3, ZenonT(60) DEF Wiping, Same, SubEntry
    <3> QED BY <1>4, <3>3, <3>4, <3>5, <3>6, <3>7, Zenon
  <2>4. CASE LeafEntry.kind # "file" BY <1>5, <1>6, <2>1, <2>4, Zenon DEF DeleteSize
  <2> QED BY <2>3, <2>4, Zenon
<1>7. CASE OverwritePass
  <2>1. PICK k \in 1 .. 3 : /\ job.pc = Passes[k]
                            /\ file' = [file EXCEPT ![job.ino].data = IF k = 2 THEN "random" ELSE "zeros"]
                            /\ Goto(Passes[k + 1]) \/ Return("refused")
    BY <1>7, Zenon DEF OverwritePass, Calls
  <2>2. UNCHANGED tree BY <1>7, Zenon DEF OverwritePass
  <2>3. /\ Passes[k] \in {"pass1", "pass2", "pass3"} /\ Passes[k + 1] \in {"pass2", "pass3", "drop"}
        /\ Passes[k + 1] = "drop" => k = 3
    BY DEF Passes
  <2>4. job.ino = "own" /\ job.leaf = File("own") /\ job.cwd = "sub" /\ tree["sub"]["leaf"] = job.leaf
        /\ tree["root"]["sub"] = Dir("sub")
    BY <1>1, <1>3, <2>1, <2>3, Zenon DEF Wiping
  <2>5. /\ job' \in Jobs /\ Same
        /\ \/ job'.pc = "done" /\ job'.end = "refused"
           \/ job'.pc = Passes[k + 1] /\ job'.end = job.end /\ Rest
    BY <1>1, <2>1, <2>3, GotoMoves, ReturnMoves, Zenon DEF JobSteps, JobEnds
  <2>6. JobOK' BY <1>3, <2>3, <2>4, <2>5 DEF JobOK, Same, Rest
  <2>7. TreeOK' BY <1>1, <2>2, Zenon DEF TreeOK
  <2>8. FilesOK' /\ (k = 3 => file'["own"].data = "zeros") BY <1>1, <2>1, <2>4, <2>5
      DEF FilesOK, Contents, Same
  <2>9. job'.pc \in {"pass2", "pass3", "drop", "done"} /\ (job'.pc = "drop" => k = 3)
    BY <2>3, <2>5, Zenon
  <2>10. Wiping' BY <1>3, <2>2, <2>4, <2>5, <2>8, <2>9 DEF Wiping, Same, Rest
  <2> QED BY <1>4, <2>5, <2>6, <2>7, <2>8, <2>9, <2>10, Zenon
<1>8. CASE DropName
  <2>1. job.pc = "drop" /\ Put(job.cwd, "leaf", None) /\ Return("ok") /\ UNCHANGED file
    BY <1>8, Zenon DEF DropName, Calls
  <2>2. job.leaf = File("own") /\ job.cwd = "sub" /\ file["own"].data = "zeros" /\ tree["root"]["sub"] = Dir("sub")
    BY <1>1, <1>3, <2>1, Zenon DEF Wiping
  <2>3. TreeOK' /\ tree'["sub"]["leaf"] = None /\ tree'["root"]["sub"] = tree["root"]["sub"]
    BY <1>1, <2>1, <2>2, PutLeaf, Zenon
  <2>4. job' \in Jobs /\ Same /\ job'.pc = "done" /\ job'.end = "ok"
    BY <1>1, <2>1, ReturnMoves, Zenon
      DEF JobEnds
  <2>5. JobOK' BY <2>4, Zenon DEF JobOK
  <2>6. FilesOK' BY <1>1, <2>1, <2>4 DEF FilesOK, Same
  <2>7. Wiping' BY <2>1, <2>2, <2>3, <2>4, Zenon DEF Wiping, Same
  <2> QED BY <1>4, <2>3, <2>4, <2>5, <2>6, <2>7, Zenon
<1> QED BY <1>6, <1>7, <1>8

(* Another program's swap, and a kill. *)
LEMMA OthersKeep == FsInv /\ (Swap \/ Killed) => FsInv'
<1> SUFFICES ASSUME FsInv, Swap \/ Killed PROVE FsInv' BY Zenon
<1>1. JobOK /\ TreeOK /\ FilesOK /\ TempKept /\ Written /\ Wiping /\ Owning /\ job \in Jobs BY Zenon
    DEF FsInv, JobOK
<1>2. CASE Killed
  <2>1. job.pc # "done" /\ Return("killed") /\ UNCHANGED <<tree, file, dirOwner, swaps>>
    BY <1>2, Zenon DEF Killed, FsQuiet
  <2>2. job' \in Jobs /\ Same /\ job'.pc = "done" /\ job'.end = "killed"
    BY <1>1, <2>1, ReturnMoves, Zenon
      DEF JobEnds
  <2>3. JobOK' BY <2>2, Zenon DEF JobOK
  <2>4. TreeOK' BY <1>1, <2>1, Zenon DEF TreeOK
  <2>5. FilesOK' BY <1>1, <2>1, <2>2 DEF FilesOK, Same
  <2>6. TempKept' BY <2>2, Zenon DEF TempKept
  <2>7. Written' BY <1>1, <2>1, <2>2, Zenon DEF Written, Same
  <2>8. Wiping' BY <1>1, <2>1, <2>2, SMTT(30) DEF Wiping, Same
  <2>9. Owning' BY <1>1, <2>1, <2>2 DEF Owning, Same
  <2> QED BY <2>3, <2>4, <2>5, <2>6, <2>7, <2>8, <2>9, Zenon DEF FsInv
<1>3. CASE Swap
  <2>1. job.pc # "done" /\ job.op \notin Plain /\ swaps < MaxSwaps /\ swaps' = swaps + 1
        /\ UNCHANGED <<file, dirOwner, job>>
    BY <1>3, Zenon DEF Swap
  <2>2. JobOK' BY <1>1, <2>1 DEF JobOK
  <2>3. FilesOK' /\ swaps' # 0 BY <1>1, <2>1, SafeFsAssumption DEF FilesOK
  <2>4. Owning' BY <2>3, Zenon DEF Owning
  <2>5. Wiping' BY <2>1, Zenon DEF Wiping, Plain
  <2>6. /\ TreeOK'
        /\ \A d \in {"sub", "made"}, t \in Temps \cup {"sibling"} : tree'[d][t] = tree[d][t]
        /\ \A d \in {"sub", "made"} : tree'[d]["leaf"] = File("fresh") => tree[d]["leaf"] = File("fresh")
    <3>1. CASE \E e \in {None, Link("outside"), File("stale")} : Put("root", "sub", e)
      <4>1. PICK e \in {None, Link("outside"), File("stale")} : Put("root", "sub", e) BY <3>1, Zenon
      <4>2. TreeOK' /\ \A d \in Dirs, n \in Names : d # "root" => tree'[d][n] = tree[d][n]
        BY <1>1, <4>1, PutSub
      <4> QED BY <4>2
    <3>2. CASE \E d \in {"sub", "made"}, e \in {None, Link("foreign"), File("stale")} : Put(d, "leaf", e)
      <4>1. PICK d \in {"sub", "made"}, e \in {None, Link("foreign"), File("stale")} : Put(d, "leaf", e)
        BY <3>2, Zenon
      <4>2. /\ TreeOK' /\ tree'[d]["leaf"] = e
            /\ \A c \in Dirs, n \in Names : c # d \/ n # "leaf" => tree'[c][n] = tree[c][n]
        BY <1>1, <4>1, PutLeaf
      <4>3. e # File("fresh") OBVIOUS
      <4> QED BY <4>2, <4>3
    <3> QED BY <1>3, <3>1, <3>2, Zenon DEF Swap
  <2>7. Written' BY <1>1, <2>1, <2>6, Zenon DEF Written
  <2>8. TempKept'
    <3>1. job.pc \in {"write", "rename", "cleanup"} =>
            job.cwd \in {"sub", "made"} /\ job.temp \in Temps \cup {"sibling"}
      BY <1>1, Zenon DEF JobOK, TempKept
    <3> QED BY <1>1, <2>1, <2>6, <3>1 DEF TempKept
  <2> QED BY <2>2, <2>3, <2>4, <2>5, <2>6, <2>7, <2>8, Zenon DEF FsInv
<1> QED BY <1>2, <1>3, Zenon

(* A job begins with the invariant. *)
LEMMA FsBegins == FsInit => FsInv
<1> SUFFICES ASSUME FsInit PROVE FsInv BY Zenon
<1>1. PICK op \in Ops, sub \in {None, Dir("sub"), Link("outside"), File("stale")},
           leaf \in {None, File("own"), Link("foreign"), Dir("made")}, taken \in SUBSET Temps :
        /\ op \in Plain => sub = Dir("sub") /\ leaf.kind \in {"none", "file"} /\ taken = {}
        /\ sub # Dir("sub") => leaf = None /\ taken = {}
        /\ FsStart(op, sub, leaf, taken)
  BY ZenonT(60) DEF FsInit
<1>2. /\ job = [op |-> op, pc |-> FirstStep(op), cwd |-> "root", temp |-> "nothing", tried |-> 0,
               leaf |-> leaf, ino |-> "nothing", owner |-> "root", mode |-> "default", end |-> "running"]
      /\ file = [i \in Files |-> [data |-> IF i = "fresh" THEN "empty" ELSE "old",
                                  owner |-> IF i = "own" THEN "other" ELSE "root", mode |-> "kept"]]
      /\ dirOwner = [d \in Dirs |-> IF d = "sub" THEN "user" ELSE "root"] /\ swaps = 0
  BY <1>1, Zenon DEF FsStart
<1>3. /\ FirstStep(op) \in {"ensure", "lookDir", "parent", "sibling", "size", "inPlace", "open"}
      /\ FirstStep(op) = "ensure" => op \in Creating
      /\ FirstStep(op) = "lookDir" => op = "write_user_file"
      /\ FirstStep(op) = "parent" => op \in {"remove_file", "remove_dir"}
      /\ FirstStep(op) = "sibling" => op = "write_file_content"
      /\ FirstStep(op) = "size" => op = "secure_delete"
      /\ FirstStep(op) = "inPlace" => op = "overwrite"
      /\ FirstStep(op) = "open" => op \in {"read", "exists", "is_dir"}
  BY DEF FirstStep, Ops, Anchored, Plain
<1>4. 0 \in 0 .. Len(TempNames) - 1
  <2>1. Len(TempNames) \in Nat \ {0} BY SafeFsAssumption
  <2> QED BY <2>1
<1>5. /\ job \in Jobs /\ job.op = op /\ job.pc = FirstStep(op) /\ job.leaf = leaf /\ job.end = "running"
  BY <1>2, <1>3, <1>4, Zenon DEF Jobs, JobSteps, JobEnds
<1>6. JobOK BY <1>3, <1>5, Zenon DEF JobOK
<1>7. /\ tree \in [Dirs -> [Names -> Entry]] /\ tree["root"]["sub"] = sub
      /\ \A n \in Names : tree["outside"][n] = IF n = "leaf" THEN File("foreign") ELSE None
      /\ \A n \in Names \ {"sub"} : tree["root"][n] = None
      /\ tree["sub"]["leaf"] = leaf /\ \A n \in Names : tree["made"][n] = None
      /\ \A n \in Names \ {"leaf"} : tree["sub"][n] \in {File("stale"), None}
  <2> DEFINE at(d, n) == CASE d = "root" /\ n = "sub" -> sub
                           [] d = "sub" /\ n = "leaf" -> leaf
                           [] d = "sub" /\ n \in taken -> File("stale")
                           [] d = "outside" /\ n = "leaf" -> File("foreign")
                           [] OTHER -> None
  <2>1. tree = [d \in Dirs |-> [n \in Names |-> at(d, n)]] BY <1>1, Zenon DEF FsStart
  <2>2. \A d \in Dirs, n \in Names : at(d, n) \in Entry OBVIOUS
  <2>3. /\ at("root", "sub") = sub /\ at("sub", "leaf") = leaf /\ "leaf" \notin taken
        /\ \A n \in Names : at("outside", n) = IF n = "leaf" THEN File("foreign") ELSE None
        /\ \A n \in Names \ {"sub"} : at("root", n) = None
        /\ \A n \in Names : at("made", n) = None
        /\ \A n \in Names \ {"leaf"} : at("sub", n) \in {File("stale"), None}
    BY Zenon
  <2> HIDE DEF at
  <2> QED BY <2>1, <2>2, <2>3, Zenon
<1>8. TreeOK BY <1>7, SMTT(30) DEF TreeOK
<1>9. FilesOK BY <1>2, SafeFsAssumption DEF FilesOK, Contents
<1>10. TempKept
  <2>1. \A d \in {"sub", "made"}, t \in Temps : tree[d][t] # File("fresh") BY <1>7
  <2> QED BY <1>3, <1>5, <2>1, ZenonT(60) DEF TempKept
<1>11. Written
  <2>1. \A i \in Files \ {"fresh"} : file[i].data = "old" BY <1>2, Zenon
  <2>2. \A d \in {"sub", "made"} : tree[d]["leaf"] # File("fresh") BY <1>7
  <2> QED BY <1>3, <1>5, <2>1, <2>2, Zenon DEF Written
<1>12. file["own"].data = "old" /\ file["own"].owner = "other" /\ file["own"].mode = "kept"
       /\ dirOwner["sub"] = "user"
  BY <1>2, Zenon
<1>13. Wiping BY <1>1, <1>3, <1>5, <1>7, <1>12, SMTT(30) DEF Wiping, Plain
<1>14. Owning BY <1>1, <1>3, <1>5, <1>7, <1>12 DEF Owning
<1> QED BY <1>6, <1>8, <1>9, <1>10, <1>11, <1>13, <1>14, Zenon DEF FsInv

(* A directory outside the root changes hands only after a swap, under
   write_user_file. *)
OutsideKept == dirOwner["outside"] # "root" => job.op = "write_user_file" /\ swaps # 0

(* A job is one operation, and only create_user_dir_all gives a directory away,
   the one it made where nothing was swapped (create_user_dir_all). *)
LEMMA OutsideStep == FsInv /\ OutsideKept /\ [FsNext]_fsVars => OutsideKept'
<1> SUFFICES ASSUME FsInv, OutsideKept, [FsNext]_fsVars PROVE OutsideKept' BY Zenon
<1>1. job \in Jobs /\ JobOK /\ Owning /\ swaps \in Nat /\ dirOwner \in [Dirs -> {"root", "user"}]
  BY DEF FsInv, JobOK, FilesOK
<1>2. FsNext => job'.op = job.op
  <2>1. EnsureOpen \/ MkDirAt \/ UnlinkLeaf => job'.op = job.op
    BY <1>1, ZenonT(60) DEF Jobs, Goto, Return, EnsureOpen, MkDirAt, UnlinkLeaf
  <2>2. LookUserDir \/ StatLeaf => job'.op = job.op
    BY <1>1, ZenonT(60) DEF Jobs, Goto, Return, LookUserDir, StatLeaf
  <2>3. WriteTemp \/ CleanTemp => job'.op = job.op
    BY <1>1, ZenonT(60) DEF Jobs, Goto, Return, WriteTemp, CleanTemp
  <2>4. Truncate \/ Refill \/ WriteSibling => job'.op = job.op
    BY <1>1, ZenonT(60) DEF Jobs, Goto, Return, Truncate, Refill, WriteSibling
  <2>5. OverwritePass \/ DropName => job'.op = job.op
    BY <1>1, ZenonT(60) DEF Jobs, Goto, Return, OverwritePass, DropName
  <2>6. ASSUME EnsureReopen PROVE job'.op = job.op
    <3>1. \/ Goto(AfterDirs)
          \/ Return("refused")
      BY <2>6, Zenon DEF EnsureReopen
    <3> QED BY <1>1, <3>1, Zenon DEF Jobs, Goto, Return
  <2>7. ASSUME OpenParent PROVE job'.op = job.op
    <3>1. \/ job' = [job EXCEPT !.pc = IF job.op = "write_atomic" THEN "temp" ELSE "unlink", !.cwd = SubEntry.to]
          \/ Return("refused")
      BY <2>7, Zenon DEF OpenParent
    <3> QED BY <1>1, <3>1, Zenon DEF Jobs, Goto, Return
  <2>8. ASSUME MakeUserDir PROVE job'.op = job.op
    <3>1. \/ Goto("giveUserDir")
          \/ Goto("openUserDir")
      BY <2>8, Zenon DEF MakeUserDir
    <3> QED BY <1>1, <3>1, Zenon DEF Jobs, Goto, Return
  <2>9. ASSUME GiveUserDir PROVE job'.op = job.op
    <3>1. \/ Goto("openUserDir")
          \/ Return("refused")
      BY <2>9, Zenon DEF GiveUserDir
    <3> QED BY <1>1, <3>1, Zenon DEF Jobs, Goto, Return
  <2>10. ASSUME OpenUserDir PROVE job'.op = job.op
    <3>1. \/ job' = [job EXCEPT !.pc = "statLeaf", !.cwd = SubEntry.to]
          \/ Return("refused")
      BY <2>10, Zenon DEF OpenUserDir
    <3> QED BY <1>1, <3>1, Zenon DEF Jobs, Goto, Return
  <2>11. ASSUME RenameTemp PROVE job'.op = job.op
    <3>1. \/ Goto("cleanup")
          \/ Return("ok")
      BY <2>11, Zenon DEF RenameTemp
    <3> QED BY <1>1, <3>1, Zenon DEF Jobs, Goto, Return
  <2>12. ASSUME DeleteSize PROVE job'.op = job.op
    <3>1. \/ job' = [job EXCEPT !.pc = IF file[LeafEntry.to].data = "empty" THEN "drop" ELSE "pass1",
                             !.ino = LeafEntry.to, !.cwd = SubEntry.to]
          \/ Return("refused")
      BY <2>12, Zenon DEF DeleteSize
    <3> QED BY <1>1, <3>1, ZenonT(60) DEF Jobs, Goto, Return
  <2>13. ASSUME OpenLeaf PROVE job'.op = job.op
    <3>1. \/ \E x \in {"ok", "yes", "no", "refused"} : Return(x)
          \/ job' = [job EXCEPT !.pc = "done", !.end = "ok", !.ino = LeafEntry.to]
      BY <2>13, Zenon DEF OpenLeaf
    <3> QED BY <1>1, <3>1, ZenonT(60) DEF Jobs, Goto, Return
  <2>14. ASSUME MakeTemp PROVE job'.op = job.op
    <3>1. \/ Return("refused")
          \/ \E t \in {TempNames[job.tried + 1]} : job' = [job EXCEPT !.pc = "write", !.temp = t]
          \/ job' = [job EXCEPT !.tried = job.tried + 1]
      BY <2>14, Zenon DEF MakeTemp
    <3> QED BY <1>1, <3>1, ZenonT(60) DEF Jobs, Goto, Return
  <2>15. ASSUME OpenInPlace PROVE job'.op = job.op
    <3> DEFINE i == (IF Followed THEN tree[SubEntry.to]["leaf"] ELSE None).to
    <3>1. \/ Return("refused")
          \/ job' = [job EXCEPT !.pc = "truncate", !.ino = i]
      BY <2>15, Zenon DEF OpenInPlace
    <3> HIDE DEF i
    <3> QED BY <1>1, <3>1, Zenon DEF Jobs, Goto, Return
  <2>16. Swap \/ Killed => job'.op = job.op BY <1>1, Zenon DEF Jobs, Return, Swap, Killed
  <2> QED
    BY <2>1, <2>2, <2>3, <2>4, <2>5, <2>6, <2>7, <2>8, <2>9, <2>10, <2>11, <2>12, <2>13, <2>14,
       <2>15, <2>16, Zenon DEF FsNext
<1>3. FsNext => GiveUserDir \/ (UNCHANGED dirOwner /\ swaps' \in {swaps, swaps + 1})
  BY Zenon DEF FsNext, FsQuiet, EnsureOpen, MkDirAt, EnsureReopen, OpenParent, OpenLeaf,
     UnlinkLeaf, LookUserDir, MakeUserDir, OpenUserDir, StatLeaf, MakeTemp, WriteTemp,
     RenameTemp, CleanTemp, OpenInPlace, Truncate, Refill, WriteSibling, DeleteSize,
     OverwritePass, DropName, Swap, Killed
<1>5. CASE UNCHANGED dirOwner /\ swaps' \in {swaps, swaps + 1} /\ job'.op = job.op
  BY <1>1, <1>5 DEF OutsideKept
<1>4. CASE GiveUserDir
  <2>1. job.op = "write_user_file" /\ swaps' = swaps BY <1>1, <1>4, Zenon DEF JobOK, GiveUserDir, Calls
  <2>2. swaps = 0 => SubEntry = Dir("made") BY <1>1, <1>4, <2>1, Zenon
      DEF GiveUserDir, Calls, Owning, SubEntry
  <2>3. swaps = 0 => dirOwner'["outside"] = dirOwner["outside"] BY <1>1, <1>4, <2>2, EntryFacts, ZenonT(60)
      DEF GiveUserDir, Dirs
  <2>4. FsNext BY <1>4, Zenon DEF FsNext
  <2> QED BY <1>2, <2>1, <2>3, <2>4, Zenon DEF OutsideKept
<1>6. CASE UNCHANGED fsVars BY <1>6, Zenon DEF fsVars, OutsideKept
<1> QED BY <1>2, <1>3, <1>4, <1>5, <1>6

(* No directory has changed hands when a job begins. *)
LEMMA OutsideInit == FsInit => OutsideKept
<1> SUFFICES ASSUME FsInit PROVE OutsideKept BY Zenon
<1>1. dirOwner = [d \in Dirs |-> IF d = "sub" THEN "user" ELSE "root"] BY ZenonT(60) DEF FsInit, FsStart
<1>2. dirOwner["outside"] = "root" BY <1>1 DEF Dirs
<1> QED BY <1>2, Zenon DEF OutsideKept

(* The invariant gives what was asked. *)
LEMMA FsDoes == FsInv /\ OutsideKept => FilesAsAsked
<1> SUFFICES ASSUME FsInv, OutsideKept PROVE FilesAsAsked BY Zenon
<1>1. JobOK /\ TreeOK /\ FilesOK /\ TempKept /\ Written /\ Wiping /\ Owning /\ job \in Jobs BY Zenon
    DEF FsInv, JobOK
<1>2. FsTypeOK
  <2>1. job.op \in Ops /\ job.cwd \in Dirs /\ job.temp \in Names \cup {"nothing"}
        /\ job.tried \in 0 .. Len(TempNames) - 1
    BY <1>1, Zenon DEF Jobs
  <2> QED BY <1>1, <2>1, Zenon DEF FsTypeOK, TreeOK, FilesOK, Contents, Entry
<1>3. Contained BY <1>1, Zenon DEF Contained, OutsideKept, TreeOK, FilesOK
<1>4. UserOwns
  <2>1. job.leaf \in {None, File("own"), Link("foreign"), Dir("made")} BY <1>1, Zenon DEF Jobs
  <2> QED BY <1>1, <2>1 DEF UserOwns, Owning, SubEntry
<1>5. WholeLeaf
  <2>1. tree["root"]["leaf"].kind = "none" /\ tree["outside"]["leaf"] = File("foreign") BY <1>1
      DEF TreeOK
  <2>2. \A d \in {"sub", "made"} :
          tree[d]["leaf"] \in {None, File("own"), File("stale"), File("fresh"), Link("foreign"), Dir("made")}
    BY <1>1, Zenon DEF TreeOK
  <2> QED BY <1>1, <2>1, <2>2 DEF WholeLeaf, Written
<1>6. TempGone
  <2>1. \A t \in Temps : tree["root"][t] = None /\ tree["outside"][t] = None BY <1>1, ZenonT(60)
      DEF TreeOK
  <2> QED BY <1>1, <2>1 DEF TempGone, TempKept, JobOK
<1>7. WipedFirst
  <2>1. CASE job.op = "secure_delete"
    <3>1. SubEntry = Dir("sub") BY <1>1, <2>1, Zenon DEF Wiping, SubEntry
    <3>2. LeafEntry = tree["sub"]["leaf"] BY <3>1, Zenon DEF LeafEntry, Contained1
    <3> QED BY <1>1, <2>1, <3>2 DEF Wiping, WipedFirst
  <2> QED BY <2>1, Zenon DEF WipedFirst
<1> QED BY <1>2, <1>3, <1>4, <1>5, <1>6, <1>7, Zenon DEF FilesAsAsked

(* SafeRoot's operations (safe_path.rs), write_user_file (user_write.rs),
   write_file_content (file_ops/mod.rs) and secure_delete change no file outside
   their root, and the owner of a directory there only where a link took the place
   of the directory write_user_file had just made; they leave the old or the new
   content and nothing between, give a file to its user, clean up their temporary
   and wipe before they unlink, whatever call fails, wherever the process is
   killed, and for any list of temporary names.  Another program may swap entries
   in between, as often as it likes, but under the two plain operations, which are
   for files of the tool's own. *)
THEOREM FilesDoAsAsked == FsSpec => []FilesAsAsked
<1>1. FsInv /\ [FsNext]_fsVars => FsInv'
  <2> SUFFICES ASSUME FsInv, [FsNext]_fsVars PROVE FsInv' BY Zenon
  <2>1. CASE UNCHANGED fsVars
    <3>1. UNCHANGED <<tree, file, dirOwner, job, swaps>> BY <2>1, Zenon DEF fsVars
    <3>2. JobOK' /\ TreeOK' /\ FilesOK' BY <3>1, SMTT(30) DEF FsInv, JobOK, TreeOK, FilesOK
    <3>3. TempKept' /\ Written' BY <3>1, SMTT(30) DEF FsInv, TempKept, Written
    <3>4. Wiping' /\ Owning' BY <3>1 DEF FsInv, Wiping, Owning
    <3> QED BY <3>2, <3>3, <3>4, Zenon DEF FsInv
  <2>2. CASE FsNext
    BY <2>2, EnsureKeeps, MkDirKeeps, OpenLeafKeeps, UnlinkKeeps, UserDirKeeps, StatKeeps, MakeTempKeeps,
       WriteKeeps, RenameKeeps, CleanKeeps, InPlaceKeeps, SiblingKeeps, DeleteKeeps, OthersKeep, Zenon
           DEF FsNext
  <2> QED BY <2>1, <2>2, Zenon
<1> QED BY <1>1, FsBegins, OutsideInit, OutsideStep, FsDoes, PTL DEF FsSpec
=============================================================================
