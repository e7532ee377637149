---------------------------- MODULE WatchProofs ----------------------------
(***************************************************************************)
(* What runs beside the hidden session, for any disks, mounts and          *)
(* processes: the guards leave the disks as they found them, the watcher   *)
(* ends a session only for a volume that is lost for as long as the        *)
(* debounce and reports every mount once, the machine does not sleep while *)
(* the sleep guard holds it and logind's delay covers the guard's steps,   *)
(* and an emergency's kill leaves nobody of the hidden userspace and       *)
(* spares what the shutdown needs.                                         *)
(***************************************************************************)
EXTENDS Watch, TLAPS

(***************************************************************************)
(* One walk of the kill, in any tree of cgroups: whom it reaches, whom it  *)
(* leaves alone and who is still ahead of it, at every step.               *)
(***************************************************************************)
(* Whom every walk leaves alone, whom a walk leaves out, and who is ahead of it. *)
Kept(p) == Holders[Home[p]] \cap PassedOver # {}
Out(w, p) == p \in w.spare \/ Home[p] \in w.protected \/ Holders[Home[p]] \cap Machinery # {}
Ahead(w, p) == \E e \in Elements(w.todo) : ~e.last /\ Contains(e.dir, Home[p])

(* What a walk of runner r keeps true while it visits, with the processes A alive
   and cgroup.kill there or not. *)
Entry(w, e) ==
    IF e.last THEN e.dir \in w.protected /\ Holders[e.dir] \cap PassedOver = {}
    ELSE Holders[e.dir] \cap PassedOver \subseteq {e.dir}
Sound(r, w, A, a) ==
    /\ w \in Walks /\ w.protected = {Home[p] : p \in w.spare}
    /\ w.at # "visit" => w.hits = {} /\ w.round = 0
    /\ w.at = "visit" => r \in w.spare
    /\ \A e \in Elements(w.todo) : Entry(w, e)
    /\ w.round > 0 => \A p \in Proc : Contains(w.dir, Home[p]) => ~Kept(p)
    /\ \A p \in w.hits : p \notin w.spare /\ ~Kept(p)
    /\ a => w.round = 0
    /\ a /\ w.at = "visit" => \A p \in A : Out(w, p) \/ Ahead(w, p)
    /\ a /\ w.at = "done" => \A p \in A : Out(w, p)

-----------------------------------------------------------------------------
(* A path is a sequence of names. *)
LEMMA Paths == \A c \in Cgroup : c \in Seq(STRING) /\ Len(c) \in Nat \ {0}
<1> SUFFICES ASSUME NEW c \in Cgroup
             PROVE  c \in Seq(STRING) /\ Len(c) \in Nat \ {0}
    BY Zenon
<1>1. c \in Seq(STRING) /\ c # <<>>
      BY KillAssumption, Zenon DEF Root
<1>2. Len(c) \in Nat
      BY <1>1
<1>3. Len(c) # 0
      BY <1>1
<1> QED BY <1>1, <1>2, <1>3, Zenon

(* The top is the empty path. *)
LEMMA RootPath == Root \in Seq(STRING) /\ Len(Root) = 0
BY DEF Root

(* What holds the holder of a cgroup holds the cgroup (cgroup::contains). *)
LEMMA ContainsTransitive ==
  ASSUME NEW b \in Cgroup, NEW c \in Cgroup, NEW d \in Cgroup, Contains(b, c), Contains(c, d)
  PROVE  Contains(b, d)
BY Paths DEF Contains

(* Of two cgroups that hold a third one holds the other. *)
LEMMA ContainsChain ==
  ASSUME NEW b \in Cgroup, NEW c \in Cgroup, NEW d \in Cgroup, Contains(b, d), Contains(c, d)
  PROVE  Contains(b, c) \/ Contains(c, b)
BY Paths DEF Contains

(* Two cgroups that hold each other are one. *)
LEMMA ContainsSame ==
  ASSUME NEW b \in Cgroup, NEW c \in Cgroup, Contains(b, c), Len(b) >= Len(c)
  PROVE  b = c
<1>1. Len(b) = Len(c) /\ b \in Seq(STRING) /\ c \in Seq(STRING) BY Paths DEF Contains
<1>2. \A i \in 1..Len(b) : b[i] = c[i] BY Zenon DEF Contains
<1> QED BY <1>1, <1>2

(* A cgroup contains itself. *)
LEMMA ContainsSelf == \A c \in Cgroup : Contains(c, c)
<1> SUFFICES ASSUME NEW c \in Cgroup
             PROVE  Contains(c, c)
    BY Zenon
<1>1. Len(c) \in Nat
      BY Paths, Zenon
<1> QED BY <1>1 DEF Contains

(* Below a cgroup is below one of its children (visit). *)
LEMMA ChildHolds ==
  ASSUME NEW c \in Cgroup \cup {Root}, NEW d \in Cgroup, Contains(c, d), c # d
  PROVE  \E b \in Elements(Sub[c]) : Contains(b, d)
<1>1. c \in Seq(STRING) /\ d \in Seq(STRING) BY Paths, RootPath, Zenon
<1>2. Len(c) < Len(d)
  <2>1. CASE c = Root BY <2>1, Paths DEF Root
  <2>2. CASE c \in Cgroup BY <2>2, ContainsSame, <1>1 DEF Contains
  <2> QED BY <2>1, <2>2, Zenon
<1> DEFINE b == SubSeq(d, 1, Len(c) + 1)
<1>3. Len(c) + 1 \in 1..Len(d) BY <1>1, <1>2
<1>4. b \in Cgroup BY <1>3, KillAssumption, Zenon
<1>5. Len(b) = Len(c) + 1 /\ \A i \in 1..Len(b) : b[i] = d[i] BY <1>1, <1>3
<1>6. Contains(c, b) /\ Contains(b, d) BY <1>1, <1>3, <1>5 DEF Contains
<1>7. b \in Elements(Sub[c]) BY <1>4, <1>5, <1>6, KillAssumption, ZenonT(60)
<1> QED BY <1>6, <1>7, Zenon

(* A child is held by its parent, and by what holds that. *)
LEMMA ChildHeld ==
  ASSUME NEW c \in Cgroup \cup {Root}, NEW b \in Elements(Sub[c])
  PROVE  /\ b \in Cgroup /\ Contains(c, b)
         /\ Holders[b] \ {b} = IF c = Root THEN {} ELSE Holders[c]
<1>1. b \in Cgroup /\ Len(b) = Len(c) + 1 /\ Contains(c, b) BY KillAssumption
<1>2. c \in Seq(STRING) BY Paths, RootPath, Zenon
<1>3. ASSUME NEW d \in Holders[b], d # b PROVE c # Root /\ d \in Holders[c]
  <2>1. d \in Cgroup /\ Contains(d, b) BY <1>1, Zenon DEF Holders
  <2>2. Len(d) < Len(b) BY <1>1, <1>3, <2>1, ContainsSame, Paths DEF Contains
  <2>3. c # Root BY <1>1, <2>1, <2>2, Paths DEF Root
  <2>4. Contains(d, c)
    BY <1>1, <1>2, <2>1, <2>2, <2>3, Paths DEF Contains
  <2> QED BY <2>1, <2>3, <2>4, Zenon DEF Holders
<1>4. ASSUME c # Root, NEW d \in Holders[c] PROVE d \in Holders[b] \ {b}
  <2>1. d \in Cgroup /\ Contains(d, c) BY <1>4, Zenon DEF Holders
  <2>2. Contains(d, b) BY <1>1, <1>4, <2>1, ContainsTransitive, Zenon
  <2>3. d # b BY <1>1, <1>2, <2>1 DEF Contains
  <2> QED BY <1>1, <2>1, <2>2, <2>3, Zenon DEF Holders
<1> QED BY <1>1, <1>3, <1>4, Zenon

(* An empty list has no entries. *)
LEMMA NothingToDo == <<>> \in Seq(Todo) /\ Elements(<<>>) = {}
BY DEF Elements

(* The entries of a list, when it is cut or joined. *)
LEMMA Joined ==
  ASSUME NEW s \in Seq(Todo), NEW t \in Seq(Todo)
  PROVE  s \o t \in Seq(Todo) /\ Elements(s \o t) = Elements(s) \cup Elements(t)
<1>1. s \o t \in Seq(Todo) /\ Len(s \o t) = Len(s) + Len(t) OBVIOUS
<1>2. ASSUME NEW e \in Elements(s \o t) PROVE e \in Elements(s) \cup Elements(t)
  <2>1. PICK i \in 1..Len(s \o t) : e = (s \o t)[i] BY <1>2, Zenon DEF Elements
  <2>2. CASE i <= Len(s) BY <2>1, <2>2 DEF Elements
  <2>3. CASE i > Len(s)
    <3>1. i - Len(s) \in 1..Len(t) /\ e = t[i - Len(s)] BY <1>1, <2>1, <2>3
    <3> QED BY <3>1, Zenon DEF Elements
  <2> QED BY <2>1, <2>2, <2>3
<1>3. ASSUME NEW e \in Elements(s) PROVE e \in Elements(s \o t)
  <2>1. PICK i \in 1..Len(s) : e = s[i] BY <1>3, Zenon DEF Elements
  <2>2. i \in 1..Len(s \o t) /\ (s \o t)[i] = s[i] BY <1>1, <2>1
  <2> QED BY <2>1, <2>2, Zenon DEF Elements
<1>4. ASSUME NEW e \in Elements(t) PROVE e \in Elements(s \o t)
  <2>1. PICK i \in 1..Len(t) : e = t[i] BY <1>4, Zenon DEF Elements
  <2>2. i + Len(s) \in 1..Len(s \o t) /\ (s \o t)[i + Len(s)] = t[i] BY <1>1, <2>1
  <2> QED BY <2>1, <2>2, Zenon DEF Elements
<1> QED BY <1>1, <1>2, <1>3, <1>4, Zenon

(* The first entry and the others. *)
LEMMA HeadTail ==
  ASSUME NEW s \in Seq(Todo), s # <<>>
  PROVE  /\ Tail(s) \in Seq(Todo) /\ Head(s) \in Todo
         /\ Elements(s) = {Head(s)} \cup Elements(Tail(s))
<1>1. Len(s) \in Nat \ {0} /\ Tail(s) \in Seq(Todo) /\ Head(s) = s[1] /\ s[1] \in Todo OBVIOUS
<1>2. Len(Tail(s)) = Len(s) - 1 /\ \A i \in 1..Len(Tail(s)) : Tail(s)[i] = s[i + 1] BY <1>1
<1>3. ASSUME NEW e \in Elements(s) PROVE e \in {Head(s)} \cup Elements(Tail(s))
  <2>1. PICK i \in 1..Len(s) : e = s[i] BY <1>3, Zenon DEF Elements
  <2>2. CASE i = 1 BY <1>1, <2>1, <2>2, Zenon
  <2>3. CASE i > 1
    <3>1. i - 1 \in 1..Len(Tail(s)) /\ e = Tail(s)[i - 1] BY <1>1, <1>2, <2>1, <2>3
    <3> QED BY <3>1, Zenon DEF Elements
  <2> QED BY <2>1, <2>2, <2>3
<1>4. Head(s) \in Elements(s) BY <1>1 DEF Elements
<1>5. ASSUME NEW e \in Elements(Tail(s)) PROVE e \in Elements(s)
  <2>1. PICK i \in 1..Len(Tail(s)) : e = Tail(s)[i] BY <1>5, Zenon DEF Elements
  <2>2. i + 1 \in 1..Len(s) /\ e = s[i + 1] BY <1>1, <1>2, <2>1
  <2> QED BY <2>2, Zenon DEF Elements
<1> QED BY <1>1, <1>3, <1>4, <1>5, Zenon

(* The entries a cgroup is entered with are its children (visit). *)
LEMMA EntriesAre ==
  ASSUME NEW c \in Cgroup \cup {Root}
  PROVE  /\ Entries(c) \in Seq(Todo)
         /\ Elements(Entries(c)) = {[dir |-> d, last |-> FALSE] : d \in Elements(Sub[c])}
<1>1. Sub[c] \in Seq(Cgroup) BY KillAssumption, Zenon
<1>2. Entries(c) \in Seq(Todo) /\ Len(Entries(c)) = Len(Sub[c])
  BY <1>1 DEF Entries, Todo
<1>3. \A i \in 1..Len(Sub[c]) : Entries(c)[i] = [dir |-> Sub[c][i], last |-> FALSE]
  BY <1>1, Zenon DEF Entries
<1> QED BY <1>2, <1>3, Zenon DEF Elements

-----------------------------------------------------------------------------
(* A walk stays sound when processes die. *)
LEMMA SoundFewer ==
  ASSUME NEW r, NEW w, NEW A, NEW B \in SUBSET A, NEW a, Sound(r, w, A, a)
  PROVE  Sound(r, w, B, a)
BY Zenon DEF Sound

(* A process that is forked is where its parent is: spared with it, left out with
   it, or still ahead of the walk (cgroup.kill kills racing forkers). *)
LEMMA SoundFork ==
  ASSUME NEW r, NEW w, NEW A \in SUBSET Proc, NEW a, Sound(r, w, A, a),
         NEW p \in Unborn, Ppid[p] \in A
  PROVE  Sound(r, w, A \cup {p}, a)
<1>1. Home[p] = Home[Ppid[p]] BY KillAssumption, Zenon
<1>2. Out(w, Ppid[p]) => Out(w, p) BY <1>1, Zenon DEF Sound, Out
<1>3. Ahead(w, Ppid[p]) => Ahead(w, p) BY <1>1, Zenon DEF Ahead
<1> QED BY <1>2, <1>3, Zenon DEF Sound

(* The walk begins with every cgroup ahead and itself spared (kill_userspace). *)
LEMMA SoundBegin ==
  ASSUME NEW r, NEW A \in SUBSET Proc, NEW a, NEW spare \in SUBSET Proc, r \in spare
  PROVE  Sound(r, [at |-> "visit", todo |-> Entries(Root), protected |-> {Home[p] : p \in spare},
                      spare |-> spare, hits |-> {}, round |-> 0, dir |-> Root], A, a)
<1> DEFINE w == [at |-> "visit", todo |-> Entries(Root), protected |-> {Home[p] : p \in spare},
                 spare |-> spare, hits |-> {}, round |-> 0, dir |-> Root]
<1>1. /\ w.at = "visit" /\ w.spare = spare /\ w.protected = {Home[p] : p \in spare}
      /\ w.hits = {} /\ w.round = 0 /\ w.todo = Entries(Root)
  BY Zenon
<1>2. {Home[p] : p \in spare} \in SUBSET Cgroup BY KillAssumption
<1>3. w \in Walks
  <2>1. Entries(Root) \in Seq(Todo) BY EntriesAre, Zenon
  <2> QED BY <1>2, <2>1 DEF Walks
<1> HIDE DEF w
<1>4. ASSUME NEW e \in Elements(w.todo) PROVE Entry(w, e) /\ ~e.last
  <2>1. PICK d \in Elements(Sub[Root]) : e = [dir |-> d, last |-> FALSE]
    BY <1>1, EntriesAre
  <2>2. Holders[d] \ {d} = {} BY ChildHeld, Zenon
  <2> QED BY <2>1, <2>2, Zenon DEF Entry
<1>5. ASSUME NEW p \in Proc PROVE Ahead(w, p)
  <2>1. Home[p] \in Cgroup /\ Contains(Root, Home[p]) /\ Home[p] # Root
    BY KillAssumption, Paths DEF Contains, Root
  <2>2. PICK d \in Elements(Sub[Root]) : Contains(d, Home[p]) BY <2>1, ChildHolds, Zenon
  <2>3. [dir |-> d, last |-> FALSE] \in Elements(w.todo) BY <1>1, EntriesAre
  <2> QED BY <2>2, <2>3, Zenon DEF Ahead
<1>6. Sound(r, w, A, a) BY <1>1, <1>3, <1>4, <1>5 DEF Sound
<1> QED BY <1>6, Zenon DEF w

(* Whom one kill of a whole cgroup reaches: nobody that is spared and nothing of
   what every kill passes over (visit). *)
LEMMA KillReaches ==
  ASSUME NEW r, NEW w, NEW A, NEW a, Sound(r, w, A, a), NEW e \in Elements(w.todo), e \in Todo,
         e.dir \notin Machinery,
         ~((e.dir \in Slice /\ e.dir \notin w.protected) \/ \E m \in w.protected : Contains(e.dir, m)),
         NEW p \in Proc, Contains(e.dir, Home[p])
  PROVE  p \notin w.spare /\ ~Kept(p)
<1> DEFINE c == e.dir
<1>1. c \in Cgroup /\ Home[p] \in Cgroup BY KillAssumption, Zenon DEF Todo
<1>2. p \notin w.spare BY Zenon DEF Sound
<1>3. Holders[c] \cap PassedOver \subseteq {c} BY <1>1, ContainsSelf, Zenon DEF Sound, Entry
<1>4. ASSUME NEW m \in PassedOver, m \in Holders[Home[p]] PROVE FALSE
  <2>1. m \in Cgroup /\ m \in Machinery /\ Contains(m, Home[p]) /\ Holders[m] \ {m} \subseteq Slice
    BY <1>1, <1>4, KillAssumption, Zenon DEF PassedOver, Holders
  <2>2. m # c BY <2>1, Zenon
  <2>3. CASE Contains(m, c) BY <1>1, <1>3, <1>4, <2>1, <2>2, <2>3, Zenon DEF Holders
  <2>4. CASE Contains(c, m)
    <3>1. c \in Slice BY <1>1, <2>1, <2>2, <2>4, Zenon DEF Holders
    <3>2. c \in w.protected => Contains(c, c) BY <1>1, ContainsSelf, Zenon
    <3> QED BY <3>1, <3>2, Zenon
  <2> QED BY <1>1, <2>1, <2>3, <2>4, ContainsChain, Zenon
<1> QED BY <1>2, <1>4, Zenon DEF Kept

(* Another list of entries will do as well, when each of them is as it should be and
   whoever was ahead still is, or is not there any more. *)
LEMMA SoundTodo ==
  ASSUME NEW r, NEW w, NEW A, NEW a, Sound(r, w, A, a), w.at = "visit",
         NEW t \in Seq(Todo), NEW B \in SUBSET A, \A e \in Elements(t) : Entry(w, e),
         a => \A p \in B : \/ Out(w, p)
                           \/ \E e \in Elements(t) : ~e.last /\ Contains(e.dir, Home[p])
  PROVE  Sound(r, [w EXCEPT !.todo = t], B, a)
<1> DEFINE v == [w EXCEPT !.todo = t]
<1>1. /\ v.todo = t /\ v.at = w.at /\ v.spare = w.spare /\ v.protected = w.protected
      /\ v.hits = w.hits /\ v.round = w.round /\ v.dir = w.dir /\ v \in Walks
  BY Zenon DEF Sound, Walks
<1> HIDE DEF v
<1>2. ASSUME NEW p \in B, a PROVE Out(v, p) \/ Ahead(v, p)
  BY <1>1, <1>2, Zenon DEF Out, Ahead
<1>3. \A e \in Elements(v.todo) : Entry(v, e) BY <1>1, Zenon DEF Entry
<1>4. Sound(r, v, B, a) BY <1>1, <1>2, <1>3, Zenon DEF Sound
<1> QED BY <1>4, Zenon DEF v

(* Processes listed, and the rounds of a kill without cgroup.kill. *)
LEMMA SoundHits ==
  ASSUME NEW r, NEW w, NEW A, NEW a, Sound(r, w, A, a), w.at = "visit",
         NEW H \in SUBSET Proc, NEW n \in 0..3, NEW d \in Cgroup \cup {Root}, a => n = 0,
         \A p \in H : p \notin w.spare /\ ~Kept(p),
         n > 0 => \A p \in Proc : Contains(d, Home[p]) => ~Kept(p)
  PROVE  Sound(r, [w EXCEPT !.hits = H, !.round = n, !.dir = d], A, a)
<1> DEFINE v == [w EXCEPT !.hits = H, !.round = n, !.dir = d]
<1>1. /\ v.todo = w.todo /\ v.at = w.at /\ v.spare = w.spare /\ v.protected = w.protected
      /\ v.hits = H /\ v.round = n /\ v.dir = d /\ v \in Walks
  BY Zenon DEF Sound, Walks
<1> HIDE DEF v
<1>2. \A p \in A : (Out(v, p) <=> Out(w, p)) /\ (Ahead(v, p) <=> Ahead(w, p))
  BY <1>1, Zenon DEF Out, Ahead
<1>3. \A e \in Elements(v.todo) : Entry(v, e) BY <1>1, Zenon DEF Entry, Sound
<1>4. Sound(r, v, A, a) BY <1>1, <1>2, <1>3, Zenon DEF Sound
<1> QED BY <1>4, Zenon DEF v

(* One entry less, when whoever it is for is out or not alive any more. *)
LEMMA SoundRest ==
  ASSUME NEW r, NEW w, NEW A, NEW a, Sound(r, w, A, a), w.at = "visit", w.todo # <<>>,
         NEW B \in SUBSET A,
         a /\ ~Head(w.todo).last => \A p \in B : Contains(Head(w.todo).dir, Home[p]) => Out(w, p)
  PROVE  Sound(r, [w EXCEPT !.todo = Tail(@)], B, a)
<1>1. w.todo \in Seq(Todo) BY Zenon DEF Sound, Walks
<1>2. /\ Tail(w.todo) \in Seq(Todo)
      /\ Elements(w.todo) = {Head(w.todo)} \cup Elements(Tail(w.todo))
  BY <1>1, HeadTail, Zenon
<1>3. \A e \in Elements(Tail(w.todo)) : Entry(w, e) BY <1>2, Zenon DEF Sound
<1>4. ASSUME NEW p \in B, a
      PROVE  Out(w, p) \/ \E e \in Elements(Tail(w.todo)) : ~e.last /\ Contains(e.dir, Home[p])
  BY <1>2, <1>4, Zenon DEF Sound, Ahead
<1> QED BY <1>2, <1>3, <1>4, SoundTodo, Zenon

(* A cgroup that is entered: its children take its place, and its own processes
   come after them where it is protected (visit). *)
LEMMA SoundEnter ==
  ASSUME NEW r, NEW w, NEW A \in SUBSET Proc, NEW a, Sound(r, w, A, a), w.at = "visit", w.todo # <<>>,
         NEW c \in Cgroup, Head(w.todo) = [dir |-> c, last |-> FALSE], c \notin Machinery,
         c \in Slice \/ \E m \in w.protected : Contains(c, m),
         NEW mine, mine = IF c \in w.protected THEN <<[dir |-> c, last |-> TRUE]>> ELSE <<>>
  PROVE  Sound(r, [w EXCEPT !.todo = Entries(c) \o mine \o Tail(w.todo)], A, a)
<1> DEFINE t == Entries(c) \o mine \o Tail(w.todo)
<1>1. w.todo \in Seq(Todo) /\ w.protected \subseteq Cgroup BY Zenon DEF Sound, Walks
<1>2. /\ Tail(w.todo) \in Seq(Todo)
      /\ Elements(w.todo) = {Head(w.todo)} \cup Elements(Tail(w.todo))
  BY <1>1, HeadTail, Zenon
<1>3. /\ mine \in Seq(Todo)
      /\ Elements(mine) = IF c \in w.protected THEN {[dir |-> c, last |-> TRUE]} ELSE {}
  <2> DEFINE e == [dir |-> c, last |-> TRUE]
  <2>1. e \in Todo BY Zenon DEF Todo
  <2> HIDE DEF e
  <2>2. <<e>> \in Seq(Todo) /\ Len(<<e>>) = 1 /\ <<e>>[1] = e BY <2>1
  <2>3. Elements(<<e>>) = {e} BY <2>2 DEF Elements
  <2> QED BY <2>2, <2>3, NothingToDo, Zenon DEF e
<1>4. /\ t \in Seq(Todo)
      /\ Elements(t) = {[dir |-> d, last |-> FALSE] : d \in Elements(Sub[c])}
                        \cup Elements(mine) \cup Elements(Tail(w.todo))
  <2>1. /\ Entries(c) \in Seq(Todo)
        /\ Elements(Entries(c)) = {[dir |-> d, last |-> FALSE] : d \in Elements(Sub[c])}
    BY EntriesAre, Zenon
  <2>2. /\ Entries(c) \o mine \in Seq(Todo)
        /\ Elements(Entries(c) \o mine) = Elements(Entries(c)) \cup Elements(mine)
    BY <1>3, <2>1, Joined, Zenon
  <2>3. /\ t \in Seq(Todo)
        /\ Elements(t) = Elements(Entries(c) \o mine) \cup Elements(Tail(w.todo))
    BY <1>2, <2>2, Joined, Zenon
  <2> QED BY <2>1, <2>2, <2>3, Zenon
<1> HIDE DEF t
<1>5. Holders[c] \cap PassedOver = {}
  <2>1. Entry(w, Head(w.todo)) BY <1>2, Zenon DEF Sound
  <2>2. Holders[c] \cap PassedOver \subseteq {c} BY <2>1 DEF Entry
  <2> QED BY <2>2, Zenon DEF PassedOver
<1>6. ASSUME NEW e \in Elements(t) PROVE Entry(w, e)
  <2>1. CASE e \in Elements(Tail(w.todo)) BY <1>2, <2>1, Zenon DEF Sound
  <2>2. CASE e \in Elements(mine) BY <1>3, <1>5, <2>2 DEF Entry
  <2>3. ASSUME NEW d \in Elements(Sub[c]), e = [dir |-> d, last |-> FALSE] PROVE Entry(w, e)
    <3>1. Holders[d] \ {d} = Holders[c] BY ChildHeld, KillAssumption, Zenon
    <3> QED BY <1>5, <2>3, <3>1, Zenon DEF Entry
  <2> QED BY <1>4, <1>6, <2>1, <2>2, <2>3, Zenon
<1>7. ASSUME NEW p \in A, a
      PROVE  Out(w, p) \/ \E e \in Elements(t) : ~e.last /\ Contains(e.dir, Home[p])
  <2>1. Out(w, p) \/ Ahead(w, p) BY <1>7, Zenon DEF Sound
  <2>2. \A e \in Elements(Tail(w.todo)) : e \in Elements(t) BY <1>4, Zenon
  <2>3. CASE Contains(c, Home[p]) /\ c # Home[p]
    <3>1. PICK d \in Elements(Sub[c]) : Contains(d, Home[p])
      BY <2>3, ChildHolds, KillAssumption, Zenon
    <3>2. [dir |-> d, last |-> FALSE] \in Elements(t) BY <1>4, Zenon
    <3> QED BY <3>1, <3>2, Zenon
  <2>4. CASE c = Home[p]
    <3>1. PICK m \in w.protected : Contains(c, m) BY <2>4, KillAssumption, Zenon
    <3>2. PICK q \in Proc : m = Home[q] BY <3>1 DEF Sound, Walks
    <3>3. Home[p] = Home[q] BY <2>4, <3>1, <3>2, KillAssumption, Zenon
    <3>4. Home[p] \in w.protected BY <3>1, <3>2, <3>3, Zenon
    <3> QED BY <3>4, Zenon DEF Out
  <2>5. ASSUME NEW e \in Elements(w.todo), ~e.last, Contains(e.dir, Home[p])
        PROVE  Out(w, p) \/ \E b \in Elements(t) : ~b.last /\ Contains(b.dir, Home[p])
    <3>1. CASE e = Head(w.todo)
      <4>1. Contains(c, Home[p]) BY <2>5, <3>1
      <4> QED BY <2>3, <2>4, <4>1, Zenon
    <3>2. CASE e \in Elements(Tail(w.todo)) BY <2>2, <2>5, <3>2, Zenon
    <3> QED BY <1>2, <3>1, <3>2, Zenon
  <2> QED BY <2>1, <2>5, Zenon DEF Ahead
<1> QED BY <1>4, <1>6, <1>7, SoundTodo, Zenon DEF t

-----------------------------------------------------------------------------
(* A step of the kill keeps its walk sound, and whom it kills is neither its own
   runner nor of the machinery that is passed over (visit, cgroup::kill). *)
LEMMA KillStep ==
  ASSUME KillTypeOK, NEW r \in Runner, Sound(r, walk[r], alive, atomic), Killing(r)
  PROVE  /\ walk' \in [Runner -> Walks] /\ \A q \in Runner \ {r} : walk'[q] = walk[q]
         /\ walk[r].at = "visit" /\ walk'[r].at # "none"
         /\ Sound(r, walk'[r], alive', atomic)
         /\ alive' \subseteq alive /\ \A p \in alive \ alive' : p # r /\ ~Kept(p)
         /\ UNCHANGED <<job, atomic>>
<1> DEFINE w == walk[r]
           A == alive
           a == atomic
<1>1. Sound(r, w, A, a) /\ w \in Walks /\ A \subseteq Proc BY Zenon DEF KillTypeOK
<1>2. ASSUME NEW v, walk' = [walk EXCEPT ![r] = v], Sound(r, v, alive', a)
      PROVE  /\ walk' \in [Runner -> Walks] /\ \A q \in Runner \ {r} : walk'[q] = walk[q]
             /\ walk'[r] = v /\ Sound(r, walk'[r], alive', a)
  <2>1. v \in Walks BY <1>2, Zenon DEF Sound
  <2> QED BY <1>2, <2>1, Zenon DEF KillTypeOK
<1>3. CASE Visit(r)
  <2> DEFINE e == Head(w.todo)
             c == e.dir
             enter == (c \in Slice /\ c \notin w.protected) \/ \E m \in w.protected : Contains(c, m)
             mine == IF c \in w.protected THEN <<[dir |-> c, last |-> TRUE]>> ELSE <<>>
             rest == [w EXCEPT !.todo = Tail(@)]
  <2>1. /\ w.at = "visit" /\ w.hits = {} /\ w.round = 0 /\ w.todo # <<>> /\ UNCHANGED <<job, atomic>>
    BY <1>3, Zenon DEF Visit, Free
  <2>2. /\ e \in Todo /\ e \in Elements(w.todo)
    <3>1. w.todo \in Seq(Todo) BY <1>1, Zenon DEF Walks
    <3> QED BY <2>1, <3>1, HeadTail, Zenon
  <2>3. c \in Cgroup /\ e = [dir |-> c, last |-> e.last] /\ e.last \in BOOLEAN BY <2>2, Zenon
      DEF Todo
  <2>4. \/ /\ e.last
           /\ walk' = [walk EXCEPT ![r] = [rest EXCEPT !.hits = DirectProcs(c) \ w.spare]]
           /\ UNCHANGED alive
        \/ /\ c \in Machinery /\ ~e.last
           /\ walk' = [walk EXCEPT ![r] = rest] /\ UNCHANGED alive
        \/ /\ c \notin Machinery /\ enter /\ ~e.last
           /\ walk' = [walk EXCEPT ![r] = [rest EXCEPT !.todo = Entries(c) \o mine \o @]]
           /\ UNCHANGED alive
        \/ /\ c \notin Machinery /\ ~enter /\ atomic
           /\ alive' = alive \ Procs(c)
           /\ walk' = [walk EXCEPT ![r] = rest]
        \/ /\ c \notin Machinery /\ ~enter /\ ~atomic
           /\ walk' = [walk EXCEPT ![r] = [rest EXCEPT !.round = 3, !.dir = c]]
           /\ UNCHANGED alive
    BY <1>3, Zenon DEF Visit
  <2>5. /\ rest.at = "visit" /\ rest.hits = {} /\ rest.round = 0 /\ rest.spare = w.spare
        /\ rest.dir = w.dir /\ rest.todo = Tail(w.todo)
    BY <1>1, <2>1, Zenon DEF Walks
  <2>6. ASSUME NEW B \in SUBSET A, a /\ ~e.last => \A p \in B : Contains(c, Home[p]) => Out(w, p)
        PROVE  Sound(r, rest, B, a)
    BY <1>1, <2>1, <2>6, SoundRest, Zenon
  <2> HIDE DEF rest, mine, enter, w
  <2>7. CASE /\ e.last /\ UNCHANGED alive
             /\ walk' = [walk EXCEPT ![r] = [rest EXCEPT !.hits = DirectProcs(c) \ w.spare]]
    <3> DEFINE H == DirectProcs(c) \ w.spare
               d == rest.dir
               n == rest.round
               v == [rest EXCEPT !.hits = H, !.round = n, !.dir = d]
    <3>1. Sound(r, rest, A, a) BY <2>6, <2>7, Zenon
    <3>2. rest \in Walks BY <3>1, Zenon DEF Sound
    <3>3. Entry(w, e) BY <1>1, <2>2, Zenon DEF Sound
    <3>4. H \in SUBSET Proc /\ \A p \in H : p \notin rest.spare /\ ~Kept(p)
      BY <1>1, <2>5, <2>7, <3>3, Zenon DEF DirectProcs, Entry, Kept
    <3>5. d \in Cgroup \cup {Root} BY <3>2, Zenon DEF Walks
    <3>6. Sound(r, v, A, a)
      <4>1. n \in 0..3 /\ n = 0 /\ ~(n > 0) BY <2>5
      <4> HIDE DEF H, d, n
      <4> QED BY <2>5, <3>1, <3>4, <3>5, <4>1, SoundHits, Zenon
    <3>7. v = [rest EXCEPT !.hits = H] BY <2>5, <3>2, Zenon DEF Walks
    <3>8. v.at = "visit" BY <2>5, <3>2, Zenon DEF Walks
    <3> QED BY <1>2, <2>1, <2>7, <3>6, <3>7, <3>8, Zenon DEF w
  <2>8. CASE c \in Machinery /\ ~e.last /\ walk' = [walk EXCEPT ![r] = rest] /\ UNCHANGED alive
    <3>1. ASSUME NEW p \in A, Contains(c, Home[p]) PROVE Out(w, p)
      BY <1>1, <2>3, <2>8, <3>1, KillAssumption, Zenon DEF Out, Holders
    <3>2. Sound(r, rest, A, a) BY <2>6, <3>1, Zenon
    <3> QED BY <1>2, <2>1, <2>5, <2>8, <3>2, Zenon DEF w
  <2>9. CASE /\ c \notin Machinery /\ enter /\ ~e.last /\ UNCHANGED alive
             /\ walk' = [walk EXCEPT ![r] = [rest EXCEPT !.todo = Entries(c) \o mine \o @]]
    <3> DEFINE v == [w EXCEPT !.todo = Entries(c) \o mine \o Tail(w.todo)]
    <3>1. Head(w.todo) = [dir |-> c, last |-> FALSE] BY <2>3, <2>9, Zenon
    <3>2. Sound(r, v, A, a) BY <1>1, <2>1, <2>3, <2>9, <3>1, SoundEnter, Zenon
        DEF enter, mine
    <3>3. v = [rest EXCEPT !.todo = Entries(c) \o mine \o @]
      BY <1>1, Zenon DEF Walks, rest
    <3>4. v.at = "visit" BY <1>1, <2>1, Zenon DEF Walks
    <3> QED BY <1>2, <2>1, <2>9, <3>2, <3>3, <3>4, Zenon DEF w
  <2>10. ASSUME c \notin Machinery, ~enter, NEW p \in Proc, Contains(c, Home[p])
         PROVE  p \notin w.spare /\ ~Kept(p)
    BY <1>1, <2>2, <2>10, KillReaches DEF enter
  <2>11. r \in w.spare BY <1>1, <2>1, Zenon DEF Sound
  <2>12. CASE /\ c \notin Machinery /\ ~enter /\ atomic /\ alive' = alive \ Procs(c)
              /\ walk' = [walk EXCEPT ![r] = rest]
    <3>1. Sound(r, rest, alive', a)
      <4>1. alive' \in SUBSET A /\ \A p \in alive' : ~Contains(c, Home[p]) BY <2>12, Zenon
          DEF Procs
      <4> QED BY <2>6, <4>1, Zenon
    <3>2. \A p \in alive \ alive' : p \in Proc /\ Contains(c, Home[p]) BY <1>1, <2>12, Zenon
        DEF Procs
    <3>3. \A p \in alive \ alive' : p # r /\ ~Kept(p) BY <2>10, <2>11, <2>12, <3>2
    <3>4. alive' \subseteq alive BY <2>12, Zenon
    <3> QED BY <1>2, <2>1, <2>5, <2>12, <3>1, <3>3, <3>4, Zenon DEF w
  <2>13. CASE /\ c \notin Machinery /\ ~enter /\ ~atomic /\ UNCHANGED alive
              /\ walk' = [walk EXCEPT ![r] = [rest EXCEPT !.round = 3, !.dir = c]]
    <3> DEFINE v == [rest EXCEPT !.hits = {}, !.round = 3, !.dir = c]
    <3>1. Sound(r, rest, A, a) BY <2>6, <2>13, Zenon
    <3>2. rest \in Walks BY <3>1 DEF Sound
    <3>3. Sound(r, v, A, a)
      <4>1. 3 \in 0..3 /\ {} \in SUBSET Proc /\ c \in Cgroup \cup {Root} BY <2>3
      <4>2. \A p \in Proc : Contains(c, Home[p]) => ~Kept(p) BY <2>10, <2>13, Zenon
      <4> HIDE DEF c
      <4> QED BY <2>5, <2>13, <3>1, <4>1, <4>2, SoundHits, Zenon
    <3>4. v = [rest EXCEPT !.round = 3, !.dir = c] /\ v.at = "visit" BY <2>5, <3>2, Zenon
        DEF Walks
    <3> QED BY <1>2, <2>1, <2>13, <3>3, <3>4, Zenon DEF w
  <2> QED BY <2>4, <2>7, <2>8, <2>9, <2>12, <2>13, Zenon
<1>4. ASSUME NEW p \in Proc, KillListed(r, p)
      PROVE  /\ walk' \in [Runner -> Walks] /\ \A q \in Runner \ {r} : walk'[q] = walk[q]
             /\ w.at = "visit" /\ walk'[r].at # "none" /\ Sound(r, walk'[r], alive', a)
             /\ alive' \subseteq alive /\ (\A q \in alive \ alive' : q # r /\ ~Kept(q))
             /\ UNCHANGED <<job, atomic>>
  <2>1. /\ p \in w.hits /\ alive' = alive \ {p} /\ UNCHANGED <<job, atomic>>
        /\ walk' = [walk EXCEPT ![r].hits = @ \ {p}]
    BY <1>4, Zenon DEF KillListed
  <2> DEFINE H == w.hits \ {p}
             n == w.round
             d == w.dir
             v == [w EXCEPT !.hits = H, !.round = n, !.dir = d]
  <2>2. w.at = "visit" /\ r \in w.spare /\ p \notin w.spare /\ ~Kept(p) BY <1>1, <2>1, Zenon
      DEF Sound
  <2>3. Sound(r, w, alive', a) BY <1>1, <2>1, SoundFewer, Zenon
  <2>4. Sound(r, v, alive', a)
    <3>1. H \in SUBSET Proc /\ n \in 0..3 /\ d \in Cgroup \cup {Root}
      BY <1>1, Zenon DEF Walks
    <3>2. /\ a => n = 0
          /\ \A q \in H : q \notin w.spare /\ ~Kept(q)
          /\ n > 0 => \A q \in Proc : Contains(d, Home[q]) => ~Kept(q)
      BY <1>1, Zenon DEF Sound
    <3> HIDE DEF H, n, d, w
    <3> QED BY <2>2, <2>3, <3>1, <3>2, SoundHits, Zenon
  <2>5. walk' = [walk EXCEPT ![r] = v] /\ v.at = "visit"
    BY <1>1, <2>1, <2>2, Zenon DEF Walks
  <2> QED BY <1>2, <2>1, <2>2, <2>4, <2>5, Zenon
<1>5. CASE KillRound(r)
  <2> DEFINE found == Procs(w.dir) \ w.spare
             n == IF found = {} THEN 0 ELSE w.round - 1
             v == [w EXCEPT !.hits = found, !.round = n, !.dir = w.dir]
  <2>1. /\ w.round > 0 /\ UNCHANGED <<alive, job, atomic>>
        /\ walk' = [walk EXCEPT ![r].round = n, ![r].hits = found]
    BY <1>5, Zenon DEF KillRound
  <2>2. w.at = "visit" /\ ~a BY <1>1, <2>1 DEF Sound
  <2>3. found \in SUBSET Proc /\ n \in 0..3 /\ w.dir \in Cgroup \cup {Root}
    BY <1>1, <2>1 DEF Procs, Walks
  <2>4. \A p \in Proc : Contains(w.dir, Home[p]) => ~Kept(p) BY <1>1, <2>1, Zenon DEF Sound
  <2>5. \A p \in found : p \notin w.spare /\ ~Kept(p) BY <1>1, <2>4, Zenon DEF Procs
  <2> HIDE DEF found, n
  <2>6. Sound(r, v, A, a) BY <1>1, <2>2, <2>3, <2>4, <2>5, SoundHits, Zenon
  <2>7. walk' = [walk EXCEPT ![r] = v] /\ v.at = "visit" BY <1>1, <2>1, <2>2, Zenon
      DEF Walks
  <2> QED BY <1>2, <2>1, <2>2, <2>6, <2>7, Zenon
<1>6. CASE KillEnd(r)
  <2> DEFINE v == [w EXCEPT !.at = "done"]
  <2>1. /\ w.at = "visit" /\ w.hits = {} /\ w.round = 0 /\ w.todo = <<>>
        /\ UNCHANGED <<alive, job, atomic>> /\ walk' = [walk EXCEPT ![r] = v]
    BY <1>6, Zenon DEF KillEnd, Free
  <2>2. /\ v.todo = w.todo /\ v.at = "done" /\ v.spare = w.spare /\ v.protected = w.protected
        /\ v.hits = {} /\ v.round = 0 /\ v.dir = w.dir /\ v \in Walks
    BY <1>1, <2>1, Zenon DEF Walks
  <2> HIDE DEF v
  <2>3. Elements(w.todo) = {} BY <2>1 DEF Elements
  <2>4. ASSUME NEW p \in A, a PROVE Out(v, p)
    <3>1. ~Ahead(w, p) BY <2>3, Zenon DEF Ahead
    <3>2. Out(w, p) BY <1>1, <2>1, <2>4, <3>1, Zenon DEF Sound
    <3> QED BY <2>2, <3>2, Zenon DEF Out
  <2>5. Sound(r, v, A, a)
    <3>1. v.protected = {Home[p] : p \in v.spare} BY <1>1, <2>2, Zenon DEF Sound
    <3>2. \A e \in Elements(v.todo) : Entry(v, e) BY <2>2, <2>3, Zenon
    <3> HIDE DEF w
    <3> QED BY <2>2, <2>4, <3>1, <3>2 DEF Sound
  <2> QED BY <1>2, <2>1, <2>2, <2>5, Zenon
<1> QED BY <1>3, <1>4, <1>5, <1>6, Zenon DEF Killing

-----------------------------------------------------------------------------
(* The invariant behind all three.  A guard only ever holds a device that is
   neither protected nor read-only by itself, and has recorded it by the time it
   may set it; once the decoy runs again nobody guards. *)
DiskInv ==
    /\ DiskTypeOK
    /\ own \cap Protected = {} /\ ro \cap Protected = {}
    /\ ro \subseteq present /\ own \cap present \subseteq ro
    /\ ro \ own \subseteq recorded /\ recorded \cap own = {}
    /\ \A a \in Actor : /\ guard[a].dev \cap Protected = {} /\ guard[a].dev \cap own = {}
                        /\ guard[a].at = "set" => guard[a].dev \subseteq recorded
    /\ home => \A a \in Actor : guard[a].at = "idle"
    /\ home /\ ~failed => ro = own \cap present

(* The disk of a device in use is in use (protected pushes sys.parent). *)
LEMMA ProtectedClosed ==
    ASSUME NEW d \in Protected
    PROVE  DiskOf(d) \in Protected
<1>1. d \in Dev
  BY Zenon DEF Protected
<1>2. DiskOf(d) \in Dev
  BY <1>1, DiskAssumption, Zenon DEF DiskOf
<1>3. ASSUME NEW S \in SUBSET Dev, Used \subseteq S /\ Closed(S)
      PROVE  DiskOf(d) \in S
  <2>1. d \in S
    BY <1>3, Zenon DEF Protected
  <2>. QED
    BY <2>1, <1>3, Zenon DEF Closed
<1>. QED
  BY <1>2, <1>3, Zenon DEF Protected

(* The session begins with nothing guarded (disk_guard.rs). *)
LEMMA DiskInvInit == DiskInit => DiskInv
<1>. SUFFICES ASSUME DiskInit PROVE DiskInv
  BY Zenon
<1>1. \A a \in Actor : guard[a] = NoGuard
  BY Zenon DEF DiskInit
<1>2. DiskTypeOK
  <2>1. NoGuard \in Guards
    BY Zenon DEF NoGuard, Guards
  <2>. QED
    BY <2>1, Zenon DEF DiskInit, DiskTypeOK
<1>. QED
  BY <1>1, <1>2, Zenon DEF DiskInit, DiskInv, NoGuard

-----------------------------------------------------------------------------
(* The guards keep the invariant: what they take up is not read-only yet, so it
   is not read-only by itself (guard). *)
LEMMA GuardKeeps ==
    ASSUME DiskInv, NEW a \in Actor,
           (\E d \in Dev : GuardLook(a, d)) \/ GuardRecord(a) \/ GuardSet(a) \/ GuardStopped(a)
    PROVE  DiskInv'
<1>. USE DEF DiskInv, DiskTypeOK, Guards, NoGuard
<1>1. ASSUME NEW d \in Dev, GuardLook(a, d) PROVE DiskInv'
  <2>1. d \notin Protected /\ d \in present /\ d \notin ro
    BY <1>1, Zenon DEF GuardLook, ToGuard, IsReadOnly
  <2>2. guard' = [guard EXCEPT ![a] = [at |-> "record", dev |-> {d}]]
    BY <1>1, Zenon DEF GuardLook
  <2>3. UNCHANGED <<present, own, ro, recorded, failed, home>> /\ ~home
    BY <1>1, Zenon DEF GuardLook
  <2>. QED
    BY <2>1, <2>2, <2>3
<1>2. CASE GuardRecord(a)
  BY <1>2 DEF GuardRecord
<1>3. CASE GuardSet(a)
  BY <1>3, Zenon DEF GuardSet
<1>4. CASE GuardStopped(a)
  BY <1>4, Zenon DEF GuardStopped
<1>. QED
  BY <1>1, <1>2, <1>3, <1>4, Zenon

(* So do devices that come and go, and the way back (release). *)
LEMMA OthersKeep ==
    ASSUME DiskInv, (\E d \in Dev : Plug(d) \/ Unplug(d)) \/ Release
    PROVE  DiskInv'
<1>. USE DEF DiskInv, DiskTypeOK, Guards, NoGuard
<1>1. ASSUME NEW d \in Dev, Plug(d) PROVE DiskInv'
  BY <1>1, Zenon DEF Plug
<1>2. ASSUME NEW d \in Dev, Unplug(d) PROVE DiskInv'
  BY <1>2, Zenon DEF Unplug
<1>3. CASE Release
  BY <1>3, Zenon DEF Release
<1>. QED
  BY <1>1, <1>2, <1>3, Zenon

(* DiskInv is inductive. *)
THEOREM DiskInvariant == DiskSpec => []DiskInv
<1>1. DiskInv /\ [DiskNext]_disks => DiskInv'
  <2>1. ASSUME DiskInv, DiskNext PROVE DiskInv'
    BY <2>1, GuardKeeps, OthersKeep, Zenon DEF DiskNext
  <2>2. ASSUME DiskInv, UNCHANGED disks PROVE DiskInv'
    BY <2>2, Zenon DEF disks, DiskInv, DiskTypeOK, IsReadOnly
  <2>. QED
    BY <2>1, <2>2, Zenon
<1>. QED
  BY DiskInvInit, <1>1, PTL DEF DiskSpec

(* What the session or the way back uses stays writable, with every member and
   disk it sits on (disk_guard's "Never guarded"). *)
THEOREM UsedStaysWritable == DiskSpec => []UsedWritable
<1>1. DiskInv => UsedWritable
  BY ProtectedClosed, Zenon DEF DiskInv, UsedWritable, IsReadOnly
<1>. QED
  BY DiskInvariant, <1>1, PTL

(* A device a guard set read-only is on the record whatever stopped the guard. *)
THEOREM RecordCovers == DiskSpec => []SetIsRecorded
<1>1. DiskInv => SetIsRecorded
  BY Zenon DEF DiskInv, SetIsRecorded
<1>. QED
  BY DiskInvariant, <1>1, PTL

(* Unless the ioctl fails on the way back, the decoy finds exactly its own
   read-only flags again (release). *)
THEOREM DisksFoundAsLeft == DiskSpec => []FoundAsLeft
<1>1. DiskInv => FoundAsLeft
  BY Zenon DEF DiskInv, FoundAsLeft
<1>. QED
  BY DiskInvariant, <1>1, PTL

(* The watcher and everything beside it do with the disks what the disk guard
   does, and nothing else: the composition implements DiskGuard (cmd_watch, guard,
   release). *)
THEOREM WatchGuardsDisks == Spec => DiskSpec
<1>1. Init => DiskInit
  <2> SUFFICES ASSUME Init, ~cfg.disks PROVE DiskInit
    BY Zenon DEF Init
  <2>1. /\ present = Protected /\ own = {} /\ ro = {} /\ recorded = {}
        /\ guard = [a \in Actor |-> NoGuard] /\ failed = FALSE /\ home = FALSE
    BY Zenon DEF Init
  <2>2. Protected \subseteq Dev /\ {DiskOf(d) : d \in Protected} \subseteq Protected
    BY ProtectedClosed, Zenon DEF Protected
  <2> QED BY <2>1, <2>2, Zenon DEF DiskInit
<1>2. [Next]_vars => [DiskNext]_disks
  <2> SUFFICES ASSUME [Next]_vars, disks' # disks PROVE DiskNext
    BY Zenon
  <2>1. \/ \E d \in Dev : Sweep(d)
        \/ Disks \/ Return
    BY Zenon
        DEF Next, vars, Watcher, WatchTick, SweepEnd, WatchAlerts, WatchSleep, WatchProbe,
       Guard, Subscribe, Hold, Prepared, LetGo, Operator, Hot, HotPrepare, HotShells,
       HotEnqueue, HotKill, SleepAsked, SleepWaits, SleepGoes, SleepEnds, VolumeChanges, Unmount, Mount,
       Still, Processes, Shutdown
  <2>2. ASSUME NEW d \in Dev, Sweep(d) PROVE DiskNext
    BY <2>2, WatchAssumption, Zenon DEF Sweep, DiskNext
  <2>3. CASE Disks BY <2>3, Zenon DEF Disks, DiskNext
  <2>4. CASE Return BY <2>4, Zenon DEF Return, DiskNext
  <2> QED BY <2>1, <2>2, <2>3, <2>4, Zenon
<1> QED BY <1>1, <1>2, PTL DEF Spec, DiskSpec

(* What the session uses is writable, what a guard set is on the record, and the
   decoy finds its own flags again, for any devices, stacks of them and guards,
   beside a session that ends in any way (disk_guard). *)
THEOREM DisksAreAsFound == Spec => []DisksAsFound
BY WatchGuardsDisks, UsedStaysWritable, RecordCovers, DisksFoundAsLeft, PTL DEF DisksAsFound

-----------------------------------------------------------------------------
(* The watcher's clock and the time of the failure it stands for are one. *)
Clock ==
    /\ watch \in [at : {"tick", "sweep", "alerts", "sleep", "probe", "emergency", "end"},
                  first : BOOLEAN, waited : 0..Debounce, alerted : BOOLEAN, left : SUBSET Dev]
    /\ down \in [failing : BOOLEAN, since : 0..Debounce]
    /\ watch.first <=> down.failing
    /\ watch.alerted <=> watch.first
    /\ watch.waited = down.since

(* What the watches have seen of a mount is what was reported of it.  One that
   is gone is forgotten before its id can come back; a mount on a parent of the
   hidden root that was reported as a disk was so because the volume was gone,
   and it stays gone for as long as that mount is there. *)
Told(i) ==
    /\ mounts[i] # "hides"
    /\ IF mounts[i] = "none" THEN told[i] = 0
       ELSE /\ table.mounts[i] \in {"none", mounts[i]} /\ told[i] \in {0, 1}
            /\ told[i] = 0 => i \notin seen.mounts \cup seen.covers
            /\ told[i] = 1 =>
                 /\ table.mounts[i] = mounts[i]
                 /\ i \notin seen.covers => mounts[i] = "rw" \/ (mounts[i] = "above" /\ ~table.volume)
                 /\ cfg.alert /\ mounts[i] \in {"rw", "above"} => i \in seen.mounts
    /\ mounts[i] = "above" /\ table.mounts[i] = "above" /\ ~table.volume => volume = "gone"
    /\ watch.at = "sleep" /\ mounts[i] = table.mounts[i]
         /\ i \in Covers(table) \cup (IF cfg.alert THEN Unguarded(table) ELSE {}) => told[i] = 1
Reports ==
    /\ mounts \in [Id -> Kinds] /\ told \in [Id -> 0..3]
    /\ table \in [mounts : [Id -> Kinds], volume : BOOLEAN]
    /\ seen \in [mounts : SUBSET Id, covers : SUBSET Id]
    /\ cfg.alert \/ seen.mounts = {}
    /\ \A i \in Id : Told(i)

Hots == [at : {"idle", "prepare", "shells", "enqueue", "kill", "done"},
         finish : {"return", "reboot", "poweroff"}]
(* The sleep guard holds its inhibitor from before it waits until its emergency
   is over, has its work from the moment a sleep is announced, is never behind
   the time that has passed since, and lives until a shutdown is in PID 1's queue. *)
Watchful ==
    /\ power \in [at : {"off", "start", "subscribed", "holding", "hot", "end"}, heard : BOOLEAN,
                  inhibit : {"none", "block", "delay"}, signal : BOOLEAN]
    /\ hot \in [Runner -> Hots]
    /\ \A r \in Runner : hot[r].at \in {"kill", "done"} => job # "none"
    /\ "guard" \notin alive => job # "none"
    /\ spent \in Nat
    /\ power.at = "hot" => hot["guard"].at # "idle"
    /\ cfg.sleep = "teardown" =>
         /\ power.at # "off"
         /\ power.at \in {"holding", "hot"} => power.inhibit = "delay"
         /\ power.at \in {"subscribed", "holding"} => power.heard
         /\ sleep = "preparing" /\ power.at = "holding" => power.signal
         /\ sleep = "preparing" /\ power.at \in {"holding", "hot"} /\ job = "none" => spent <= StepsDone
    /\ AwakeWhileGuarded

(* Only the watcher's own steps change what the watcher knows. *)
LEMMA WatcherOnly ==
  ASSUME Next
  PROVE  Watcher \/ UNCHANGED <<cfg, watch, table, seen, down>>
BY Zenon
    DEF Next, session, Guard, Subscribe, Hold, Prepared, LetGo, Operator, Hot, HotPrepare,
   HotShells, HotEnqueue, HotKill, SleepAsked, SleepWaits, SleepGoes, SleepEnds, VolumeChanges, Unmount,
   Mount, Still, Disks, Processes, Shutdown, Return

(* The clock runs on in WatchSleep, and a probe sets it back together with the
   failure it stands for (BackendWatch::observe). *)
LEMMA ClockStep == Clock /\ DiskInv /\ [Next]_vars => Clock'
<1> SUFFICES ASSUME Clock, DiskInv, [Next]_vars PROVE Clock' BY Zenon
<1> USE WatchAssumption DEF Clock
<1>1. CASE UNCHANGED <<watch, down>> BY <1>1, Zenon
<1>2. CASE WatchTick BY <1>2, Zenon DEF WatchTick, DiskInv, DiskTypeOK
<1>3. ASSUME NEW d \in Dev, Sweep(d) PROVE Clock' BY <1>3, Zenon DEF Sweep
<1>4. CASE SweepEnd BY <1>4, Zenon DEF SweepEnd
<1>5. CASE WatchAlerts BY <1>5, Zenon DEF WatchAlerts
<1>6. CASE WatchSleep
  <2>1. PICK dt \in 1..MaxStep :
          /\ watch' = [watch EXCEPT !.at = "probe",
                                    !.waited = IF watch.first THEN Cap(@ + dt) ELSE 0]
          /\ down' = [down EXCEPT !.since = IF down.failing THEN Cap(@ + dt) ELSE 0]
    BY <1>6, Zenon DEF WatchSleep
  <2>2. Cap(down.since + dt) \in 0..Debounce BY DEF Cap
  <2>3. /\ watch'.first = watch.first /\ watch'.alerted = watch.alerted
        /\ watch'.left = watch.left /\ watch'.at = "probe"
        /\ watch'.waited = (IF watch.first THEN Cap(watch.waited + dt) ELSE 0)
        /\ DOMAIN watch' = DOMAIN watch
    BY <2>1, Zenon
  <2>4. /\ down'.failing = down.failing
        /\ down'.since = (IF down.failing THEN Cap(down.since + dt) ELSE 0)
        /\ DOMAIN down' = DOMAIN down
    BY <2>1, Zenon
  <2>5. down' \in [failing : BOOLEAN, since : 0..Debounce] BY <2>1, <2>2
  <2>6. watch'.waited = down'.since /\ watch'.waited \in 0..Debounce BY <2>2, <2>3, <2>4
  <2>7. watch' = [watch EXCEPT !.at = "probe", !.waited = down'.since]
    BY <2>1, <2>4, Zenon
  <2>8. watch' \in [at : {"tick", "sweep", "alerts", "sleep", "probe", "emergency", "end"},
                  first : BOOLEAN, waited : 0..Debounce, alerted : BOOLEAN, left : SUBSET Dev]
    BY <2>6, <2>7, Zenon
  <2> QED BY <2>3, <2>4, <2>5, <2>6, <2>8
<1>7. CASE WatchProbe
  <2> DEFINE healthy == ~cfg.backend \/ ProbeBackend(Look) # "failed"
  <2>1. /\ watch' = Observe(watch, healthy)
        /\ down' = [failing |-> ~healthy, since |-> IF healthy THEN 0 ELSE down.since]
    BY <1>7, Zenon DEF WatchProbe
  <2> HIDE DEF healthy
  <2>2. CASE healthy
    <3>1. down' = [failing |-> FALSE, since |-> 0] BY <2>1, <2>2, Zenon
    <3>2. watch' = [watch EXCEPT !.at = "tick", !.first = FALSE, !.waited = 0, !.alerted = FALSE]
      BY <2>1, <2>2, Zenon DEF Observe
    <3>3. 0 \in 0..Debounce OBVIOUS
    <3>4. watch' \in [at : {"tick", "sweep", "alerts", "sleep", "probe", "emergency", "end"},
                      first : BOOLEAN, waited : 0..Debounce, alerted : BOOLEAN, left : SUBSET Dev]
      BY <3>2, <3>3, Zenon
    <3>5. down' \in [failing : BOOLEAN, since : 0..Debounce] BY <3>1, <3>3, Zenon
    <3>6. watch'.first = FALSE /\ watch'.alerted = FALSE /\ watch'.waited = 0 BY <3>2, Zenon
    <3>7. down'.failing = FALSE /\ down'.since = 0 BY <3>1, Zenon
    <3> QED BY <3>4, <3>5, <3>6, <3>7, Zenon
  <2>3. CASE ~healthy
    <3>1. down' = [failing |-> TRUE, since |-> down.since] BY <2>1, <2>3, Zenon
    <3>2. \/ watch' = [watch EXCEPT !.at = "tick", !.first = TRUE, !.alerted = TRUE]
          \/ watch.alerted /\ \E l \in {"tick", "emergency"} : watch' = [watch EXCEPT !.at = l]
      BY <2>1, <2>3, Zenon DEF Observe
    <3> QED BY <3>1, <3>2, ZenonT(60)
  <2> QED BY <2>2, <2>3, Zenon
<1> QED BY <1>1, <1>2, <1>3, <1>4, <1>5, <1>6, <1>7, WatcherOnly, Zenon DEF Watcher, vars, session

(* The watcher's first step on the hot path is a probe that failed. *)
LEMMA WatcherFires ==
  ASSUME [Next]_vars, hot["watcher"].at = "idle", hot'["watcher"].at # "idle",
         hot \in [Runner -> Hots]
  PROVE  WatchProbe /\ watch'.at = "emergency"
<1> USE WatchAssumption DEF Hots
<1>1. hot' # hot BY Zenon
<1>2. \/ WatchProbe \/ Operator \/ Prepared \/ \E r \in Runner : Hot(r)
  BY <1>1, Zenon
      DEF Next, vars, Watcher, WatchTick, Sweep, SweepEnd, WatchAlerts, WatchSleep, Guard,
     Subscribe, Hold, LetGo, SleepAsked, SleepWaits, SleepGoes, SleepEnds, VolumeChanges, Unmount, Mount,
     Still, Disks, Processes, Shutdown, Return
<1>3. ~Operator BY Zenon DEF Operator, HotBegin
<1>4. ~Prepared BY Zenon DEF Prepared, HotBegin
<1>5. ASSUME NEW r \in Runner, Hot(r) PROVE FALSE
  <2>1. hot[r].at # "idle" BY <1>5, Zenon
      DEF Hot, HotPrepare, HotShells, HotEnqueue, HotKill, HotStep
  <2>2. hot'["watcher"] = hot["watcher"]
    BY <1>5, <2>1, Zenon DEF Hot, HotPrepare, HotShells, HotEnqueue, HotKill, HotStep
  <2> QED BY <2>2, Zenon
<1> QED BY <1>1, <1>2, <1>3, <1>4, <1>5, Zenon DEF WatchProbe

(* Every mount is reported once: the watches forget an id when its mount is gone,
   and a mount that is seen was reported (tick_alerts). *)
LEMMA ReportsStep ==
  ASSUME {"reuse", "hides"} \cap Faults = {}
  PROVE  Clock /\ Reports /\ [Next]_vars => Reports'
<1> SUFFICES ASSUME Clock, Reports, [Next]_vars PROVE Reports' BY Zenon
<1> USE DEF Reports
<1>1. CASE UNCHANGED <<cfg, watch, table, seen, mounts, told, volume>>
  BY <1>1 DEF Told, Covers, Unguarded
<1>2. CASE WatchTick
  <2>1. /\ table' \in [mounts : [Id -> Kinds], volume : BOOLEAN] /\ watch'.at # "sleep"
        /\ table'.mounts = mounts /\ table'.volume = (volume # "gone")
        /\ UNCHANGED <<cfg, volume, mounts, seen, told>>
    BY <1>2, Zenon DEF WatchTick, Clock
  <2>2. ASSUME NEW i \in Id PROVE Told(i)' BY <2>1, Zenon DEF Told
  <2> QED BY <2>1, <2>2, Zenon
<1>3. CASE (\E d \in Dev : Sweep(d)) \/ SweepEnd \/ WatchSleep \/ WatchProbe
  <2>1. UNCHANGED <<cfg, table, seen, mounts, told, volume>>
    BY <1>3, Zenon DEF Sweep, SweepEnd, WatchSleep, WatchProbe
  <2>2. ASSUME NEW d \in Dev, Sweep(d) PROVE watch'.at # "sleep"
    BY <2>2, Zenon DEF Sweep, WatchStep, Clock
  <2>3. SweepEnd => watch'.at # "sleep" BY Zenon DEF SweepEnd, Clock
  <2>4. WatchSleep => watch'.at # "sleep" BY Zenon DEF WatchSleep, Clock
  <2>5. WatchProbe => watch'.at # "sleep" BY DEF WatchProbe, Observe, Clock
  <2> QED BY <1>3, <2>1, <2>2, <2>3, <2>4, <2>5 DEF Told, Covers, Unguarded
<1>4. CASE WatchAlerts
  <2>1. UNCHANGED <<cfg, table, mounts, volume>> BY <1>4, Zenon DEF WatchAlerts
  <2> DEFINE t == TickAlerts(table, seen)
             reports(i) == (IF i \in t.cover THEN 1 ELSE 0) + (IF i \in t.disk THEN 1 ELSE 0)
  <2>2. /\ t.covers = (seen.covers \cap Mounted(table)) \cup Covers(table)
        /\ t.mounts = IF cfg.alert THEN (seen.mounts \cap Mounted(table)) \cup Unguarded(table)
                      ELSE seen.mounts
        /\ t.cover = Covers(table) \ (seen.covers \cap Mounted(table))
        /\ t.disk = IF cfg.alert THEN (Unguarded(table) \ (seen.mounts \cap Mounted(table)))
                                      \ Covers(table)
                    ELSE {}
    BY Zenon DEF TickAlerts
  <2>3. /\ seen'.mounts = t.mounts /\ seen'.covers = t.covers
        /\ seen' = [mounts |-> t.mounts, covers |-> t.covers]
        /\ told' = [i \in Id |-> IF mounts[i] = table.mounts[i] /\ told[i] < 2
                                 THEN told[i] + reports(i) ELSE told[i]]
    BY <1>4, Zenon DEF WatchAlerts
  <2> HIDE DEF t
  <2>4. t.mounts \subseteq Id /\ t.covers \subseteq Id /\ (cfg.alert \/ t.mounts = {})
    BY <2>2, Zenon DEF Covers, Unguarded
  <2>5. ASSUME NEW i \in Id PROVE Told(i)' /\ told'[i] \in 0..3
    <3>1. Told(i) BY Zenon
    <3>2. CASE mounts[i] # table.mounts[i]
      <4>1. told'[i] = told[i] BY <2>3, <3>2, Zenon
      <4>2. mounts[i] # "none" => /\ table.mounts[i] = "none" /\ told[i] = 0
                                  /\ i \notin t.mounts \cup t.covers
        BY <2>2, <3>1, <3>2 DEF Told, Mounted, Covers, Unguarded
      <4> QED BY <2>1, <2>3, <3>1, <3>2, <4>1, <4>2, Zenon DEF Told
    <3>3. CASE mounts[i] = table.mounts[i] /\ mounts[i] = "none"
      <4>1. i \notin Mounted(table) \cup Covers(table) \cup Unguarded(table)
        BY <3>3, ZenonT(60) DEF Mounted, Covers, Unguarded
      <4>2. told'[i] = 0 BY <2>2, <2>3, <3>1, <3>3, <4>1 DEF Told
      <4> QED BY <2>1, <3>1, <3>3, <4>1, <4>2, Zenon DEF Told
    <3>4. CASE mounts[i] = table.mounts[i] /\ mounts[i] # "none"
      <4>1. /\ i \in Mounted(table)
            /\ i \in Covers(table) <=> mounts[i] = "over" \/ (mounts[i] = "above" /\ table.volume)
            /\ i \in Unguarded(table) <=> mounts[i] \in {"rw", "above"}
        BY <3>1, <3>4, ZenonT(60) DEF Mounted, Covers, Unguarded, Told
      <4>2. CASE told[i] = 0
        <5>1. i \notin seen.mounts \cup seen.covers BY <3>1, <3>4, <4>2, ZenonT(60) DEF Told
        <5>2. told'[i] = reports(i) BY <2>3, <3>4, <4>2, SMTT(30)
        <5>3. reports(i) = IF i \in Covers(table) \/ (cfg.alert /\ i \in Unguarded(table))
                           THEN 1 ELSE 0
          BY <2>2, <5>1, SMTT(30)
        <5>4. told'[i] = 0 => i \notin t.mounts \cup t.covers
          BY <2>2, <4>1, <5>1, <5>2, <5>3, SMTT(30)
        <5>5. told'[i] = 1 =>
                /\ i \notin t.covers => mounts[i] = "rw" \/ (mounts[i] = "above" /\ ~table.volume)
                /\ cfg.alert /\ mounts[i] \in {"rw", "above"} => i \in t.mounts
          BY <2>2, <4>1, <5>2, <5>3
        <5>6. told'[i] \in {0, 1} BY <5>2, <5>3, Zenon
        <5>7. i \in Covers(table) \cup (IF cfg.alert THEN Unguarded(table) ELSE {})
                => told'[i] = 1
          BY <5>2, <5>3, Zenon
        <5>8. Covers(table)' = Covers(table) /\ Unguarded(table)' = Unguarded(table)
          BY <2>1, ZenonT(60) DEF Covers, Unguarded
        <5> QED BY <2>1, <2>3, <3>1, <3>4, <5>4, <5>5, <5>6, <5>7, <5>8 DEF Told
      <4>3. CASE told[i] = 1
        <5>1. /\ i \notin seen.covers => mounts[i] = "rw" \/ (mounts[i] = "above" /\ ~table.volume)
              /\ cfg.alert /\ mounts[i] \in {"rw", "above"} => i \in seen.mounts
          BY <3>1, <3>4, <4>3, Zenon DEF Told
        <5>2. i \notin t.cover /\ i \notin t.disk BY <2>2, <4>1, <5>1, ZenonT(60)
        <5>3. told'[i] = 1 BY <2>3, <3>4, <4>3, <5>2
        <5>4. /\ i \notin t.covers => mounts[i] = "rw" \/ (mounts[i] = "above" /\ ~table.volume)
              /\ cfg.alert /\ mounts[i] \in {"rw", "above"} => i \in t.mounts
          BY <2>2, <4>1, <5>1, Zenon
        <5> QED BY <2>1, <2>3, <3>1, <3>4, <5>3, <5>4 DEF Told
      <4> QED BY <3>1, <3>4, <4>2, <4>3, Zenon DEF Told
    <3> QED BY <3>2, <3>3, <3>4, Zenon
  <2>6. told' \in [Id -> 0..3] BY <2>3, <2>5, Zenon
  <2> QED BY <2>1, <2>3, <2>4, <2>5, <2>6, Zenon
<1>5. ASSUME NEW v \in {"fine", "dead", "readonly", "gone", "torn"}, VolumeChanges(v)
      PROVE  Reports'
  <2>1. /\ UNCHANGED <<cfg, watch, table, seen, mounts, told>>
        /\ volume = "gone" => \A i \in Id : mounts[i] # "above"
    BY <1>5, Zenon DEF VolumeChanges, Still, NoParentMount
  <2>2. ASSUME NEW i \in Id PROVE Told(i)' BY <2>1 DEF Told, Covers, Unguarded
  <2> QED BY <2>1, <2>2, Zenon
<1>6. ASSUME NEW i \in Id, NEW k \in Kinds \ {"none"}, Mount(i, k) PROVE Reports'
  <2>1. /\ UNCHANGED <<cfg, watch, table, seen, told, volume>> /\ mounts[i] = "none"
        /\ k # "hides" /\ i \notin seen.mounts \cup seen.covers /\ table.mounts[i] = "none"
        /\ mounts' = [mounts EXCEPT ![i] = k]
    BY <1>6, Zenon DEF Mount, Still
  <2>2. ASSUME NEW j \in Id PROVE Told(j)' BY <2>1 DEF Told, Covers, Unguarded
  <2> QED BY <2>1, <2>2, Zenon
<1>7. ASSUME NEW i \in Id, Unmount(i) PROVE Reports'
  <2>1. /\ UNCHANGED <<cfg, watch, table, seen, volume>>
        /\ mounts' = [mounts EXCEPT ![i] = "none"] /\ told' = [told EXCEPT ![i] = 0]
    BY <1>7, Zenon DEF Unmount, Still
  <2>2. mounts' \in [Id -> Kinds] /\ told' \in [Id -> 0..3] BY <2>1, SMTT(30) DEF Kinds
  <2>3. ASSUME NEW j \in Id PROVE Told(j)' BY <2>1 DEF Told, Covers, Unguarded
  <2> QED BY <2>1, <2>2, <2>3, Zenon
<1>8. \/ Watcher \/ UNCHANGED <<cfg, watch, table, seen, mounts, told, volume>>
      \/ \E v \in {"fine", "dead", "readonly", "gone", "torn"} : VolumeChanges(v)
      \/ \E i \in Id : Unmount(i) \/ \E k \in Kinds \ {"none"} : Mount(i, k)
  BY ZenonT(60) DEF Next, vars, session, Guard, Subscribe, Hold, Prepared, LetGo, Operator, Hot,
     HotPrepare, HotShells, HotEnqueue, HotKill, SleepAsked, SleepWaits, SleepGoes, SleepEnds, Disks,
     Processes, Shutdown, Return
<1> QED BY <1>1, <1>2, <1>3, <1>4, <1>5, <1>6, <1>7, <1>8 DEF Watcher

(* The inhibitor is held from the subscription to the end of the emergency; every
   kill of an emergency comes after its job (run_guard, emergency_fast). *)
LEMMA WatchfulStep == Watchful /\ [Next]_vars => Watchful'
<1> SUFFICES ASSUME Watchful, [Next]_vars PROVE Watchful' BY Zenon
<1>0. "guard" \notin Shell \cup Restarting BY KillAssumption, WatchAssumption, Zenon
<1> USE WatchAssumption DEF Watchful, AwakeWhileGuarded, Hots, StepsDone, GuardAt
<1>1. CASE UNCHANGED <<cfg, sleep, spent, power, hot, job, alive>> BY <1>1
<1>2. CASE Subscribe BY <1>2, Zenon DEF Subscribe, PowerStep, On, session, kills
<1>3. CASE Hold BY <1>3, Zenon DEF Hold, PowerStep, On, session, kills
<1>4. CASE Prepared
  <2>1. /\ power.at = "holding" /\ power' = [power EXCEPT !.at = "hot", !.signal = FALSE] /\ On
        /\ hot' = [hot EXCEPT !["guard"] = [at |-> "prepare", finish |-> "poweroff"]]
        /\ UNCHANGED <<cfg, alive, job, sleep, spent>>
    BY <1>4, Zenon DEF Prepared, PowerStep, HotBegin, session, kills
  <2>2. /\ power' \in [at : {"off", "start", "subscribed", "holding", "hot", "end"}, heard : BOOLEAN,
                        inhibit : {"none", "block", "delay"}, signal : BOOLEAN]
        /\ power'.at = "hot" /\ power'.inhibit = power.inhibit
    BY <2>1, Zenon
  <2>3. hot' \in [Runner -> Hots] /\ hot'["guard"].at = "prepare" BY <2>1, Zenon
  <2>4. \A r \in Runner : hot'[r].at \in {"kill", "done"} => job' # "none" BY <2>1, Zenon
  <2>5. StepsDone = 0 /\ StepsDone' = 1 BY <2>1, <2>2, <2>3, Zenon
  <2> HIDE DEF StepsDone
  <2>6. spent' \in Nat /\ (spent <= StepsDone => spent' <= StepsDone') BY <2>1, <2>5
  <2>7. AwakeWhileGuarded' BY <2>1, Zenon DEF On
  <2> QED BY <2>1, <2>2, <2>3, <2>4, <2>6, <2>7, Zenon
<1>5. CASE LetGo BY <1>5, Zenon DEF LetGo, PowerStep, On, session, kills
<1>6. CASE Operator BY <1>6 DEF Operator, HotBegin, HotStep, session, kills, sleeping
<1>7. ASSUME NEW r \in Runner, HotPrepare(r) PROVE Watchful'
  BY <1>7 DEF HotPrepare, HotStep, session, kills, sleeping
<1>8. ASSUME NEW r \in Runner, HotShells(r) PROVE Watchful'
  BY <1>0, <1>8 DEF HotShells, HotStep, KillShells, session, sleeping
<1>9. ASSUME NEW r \in Runner, HotEnqueue(r) PROVE Watchful'
  BY <1>9, SMTT(30) DEF HotEnqueue, HotStep, On, session, sleeping
<1>10. ASSUME NEW r \in Runner, HotKill(r) PROVE Watchful'
  <2>1. job # "none" /\ job' = job
    BY <1>10, Zenon DEF HotKill, HotStep, Killing, Visit, KillListed, KillRound, KillEnd
  <2>2. UNCHANGED <<cfg, sleep, spent, power>> /\ On BY <1>10, Zenon
      DEF HotKill, HotStep, session, sleeping
  <2>3. \A q \in Runner : hot'[q] = [hot[q] EXCEPT !.at = hot'[q].at]
                          /\ hot'[q].at \in {hot[q].at, "done"}
    BY <1>10 DEF HotKill
  <2>4. hot' \in [Runner -> Hots]
    BY <1>10 DEF HotKill
  <2>5. \A q \in Runner : hot'[q].at \in {"kill", "done"} => job' # "none" BY <2>1, Zenon
  <2>6. power.at = "hot" => hot'["guard"].at # "idle" BY <2>3, Zenon
  <2>7. AwakeWhileGuarded' BY <2>1, <2>2, Zenon DEF On
  <2> QED BY <2>1, <2>2, <2>4, <2>5, <2>6, <2>7, Zenon
<1>11. CASE SleepAsked
  <2>1. /\ power' = [power EXCEPT !.signal = power.heard /\ power.at # "end"]
        /\ sleep' = "preparing" /\ spent' = 0 /\ UNCHANGED <<cfg, alive, job, hot>>
    BY <1>11, Zenon DEF SleepAsked, session, kills
  <2>2. /\ power' \in [at : {"off", "start", "subscribed", "holding", "hot", "end"}, heard : BOOLEAN,
                        inhibit : {"none", "block", "delay"}, signal : BOOLEAN]
        /\ power'.at = power.at /\ power'.heard = power.heard /\ power'.inhibit = power.inhibit
        /\ power'.signal = (power.heard /\ power.at # "end")
    BY <2>1, Zenon
  <2>3. StepsDone' \in {0, 1, 2, 3} BY Zenon
  <2> HIDE DEF StepsDone
  <2>4. spent' \in Nat /\ spent' <= StepsDone' BY <2>1, <2>3
  <2> QED BY <2>1, <2>2, <2>4, Zenon
<1>12. CASE SleepGoes BY <1>12 DEF SleepGoes, Held, GuardSteps, session, kills
<1>18. CASE SleepWaits BY <1>18 DEF SleepWaits, GuardWorks, session, kills
<1>13. CASE SleepEnds BY <1>13, Zenon DEF SleepEnds, session, kills
<1>14. CASE Processes BY <1>0, <1>14 DEF Processes, Fork, Crash, Revive, session, sleeping
<1>15. CASE Shutdown \/ Return BY <1>15, Zenon DEF Shutdown, Return, On, session, sleeping
<1>16. CASE WatchProbe
  BY <1>16 DEF WatchProbe, HotBegin, kills, sleeping
<1>17. \/ UNCHANGED <<cfg, sleep, spent, power, hot, job, alive>> \/ Guard \/ Operator
       \/ \E r \in Runner : Hot(r)
       \/ SleepAsked \/ SleepWaits \/ SleepGoes \/ SleepEnds \/ Processes \/ Shutdown \/ Return \/ WatchProbe
  BY ZenonT(60) DEF Next, vars, session, kills, sleeping, Watcher, WatchTick, Sweep, SweepEnd,
     WatchAlerts, WatchSleep, VolumeChanges, Unmount, Mount, Still, Disks
<1> QED BY <1>1, <1>2, <1>3, <1>4, <1>5, <1>6, <1>7, <1>8, <1>9, <1>10, <1>11, <1>12, <1>13, Zenon,
           <1>14, <1>15, <1>16, <1>17, <1>18 DEF Guard, Hot

(* A session begins with nothing seen, nothing failed and everybody at work. *)
LEMMA BesideInit == Init => Clock /\ Reports /\ Watchful
<1> SUFFICES ASSUME Init PROVE Clock /\ Reports /\ Watchful BY Zenon
<1>1. Clock BY WatchAssumption DEF Init, Clock
<1>2. Reports
  <2>1. /\ mounts \in [Id -> Kinds] /\ told \in [Id -> 0..3]
        /\ table \in [mounts : [Id -> Kinds], volume : BOOLEAN]
        /\ seen \in [mounts : SUBSET Id, covers : SUBSET Id] /\ seen.mounts = {}
    BY DEF Init, NoMounts, Kinds
  <2>2. ASSUME NEW i \in Id PROVE Told(i) BY Zenon DEF Init, NoMounts, Told, Covers, Unguarded
  <2> QED BY <2>1, <2>2, ZenonT(60) DEF Reports
<1>3. Watchful
  <2>1. "guard" \in Proc \ Unborn BY KillAssumption, WatchAssumption, Zenon
  <2> QED BY <2>1, Zenon DEF Init, Watchful, AwakeWhileGuarded, Hots
<1> QED BY <1>1, <1>2, <1>3, Zenon

(* With ids that are not used again while a round may remember them, and no mount
   that hides the directory of the hidden root: the watcher starts an emergency
   only when it was asked to, for a volume that is not fine, when every probe over
   the whole debounce failed, and it reports every mount once (BackendWatch,
   probe_backend, tick_alerts). *)
THEOREM EmergencyIsJustified ==
  ASSUME {"reuse", "hides"} \cap Faults = {}
  PROVE  Spec => EmergencyJustified
<1>1. Reports => ReportedOnce
  BY DEF Reports, Told, ReportedOnce
<1>2. ASSUME Clock, Reports, Watchful, [Next]_vars,
             hot["watcher"].at = "idle", hot'["watcher"].at # "idle"
      PROVE  cfg.auto /\ down.failing /\ down.since >= Debounce /\ volume # "fine"
  <2>1. WatchProbe /\ watch'.at = "emergency" BY <1>2, WatcherFires, Zenon DEF Watchful
  <2>2. /\ watch' = Observe(watch, ~cfg.backend \/ ProbeBackend(Look) # "failed")
    BY <2>1, Zenon DEF WatchProbe
  <2>3. /\ cfg.backend /\ ProbeBackend(Look) = "failed"
        /\ watch.alerted /\ cfg.auto /\ watch.waited >= Debounce
    BY <1>2, <2>1, <2>2, Zenon DEF Observe, Clock
  <2>4. volume # "fine"
    <3> SUFFICES ASSUME volume = "fine" PROVE FALSE BY Zenon
    <3>1. Look.exists /\ Look.lists /\ Look.writable /\ Look.targets
      BY <1>2, Zenon DEF Look, Reports, Told
    <3>2. Look.top = "none" => Look.shadowed BY Zenon DEF Look
    <3>3. Look.top \in {"none", "foreign", "volume"} BY Zenon DEF Look
    <3> QED BY <2>3, <3>1, <3>2, <3>3, Zenon DEF ProbeBackend
  <2> QED BY <1>2, <2>3, <2>4, Zenon DEF Clock
<1>3. Clock /\ Reports /\ Watchful /\ [Next]_vars =>
         /\ [hot["watcher"].at = "idle" /\ hot'["watcher"].at # "idle"
                => cfg.auto /\ down.failing /\ down.since >= Debounce]_vars
         /\ [hot["watcher"].at = "idle" /\ hot'["watcher"].at # "idle" => volume # "fine"]_vars
  BY <1>2, Zenon
<1>4. Init => Clock /\ Reports /\ Watchful BY BesideInit, Zenon
<1>5. Clock /\ Reports /\ [Next]_vars => Reports' BY ReportsStep, Zenon
<1>6. Watchful /\ [Next]_vars => Watchful' BY WatchfulStep, Zenon
<1> QED BY <1>1, <1>3, <1>4, <1>5, <1>6, WatchGuardsDisks, DiskInvariant, ClockStep, PTL
    DEF Spec, EmergencyJustified, EmergencyDebounced, NoFalseEmergency

(* The safety part of SleepHeld: where logind's delay covers the guard's steps, the
   machine does not sleep while the guard waits with its inhibitor or runs its
   emergency, and never with a shutdown in the queue (run_guard). *)
THEOREM AwakeWhileHeld == Spec => []AwakeWhileGuarded
<1>1. Watchful => AwakeWhileGuarded BY Zenon DEF Watchful
<1>2. Init => Watchful BY BesideInit, Zenon
<1>3. Watchful /\ [Next]_vars => Watchful' BY WatchfulStep, Zenon
<1> QED BY <1>1, <1>2, <1>3, PTL DEF Spec

-----------------------------------------------------------------------------
(* The kill: every walk is sound, one that began has its job in the queue, and who
   is spared lives. *)
KillInv ==
    /\ KillTypeOK
    /\ \A r \in Runner : /\ Sound(r, walk[r], alive, atomic)
                         /\ walk[r].at # "none" => job # "none"
                         /\ hot[r].at = "done" => walk[r].at = "done"
    /\ SparesItsOwn

(* What the invariant needs of a step: nobody of the machinery dies, nobody on the hot
   path dies but by the hand of another who has a job queued, and a job stays. *)
LEMMA KillInvKept ==
  ASSUME KillInv, alive' \subseteq Proc, job' \in {"none", "return", "reboot", "poweroff", "off"},
         atomic' = atomic, walk' \in [Runner -> Walks],
         job # "none" => job' # "none",
         \A q \in Runner : /\ Sound(q, walk'[q], alive', atomic')
                           /\ walk[q].at # "none" => walk'[q].at # "none"
                           /\ walk'[q].at # "none" => job' # "none"
                           /\ hot'[q].at = "done" => walk'[q].at = "done",
         \A p \in alive : Kept(p) => p \in alive',
         \A q \in Runner : hot'[q].at \notin {"idle", "done"} /\ q \notin alive' =>
             \/ hot[q].at \notin {"idle", "done"} /\ q \notin alive
             \/ \E b \in Runner \ {q} : walk'[b].at # "none"
  PROVE  KillInv'
<1>1. ASSUME NEW q \in Runner, Sound(q, walk'[q], alive', atomic')
      PROVE  Sound(q, walk[q], alive, atomic)'
  BY <1>1, Zenon DEF Sound, Entry, Kept, Out, Ahead
<1>2. \A p \in Proc \ Unborn : Holders[Home[p]] \cap PassedOver # {} => p \in alive'
  BY Zenon DEF KillInv, SparesItsOwn, Kept
<1>3. ASSUME NEW q \in Runner, hot'[q].at \notin {"idle", "done"}, q \notin alive'
      PROVE  job' # "none" /\ \E b \in Runner \ {q} : walk'[b].at # "none"
  <2>1. CASE hot[q].at \notin {"idle", "done"} /\ q \notin alive
    <3>1. PICK b \in Runner \ {q} : walk[b].at # "none" BY <2>1, Zenon DEF KillInv, SparesItsOwn
    <3> QED BY <3>1, Zenon
  <2>2. CASE \E b \in Runner \ {q} : walk'[b].at # "none" BY <2>2, Zenon
  <2> QED BY <1>3, <2>1, <2>2, Zenon
<1>4. SparesItsOwn' BY <1>2, <1>3, Zenon DEF SparesItsOwn
<1>5. KillTypeOK' BY Zenon DEF KillInv, KillTypeOK
<1> QED BY <1>1, <1>4, <1>5, Zenon DEF KillInv

(* The kill in the session, with everything that goes on beside it. *)
LEMMA KillInvStep ==
  ASSUME hot \in [Runner -> Hots], KillInv, [Next]_vars
  PROVE  KillInv'
<1> USE WatchAssumption
<1>1. alive \subseteq Proc /\ walk \in [Runner -> Walks]
      /\ job \in {"none", "return", "reboot", "poweroff", "off"}
      /\ \A q \in Runner : /\ Sound(q, walk[q], alive, atomic)
                           /\ walk[q].at # "none" => job # "none"
                           /\ hot[q].at = "done" => walk[q].at = "done"
  BY Zenon DEF KillInv, KillTypeOK
<1>2. CASE UNCHANGED <<kills, hot>>
  BY <1>1, <1>2, KillInvKept, Zenon DEF kills
<1>3. ASSUME NEW r \in Runner, r \in alive, UNCHANGED kills,
             NEW h \in Hots, h.at # "done", hot' = [hot EXCEPT ![r] = h]
      PROVE  KillInv'
  <2>1. \A q \in Runner : hot'[q] = IF q = r THEN h ELSE hot[q] BY <1>3, Zenon
  <2>2. UNCHANGED <<alive, job, atomic, walk>> BY <1>3, Zenon DEF kills
  <2> QED BY <1>1, <1>3, <2>1, <2>2, KillInvKept
<1>4. ASSUME NEW r \in Runner, HotPrepare(r) PROVE KillInv'
  <2>1. PICK h \in Hots : h.at # "done" /\ hot' = [hot EXCEPT ![r] = h]
    <3>1. hot[r] \in Hots BY <1>4, Zenon
    <3>2. \/ hot' = [hot EXCEPT ![r] = [hot[r] EXCEPT !.at = "shells"]]
          \/ hot' = [hot EXCEPT ![r] = [at |-> "shells", finish |-> "poweroff"]]
      BY <1>4, Zenon DEF HotPrepare
    <3> QED BY <3>1, <3>2, Zenon DEF Hots
  <2> QED BY <1>3, <1>4, <2>1, Zenon DEF HotPrepare, HotStep
<1>5. CASE Operator
  <2>1. PICK f \in {"return", "reboot", "poweroff"} :
          hot' = [hot EXCEPT !["operator"] = [at |-> "prepare", finish |-> f]]
    BY <1>5, Zenon DEF Operator, HotBegin
  <2> DEFINE h == [at |-> "prepare", finish |-> f]
  <2>2. h \in Hots /\ h.at # "done" BY Zenon DEF Hots
  <2> HIDE DEF h
  <2>3. "operator" \in Runner /\ "operator" \in alive /\ UNCHANGED kills BY <1>5, Zenon
      DEF Operator, HotStep
  <2> QED BY <1>3, <2>1, <2>2, <2>3, Zenon DEF h
<1>6. CASE Prepared
  <2>1. hot' = [hot EXCEPT !["guard"] = [at |-> "prepare", finish |-> "poweroff"]]
    BY <1>6, Zenon DEF Prepared, HotBegin
  <2> DEFINE h == [at |-> "prepare", finish |-> "poweroff"]
  <2>2. h \in Hots /\ h.at # "done" BY Zenon DEF Hots
  <2> HIDE DEF h
  <2>3. "guard" \in Runner /\ "guard" \in alive /\ UNCHANGED kills BY <1>6, Zenon
      DEF Prepared, PowerStep
  <2> QED BY <1>3, <2>1, <2>2, <2>3, Zenon DEF h
<1>7. CASE WatchProbe
  <2>1. \/ UNCHANGED hot
        \/ hot' = [hot EXCEPT !["watcher"] = [at |-> "prepare", finish |-> "return"]]
    BY <1>7, Zenon DEF WatchProbe, HotBegin
  <2> QED BY <1>2, <1>3, <1>7, <2>1 DEF WatchProbe, WatchStep, Hots
<1>8. ASSUME NEW r \in Runner, HotShells(r) PROVE KillInv'
  <2>1. /\ r \in alive /\ alive' = alive \ (Shell \ {r, Pid1}) /\ UNCHANGED <<job, atomic, walk>>
        /\ hot[r].at = "shells" /\ hot' = [hot EXCEPT ![r].at = "enqueue"]
    BY <1>8, Zenon DEF HotShells, HotStep, KillShells
  <2>2. \A q \in Runner : q \in alive => q \in alive' BY <2>1, KillAssumption, Zenon
  <2>3. \A q \in Runner : Sound(q, walk'[q], alive', atomic') BY <1>1, <2>1, SoundFewer
  <2>4. \A p \in alive : Kept(p) => p \in alive' BY <1>1, <2>1, KillAssumption, Zenon DEF Kept
  <2>5. \A q \in Runner : hot'[q].at = hot[q].at \/ (q = r /\ hot'[q].at = "enqueue") BY <2>1
  <2> QED BY <1>1, <2>1, <2>2, <2>3, <2>4, <2>5, KillInvKept, ZenonT(60)
<1>9. ASSUME NEW r \in Runner, HotEnqueue(r) PROVE KillInv'
  <2> DEFINE spare == {p \in alive : InInvocation(r, p)}
             v == [at |-> "visit", todo |-> Entries(Root), protected |-> {Home[p] : p \in spare},
                       spare |-> spare, hits |-> {}, round |-> 0, dir |-> Root]
  <2>1. /\ r \in alive /\ UNCHANGED <<alive, atomic>> /\ walk' = [walk EXCEPT ![r] = v]
        /\ hot' = [hot EXCEPT ![r].at = "kill"]
        /\ job' = hot[r].finish \/ job' \in {"poweroff", "off"}
    BY <1>9, Zenon DEF HotEnqueue, HotStep, KillBegin
  <2>2. job' \in {"return", "reboot", "poweroff", "off"} BY <2>1, Zenon DEF Hots
  <2>3. r \in spare BY <2>1, Zenon DEF InInvocation
  <2>4. Sound(r, v, alive, atomic)
    <3>1. spare \in SUBSET Proc BY <1>1, Zenon
    <3> HIDE DEF spare
    <3> QED BY <1>1, <2>3, <3>1, SoundBegin, Zenon
  <2>5. v \in Walks /\ v.at = "visit"
    BY <2>4, Zenon DEF Sound
  <2> HIDE DEF v
  <2>6. /\ walk' \in [Runner -> Walks] /\ walk'[r] = v
        /\ \A q \in Runner \ {r} : walk'[q] = walk[q]
    BY <1>1, <2>1, <2>5, Zenon
  <2>7. \A q \in Runner : Sound(q, walk'[q], alive', atomic') BY <1>1, <2>1, <2>4, <2>6
  <2>8. \A q \in Runner : hot'[q].at = IF q = r THEN "kill" ELSE hot[q].at BY <2>1
  <2> QED BY <1>1, <2>1, <2>2, <2>5, <2>6, <2>7, <2>8, KillInvKept
<1>10. ASSUME NEW r \in Runner, HotKill(r) PROVE KillInv'
  <2>1. /\ Killing(r) /\ hot[r].at = "kill" /\ r \in alive
        /\ hot' = [hot EXCEPT ![r].at = IF walk'[r].at = "done" THEN "done" ELSE @]
    BY <1>10, Zenon DEF HotKill, HotStep
  <2>2. /\ walk' \in [Runner -> Walks] /\ \A q \in Runner \ {r} : walk'[q] = walk[q]
        /\ walk[r].at = "visit" /\ walk'[r].at # "none"
        /\ Sound(r, walk'[r], alive', atomic)
        /\ alive' \subseteq alive /\ \A p \in alive \ alive' : p # r /\ ~Kept(p)
        /\ UNCHANGED <<job, atomic>>
    <3>1. KillTypeOK BY Zenon DEF KillInv
    <3> QED BY <1>1, <2>1, <3>1, KillStep, Zenon
  <2>3. \A q \in Runner : Sound(q, walk'[q], alive', atomic') BY <1>1, <2>2, SoundFewer
  <2>4. \A q \in Runner : hot'[q].at = IF q = r /\ walk'[r].at = "done" THEN "done" ELSE hot[q].at
    BY <2>1
  <2>5. job # "none" BY <1>1, <2>2, Zenon
  <2>6. r \in alive' BY <2>1, <2>2, Zenon
  <2>7. \A q \in Runner : hot'[q].at \notin {"idle", "done"} /\ q \notin alive' =>
          \E b \in Runner \ {q} : walk'[b].at # "none"
    BY <2>2, <2>6, Zenon
  <2>8. \A q \in Runner : /\ Sound(q, walk'[q], alive', atomic')
                          /\ walk[q].at # "none" => walk'[q].at # "none"
                          /\ hot'[q].at = "done" => walk'[q].at = "done"
    BY <1>1, <2>1, <2>2, <2>3, <2>4
  <2>9. alive' \subseteq Proc /\ \A p \in alive : Kept(p) => p \in alive' BY <1>1, <2>2, Zenon
  <2> QED BY <1>1, <2>2, <2>5, <2>7, <2>8, <2>9, KillInvKept, Zenon
<1>11. CASE Processes
  <2>1. UNCHANGED <<job, atomic, walk, hot>> BY <1>11, Zenon DEF Processes, Fork, Crash, Revive
  <2>2. PICK p \in Proc : Fork(p) \/ Crash(p) \/ Revive(p) BY <1>11, Zenon DEF Processes
  <2>3. CASE Crash(p)
    <3>1. alive' = alive \ {p} /\ p \in Restarting BY <2>3, Zenon DEF Crash
    <3>2. \A q \in Runner : Sound(q, walk'[q], alive', atomic') BY <1>1, <2>1, <3>1, SoundFewer
    <3>3. ~Kept(p) /\ p \notin Runner BY <3>1, KillAssumption, Zenon DEF Kept
    <3> QED BY <1>1, <2>1, <3>1, <3>2, <3>3, KillInvKept, Zenon
  <2>4. CASE Fork(p)
    <3>1. alive' = alive \cup {p} /\ p \in Unborn /\ Ppid[p] \in alive BY <2>4, Zenon DEF Fork
    <3>2. \A q \in Runner : Sound(q, walk'[q], alive', atomic')
      BY <1>1, <2>1, <3>1, SoundFork, Zenon
    <3> QED BY <1>1, <2>1, <3>1, <3>2, KillInvKept, Zenon
  <2>5. CASE Revive(p)
    <3>1. alive' = alive \cup {p} /\ job = "none" BY <2>5, Zenon DEF Revive
    <3>2. \A q \in Runner : walk[q].at = "none" BY <1>1, <3>1, Zenon
    <3>3. \A q \in Runner : Sound(q, walk'[q], alive', atomic') BY <1>1, <2>1, <3>2, ZenonT(60)
        DEF Sound
    <3> QED BY <1>1, <2>1, <3>1, <3>3, KillInvKept, Zenon
  <2> QED BY <2>2, <2>3, <2>4, <2>5, Zenon
<1>12. CASE Shutdown \/ Return
  <2>1. UNCHANGED <<alive, atomic, walk, hot>> /\ job' = "off" BY <1>12, Zenon DEF Shutdown, Return
  <2> QED BY <1>1, <2>1, KillInvKept, Zenon
<1>13. \/ UNCHANGED <<kills, hot>> \/ Operator \/ Prepared \/ WatchProbe
       \/ \E r \in Runner : Hot(r)
       \/ Processes \/ Shutdown \/ Return
  BY Zenon
      DEF Next, vars, kills, Guard, Subscribe, Hold, LetGo, SleepAsked, SleepWaits, SleepGoes, SleepEnds,
     Watcher, WatchTick, Sweep, SweepEnd, WatchAlerts, WatchSleep, VolumeChanges, Unmount, Mount,
     Still, Disks
<1> QED BY <1>2, <1>4, <1>5, <1>6, <1>7, <1>8, <1>9, <1>10, <1>11, <1>12, <1>13, SMTT(30) DEF Hot

(* Before any emergency nobody walks and everybody is alive. *)
LEMMA KillInvInit == Init => KillInv
<1> SUFFICES ASSUME Init PROVE KillInv OBVIOUS
<1>1. cfg.atomic \in BOOLEAN /\ atomic = cfg.atomic BY WatchAssumption, Zenon DEF Init
<1>2. walk = [r \in Runner |-> NoWalk] /\ alive = Proc \ Unborn /\ job = "none"
      /\ \A r \in Runner : hot[r].at = "idle"
  BY Zenon DEF Init
<1>3. NoWalk \in Walks
  <2>1. 0 \in 0..3 BY SMTT(30)
  <2> QED BY <2>1, NothingToDo, Zenon DEF NoWalk, Walks
<1>4. \A r \in Runner : Sound(r, NoWalk, alive, atomic)
  <2>1. /\ NoWalk.todo = <<>> /\ NoWalk.at = "none" /\ NoWalk.spare = {} /\ NoWalk.protected = {}
        /\ NoWalk.hits = {} /\ NoWalk.round = 0
    BY Zenon DEF NoWalk
  <2>2. Elements(NoWalk.todo) = {} BY <2>1 DEF Elements
  <2>3. NoWalk.protected = {Home[p] : p \in NoWalk.spare} BY <2>1, Zenon
  <2>4. \A e \in Elements(NoWalk.todo) : Entry(NoWalk, e) BY <2>2, Zenon
  <2> HIDE DEF NoWalk
  <2> QED BY <1>3, <2>1, <2>3, <2>4 DEF Sound
<1>5. SparesItsOwn BY <1>2, Zenon DEF SparesItsOwn
<1>6. KillTypeOK BY <1>1, <1>2, <1>3, Zenon DEF KillTypeOK
<1> QED BY <1>2, <1>4, <1>5, <1>6, Zenon DEF KillInv, NoWalk

(* The invariant says that nobody is left. *)
LEMMA KillInvSays == KillInv => KillTypeOK /\ NobodyLeft /\ SparesItsOwn
BY ZenonT(60) DEF KillInv, NobodyLeft, Sound, Out

-----------------------------------------------------------------------------
(* The rest of what the session's state is made of. *)
Types ==
    /\ cfg \in Configs /\ volume \in {"fine", "dead", "readonly", "gone", "torn"}
    /\ mounts \in [Id -> Kinds] /\ table \in [mounts : [Id -> Kinds], volume : BOOLEAN]
    /\ seen \in [mounts : SUBSET Id, covers : SUBSET Id] /\ told \in [Id -> 0..3]
    /\ sleep \in {"awake", "preparing", "asleep"} /\ spent \in 0..cfg.delay

(* Every step keeps the types (watcher/mod.rs, cover.rs). *)
LEMMA TypesStep == Types /\ [Next]_vars => Types'
<1> SUFFICES ASSUME Types, [Next]_vars PROVE Types' OBVIOUS
<1> USE DEF Types
<1>1. CASE UNCHANGED <<cfg, volume, mounts, table, seen, told, sleep, spent>> BY <1>1, Zenon
<1>2. CASE WatchTick BY <1>2, Zenon DEF WatchTick, sleeping
<1>3. CASE WatchAlerts
  <2> DEFINE t == TickAlerts(table, seen)
             reports(i) == (IF i \in t.cover THEN 1 ELSE 0) + (IF i \in t.disk THEN 1 ELSE 0)
  <2>1. t.mounts \subseteq Id /\ t.covers \subseteq Id BY Zenon
      DEF TickAlerts, Covers, Unguarded, Mounted
  <2>2. /\ seen' = [mounts |-> t.mounts, covers |-> t.covers]
        /\ told' = [i \in Id |-> IF mounts[i] = table.mounts[i] /\ told[i] < 2
                                 THEN told[i] + reports(i) ELSE told[i]]
        /\ UNCHANGED <<cfg, volume, mounts, table, sleep, spent>>
    BY <1>3, Zenon DEF WatchAlerts, sleeping
  <2> HIDE DEF t
  <2>3. \A i \in Id : reports(i) \in 0..2 BY SMTT(30)
  <2> HIDE DEF reports
  <2>4. told' \in [Id -> 0..3] BY <2>2, <2>3
  <2> QED BY <2>1, <2>2, <2>4, Zenon
<1>4. ASSUME NEW v \in {"fine", "dead", "readonly", "gone", "torn"}, VolumeChanges(v) PROVE Types'
  BY <1>4, Zenon DEF VolumeChanges, Still, sleeping
<1>5. ASSUME NEW i \in Id, NEW k \in Kinds \ {"none"}, Mount(i, k) PROVE Types'
  BY <1>5, Zenon DEF Mount, Still, sleeping
<1>6. ASSUME NEW i \in Id, Unmount(i) PROVE Types'
  BY <1>6 DEF Unmount, Still, sleeping, Kinds
<1>7. CASE SleepAsked \/ SleepWaits \/ SleepGoes \/ SleepEnds
  <2>1. cfg.delay \in Nat BY WatchAssumption
  <2>2. spent' \in {0, spent, spent + 1} /\ (spent' = spent + 1 => spent < cfg.delay \/ spent' = spent)
    BY <1>7 DEF SleepAsked, SleepWaits, SleepGoes, SleepEnds
  <2>3. spent' \in 0..cfg.delay BY <2>1, <2>2
  <2> QED BY <1>7, <2>3, Zenon DEF SleepAsked, SleepWaits, SleepGoes, SleepEnds, session
<1>8. \/ UNCHANGED <<cfg, volume, mounts, table, seen, told, sleep, spent>> \/ WatchTick \/ WatchAlerts
      \/ \E v \in {"fine", "dead", "readonly", "gone", "torn"} : VolumeChanges(v)
      \/ \E i \in Id : Unmount(i) \/ \E k \in Kinds \ {"none"} : Mount(i, k)
      \/ SleepAsked \/ SleepWaits \/ SleepGoes \/ SleepEnds
  BY Zenon
      DEF Next, vars, session, sleeping, Watcher, Sweep, SweepEnd, WatchSleep, WatchProbe, Guard,
     Subscribe, Hold, Prepared, LetGo, Operator, Hot, HotPrepare, HotShells, HotEnqueue, HotKill,
     Disks, Processes, Shutdown, Return
<1> QED BY <1>1, <1>2, <1>3, <1>4, <1>5, <1>6, <1>7, <1>8

(* With any tree of cgroups, any processes and any number of emergencies at once:
   when a kill with cgroup.kill is through nobody of the hidden userspace is left
   that was not spared, does not belong to the machinery and is not next to the
   invocation, however processes fork and services are revived; the machinery that
   only slices hold lives on, and a runner that dies half way was killed by one
   whose job is in the queue (kill_userspace, visit, cgroup::kill). *)
THEOREM KillIsExact == Spec => []KillExact
<1>1. Init => Types /\ Clock /\ Watchful /\ KillInv
  <2>1. ASSUME Init PROVE Types
    <3>1. mounts = [i \in Id |-> "none"] /\ told = [i \in Id |-> 0] /\ "none" \in Kinds /\ 0 \in 0..3
      BY <2>1 DEF Init, NoMounts, Kinds
    <3>2. /\ cfg \in Configs /\ volume = "fine" /\ sleep = "awake"
          /\ table = [mounts |-> mounts, volume |-> TRUE] /\ seen = [mounts |-> {}, covers |-> {}]
      BY <2>1, ZenonT(60) DEF Init
    <3>3. spent \in 0..cfg.delay BY <2>1, <3>2, WatchAssumption DEF Init
    <3> QED BY <3>1, <3>2, <3>3, ZenonT(60) DEF Types
  <2> QED BY <2>1, BesideInit, KillInvInit, Zenon
<1>2. KillInv /\ Watchful /\ [Next]_vars => KillInv' BY KillInvStep, Zenon DEF Watchful
<1>3. DiskInv /\ Types /\ Clock /\ Watchful /\ KillInv => KillExact
  <2> SUFFICES ASSUME DiskInv, Types, Clock, Watchful, KillInv PROVE KillExact BY Zenon
  <2>1. TypeOK
    <3>1. DiskTypeOK /\ KillTypeOK BY KillInvSays, Zenon DEF DiskInv
    <3> QED BY <3>1, Zenon DEF TypeOK, Types, Clock, Watchful, Hots
  <2> QED BY <2>1, KillInvSays, Zenon DEF KillExact
<1> QED
  BY <1>1, <1>2, <1>3, TypesStep, ClockStep, WatchfulStep, WatchGuardsDisks, DiskInvariant, PTL
    DEF Spec
=============================================================================
