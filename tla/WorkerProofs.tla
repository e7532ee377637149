---------------------------- MODULE WorkerProofs ---------------------------
(***************************************************************************)
(* What two crews of threads promise.  The copying of the closure, for any *)
(* store and any number of workers: the hidden closure stays whole on the  *)
(* hidden volume, but for the paths of which keep_closure cannot tell a    *)
(* part from the whole (suspect, of module Store).  The process runner, for pipes  *)
(* of any size and programs that write any amount: the whole output or a   *)
(* clean timeout, and a program that runs as it was asked to.              *)
(***************************************************************************)
EXTENDS Store, ChildProcess, TLAPS

Kept(p) == p \in suspect \/ upper[p] = Whole \/ (upper[p] = {} /\ p \notin db)
Staying(i) == /\ i[1] \in closure
              /\ i[1] \in suspect \/ (i[1] \notin keptRecord /\ lower[i[1]] = Whole)
Owed == closure \ (keptRecord \cup suspect)
Underway(p, x) == x \in upper[p] \/ <<p, x>> \in items \/ \E w \in Workers : held[w] = <<p, x>>

(* What the record lists is whole, or gone and to be built again; what is half
   copied is whole in the decoy and not listed; a copy accounts for every part
   of what it has to keep.  All of it but for the suspect paths. *)
StoreInv ==
    /\ StoreTypeOK
    /\ \A p \in keptRecord : Kept(p)
    /\ white \cap db = {}
    /\ \A p \in StorePaths : Torn(p) => lower[p] = Whole \/ p \in suspect
    /\ serves \subseteq StorePaths /\ serves \cap white = {}
    /\ \A p \in serves : upper[p] = Whole \/ p \in suspect
    /\ entryStep \in {"keep", "copy", "joined", "session"} => closure \subseteq db
    /\ entryStep = "session" => serves = closure
    /\ entryStep = "copy" =>
         /\ \A i \in items : Staying(i)
         /\ \A w \in Workers : held[w] # NoItem => Staying(held[w])
         /\ ~failure => \A p \in Owed, x \in Whole : Underway(p, x)
    /\ entryStep = "joined" /\ ~failure /\ ~stop =>
         \A p \in Owed : upper[p] = Whole

(* The stores begin with nothing on the hidden volume. *)
LEMMA StoreInvInit == StoreInit => StoreInv
<1>. SUFFICES ASSUME StoreInit PROVE StoreInv
  BY Zenon
<1>1. StoreTypeOK
  <2>1. lower \in [StorePaths -> {{}, Whole}] /\ db \subseteq StorePaths
    BY Zenon DEF StoreInit
  <2>2. upper \in [StorePaths -> SUBSET Whole]
    BY Zenon DEF StoreInit
  <2>3. held \in [Workers -> StorePaths \X Whole \cup {NoItem}]
    BY Zenon DEF StoreInit, IdleWorkers
  <2>4. entries \in 0 .. MaxEntries
    BY StoreAssumption DEF StoreInit
  <2>. QED
    BY <2>1, <2>2, <2>3, <2>4, Zenon DEF StoreInit, StoreTypeOK
<1>. QED
  BY <1>1, Zenon DEF StoreInit, StoreInv, Torn

(* A path on the record is not to be copied again while an entry runs. *)
LEMMA TodoUnlisted ==
    ASSUME StoreInv, closure \subseteq db
    PROVE  Todo \ suspect = Owed
BY Zenon DEF StoreInv, Todo, InUpper, Kept, Whole, Owed

-----------------------------------------------------------------------------
(* The entry up to the copy keeps the invariant: what the database does not list
   is built into the upper, what it lists is trusted (build_into). *)
LEMMA BuildKeeps ==
    ASSUME StoreInv, BeginEntry \/ ForgetVanished \/ BuildInto
    PROVE  StoreInv'
<1>1. CASE BeginEntry
  BY <1>1, StoreAssumption
      DEF BeginEntry, StoreInv, StoreTypeOK, StoreLayers, CopyState, Kept, Torn
<1>2. CASE ForgetVanished
  BY <1>2, Zenon DEF ForgetVanished, StoreInv, StoreTypeOK, StoreLayers, CopyState, Kept, Torn
<1>3. CASE BuildInto
  <2>1. PICK c \in SUBSET StorePaths :
             /\ closure' = c
             /\ upper' = [p \in StorePaths |-> IF p \in c \ db THEN Whole ELSE upper[p]]
             /\ white' = white \ (c \ db)
             /\ db' = db \cup c /\ suspect' = suspect \ (c \ db)
    BY <1>3, Zenon DEF BuildInto
  <2>2. /\ entryStep' = "keep"
        /\ UNCHANGED <<lower, keptRecord, items, held, failure, stop, entries, serves>>
    BY <1>3, Zenon DEF BuildInto, CopyState
  <2>3. \A p \in StorePaths : upper'[p] = IF p \in c \ db THEN Whole ELSE upper[p]
    BY <2>1, Zenon
  <2>4. upper' \in [StorePaths -> SUBSET Whole]
    BY <2>1, Zenon DEF StoreInv, StoreTypeOK
  <2>5. StoreTypeOK'
    BY <2>1, <2>2, <2>3, <2>4, Zenon DEF StoreInv, StoreTypeOK
  <2>6. \A p \in keptRecord' : Kept(p)'
    BY <2>1, <2>2, <2>3, Zenon DEF StoreInv, StoreTypeOK, Kept
  <2>7. (white \cap db = {})'
    BY <2>1, Zenon DEF StoreInv
  <2>8. \A p \in StorePaths : Torn(p)' => lower'[p] = Whole \/ p \in suspect'
    BY <2>1, <2>2, <2>3, Zenon DEF StoreInv, Torn
  <2>9. \A p \in serves' : upper'[p] = Whole \/ p \in suspect'
    BY <2>1, <2>2, <2>3, Zenon DEF StoreInv
  <2>. QED
    BY <2>1, <2>2, <2>5, <2>6, <2>7, <2>8, <2>9, Zenon DEF StoreInv
<1>. QED
  BY <1>1, <1>2, <1>3, Zenon

(* What keep_closure sets out to copy is whole in the decoy, and its items and
   the upper together are all of it. *)
LEMMA KeepKeeps ==
    ASSUME StoreInv, KeepClosure
    PROVE  StoreInv'
<1>. USE DEF StoreLayers, CopyState
<1>1. closure \subseteq db /\ Todo \ suspect = Owed
  BY TodoUnlisted, Zenon DEF KeepClosure, StoreInv
<1>2. UNCHANGED <<lower, upper, white, db, keptRecord, closure, entries, suspect>>
  BY Zenon DEF KeepClosure
<1>3. CASE Todo = {} /\ entryStep' = "session" /\ serves' = closure
           /\ UNCHANGED <<items, held, failure, stop>>
  <2>1. \A p \in closure : upper[p] = Whole \/ p \in suspect
    BY <1>1, <1>3, Zenon DEF StoreInv, Kept, Owed
  <2>. QED
    BY <1>1, <1>2, <1>3, <2>1, Zenon DEF StoreInv, StoreTypeOK, Kept, Torn
<1>4. CASE entryStep' = "decoy" /\ UNCHANGED <<items, held, failure, stop, serves>>
  BY <1>2, <1>4, Zenon DEF StoreInv, StoreTypeOK, Kept, Torn
<1>5. CASE /\ \A p \in Todo : Merged(p) # {}
           /\ items' = UNION {Pending(p) : p \in Todo}
           /\ held' = IdleWorkers /\ failure' = FALSE /\ stop' = FALSE
           /\ entryStep' = "copy" /\ UNCHANGED serves
  <2>1. \A p \in Todo : p \in StorePaths /\ p \notin white /\ Merged(p) = upper[p] \cup lower[p]
    BY <1>1, Zenon DEF StoreInv, StoreTypeOK, Merged, Todo
  <2>2. \A p \in Todo : upper[p] = Whole \/ lower[p] = Whole \/ p \in suspect
    BY <1>5, <2>1, Zenon DEF StoreInv, StoreTypeOK, Torn
  <2>3. \A p \in Todo : Merged(p) \subseteq Whole /\ (p \notin suspect => Merged(p) = Whole)
    BY <2>1, <2>2 DEF StoreInv, StoreTypeOK, Whole
  <2>4. \A i \in items' : i \in StorePaths \X Whole /\ i[1] \in Todo /\ (i[1] \in suspect \/ lower[i[1]] = Whole)
    BY <1>5, <2>1, <2>2, <2>3 DEF Pending
  <2>5. \A p \in Todo \ suspect, x \in Whole : x \in upper[p] \/ <<p, x>> \in items'
    BY <1>5, <2>3 DEF Pending
  <2>6. StoreTypeOK'
    BY <1>2, <1>5, <2>4, Zenon DEF StoreInv, StoreTypeOK, IdleWorkers
  <2>7. \A i \in items' : Staying(i)'
    BY <1>1, <1>2, <2>4, Zenon DEF Staying, Owed, Todo
  <2>8. \A w \in Workers : held'[w] = NoItem
    BY <1>5, Zenon DEF IdleWorkers
  <2>9. \A p \in Owed', x \in Whole : Underway(p, x)'
    BY <1>1, <1>2, <2>5, Zenon DEF Underway, Owed
  <2>10. \A p \in keptRecord' : Kept(p)'
    BY <1>2, Zenon DEF StoreInv, Kept
  <2>11. \A p \in StorePaths : Torn(p)' => lower'[p] = Whole \/ p \in suspect'
    BY <1>2, Zenon DEF StoreInv, Torn
  <2>. QED
    BY <1>1, <1>2, <1>5, <2>6, <2>7, <2>8, <2>9, <2>10, <2>11, Zenon DEF StoreInv
<1>. QED
  BY <1>3, <1>4, <1>5, Zenon DEF KeepClosure

(* A worker that takes an item leaves it accounted for (copy_all). *)
LEMMA TakeKeeps ==
    ASSUME StoreInv, NEW w \in Workers, TakeItem(w)
    PROVE  StoreInv'
<1>1. PICK i \in items : held' = [held EXCEPT ![w] = i] /\ items' = items \ {i}
  BY Zenon DEF TakeItem
<1>2. /\ entryStep = "copy" /\ held[w] = NoItem
      /\ UNCHANGED <<lower, upper, white, db, keptRecord, entryStep, closure, failure, stop, entries, serves, suspect>>
  BY Zenon DEF TakeItem, StoreLayers
<1>3. \A v \in Workers : held'[v] = IF v = w THEN i ELSE held[v]
  BY <1>1, Zenon DEF StoreInv, StoreTypeOK
<1>4. StoreTypeOK'
  BY <1>1, <1>2, Zenon DEF StoreInv, StoreTypeOK
<1>5. \A j \in items' : Staying(j)'
  BY <1>1, <1>2, Zenon DEF StoreInv, Staying
<1>6. \A v \in Workers : held'[v] # NoItem => Staying(held[v])'
  BY <1>1, <1>2, <1>3 DEF StoreInv, Staying
<1>7. ASSUME NEW p \in Owed, NEW x \in Whole, Underway(p, x)
      PROVE  Underway(p, x)'
  <2>1. <<p, x>> # NoItem
    BY Zenon DEF NoItem
  <2>. QED
    BY <1>1, <1>2, <1>3, <1>7, <2>1, Zenon DEF Underway
<1>8. \A p \in keptRecord' : Kept(p)'
  BY <1>2, Zenon DEF StoreInv, Kept
<1>9. \A p \in StorePaths : Torn(p)' => lower'[p] = Whole \/ p \in suspect'
  BY <1>2, Zenon DEF StoreInv, Torn
<1>. QED
  BY <1>2, <1>4, <1>5, <1>6, <1>7, <1>8, <1>9, Zenon DEF StoreInv, Owed

(* A copied item is in the upper; a failed one is told by the flag (copy_up). *)
LEMMA CopyKeeps ==
    ASSUME StoreInv, NEW w \in Workers, CopyUp(w)
    PROVE  StoreInv'
<1>1. PICK p \in StorePaths, x \in Whole : held[w] = <<p, x>>
  BY DEF CopyUp, StoreInv, StoreTypeOK
<1>2. /\ p \in suspect \/ (p \notin keptRecord /\ lower[p] = Whole)
      /\ p \in db /\ p \notin white
  <2>1. Staying(held[w])
    BY Zenon DEF CopyUp, StoreInv
  <2>2. <<p, x>>[1] = p
    BY Zenon
  <2>3. p \in closure /\ (p \in suspect \/ (p \notin keptRecord /\ lower[p] = Whole))
    BY <1>1, <2>1, <2>2, Zenon DEF Staying
  <2>. QED
    BY <2>3, Zenon DEF CopyUp, StoreInv
<1>3. /\ entryStep = "copy" /\ held' = [held EXCEPT ![w] = NoItem]
      /\ UNCHANGED <<lower, white, db, keptRecord, entryStep, closure, items, stop, entries, serves, suspect>>
  BY Zenon DEF CopyUp
<1>4. \A v \in Workers : held'[v] = IF v = w THEN NoItem ELSE held[v]
  BY <1>3, Zenon DEF StoreInv, StoreTypeOK
<1>5. held' \in [Workers -> StorePaths \X Whole \cup {NoItem}]
  BY <1>3, Zenon DEF StoreInv, StoreTypeOK
<1>6. \A i \in items' : Staying(i)'
  BY <1>3, Zenon DEF StoreInv, Staying
<1>7. \A v \in Workers : held'[v] # NoItem => Staying(held[v])'
  BY <1>3, <1>4 DEF StoreInv, Staying
<1>8. CASE failure' = TRUE /\ UNCHANGED upper
  <2>1. StoreTypeOK'
    BY <1>3, <1>5, <1>8, Zenon DEF StoreInv, StoreTypeOK
  <2>2. \A q \in keptRecord' : Kept(q)'
    BY <1>3, <1>8, Zenon DEF StoreInv, Kept
  <2>3. \A q \in StorePaths : Torn(q)' => lower'[q] = Whole \/ q \in suspect'
    BY <1>3, <1>8, Zenon DEF StoreInv, Torn
  <2>. QED
    BY <1>3, <1>6, <1>7, <1>8, <2>1, <2>2, <2>3, Zenon DEF StoreInv
<1>9. CASE upper' = [upper EXCEPT ![p] = @ \cup {x, "top"}] /\ UNCHANGED failure
  <2>1. \A q \in StorePaths : upper'[q] = IF q = p THEN upper[q] \cup {x, "top"} ELSE upper[q]
    BY <1>9, Zenon DEF StoreInv, StoreTypeOK
  <2>2. upper' \in [StorePaths -> SUBSET Whole]
    BY <1>9, Zenon DEF StoreInv, StoreTypeOK, Whole
  <2>3. StoreTypeOK'
    BY <1>2, <1>3, <1>5, <1>9, <2>1, <2>2, Zenon DEF StoreInv, StoreTypeOK
  <2>4. \A q \in keptRecord' : Kept(q)'
    BY <1>2, <1>3, <2>1, Zenon DEF StoreInv, StoreTypeOK, Kept
  <2>5. \A q \in StorePaths : Torn(q)' => lower'[q] = Whole \/ q \in suspect'
    BY <1>2, <1>3, <2>1, Zenon DEF StoreInv, Torn
  <2>6. \A q \in serves' : upper'[q] = Whole \/ q \in suspect'
    BY <1>3, <2>1, Zenon DEF StoreInv, Whole
  <2>7. ASSUME NEW q \in Owed, NEW y \in Whole, Underway(q, y)
        PROVE  Underway(q, y)'
    <3>1. q \in StorePaths
      BY Zenon DEF StoreInv, StoreTypeOK, Owed
    <3>2. y \in upper[q] => y \in upper'[q]
      BY <2>1, <3>1, Zenon
    <3>3. held[w] = <<q, y>> => y \in upper'[q]
      <4>1. <<p, x>> = <<q, y>> => p = q /\ x = y
        BY Zenon
      <4>2. y \in {y, "top"}
        BY Zenon
      <4>. QED
        BY <1>1, <2>1, <3>1, <4>1, <4>2, Zenon
    <3>. QED
      BY <1>3, <1>4, <2>7, <3>2, <3>3, Zenon DEF Underway
  <2>. QED
    BY <1>3, <1>6, <1>7, <1>9, <2>3, <2>4, <2>5, <2>6, <2>7, Zenon DEF StoreInv, Owed
<1>10. held[w][1] = p /\ held[w][2] = x
  BY <1>1
<1>. QED
  BY <1>8, <1>9, <1>10, Zenon DEF CopyUp

(* When the workers are joined with nothing left and no failure, everything the
   entry had to keep is in the upper; only then is it put on the record. *)
LEMMA JoinKeeps ==
    ASSUME StoreInv, CancelCopy \/ JoinWorkers \/ WriteRecord \/ EntryDies
    PROVE  StoreInv'
<1>. USE DEF StoreLayers, CopyState
<1>1. CASE CancelCopy
  BY <1>1, ZenonT(60) DEF CancelCopy, StoreInv, StoreTypeOK, Kept, Torn, Staying, Underway, Owed
<1>2. CASE JoinWorkers
  <2>1. ~failure /\ ~stop => \A p \in Owed : Whole \subseteq upper[p]
    <3>1. \A v \in Workers, p \in StorePaths, x \in Whole : held[v] # <<p, x>>
      BY <1>2, Zenon DEF JoinWorkers, IdleWorkers, NoItem
    <3>2. ~failure /\ ~stop => items = {}
      BY <1>2, Zenon DEF JoinWorkers
    <3>3. ~failure => \A p \in Owed, x \in Whole : p \in StorePaths /\ Underway(p, x)
      BY <1>2, Zenon DEF JoinWorkers, StoreInv, StoreTypeOK, Owed
    <3>. QED
      BY <3>1, <3>2, <3>3, ZenonT(60) DEF Underway
  <2>2. UNCHANGED <<lower, upper, white, db, keptRecord, closure, items, held, failure, stop, entries, serves, suspect>>
    BY <1>2, Zenon DEF JoinWorkers
  <2>3. entryStep = "copy" /\ entryStep' = "joined"
    BY <1>2, Zenon DEF JoinWorkers
  <2>4. ~failure /\ ~stop => \A p \in Owed : upper[p] = Whole
    BY <2>1, ZenonT(60) DEF StoreInv, StoreTypeOK, Owed
  <2>. QED
    BY <2>2, <2>3, <2>4, Zenon DEF StoreInv, StoreTypeOK, Kept, Torn, Owed
<1>3. CASE WriteRecord
  <2>1. Todo \ suspect = Owed
    BY <1>3, TodoUnlisted, Zenon DEF WriteRecord, StoreInv
  <2>2. UNCHANGED <<lower, upper, white, db, closure, items, held, failure, stop, entries, suspect>>
    BY <1>3, Zenon DEF WriteRecord
  <2>3. CASE entryStep' = "decoy" /\ UNCHANGED <<keptRecord, serves>>
    BY <2>2, <2>3, Zenon DEF StoreInv, StoreTypeOK, Kept, Torn
  <2>4. CASE /\ ~stop /\ ~failure /\ keptRecord' = keptRecord \cup Todo
             /\ entryStep' = "session" /\ serves' = closure
    <3>1. closure \subseteq db /\ closure \subseteq StorePaths
      BY <1>3, Zenon DEF WriteRecord, StoreInv, StoreTypeOK
    <3>2. \A p \in closure : upper[p] = Whole \/ p \in suspect
      BY <1>3, <2>4, <3>1, Zenon DEF WriteRecord, StoreInv, Kept, Owed
    <3>. QED
      BY <2>1, <2>2, <2>4, <3>1, <3>2, Zenon DEF StoreInv, StoreTypeOK, Kept, Torn, Owed
  <2>. QED
    BY <1>3, <2>3, <2>4, Zenon DEF WriteRecord
<1>4. CASE EntryDies
  BY <1>4, Zenon DEF EntryDies, IdleWorkers, StoreInv, StoreTypeOK, Kept, Torn
<1>. QED
  BY <1>1, <1>2, <1>3, <1>4, Zenon

(* Garbage collection in the session spares its closure; the decoy's deletes and
   builds its own paths. *)
LEMMA CollectKeeps ==
    ASSUME StoreInv, NEW p \in StorePaths,
           CollectHidden(p) \/ CollectDecoy(p) \/ BuildDecoy(p)
    PROVE  StoreInv'
<1>. USE DEF CopyState
<1>1. CASE CollectHidden(p)
  <2>1. /\ entryStep = "session" /\ p \notin closure /\ db' = db \ {p} /\ white' \subseteq white \cup {p}
        /\ suspect' = suspect \ {p}
        /\ UNCHANGED <<lower, keptRecord, entryStep, closure, items, held, failure, stop, entries, serves>>
    BY <1>1, Zenon DEF CollectHidden
  <2>2. upper' \in [StorePaths -> SUBSET Whole]
    BY <1>1, Zenon DEF CollectHidden, StoreInv, StoreTypeOK
  <2>3. \A q \in StorePaths : upper'[q] = IF q = p THEN {} ELSE upper[q]
    BY <1>1, Zenon DEF CollectHidden, StoreInv, StoreTypeOK
  <2>4. StoreTypeOK'
    BY <2>1, <2>2, <2>3, Zenon DEF StoreInv, StoreTypeOK
  <2>5. \A q \in keptRecord' : Kept(q)'
    BY <2>1, <2>3, Zenon DEF StoreInv, StoreTypeOK, Kept
  <2>6. \A q \in StorePaths : Torn(q)' => lower'[q] = Whole \/ q \in suspect'
    BY <2>1, <2>3, Zenon DEF StoreInv, Torn
  <2>7. \A q \in serves' : upper'[q] = Whole \/ q \in suspect'
    BY <2>1, <2>3, Zenon DEF StoreInv
  <2>. QED
    BY <2>1, <2>4, <2>5, <2>6, <2>7, Zenon DEF StoreInv
<1>2. CASE CollectDecoy(p)
  <2>1. /\ entryStep = "decoy" /\ suspect \subseteq suspect' /\ suspect' \subseteq suspect \cup {p}
        /\ Torn(p) => p \in suspect'
        /\ UNCHANGED <<upper, white, db, keptRecord, entryStep, closure, items, held, failure, stop, entries, serves>>
    BY <1>2, Zenon DEF CollectDecoy
  <2>2. lower' \in [StorePaths -> {{}, Whole}]
    BY <1>2, Zenon DEF CollectDecoy, StoreInv, StoreTypeOK
  <2>3. \A q \in StorePaths : q # p => lower'[q] = lower[q]
    BY <1>2, Zenon DEF CollectDecoy, StoreInv, StoreTypeOK
  <2>. QED
    BY <2>1, <2>2, <2>3, Zenon DEF StoreInv, StoreTypeOK, Kept, Torn
<1>3. CASE BuildDecoy(p)
  <2>1. /\ entryStep = "decoy"
        /\ UNCHANGED <<upper, white, db, keptRecord, entryStep, closure, items, held, failure, stop, entries, serves, suspect>>
    BY <1>3, Zenon DEF BuildDecoy
  <2>2. lower' \in [StorePaths -> {{}, Whole}]
    BY <1>3, Zenon DEF BuildDecoy, StoreInv, StoreTypeOK
  <2>3. \A q \in StorePaths : lower'[q] = IF q = p THEN Whole ELSE lower[q]
    BY <1>3, Zenon DEF BuildDecoy, StoreInv, StoreTypeOK
  <2>. QED
    BY <2>1, <2>2, <2>3, Zenon DEF StoreInv, StoreTypeOK, Kept, Torn
<1>. QED
  BY <1>1, <1>2, <1>3, Zenon

(* Leaving changes no store; what is on the record of an emptied upper is suspect. *)
LEMMA LeaveKeeps ==
    ASSUME StoreInv, LeaveSession \/ ResetUpper \/ UNCHANGED storeVars
    PROVE  StoreInv'
<1>. USE DEF CopyState, StoreLayers
<1>1. CASE LeaveSession
  BY <1>1, Zenon DEF LeaveSession, StoreInv, StoreTypeOK, Kept, Torn
<1>2. CASE ResetUpper
  <2>1. /\ entryStep = "decoy" /\ suspect' = suspect \cup keptRecord
        /\ white' = {} /\ serves' = {} /\ db' \subseteq StorePaths
        /\ UNCHANGED <<lower, keptRecord, entryStep, closure, items, held, failure, stop, entries>>
    BY <1>2, Zenon DEF ResetUpper
  <2>2. upper' \in [StorePaths -> SUBSET Whole] /\ \A q \in StorePaths : upper'[q] = {}
    BY <1>2, Zenon DEF ResetUpper
  <2>. QED
    BY <2>1, <2>2, Zenon DEF StoreInv, StoreTypeOK, Torn, Kept
<1>3. CASE UNCHANGED storeVars
  BY <1>3, ZenonT(60) DEF storeVars, StoreInv, StoreTypeOK, Kept, Torn, Staying, Underway, Owed
<1>. QED
  BY <1>1, <1>2, <1>3, Zenon

(* The closure of the session entered last is whole on the hidden volume at every
   moment, whatever the decoy collects and wherever a copy is stopped: the
   promise of store.rs, but for the suspect paths, which keep_closure takes for
   whole (deleted in the decoy half copied, or on the record of a reset upper). *)
THEOREM ClosureLivesInUpper == StoreSpec => []ClosureServes
<1>1. StoreInv /\ [StoreNext]_storeVars => StoreInv'
  BY BuildKeeps, KeepKeeps, TakeKeeps, CopyKeeps, JoinKeeps, CollectKeeps, LeaveKeeps, Zenon
     DEF StoreNext
<1>2. StoreInv => ClosureServes
  BY Zenon DEF StoreInv, ClosureServes
<1>. QED
  BY StoreInvInit, <1>1, <1>2, PTL DEF StoreSpec

------------------------------------------------------------------------------
(* The process runner. *)

(* The callers: only a run under a deadline gives an account. *)
Asked ==
    /\ call.account # "none" => call.mode = "deadline"
    /\ call.account = "same" => ~call.root
(* Nothing is lost between a writer and its reader, and a reader that is done has
   read everything and can get no more: nobody holds the other end. *)
Flow(p) ==
    /\ wrote[p] = read[p] + buf[p] /\ wrote[p] + size[p] <= MaxOut
    /\ reader[p] = "done" => buf[p] = 0 /\ \A f \in Tree : p \notin open[f]
(* The program holds its pipes until it ends, and under a deadline it leads a
   group of its own. *)
Lives ==
    /\ proc["leader"] = "none" => /\ pc \in {"start", "done"} /\ proc["helper"] = "none"
                                  /\ status = "none"
    /\ pc = "start" => proc["leader"] = "none"
    /\ proc["leader"] \in Running => open["leader"] = Pipes
    /\ proc["leader"] \in {"zombie", "dead"} => status # "none"
    /\ proc["leader"] # "none" /\ call.mode = "deadline" => grp["leader"] = "own"
(* The runner kills when the budget is over and not before, and answers with what
   it saw: once it has answered "timeout", nothing of the group runs. *)
Thread ==
    /\ pc \in {"late", "kill", "reap"} => call.mode = "deadline" /\ due
    /\ pc \in {"start", "poll", "late", "kill"} => answer = "none"
    /\ pc = "poll" => call.mode # "plain"
    /\ pc = "reap" => answer = "timeout"
    /\ pc = "collect" => IF call.mode = "plain" THEN answer = "none"
                         ELSE answer # "none" /\ proc["leader"] = "dead"
    /\ pc = "wait" => answer = "output" /\ \A p \in Pipes : reader[p] = "done"
    /\ pc # "done" => result = "none"
    /\ status = "killed" => answer = "timeout"
    /\ answer = "timeout" => /\ call.mode = "deadline" /\ due
                             /\ \A f \in Tree : grp[f] = "own" => proc[f] \notin {"run", "hang"}
    /\ answer = "output" => status \in {"success", "failure"}
    /\ result \in {"output", "timeout"} => /\ answer = result /\ proc["leader"] = "dead"
                                           /\ \A p \in Pipes : reader[p] = "done"
Joined == Asked /\ Lives /\ Thread /\ \A p \in Pipes : Flow(p)
ChildInv == TypeOK /\ Joined /\ RunsAsAsked

USE ChildAssumption DEF ask, tree, pipes, Pipes, Tree, Running, FaultNames

(* The call that nothing was done for yet. *)
LEMMA ChildInit == Init => ChildInv
<1> SUFFICES ASSUME Init PROVE ChildInv BY Zenon
<1>1. TypeOK
  <2>1. /\ call \in Calls /\ asked \in Lookups /\ pc \in PCs /\ exe \in Files \cup {"exact"}
        /\ size \in [Pipes -> 0..MaxOut]
    BY DEF Init, PCs, Files
  <2>2. /\ buf \in [Pipes -> 0..Cap] /\ wrote \in [Pipes -> 0..MaxOut] /\ read = wrote
        /\ reader \in [Pipes -> {"none", "reading", "done"}]
    BY DEF Init
  <2>3. /\ ids.uid = "none" /\ ids.gid = "none" /\ ids.env = {}
        /\ ids.groups = FALSE /\ ids.session = FALSE /\ ids.nnp = FALSE
    BY Zenon DEF Init, NoIds
  <2>4. /\ proc \in [Tree -> {"none", "zombie", "dead"} \cup Running]
        /\ grp \in [Tree -> {"nails", "own", "escaped"}] /\ open \in [Tree -> SUBSET Pipes]
        /\ due = FALSE /\ status = "none" /\ answer = "none" /\ result = "none"
    BY Zenon DEF Init
  <2> QED BY <2>1, <2>2, <2>3, <2>4, Zenon DEF TypeOK
<1>2. Asked /\ Lives /\ Thread BY Zenon DEF Init, Asked, Lives, Thread
<1>3. \A p \in Pipes : Flow(p) BY DEF Init, Flow
<1>4. RunsAsAsked BY Zenon DEF Init, RunsAsAsked
<1> QED BY <1>1, <1>2, <1>3, <1>4, Zenon DEF ChildInv, Joined

(* As root the runner finds no file that others can write (find_executable). *)
LEMMA FoundTrusted ==
  ASSUME NEW a \in Lookups
  PROVE  /\ ResolveProgram(a, TRUE) # "loose"
         /\ \A r \in BOOLEAN : ResolveProgram(a, r) \in Files \cup {"exact"}
<1> DEFINE absolute == {i \in DOMAIN Path : Path[i] # "relative"}
           path == [i \in absolute |-> Path[i]]
<1>1. absolute = {2, 3} /\ path[2] = "first" /\ path[3] = "second" /\ DOMAIN path = {2, 3}
  BY DEF Path
<1>2. a.files \in [Dirs -> Files] BY Zenon DEF Lookups
<1>3. ASSUME NEW r \in BOOLEAN
      PROVE  /\ FindExecutable(path, a.files, r) \in Files
             /\ FindExecutable(<<"system">>, a.files, r) \in Files
             /\ r => /\ FindExecutable(path, a.files, r) # "loose"
                     /\ FindExecutable(<<"system">>, a.files, r) # "loose"
  <2> HIDE DEF path, absolute
  <2> DEFINE W(d) == a.files[d] = "trusted" \/ (a.files[d] = "loose" /\ ~r)
             found == {i \in DOMAIN path : W(path[i])}
             first == CHOOSE i \in found : \A j \in found : i <= j
  <2>1. found # {} => first \in found
    <3> SUFFICES ASSUME found # {} PROVE \E i \in found : \A j \in found : i <= j
      BY Zenon
    <3>1. found \subseteq {2, 3} BY <1>1, Zenon
    <3> QED BY <3>1
  <2>2. FindExecutable(path, a.files, r) = IF found = {} THEN "none" ELSE a.files[path[first]]
    BY Zenon DEF FindExecutable
  <2>3. /\ FindExecutable(path, a.files, r) \in Files
        /\ r => FindExecutable(path, a.files, r) # "loose"
    BY <1>1, <1>2, <2>1, <2>2, Zenon DEF Files, Dirs
  <2> DEFINE sys == <<"system">>
             here == {i \in DOMAIN sys : W(sys[i])}
             one == CHOOSE i \in here : \A j \in here : i <= j
  <2>4. sys[1] = "system" /\ DOMAIN sys = {1} OBVIOUS
  <2>5. FindExecutable(sys, a.files, r) = IF here = {} THEN "none" ELSE a.files[sys[one]]
    BY Zenon DEF FindExecutable
  <2> HIDE DEF sys
  <2>6. here # {} => one \in here
    <3> SUFFICES ASSUME here # {} PROVE \E i \in here : \A j \in here : i <= j
      BY Zenon
    <3> QED BY <2>4
  <2>7. /\ FindExecutable(sys, a.files, r) \in Files
        /\ r => FindExecutable(sys, a.files, r) # "loose"
    BY <1>2, <2>4, <2>5, <2>6, Zenon DEF Files, Dirs
  <2> QED BY <2>3, <2>7, Zenon DEF sys
<1> HIDE DEF path
<1>4. \A r \in BOOLEAN : \/ ResolveProgram(a, r) = FindExecutable(path, a.files, r)
                         \/ ResolveProgram(a, r) = FindExecutable(<<"system">>, a.files, r)
                         \/ ResolveProgram(a, r) = "exact"
  BY Zenon DEF ResolveProgram, path
<1> QED BY <1>3, <1>4, Zenon DEF Files

(* The start: a refused one leaves nothing behind, and one that succeeds runs the
   program as asked (PreExec, DropTo, ApplyEnvironment). *)
LEMMA StartStep == ChildInv /\ Start => ChildInv'
<1> SUFFICES ASSUME ChildInv, Start PROVE ChildInv' BY Zenon
<1> USE DEF ChildInv, Joined
<1>1. /\ exe' \in Files \cup {"exact"} /\ (call.root => exe' # "loose")
      /\ asked' \in Lookups
  BY FoundTrusted, Zenon DEF Start, TypeOK, Calls, Lookups, Used, Dirs, Files
<1>2. PICK failing \in {"none"} \cup Steps :
        LET c == PreExec(call, failing)
            refused == IF exe' = "none" THEN "notfound" ELSE
                       IF c.err # "none" THEN c.err ELSE
                       IF failing = "exec" THEN "exec" ELSE "none"
        IN  IF refused # "none"
            THEN Return(refused) /\ UNCHANGED <<ids, tree, pipes>>
            ELSE /\ ids' = [uid |-> c.uid, gid |-> c.gid, groups |-> c.groups,
                            session |-> c.session, nnp |-> c.nnp,
                            env |-> ApplyEnvironment(asked)]
                 /\ proc' = [proc EXCEPT !["leader"] = "run"]
                 /\ grp' = [grp EXCEPT !["leader"] = IF OwnGroup(call) \/ c.session
                                                     THEN "own" ELSE "nails"]
                 /\ open' = [open EXCEPT !["leader"] = Pipes]
                 /\ reader' = [p \in Pipes |-> "reading"]
                 /\ pc' = IF call.mode = "plain" THEN "collect" ELSE "poll"
                 /\ UNCHANGED <<status, size, buf, wrote, read, result>>
  BY Zenon DEF Start
<1> DEFINE c == PreExec(call, failing)
<1>3. /\ c.err \in {"none"} \cup Steps
      /\ c.err = "none" =>
           /\ c.uid \in {"nails", "account"} /\ c.gid \in {"nails", "account"}
           /\ c.groups \in BOOLEAN /\ c.session \in BOOLEAN /\ c.nnp \in BOOLEAN
           /\ call.account # "none" => /\ c.uid = "account" /\ c.gid = "account"
                                       /\ c.session /\ c.nnp /\ (call.root => ~c.groups)
  BY ZenonT(60) DEF PreExec, DropTo, OwnGroup, Steps, Asked, TypeOK, Calls
<1>4. /\ ApplyEnvironment(asked) \in SUBSET (Vars \X {"nails", "given", "fixed"})
      /\ \A b \in ApplyEnvironment(asked) : b[1] = "PATH" => b[2] = "fixed"
  <2>1. asked.session \subseteq Vars /\ asked.allowed \subseteq Vars
    BY Zenon DEF TypeOK, Lookups, Vars
  <2>2. ASSUME NEW b \in ApplyEnvironment(asked)
        PROVE  b \in Vars \X {"nails", "given", "fixed"} /\ (b[1] = "PATH" => b[2] = "fixed")
    <3>1. \/ \E v \in Vars \ {"PATH"} : b = <<v, "nails">>
          \/ \E v \in Vars \ {"PATH"} : b = <<v, "given">>
          \/ b = <<"PATH", "fixed">>
      BY <2>1, <2>2, Zenon DEF ApplyEnvironment
    <3> QED BY <3>1 DEF Vars
  <2> QED BY <2>2, Zenon
<1> HIDE DEF c
<1>5. /\ pc = "start" /\ UNCHANGED <<call, due, answer>> BY Zenon DEF Start
<1>6. CASE /\ UNCHANGED <<ids, tree, pipes>>
           /\ \E r \in {"notfound"} \cup Steps : Return(r)
  <2>1. TypeOK' BY <1>1, <1>5, <1>6 DEF Return, TypeOK, PCs
  <2>2. Asked' /\ Lives' /\ Thread' BY <1>5, <1>6, Zenon DEF Return, Asked, Lives, Thread, Steps
  <2>3. \A p \in Pipes : Flow(p)' BY <1>6, Zenon DEF Flow
  <2>4. RunsAsAsked' BY <1>5, <1>6, Zenon DEF Return, RunsAsAsked, Lives, Steps
  <2> QED BY <2>1, <2>2, <2>3, <2>4, Zenon
<1>7. CASE /\ c.err = "none"
           /\ ids' = [uid |-> c.uid, gid |-> c.gid, groups |-> c.groups,
                      session |-> c.session, nnp |-> c.nnp, env |-> ApplyEnvironment(asked)]
           /\ proc' = [proc EXCEPT !["leader"] = "run"]
           /\ grp' = [grp EXCEPT !["leader"] = IF OwnGroup(call) \/ c.session
                                               THEN "own" ELSE "nails"]
           /\ open' = [open EXCEPT !["leader"] = Pipes]
           /\ reader' = [p \in Pipes |-> "reading"]
           /\ pc' = IF call.mode = "plain" THEN "collect" ELSE "poll"
           /\ UNCHANGED <<status, size, buf, wrote, read, result>>
  <2>1. TypeOK'
    <3>1. /\ ids'.uid \in {"nails", "account"} /\ ids'.gid \in {"nails", "account"}
          /\ ids'.groups \in BOOLEAN /\ ids'.session \in BOOLEAN /\ ids'.nnp \in BOOLEAN
          /\ ids'.env \in SUBSET (Vars \X {"nails", "given", "fixed"})
      BY <1>3, <1>4, <1>7, Zenon
    <3> QED BY <1>1, <1>5, <1>7, <3>1 DEF TypeOK, PCs
  <2>2. Asked' /\ Lives' /\ Thread'
    <3>1. call.mode = "deadline" => OwnGroup(call) \/ c.session
      BY <1>3, <1>7, Zenon DEF OwnGroup
    <3> QED BY <1>5, <1>7, <3>1 DEF Asked, Lives, Thread, TypeOK
  <2>3. \A p \in Pipes : Flow(p)' BY <1>7, Zenon DEF Flow
  <2>4. RunsAsAsked' BY <1>1, <1>3, <1>4, <1>5, <1>7, Zenon DEF RunsAsAsked
  <2> QED BY <2>1, <2>2, <2>3, <2>4, SMTT(30)
<1> QED BY <1>2, <1>3, <1>6, <1>7, Zenon DEF c

(* The runner's other steps. *)
LEMMA RunnerStep ==
  ChildInv /\ (Runner \/ TryWaitFails \/ Tick) => ChildInv'
<1> SUFFICES ASSUME ChildInv, Runner \/ TryWaitFails \/ Tick PROVE ChildInv' BY Zenon
<1> USE DEF ChildInv, Joined
<1>1. ASSUME TryWait PROVE ChildInv'
  <2>1. TypeOK' BY <1>1 DEF TryWait, Reaped, TypeOK, PCs
  <2>2. Asked' /\ Lives' BY <1>1, Zenon DEF TryWait, Reaped, Asked, Lives, TypeOK
  <2>a. status \in {"success", "failure"} BY <1>1, Zenon DEF TryWait, Lives, Thread, TypeOK
  <2>3. Thread' BY <1>1, <2>a, Zenon DEF TryWait, Reaped, Thread, TypeOK
  <2>4. ASSUME NEW q \in Pipes PROVE Flow(q)' BY <1>1, Zenon
      DEF TryWait, Reaped, Flow, Lives, TypeOK
  <2>5. RunsAsAsked' BY <1>1, Zenon DEF TryWait, Reaped, RunsAsAsked, Thread, TypeOK
  <2> QED BY <2>1, <2>2, <2>3, <2>4, <2>5, Zenon
<1>2. ASSUME TryWaitFails PROVE ChildInv'
  <2>1. TypeOK' BY <1>2 DEF TryWaitFails, Return, TypeOK, PCs
  <2>2. Asked' /\ Lives' BY <1>2, Zenon DEF TryWaitFails, Return, Asked, Lives, TypeOK
  <2>3. Thread' BY <1>2, Zenon DEF TryWaitFails, Return, Asked, Lives, Thread, Flow, TypeOK
  <2>4. ASSUME NEW q \in Pipes PROVE Flow(q)' BY <1>2, Zenon
      DEF TryWaitFails, Return, Flow, Lives, TypeOK
  <2>5. RunsAsAsked' BY <1>2, Zenon DEF TryWaitFails, Return, RunsAsAsked, Thread, TypeOK
  <2> QED BY <2>1, <2>2, <2>3, <2>4, <2>5, SMTT(30)
<1>3. ASSUME BudgetOver PROVE ChildInv'
  <2>1. TypeOK' BY <1>3 DEF BudgetOver, TypeOK, PCs
  <2>2. Asked' /\ Lives' BY <1>3, Zenon DEF BudgetOver, Asked, Lives, TypeOK
  <2>3. Thread' BY <1>3, Zenon DEF BudgetOver, Asked, Lives, Thread, Flow, TypeOK
  <2>4. ASSUME NEW q \in Pipes PROVE Flow(q)' BY <1>3, Zenon DEF BudgetOver, Flow, Lives, TypeOK
  <2>5. RunsAsAsked' BY <1>3, Zenon DEF BudgetOver, RunsAsAsked, Thread, TypeOK
  <2> QED BY <2>1, <2>2, <2>3, <2>4, <2>5
<1>4. ASSUME LastLook PROVE ChildInv'
  <2>1. TypeOK' BY <1>4 DEF LastLook, TypeOK, PCs
  <2>2. Asked' /\ Lives' BY <1>4, Zenon DEF LastLook, Asked, Lives, TypeOK
  <2>3. Thread' BY <1>4, Zenon DEF LastLook, Asked, Lives, Thread, Flow, TypeOK
  <2>4. ASSUME NEW q \in Pipes PROVE Flow(q)' BY <1>4, Zenon DEF LastLook, Flow, Lives, TypeOK
  <2>5. RunsAsAsked' BY <1>4, Zenon DEF LastLook, RunsAsAsked, Thread, TypeOK
  <2> QED BY <2>1, <2>2, <2>3, <2>4, <2>5
<1>5. ASSUME KillGroup PROVE ChildInv'
  <2>1. TypeOK' BY <1>5 DEF KillGroup, Hit, TypeOK, PCs
  <2>2. Asked' /\ Lives' BY <1>5, Zenon DEF KillGroup, Hit, Asked, Lives, TypeOK
  <2>3. Thread' BY <1>5, Zenon DEF KillGroup, Hit, Asked, Lives, Thread, Flow, TypeOK
  <2>4. ASSUME NEW q \in Pipes PROVE Flow(q)' BY <1>5, Zenon
      DEF KillGroup, Hit, Flow, Lives, TypeOK
  <2>5. RunsAsAsked' BY <1>5, Zenon DEF KillGroup, Hit, RunsAsAsked, Thread, TypeOK
  <2> QED BY <2>1, <2>2, <2>3, <2>4, <2>5
<1>6. ASSUME Reap PROVE ChildInv'
  <2>1. TypeOK' BY <1>6 DEF Reap, Reaped, Return, TypeOK, PCs
  <2>2. Asked' /\ Lives' BY <1>6, Zenon DEF Reap, Reaped, Return, Asked, Lives, TypeOK
  <2>3. Thread' BY <1>6 DEF Reap, Reaped, Return, Asked, Lives, Thread, Flow, TypeOK
  <2>4. ASSUME NEW q \in Pipes PROVE Flow(q)' BY <1>6, Zenon
      DEF Reap, Reaped, Return, Flow, Lives, TypeOK
  <2>5. RunsAsAsked' BY <1>6, SMTT(30) DEF Reap, Reaped, Return, RunsAsAsked, Thread, TypeOK
  <2> QED BY <2>1, <2>2, <2>3, <2>4, <2>5
<1>7. ASSUME Collect PROVE ChildInv'
  <2>1. TypeOK' BY <1>7 DEF Collect, Return, TypeOK, PCs
  <2>2. Asked' /\ Lives' BY <1>7, Zenon DEF Collect, Return, Asked, Lives, TypeOK
  <2>3. Thread' BY <1>7 DEF Collect, Return, Asked, Lives, Thread, Flow, TypeOK
  <2>4. ASSUME NEW q \in Pipes PROVE Flow(q)' BY <1>7, Zenon
      DEF Collect, Return, Flow, Lives, TypeOK
  <2>5. RunsAsAsked' BY <1>7, Zenon DEF Collect, Return, RunsAsAsked, Thread, TypeOK
  <2> QED BY <2>1, <2>2, <2>3, <2>4, <2>5
<1>8. ASSUME Tick PROVE ChildInv'
  <2>1. TypeOK' BY <1>8 DEF Tick, TypeOK, PCs
  <2>2. Asked' /\ Lives' BY <1>8, Zenon DEF Tick, Asked, Lives, TypeOK
  <2>3. Thread' BY <1>8, Zenon DEF Tick, Asked, Lives, Thread, Flow, TypeOK
  <2>4. ASSUME NEW q \in Pipes PROVE Flow(q)' BY <1>8, Zenon DEF Tick, Flow, Lives, TypeOK
  <2>5. RunsAsAsked' BY <1>8, Zenon DEF Tick, RunsAsAsked, Thread, TypeOK
  <2> QED BY <2>1, <2>2, <2>3, <2>4, <2>5
<1> QED BY StartStep, <1>1, <1>2, <1>3, <1>4, <1>5, <1>6, <1>7, <1>8, Zenon DEF Runner

(* The program, its helper and the readers. *)
LEMMA ProgramStep ==
  ASSUME ChildInv, NEW f \in Tree, NEW p \in Pipes
  PROVE  /\ Exit(f) \/ Write(f, p) \/ Fork \/ Drain(p) => ChildInv'
         /\ \A s \in {"hang", "stuck"} : Halt(f, s) => ChildInv'
<1> USE DEF ChildInv, Joined
<1>1. ASSUME Exit(f) PROVE ChildInv'
  <2>1. TypeOK' BY <1>1, SMTT(30) DEF Exit, TypeOK, PCs
  <2>2. Asked' /\ Lives' BY <1>1, Zenon DEF Exit, Asked, Lives, TypeOK
  <2>3. Thread' BY <1>1 DEF Exit, Asked, Lives, Thread, Flow, TypeOK
  <2>4. ASSUME NEW q \in Pipes PROVE Flow(q)' BY <1>1, Zenon DEF Exit, Flow, Lives, TypeOK
  <2>5. RunsAsAsked' BY <1>1, Zenon DEF Exit, RunsAsAsked, Thread, TypeOK
  <2> QED BY <2>1, <2>2, <2>3, <2>4, <2>5, Zenon
<1>2. ASSUME Write(f, p) PROVE ChildInv'
  <2>a. size[p] \in Nat /\ wrote[p] \in Nat /\ wrote[p] + size[p] <= MaxOut BY SMTT(30) DEF TypeOK, Flow
  <2>b. /\ buf' \in [Pipes -> 0..Cap] /\ wrote' \in [Pipes -> 0..MaxOut]
        /\ size' \in [Pipes -> 0..MaxOut]
    BY <1>2, <2>a, SMTT(30) DEF Write, TypeOK
  <2>1. TypeOK' BY <1>2, <2>b DEF Write, TypeOK
  <2>2. Asked' /\ Lives' BY <1>2, Zenon DEF Write, Asked, Lives, TypeOK
  <2>3. Thread' BY <1>2, SMTT(30) DEF Write, Asked, Lives, Thread, Flow, TypeOK
  <2>4. ASSUME NEW q \in Pipes PROVE Flow(q)' BY <1>2 DEF Write, Flow, Lives, TypeOK
  <2>5. RunsAsAsked' BY <1>2, Zenon DEF Write, RunsAsAsked, Thread, TypeOK
  <2> QED BY <2>1, <2>2, <2>3, <2>4, <2>5
<1>3. ASSUME Fork PROVE ChildInv'
  <2>1. TypeOK' BY <1>3, SMTT(30) DEF Fork, TypeOK, PCs
  <2>2. Asked' /\ Lives' BY <1>3, SMTT(30) DEF Fork, Asked, Lives, TypeOK
  <2>3. Thread' BY <1>3 DEF Fork, Asked, Lives, Thread, Flow, TypeOK
  <2>4. ASSUME NEW q \in Pipes PROVE Flow(q)' BY <1>3, Zenon DEF Fork, Flow, Lives, TypeOK
  <2>5. RunsAsAsked' BY <1>3, Zenon DEF Fork, RunsAsAsked, Thread, TypeOK
  <2> QED BY <2>1, <2>2, <2>3, <2>4, <2>5
<1>4. ASSUME Drain(p) PROVE ChildInv'
  <2>a. /\ read[p] \in Nat /\ buf[p] \in Nat /\ size[p] \in Nat
        /\ read[p] + buf[p] + size[p] <= MaxOut
    BY DEF TypeOK, Flow
  <2>b. /\ buf' \in [Pipes -> 0..Cap] /\ read' \in [Pipes -> 0..MaxOut]
        /\ reader' \in [Pipes -> {"none", "reading", "done"}]
    BY <1>4, <2>a, SMTT(30) DEF Drain, TypeOK
  <2>1. TypeOK' BY <1>4, <2>b DEF Drain, TypeOK
  <2>2. Asked' /\ Lives' BY <1>4, Zenon DEF Drain, Asked, Lives, TypeOK
  <2>3. Thread' BY <1>4, SMTT(30) DEF Drain, Asked, Lives, Thread, Flow, TypeOK
  <2>4. ASSUME NEW q \in Pipes PROVE Flow(q)' BY <1>4 DEF Drain, Flow, Lives, TypeOK
  <2>5. RunsAsAsked' BY <1>4, Zenon DEF Drain, RunsAsAsked, Thread, TypeOK
  <2> QED BY <2>1, <2>2, <2>3, <2>4, <2>5
<1>5. ASSUME NEW s \in {"hang", "stuck"}, Halt(f, s) PROVE ChildInv'
  <2>1. TypeOK' BY <1>5, SMTT(30) DEF Halt, TypeOK, PCs
  <2>2. Asked' /\ Lives' BY <1>5, SMTT(30) DEF Halt, Asked, Lives, TypeOK
  <2>3. Thread' BY <1>5 DEF Halt, Asked, Lives, Thread, Flow, TypeOK
  <2>4. ASSUME NEW q \in Pipes PROVE Flow(q)' BY <1>5, Zenon DEF Halt, Flow, Lives, TypeOK
  <2>5. RunsAsAsked' BY <1>5, Zenon DEF Halt, RunsAsAsked, Thread, TypeOK
  <2> QED BY <2>1, <2>2, <2>3, <2>4, <2>5, Zenon
<1> QED BY <1>1, <1>2, <1>3, <1>4, <1>5, Zenon

(* ChildInv is inductive. *)
LEMMA ChildStep == ChildInv /\ [Next]_vars => ChildInv'
<1> SUFFICES ASSUME ChildInv, [Next]_vars PROVE ChildInv' BY Zenon
<1>1. CASE UNCHANGED vars
  <2> USE <1>1 DEF vars, ChildInv, Joined
  <2>1. TypeOK' BY DEF TypeOK
  <2>2. Asked' /\ Lives' /\ RunsAsAsked' BY Zenon DEF Asked, Lives, RunsAsAsked
  <2>3. Thread' BY DEF Thread
  <2>4. ASSUME NEW q \in Pipes PROVE Flow(q)' BY Zenon DEF Flow
  <2> QED BY <2>1, <2>2, <2>3, <2>4, Zenon
<1>2. CASE Next BY <1>2, RunnerStep, ProgramStep, Zenon DEF Next, Program
<1> QED BY <1>1, <1>2, Zenon

(* ... and so an invariant. *)
LEMMA ChildAlways == Spec => []ChildInv
BY ChildInit, ChildStep, PTL DEF Spec

(* A caller that gets an output gets all that was written to either pipe, and the
   status the program itself ended with, for any pipe size and any amount of
   output (run_with_deadline, run_streaming_to_completion: collect). *)
THEOREM OutputIsWhole == Spec => []OutputWhole
<1>1. ChildInv => OutputWhole
  BY DEF ChildInv, Joined, TypeOK, Thread, Flow, OutputWhole
<1> QED BY <1>1, ChildAlways, PTL

(* Whatever call between fork and exec fails, a program that runs has the account,
   session, privileges and environment it was given, and as root it is a file that
   nobody else can write (resolve, drop_to, apply_environment). *)
THEOREM ProgramAsAsked == Spec => []RunsAsAsked
BY ChildAlways, PTL DEF ChildInv

(* The safety part of DeadlineKept: a timeout leaves nothing of the group that a
   signal removes, and nothing is killed but by a budget that is over (await_child,
   kill_group). *)
THEOREM TimeoutIsClean == Spec => [](TimeoutCleans /\ KillsOnlyLate)
<1>1. ChildInv => TimeoutCleans /\ KillsOnlyLate
  BY Zenon DEF ChildInv, Joined, Thread, TimeoutCleans, KillsOnlyLate
<1> QED BY <1>1, ChildAlways, PTL

==============================================================================
