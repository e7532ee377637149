-------------------------------- MODULE Store --------------------------------
(***************************************************************************)
(* Keeping the hidden NixOS system on the hidden volume                    *)
(* (nails-session/src/session/store.rs, nixos.rs).  The hidden store is an *)
(* overlay over the decoy's; the paths the hidden closure shares with the  *)
(* decoy are copied up at every entry, by several threads, because the     *)
(* decoy may delete them between two sessions.                             *)
(***************************************************************************)
EXTENDS Naturals, FiniteSets

CONSTANTS
    StorePaths,     \* the store paths
    Parts,          \* the files of a store path besides its directory
    Workers,        \* the copying threads
    MaxEntries      \* entries tried

ASSUME StoreAssumption ==
    /\ IsFiniteSet(StorePaths) /\ IsFiniteSet(Parts) /\ "top" \notin Parts
    /\ Workers # {} /\ MaxEntries \in Nat

VARIABLES
    lower,      \* the decoy's store: the parts of each path
    upper,      \* the store upper on the hidden volume
    white,      \* paths the upper hides (deleted in a session)
    db,         \* the paths the hidden store database lists as valid
    keptRecord, \* <hidden>/root/store-kept
    entryStep,  \* what the entry is doing
    closure,    \* the closure of the hidden toplevel
    items,      \* the copy-ups no worker has taken yet
    held,       \* the item each worker copies
    failure,    \* a copy-up failed
    stop,       \* the workers were told to take no more
    entries,    \* entries begun
    serves,     \* history: the closure of the last session entered
    suspect     \* history: paths of which keep_closure may take a part for the whole

storeVars == <<lower, upper, white, db, keptRecord, entryStep, closure, items, held, failure,
               stop, entries, serves, suspect>>

Whole == Parts \cup {"top"}
Merged(p) == IF p \in white THEN {} ELSE upper[p] \cup lower[p]
InUpper(p) == upper[p] # {}
Torn(p) == upper[p] \notin {{}, Whole}       \* a copy that stopped half way left it
NoItem == <<>>
IdleWorkers == [w \in Workers |-> NoItem]

StoreTypeOK ==
    /\ lower \in [StorePaths -> {{}, Whole}] /\ upper \in [StorePaths -> SUBSET Whole]
    /\ white \subseteq {p \in StorePaths : upper[p] = {}} /\ db \subseteq StorePaths
    /\ keptRecord \subseteq StorePaths /\ closure \subseteq StorePaths
    /\ entryStep \in {"decoy", "verify", "build", "keep", "copy", "joined", "session"}
    /\ items \subseteq StorePaths \X Whole
    /\ held \in [Workers -> StorePaths \X Whole \cup {NoItem}]
    /\ failure \in BOOLEAN /\ stop \in BOOLEAN
    /\ entries \in 0 .. MaxEntries /\ suspect \subseteq StorePaths

StoreInit ==
    /\ \E has \in SUBSET StorePaths :
         /\ lower = [p \in StorePaths |-> IF p \in has THEN Whole ELSE {}]
         /\ db = has
    /\ upper = [p \in StorePaths |-> {}] /\ white = {} /\ keptRecord = {}
    /\ entryStep = "decoy" /\ closure = {} /\ items = {} /\ held = IdleWorkers
    /\ failure = FALSE /\ stop = FALSE /\ entries = 0 /\ serves = {} /\ suspect = {}

CopyState == <<items, held, failure, stop>>
StoreLayers == <<lower, upper, white>>

-----------------------------------------------------------------------------
(* forget_vanished: nix-store --verify drops the paths that are gone; it   *)
(* asks whether a path is there, not what is in it, and an entry goes on   *)
(* when it fails or takes too long.                                        *)
BeginEntry ==
    /\ entryStep = "decoy" /\ entries < MaxEntries
    /\ entries' = entries + 1 /\ entryStep' = "verify"
    /\ UNCHANGED <<StoreLayers, db, keptRecord, closure, CopyState, serves, suspect>>

ForgetVanished ==
    /\ entryStep = "verify"
    /\ \/ db' = {p \in db : Merged(p) # {}}
       \/ UNCHANGED db
    /\ entryStep' = "build"
    /\ UNCHANGED <<StoreLayers, keptRecord, closure, CopyState, entries, serves, suspect>>

(* build_into: nix realises what the database does not list, into the      *)
(* upper; what it lists is trusted.                                        *)
BuildInto ==
    /\ entryStep = "build"
    /\ \E c \in SUBSET StorePaths \ {{}} :
         /\ closure' = c
         /\ upper' = [p \in StorePaths |-> IF p \in c \ db THEN Whole ELSE upper[p]]
         /\ white' = white \ (c \ db)
         /\ db' = db \cup c /\ suspect' = suspect \ (c \ db)
    /\ entryStep' = "keep"
    /\ UNCHANGED <<lower, keptRecord, CopyState, entries, serves>>

-----------------------------------------------------------------------------
(* keep_closure *)
Todo == {p \in closure : ~ (p \in keptRecord /\ InUpper(p))}

(* pending: what the merged path has and the upper does not.  The workers  *)
(* race for the items, so their order is left open.                        *)
Pending(p) == {p} \X (Merged(p) \ upper[p])

KeepClosure ==
    /\ entryStep = "keep"
    /\ \/ Todo = {} /\ entryStep' = "session" /\ serves' = closure
          /\ UNCHANGED CopyState
       \/ /\ Todo # {}
          /\ \/ entryStep' = "decoy" /\ UNCHANGED <<CopyState, serves>>    \* a path is gone, no space, or cancelled
             \/ /\ \A p \in Todo : Merged(p) # {}
                /\ items' = UNION {Pending(p) : p \in Todo}
                /\ held' = IdleWorkers /\ failure' = FALSE /\ stop' = FALSE
                /\ entryStep' = "copy" /\ UNCHANGED serves
    /\ UNCHANGED <<StoreLayers, db, keptRecord, closure, entries, suspect>>

(* One worker of copy_all: it reads the stop flags, takes an index, and    *)
(* copies up what it took.  Copying a file up makes its directory too.     *)
TakeItem(w) ==
    /\ entryStep = "copy" /\ held[w] = NoItem /\ ~ failure /\ ~ stop
    /\ \E i \in items : held' = [held EXCEPT ![w] = i] /\ items' = items \ {i}
    /\ UNCHANGED <<StoreLayers, db, keptRecord, entryStep, closure, failure, stop, entries, serves, suspect>>

CopyUp(w) ==
    /\ entryStep = "copy" /\ held[w] # NoItem
    /\ \/ /\ upper' = [upper EXCEPT ![held[w][1]] = @ \cup {held[w][2], "top"}]
          /\ UNCHANGED failure
       \/ failure' = TRUE /\ UNCHANGED upper
    /\ held' = [held EXCEPT ![w] = NoItem]
    /\ UNCHANGED <<lower, white, db, keptRecord, entryStep, closure, items, stop, entries, serves, suspect>>

(* The calling thread: between two looks it sees the cancel; it joins the  *)
(* workers, which finish what they hold.                                   *)
CancelCopy ==
    /\ entryStep = "copy" /\ ~ stop
    /\ stop' = TRUE
    /\ UNCHANGED <<StoreLayers, db, keptRecord, entryStep, closure, items, held, failure, entries, serves, suspect>>

JoinWorkers ==
    /\ entryStep = "copy" /\ held = IdleWorkers
    /\ stop \/ failure \/ items = {}
    /\ entryStep' = "joined"
    /\ UNCHANGED <<StoreLayers, db, keptRecord, closure, CopyState, entries, serves, suspect>>

\* Mutant: the record is written whatever the copy did.
WriteRecordAlways ==
    /\ entryStep = "joined"
    /\ keptRecord' = keptRecord \cup Todo
    /\ IF stop \/ failure THEN entryStep' = "decoy" /\ UNCHANGED serves
       ELSE entryStep' = "session" /\ serves' = closure
    /\ UNCHANGED <<StoreLayers, db, closure, CopyState, entries, suspect>>

WriteRecord ==
    /\ entryStep = "joined"
    /\ \/ /\ stop \/ failure
          /\ entryStep' = "decoy" /\ UNCHANGED <<keptRecord, serves>>
       \/ /\ ~ stop /\ ~ failure
          /\ \/ keptRecord' = keptRecord \cup Todo
                /\ entryStep' = "session" /\ serves' = closure
             \/ entryStep' = "decoy" /\ UNCHANGED <<keptRecord, serves>>        \* the record cannot be written
    /\ UNCHANGED <<StoreLayers, db, closure, CopyState, entries, suspect>>

(* The power goes or the process is killed: the upper keeps what it has.   *)
EntryDies ==
    /\ entryStep \in {"keep", "copy", "joined"}
    /\ entryStep' = "decoy"
    /\ held' = IdleWorkers
    /\ UNCHANGED <<StoreLayers, db, keptRecord, closure, items, failure, stop, entries, serves, suspect>>

-----------------------------------------------------------------------------
(* In the session nix may delete what its closure does not need; back in   *)
(* the decoy, nix may delete or build any of its paths, one whose copy     *)
(* stopped half way too, and reset-upper /nix empties the upper, database  *)
(* included, but leaves the record.                                        *)
CollectHidden(p) ==
    /\ entryStep = "session" /\ p \notin closure /\ p \in db
    /\ upper' = [upper EXCEPT ![p] = {}]
    /\ white' = IF lower[p] # {} THEN white \cup {p} ELSE white
    /\ db' = db \ {p} /\ suspect' = suspect \ {p}
    /\ UNCHANGED <<lower, keptRecord, entryStep, closure, CopyState, entries, serves>>

LeaveSession ==
    /\ entryStep = "session" /\ entryStep' = "decoy"
    /\ UNCHANGED <<StoreLayers, db, keptRecord, closure, CopyState, entries, serves, suspect>>

CollectDecoy(p) ==
    /\ entryStep = "decoy" /\ lower[p] # {}
    /\ lower' = [lower EXCEPT ![p] = {}]
    /\ suspect' = IF Torn(p) THEN suspect \cup {p} ELSE suspect
    /\ UNCHANGED <<upper, white, db, keptRecord, entryStep, closure, CopyState, entries, serves>>

BuildDecoy(p) ==
    /\ entryStep = "decoy" /\ lower[p] = {}
    /\ lower' = [lower EXCEPT ![p] = Whole]
    /\ UNCHANGED <<upper, white, db, keptRecord, entryStep, closure, CopyState, entries, serves, suspect>>

ResetUpper ==
    /\ entryStep = "decoy"
    /\ upper' = [p \in StorePaths |-> {}] /\ white' = {}
    /\ db' = {p \in StorePaths : lower[p] # {}}
    /\ serves' = {} /\ suspect' = suspect \cup keptRecord
    /\ UNCHANGED <<lower, keptRecord, entryStep, closure, CopyState, entries>>

StoreNext ==
    \/ BeginEntry \/ ForgetVanished \/ BuildInto \/ KeepClosure
    \/ \E w \in Workers : TakeItem(w) \/ CopyUp(w)
    \/ CancelCopy \/ JoinWorkers \/ WriteRecord \/ EntryDies \/ LeaveSession \/ ResetUpper
    \/ \E p \in StorePaths : CollectHidden(p) \/ CollectDecoy(p) \/ BuildDecoy(p)

StoreSpec == StoreInit /\ [][StoreNext]_storeVars

-----------------------------------------------------------------------------
(* All of the system of the last session entered is in the upper, so it    *)
(* stays whole whatever the decoy deletes, wherever a copy failed, was     *)
(* cancelled or died (keep_closure).  Two kinds of path are excepted, of   *)
(* which keep_closure cannot tell a part from the whole: one the decoy     *)
(* deleted while its copy was half made, and one that was on the record    *)
(* when reset-upper emptied the upper; either until nix builds it anew.    *)
ClosureServes == \A p \in serves : p \notin white /\ (upper[p] = Whole \/ p \in suspect)

(* "Afterwards the hidden closure lives entirely on the hidden volume"     *)
(* (store.rs:30), without exception: what the code does not achieve.       *)
ClosureOnVolume == \A p \in serves : upper[p] = Whole

=============================================================================
