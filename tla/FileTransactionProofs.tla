----------------------- MODULE FileTransactionProofs -----------------------
(***************************************************************************)
(* Theorems about FileTransaction: its invariants, that it implements      *)
(* AtomicWorkspace, that a call that fails has changed nothing, and that   *)
(* rewinding the checkpoints leads back to the first workspace.            *)
(***************************************************************************)
EXTENDS FileTransaction, FoldLemmas, TLAPS

-----------------------------------------------------------------------------
(* The inductive invariant: what is beside the workspace, for every place   *)
(* the daemon can be in when it crashes                                     *)

InCall == {"capture", "current", "stage", "prepare", "backup", "install",
           "rollback", "sweep", "return"}
Recovering == {"recover", "restore", "tidy"}
Places == InCall \cup Recovering \cup {"idle", "down"}

Functions == UNION {[P -> Values] : P \in SUBSET Paths}

\* Files and journal, the histories and the checkpoints.
DiskTypes ==
    /\ files \in [Paths -> Values] /\ staged \in [Paths -> Values] /\ backup \in [Paths -> Values]
    /\ journal \in [state : {"none", "prepared", "committed"}, entries : Seq(Entry)]
    /\ first \in [Paths -> Values] \cup {Lost}
    /\ dirty \subseteq Covered
    /\ edits \in Nat

Checkpoints ==
    /\ manifests \in Seq(Manifest)
    /\ \A m \in 1..Len(manifests) :
        /\ DOMAIN manifests[m].before = ToSet(manifests[m].order)
        /\ DOMAIN manifests[m].after = ToSet(manifests[m].order)

\* A journal has one entry of a path, and is not half there.
JournalShape ==
    /\ \A m, n \in DOMAIN Entries : Entries[m].path = Entries[n].path => m = n
    /\ journal.state = "none" => journal = NoJournal

\* The call, and what has become of it by the place the daemon is in.
Calls == [kind : {"none", "write", "rewind"}, m : Nat, order : Seq(Paths),
          from : Functions, to : Functions, start : Functions]
CallTypes ==
    /\ pc \in Places
    /\ i \in Nat
    /\ fate \in {"none", "commit", "abort", "keep"}
    /\ tx \in Calls
    /\ tx # NoTx => /\ tx.kind \in {"write", "rewind"}
                    /\ tx.order \in Orders
                    /\ tx.from \in [ToSet(tx.order) -> Values]
                    /\ tx.to \in [ToSet(tx.order) -> Values]
    /\ tx.m \in 0..Len(manifests)

Phases ==
    /\ pc \in {"idle", "down"} => tx = NoTx
    /\ pc \in InCall => tx # NoTx
    /\ pc \notin {"rollback", "sweep", "return"} => fate = "none"
    /\ pc = "rollback" => fate \in {"abort", "keep"}
    /\ pc \in {"sweep", "return"} => fate # "none"

Steps ==
    /\ pc \in {"idle", "down", "capture", "current"} => i = 0
    /\ pc = "recover" => i <= Len(Entries)
    /\ pc \in {"restore", "tidy"} => i \in 1..Len(Entries)
    /\ pc = "prepare" => i = 1
    /\ pc \in {"stage", "backup", "sweep"} => i \in 1..(Len(tx.order) + 1)
    /\ pc = "install" => i \in 1..Len(tx.order)
    /\ pc = "rollback" => i <= Len(tx.order)
    /\ pc = "return" => i <= 1

\* The journal is written last and says what the call is doing.
JournalPhases ==
    /\ pc \in {"current", "stage", "prepare"} => journal = NoJournal
    /\ pc \in {"backup", "install", "rollback"} =>
           journal = [state |-> "prepared", entries |-> Journalled]

\* A file that was to be created is not there while its content is still staged.
NotCreated ==
    Prepared => \A e \in ToSet(Entries) :
        ~e.existed /\ e.staged /\ staged[e.path] # NoFile
            => files[e.path] = NoFile \/ e.path \in dirty

\* Of an entry recovery or rollback has dealt with, nothing is left to undo.
GoneIfRemoved(e) == Removes(e) => files[e.path] = NoFile \/ e.path \in dirty
Undone(e) == backup[e.path] = NoFile /\ GoneIfRemoved(e)

Recovery ==
    /\ pc \in Recovering => \A n \in DOMAIN Entries : n > i => Undone(Entries[n])
    /\ pc = "restore" => GoneIfRemoved(Entries[i])
    /\ pc = "tidy" => GoneIfRemoved(Entries[i]) /\ ~PutsBack(Entries[i])

\* A file of the call before, between and after its two renames.
Untouched(p) ==
    staged[p] = tx.to[p] /\ backup[p] = NoFile /\ (p \in dirty \/ files[p] = tx.from[p])
Saved(p) ==
    /\ (backup[p] = NoFile) <=> (tx.from[p] = NoFile)
    /\ p \in dirty \/ backup[p] = tx.from[p]
BackedUp(p) == Saved(p) /\ staged[p] = tx.to[p] /\ (p \in dirty \/ files[p] = NoFile)
Replaced(p) == Saved(p) /\ staged[p] = NoFile /\ (p \in dirty \/ files[p] = tx.to[p])

Installation ==
    /\ pc = "stage" => \A n \in DOMAIN tx.order : n < i => staged[tx.order[n]] = tx.to[tx.order[n]]
    /\ pc = "prepare" => \A n \in DOMAIN tx.order : Untouched(tx.order[n])
    /\ pc \in {"backup", "install"} => \A n \in DOMAIN tx.order :
        /\ n < i => Replaced(tx.order[n])
        /\ n = i => IF pc = "install" THEN BackedUp(tx.order[n]) ELSE Untouched(tx.order[n])
        /\ n > i => Untouched(tx.order[n])

\* Rolling a file back removes what was installed only where nothing had been.
RollingBack ==
    pc = "rollback" => \A n \in DOMAIN tx.order :
        /\ n <= i /\ tx.from[tx.order[n]] # NoFile /\ backup[tx.order[n]] = NoFile
               => ~Installed(tx.order[n])
        /\ n > i /\ fate = "abort" => Undone(Journalled[n])

CleaningUp ==
    pc = "sweep" =>
        /\ fate = "abort" /\ journal # NoJournal
               => Prepared /\ \A e \in ToSet(Entries) : Undone(e)
        /\ fate = "keep" => Prepared
        /\ fate = "commit" =>
            /\ journal.state = "committed"
            /\ \A e \in ToSet(Entries) : e.path \in ToSet(tx.order)
            /\ \A n \in DOMAIN tx.order : n < i => backup[tx.order[n]] = NoFile

Disk == DiskTypes /\ JournalShape /\ BackupsAreJournalled /\ NotCreated
Control == CallTypes /\ Phases /\ Steps /\ JournalPhases
Progress == Recovery /\ Installation /\ RollingBack /\ CleaningUp

\* A call changes nothing but by its commit, unless another program does.
Undisturbed ==
    first # Lost =>
        /\ dirty = {}
        /\ tx # NoTx /\ fate # "commit" => Logical = tx.start

Inductive == Disk /\ Checkpoints /\ Control /\ Progress

-----------------------------------------------------------------------------
(* Paths, entries and the workspace recovery will restore                   *)

LEMMA OrderFacts ==
    ASSUME NEW order \in Orders
    PROVE  /\ order \in Seq(Paths) /\ DOMAIN order = 1..Len(order) /\ Len(order) \in Nat \ {0}
           /\ \A m, n \in DOMAIN order : order[m] = order[n] => m = n
           /\ \A n \in DOMAIN order : order[n] \in ToSet(order) /\ order[n] \in Paths
           /\ ToSet(order) \subseteq Paths
<1>1. PICK n \in 1..MaxFiles : order \in [1..n -> Paths]
  BY DEF Orders
<1>2. n \in Nat \ {0}
  BY FileAssumption
<1>3. order \in Seq(Paths) /\ Len(order) = n /\ DOMAIN order = 1..n
  BY <1>1, <1>2
<1>4. \A m, k \in DOMAIN order : order[m] = order[k] => m = k
  BY DEF Orders, IsInjective
<1>. QED  BY <1>1, <1>2, <1>3, <1>4 DEF ToSet

LEMMA NoTxFacts ==
    /\ NoTx \in Calls /\ NoTx.kind = "none" /\ NoTx.order = <<>> /\ NoTx.m = 0
    /\ NoTx.from = Lost /\ NoTx.to = Lost /\ NoTx.start = Lost
    /\ ToSet(NoTx.order) = {}
    /\ \A t : t.kind # "none" => t # NoTx
<1>1. Lost \in [{} -> Values]
  BY DEF Lost
<1>2. Lost \in Functions
  BY <1>1 DEF Functions
<1>3. NoTx = [kind |-> "none", m |-> 0, order |-> <<>>, from |-> Lost, to |-> Lost, start |-> Lost]
  BY DEF NoTx, Lost
<1>4. <<>> \in Seq(Paths)
  OBVIOUS
<1>. QED  BY <1>2, <1>3, <1>4 DEF Calls, ToSet

LEMMA RestrictedFacts ==
    ASSUME NEW f, NEW order
    PROVE  /\ DOMAIN Restricted(f, order) = ToSet(order)
           /\ \A p \in ToSet(order) : Restricted(f, order)[p] = f[p]
           /\ (\A p \in ToSet(order) : f[p] \in Values) => Restricted(f, order) \in [ToSet(order) -> Values]
BY DEF Restricted

LEMMA EntryFacts ==
    ASSUME DiskTypes
    PROVE  /\ Entries \in Seq(Entry) /\ DOMAIN Entries = 1..Len(Entries) /\ Len(Entries) \in Nat
           /\ \A n \in DOMAIN Entries : Entries[n] \in Entry /\ Entries[n] \in ToSet(Entries)
           /\ \A e \in ToSet(Entries) : /\ e \in Entry /\ e.path \in Paths
                                        /\ \E n \in DOMAIN Entries : e = Entries[n]
<1>1. Entries \in Seq(Entry)
  BY DEF DiskTypes, Entries
<1>2. \A e \in Entry : e.path \in Paths
  BY DEF Entry
<1>. QED  BY <1>1, <1>2 DEF ToSet

LEMMA OneEntry ==
    ASSUME DiskTypes, JournalShape, NEW d \in ToSet(Entries), NEW e \in ToSet(Entries), d.path = e.path
    PROVE  d = e
BY EntryFacts DEF JournalShape

LEMMA EntryFields ==
    ASSUME NEW e, NEW p, NEW x, NEW y,
           e = [path |-> p, existed |-> x # NoFile, staged |-> y # NoFile]
    PROVE  e.path = p /\ (e.existed <=> x # NoFile) /\ (e.staged <=> y # NoFile)
OBVIOUS

LEMMA JournalledFacts ==
    ASSUME CallTypes, tx # NoTx
    PROVE  /\ Journalled \in Seq(Entry)
           /\ DOMAIN Journalled = DOMAIN tx.order /\ DOMAIN tx.order = 1..Len(tx.order)
           /\ Len(Journalled) = Len(tx.order)
           /\ \A n \in DOMAIN tx.order :
                  /\ Journalled[n].path = tx.order[n]
                  /\ (Journalled[n].existed <=> (tx.from[tx.order[n]] # NoFile))
                  /\ (Journalled[n].staged <=> (tx.to[tx.order[n]] # NoFile))
           /\ {e.path : e \in ToSet(Journalled)} = ToSet(tx.order)
           /\ \A m, n \in DOMAIN Journalled : Journalled[m].path = Journalled[n].path => m = n
<1>1. tx.order \in Orders
  BY DEF CallTypes
<1>2. \A n \in 1..Len(tx.order) : Journalled[n] = [path |-> tx.order[n], existed |-> tx.from[tx.order[n]] # NoFile,
                                                 staged |-> tx.to[tx.order[n]] # NoFile]
  BY DEF Journalled
<1>3. Journalled \in [1..Len(tx.order) -> Entry]
  BY <1>1, <1>2, OrderFacts DEF Journalled, Entry
<1>4. Journalled \in Seq(Entry) /\ Len(Journalled) = Len(tx.order)
  BY <1>1, <1>3, OrderFacts
<1>5. DOMAIN tx.order = 1..Len(tx.order) /\ DOMAIN Journalled = 1..Len(tx.order)
  BY <1>1, <1>3, OrderFacts
<1>6. \A n \in DOMAIN tx.order :
         /\ Journalled[n].path = tx.order[n]
         /\ (Journalled[n].existed <=> (tx.from[tx.order[n]] # NoFile))
         /\ (Journalled[n].staged <=> (tx.to[tx.order[n]] # NoFile))
  <2>. SUFFICES ASSUME NEW n \in DOMAIN tx.order
                PROVE  /\ Journalled[n].path = tx.order[n]
                       /\ (Journalled[n].existed <=> (tx.from[tx.order[n]] # NoFile))
                       /\ (Journalled[n].staged <=> (tx.to[tx.order[n]] # NoFile))
    OBVIOUS
  <2>. DEFINE e == Journalled[n]  p == tx.order[n]  x == tx.from[tx.order[n]]  y == tx.to[tx.order[n]]
  <2>1. e = [path |-> p, existed |-> x # NoFile, staged |-> y # NoFile]
    BY <1>2, <1>5
  <2>2. e.path = p /\ (e.existed <=> x # NoFile) /\ (e.staged <=> y # NoFile)
    <3>. HIDE DEF e, p, x, y
    <3>. QED  BY <2>1, EntryFields
  <2>. QED  BY <2>2
<1>7. {e.path : e \in ToSet(Journalled)} = ToSet(tx.order)
  BY <1>5, <1>6 DEF ToSet
<1>8. \A m, n \in DOMAIN Journalled : Journalled[m].path = Journalled[n].path => m = n
  BY <1>1, <1>5, <1>6, OrderFacts
<1>. QED  BY <1>4, <1>5, <1>6, <1>7, <1>8

LEMMA LogicalTypes ==
    ASSUME DiskTypes
    PROVE  Logical \in [Paths -> Values]
BY DEF DiskTypes, Logical

\* Logical, of a path that no entry, or that one entry, is about.
LEMMA LogicalOfOther ==
    ASSUME NEW p \in Paths, \A e \in ToSet(Entries) : e.path = p => ~PutsBack(e) /\ ~Removes(e)
    PROVE  Logical[p] = files[p]
BY DEF Logical

LEMMA LogicalOfEntry ==
    ASSUME DiskTypes, JournalShape, NEW e \in ToSet(Entries)
    PROVE  /\ PutsBack(e) \/ Removes(e) => Logical[e.path] = backup[e.path]
           /\ ~PutsBack(e) /\ ~Removes(e) => Logical[e.path] = files[e.path]
<1>1. e.path \in Paths
  BY EntryFacts
<1>2. \A d \in ToSet(Entries) : d.path = e.path => d = e
  BY OneEntry
<1>. QED  BY <1>1, <1>2 DEF Logical

-----------------------------------------------------------------------------
(* Who changes what                                                         *)

\* The files an action leaves alone, and those it covers, decide what it can
\* do to the parts of the invariant.
LEMMA JournalWriters ==
    ASSUME Next
    PROVE  UNCHANGED journal \/ RecoverDone \/ Prepare \/ Commit \/ SweepDone \/ PrepareFailure
BY DEF Next, Write, Rewind, Capture, Return, Boot, RecoverClear, RecoverRestore, RecoverTidy, FirstCheck,
       Stage, SecondCheck, Backup, Install, Rollback, RollbackDone, Sweep, EarlyFailure, InstallFailure,
       RollbackFailure, RecoverFailure, ReturnFailure, Crash, Edit, FileStep, disk

LEMMA BackupWriters ==
    ASSUME Next
    PROVE  UNCHANGED backup \/ RecoverRestore \/ RecoverTidy \/ Backup \/ Rollback \/ Sweep
BY DEF Next, Write, Rewind, Capture, Return, Boot, RecoverClear, RecoverDone, FirstCheck,
       Stage, SecondCheck, Prepare, Install, Commit, RollbackDone, SweepDone, EarlyFailure, PrepareFailure,
       InstallFailure, RollbackFailure, RecoverFailure, ReturnFailure, Crash, Edit, FileStep, disk

LEMMA StagedWriters ==
    ASSUME Next
    PROVE  UNCHANGED staged \/ RecoverTidy \/ Stage \/ Install \/ Sweep \/ Crash
BY DEF Next, Write, Rewind, Capture, Return, Boot, RecoverClear, RecoverRestore, RecoverDone, FirstCheck,
       SecondCheck, Prepare, Backup, Commit, Rollback, RollbackDone, SweepDone, EarlyFailure, PrepareFailure,
       InstallFailure, RollbackFailure, RecoverFailure, ReturnFailure, Edit, FileStep, disk

LEMMA FilesWriters ==
    ASSUME Next
    PROVE  \/ UNCHANGED files \/ RecoverClear \/ RecoverRestore \/ Backup \/ Install \/ Rollback
           \/ RollbackFailure \/ \E p \in Paths, c \in Values : Edit(p, c)
BY DEF Next, Write, Rewind, Capture, Return, Boot, RecoverTidy, RecoverDone, FirstCheck,
       Stage, SecondCheck, Prepare, Commit, RollbackDone, Sweep, SweepDone, EarlyFailure, PrepareFailure,
       InstallFailure, RecoverFailure, ReturnFailure, Crash, FileStep, disk

LEMMA CallWriters ==
    ASSUME Next
    PROVE  \/ UNCHANGED tx \/ Capture \/ Return \/ ReturnFailure \/ Crash
           \/ \E order \in Orders : \E to \in [ToSet(order) -> Values] : Write(order, to)
           \/ \E m \in 1..Len(manifests) : Rewind(m)
BY DEF Next, Boot, RecoverClear, RecoverRestore, RecoverTidy, RecoverDone, FirstCheck,
       Stage, SecondCheck, Prepare, Backup, Install, Commit, Rollback, RollbackDone, Sweep, SweepDone,
       EarlyFailure, PrepareFailure, InstallFailure, RollbackFailure, RecoverFailure, Edit, FileStep, call, Failure

LEMMA DirtyWriters ==
    ASSUME Next
    PROVE  dirty' = dirty \cap Covered' \/ \E p \in Paths, c \in Values : Edit(p, c)
BY DEF Next, Write, Rewind, Capture, Return, Boot, RecoverClear, RecoverRestore, RecoverTidy, RecoverDone,
       FirstCheck, Stage, SecondCheck, Prepare, Backup, Install, Commit, Rollback, RollbackDone, Sweep,
       SweepDone, EarlyFailure, PrepareFailure, InstallFailure, RollbackFailure, RecoverFailure, ReturnFailure,
       Crash, FileStep, Settles

-----------------------------------------------------------------------------
(* Types                                                                    *)

LEMMA InFunctions ==
    ASSUME NEW P \in SUBSET Paths, NEW f \in [P -> Values]
    PROVE  f \in Functions
BY DEF Functions

LEMMA NewCall ==
    ASSUME NEW kind \in {"write", "rewind"}, NEW m \in Nat, NEW order \in Orders,
           NEW from \in [ToSet(order) -> Values], NEW to \in [ToSet(order) -> Values],
           NEW start \in [Paths -> Values],
           tx' = [kind |-> kind, m |-> m, order |-> order, from |-> from, to |-> to, start |-> start]
    PROVE  /\ tx' \in Calls /\ tx' # NoTx /\ tx'.kind \in {"write", "rewind"} /\ tx'.m = m
           /\ tx'.order \in Orders
           /\ tx'.from \in [ToSet(tx'.order) -> Values] /\ tx'.to \in [ToSet(tx'.order) -> Values]
<1>1. ToSet(order) \in SUBSET Paths /\ order \in Seq(Paths)
  BY OrderFacts
<1>2. from \in Functions /\ to \in Functions
  BY <1>1, InFunctions
<1>3. start \in Functions
  BY InFunctions, Paths \in SUBSET Paths
<1>4. tx' \in Calls
  BY <1>1, <1>2, <1>3 DEF Calls
<1>5. tx'.kind # "none"
  OBVIOUS
<1>. QED  BY <1>4, <1>5, NoTxFacts

LEMMA CaptureCall ==
    ASSUME CallTypes, tx # NoTx, NEW m \in Nat, tx' = [tx EXCEPT !.m = m]
    PROVE  /\ tx' \in Calls /\ tx' # NoTx /\ tx'.m = m /\ tx'.kind = tx.kind
           /\ tx'.order = tx.order /\ tx'.from = tx.from /\ tx'.to = tx.to /\ tx'.start = tx.start
<1>1. tx \in Calls /\ tx.kind \in {"write", "rewind"}
  BY DEF CallTypes
<1>2. /\ tx' \in Calls /\ tx'.m = m /\ tx'.kind = tx.kind
      /\ tx'.order = tx.order /\ tx'.from = tx.from /\ tx'.to = tx.to /\ tx'.start = tx.start
  BY <1>1 DEF Calls
<1>. QED  BY <1>1, <1>2, NoTxFacts

LEMMA ManifestFacts ==
    ASSUME Checkpoints, NEW m \in 1..Len(manifests)
    PROVE  /\ manifests[m] \in Manifest /\ manifests[m].order \in Orders
           /\ manifests[m].before \in [ToSet(manifests[m].order) -> Values]
           /\ manifests[m].after \in [ToSet(manifests[m].order) -> Values]
<1>1. manifests[m] \in Manifest
  BY DEF Checkpoints
<1>2. manifests[m].order \in Orders /\ manifests[m].before \in Functions /\ manifests[m].after \in Functions
  BY <1>1 DEF Manifest, Functions
<1>3. \A f \in Functions : f \in [DOMAIN f -> Values]
  BY DEF Functions
<1>. QED  BY <1>1, <1>2, <1>3 DEF Checkpoints

\* A rewind makes a call of what it has to put back.
LEMMA RewindCall ==
    ASSUME DiskTypes, Checkpoints, NEW m \in 1..Len(manifests), Rewind(m), tx' # tx
    PROVE  \E order \in Orders :
               /\ ToSet(order) = Restorable(m)
               /\ tx' = [kind |-> "rewind", m |-> m, order |-> order,
                         from |-> Restricted(files, order),
                         to |-> Restricted(manifests[m].before, order), start |-> Logical]
               /\ pc' = "recover" /\ i' = Len(Entries) /\ UNCHANGED manifests
BY DEF Rewind, Filtered

LEMMA RewindTypes ==
    ASSUME DiskTypes, Checkpoints, NEW m \in 1..Len(manifests), Rewind(m), tx' # tx
    PROVE  /\ tx' \in Calls /\ tx' # NoTx /\ tx'.kind = "rewind" /\ tx'.m = m
           /\ tx'.order \in Orders
           /\ tx'.from \in [ToSet(tx'.order) -> Values] /\ tx'.to \in [ToSet(tx'.order) -> Values]
           /\ tx'.start = Logical
           /\ pc' = "recover" /\ i' = Len(Entries) /\ UNCHANGED manifests
<1>1. PICK order \in Orders :
          /\ ToSet(order) \subseteq Restorable(m)
          /\ tx' = [kind |-> "rewind", m |-> m, order |-> order,
                    from |-> Restricted(files, order),
                    to |-> Restricted(manifests[m].before, order), start |-> Logical]
          /\ pc' = "recover" /\ i' = Len(Entries) /\ UNCHANGED manifests
  BY RewindCall
<1>2. ToSet(order) \subseteq ToSet(manifests[m].order) /\ ToSet(order) \subseteq Paths
  BY <1>1, OrderFacts DEF Restorable
<1>3. Restricted(files, order) \in [ToSet(order) -> Values]
  BY <1>2, RestrictedFacts DEF DiskTypes
<1>4. Restricted(manifests[m].before, order) \in [ToSet(order) -> Values]
  BY <1>2, RestrictedFacts, ManifestFacts
<1>5. Logical \in [Paths -> Values]
  BY LogicalTypes
<1>6. m \in Nat
  OBVIOUS
<1>. QED  BY <1>1, <1>3, <1>4, <1>5, <1>6, NewCall

LEMMA WriteTypes ==
    ASSUME DiskTypes, NEW order \in Orders, NEW to \in [ToSet(order) -> Values], Write(order, to)
    PROVE  /\ tx' \in Calls /\ tx' # NoTx /\ tx'.kind = "write" /\ tx'.m = 0
           /\ tx'.order \in Orders
           /\ tx'.from \in [ToSet(tx'.order) -> Values] /\ tx'.to \in [ToSet(tx'.order) -> Values]
           /\ tx'.start = Logical
<1>1. Restricted(files, order) \in [ToSet(order) -> Values]
  BY OrderFacts, RestrictedFacts DEF DiskTypes
<1>2. Logical \in [Paths -> Values]
  BY LogicalTypes
<1>. QED  BY <1>1, <1>2, NewCall DEF Write

LEMMA SomeEntry ==
    ASSUME DiskTypes, Steps, pc \in {"restore", "tidy"} \/ (pc = "recover" /\ i > 0), i \in Nat
    PROVE  i \in DOMAIN Entries /\ Entries[i] \in Entry /\ Entries[i] \in ToSet(Entries) /\ Entries[i].path \in Paths
BY EntryFacts DEF Steps

LEMMA SomePath ==
    ASSUME CallTypes, tx # NoTx, i \in 1..Len(tx.order)
    PROVE  /\ i \in DOMAIN tx.order /\ Path \in ToSet(tx.order) /\ Path \in Paths
           /\ tx.from[Path] \in Values /\ tx.to[Path] \in Values
           /\ \A n \in DOMAIN tx.order : tx.order[n] = Path => n = i
<1>1. tx.order \in Orders
  BY DEF CallTypes
<1>2. i \in DOMAIN tx.order
  BY <1>1, OrderFacts
<1>3. Path \in ToSet(tx.order) /\ Path \in Paths
  BY <1>1, <1>2, OrderFacts DEF Path
<1>4. tx.from[Path] \in Values /\ tx.to[Path] \in Values
  BY <1>3 DEF CallTypes
<1>5. \A n \in DOMAIN tx.order : tx.order[n] = Path => n = i
  BY <1>1, <1>2, OrderFacts DEF Path
<1>. QED  BY <1>2, <1>3, <1>4, <1>5

LEMMA CommittedEntries ==
    ASSUME DiskTypes, Commit
    PROVE  /\ journal'.state = "committed" /\ Entries' \in Seq(Entry) /\ DOMAIN Entries' = DOMAIN Entries
           /\ \A n \in DOMAIN Entries : /\ Entries'[n].path = Entries[n].path
                                        /\ Entries'[n].existed = Entries[n].existed
           /\ {e.path : e \in ToSet(Entries)'} = {e.path : e \in ToSet(Entries)}
<1>. DEFINE entries == [n \in DOMAIN Entries |-> [Entries[n] EXCEPT !.staged = FALSE]]
<1>1. journal' = [state |-> "committed", entries |-> entries]
  BY DEF Commit
<1>2. Entries' = entries
  BY <1>1 DEF Entries
<1>3. \A n \in DOMAIN Entries : /\ entries[n] \in Entry
                                /\ entries[n].path = Entries[n].path
                                /\ entries[n].existed = Entries[n].existed
  BY EntryFacts DEF Entry
<1>4. entries \in [1..Len(Entries) -> Entry]
  BY <1>3, EntryFacts
<1>5. entries \in Seq(Entry) /\ DOMAIN entries = DOMAIN Entries
  BY <1>4, EntryFacts
<1>6. {e.path : e \in ToSet(entries)} = {e.path : e \in ToSet(Entries)}
  BY <1>3, <1>5 DEF ToSet
<1>. HIDE DEF entries
<1>. QED  BY <1>1, <1>2, <1>3, <1>5, <1>6

\* The files are typed, the journal, and what it covers.
LEMMA FileTypes ==
    ASSUME Disk, Control, Next
    PROVE  files' \in [Paths -> Values] /\ staged' \in [Paths -> Values] /\ backup' \in [Paths -> Values]
<1>. USE DEF Values
<1>. /\ files \in [Paths -> Values] /\ staged \in [Paths -> Values] /\ backup \in [Paths -> Values]
     /\ DiskTypes /\ CallTypes
  BY DEF Disk, DiskTypes, Control
<1>1. CASE RecoverClear
  BY <1>1 DEF RecoverClear
<1>2. CASE RecoverRestore
  BY <1>2 DEF RecoverRestore
<1>3. CASE RecoverTidy
  BY <1>3 DEF RecoverTidy
<1>4. CASE Stage
  <2>1. tx # NoTx /\ i \in 1..Len(tx.order)
    BY <1>4, OrderFacts DEF Stage, Control, Phases, Steps, InCall, CallTypes
  <2>. QED  BY <1>4, <2>1, SomePath DEF Stage
<1>5. CASE Backup
  BY <1>5 DEF Backup
<1>6. CASE Install
  BY <1>6 DEF Install
<1>7. CASE Rollback
  BY <1>7 DEF Rollback
<1>8. CASE Sweep
  BY <1>8 DEF Sweep
<1>9. CASE RollbackFailure
  BY <1>9 DEF RollbackFailure
<1>10. CASE Crash
  BY <1>10 DEF Crash, disk
<1>11. ASSUME NEW p \in Paths, NEW c \in Values, Edit(p, c)
       PROVE  files' \in [Paths -> Values] /\ staged' \in [Paths -> Values] /\ backup' \in [Paths -> Values]
  BY <1>11 DEF Edit
<1>. QED  BY <1>1, <1>2, <1>3, <1>4, <1>5, <1>6, <1>7, <1>8, <1>9, <1>10, <1>11,
             FilesWriters, BackupWriters, StagedWriters

LEMMA JournalTypes ==
    ASSUME Disk, Control, Next
    PROVE  journal' \in [state : {"none", "prepared", "committed"}, entries : Seq(Entry)]
<1>. DiskTypes /\ CallTypes /\ NoJournal \in [state : {"none", "prepared", "committed"}, entries : Seq(Entry)]
  BY DEF Disk, Control, NoJournal
<1>1. CASE UNCHANGED journal
  BY <1>1 DEF DiskTypes
<1>2. CASE RecoverDone
  BY <1>2 DEF RecoverDone
<1>3. CASE Prepare \/ PrepareFailure
  <2>1. tx # NoTx
    BY <1>3 DEF Prepare, PrepareFailure, Control, Phases, InCall
  <2>2. Journalled \in Seq(Entry)
    BY <2>1, JournalledFacts
  <2>. QED  BY <1>3, <2>2 DEF Prepare, PrepareFailure, DiskTypes
<1>4. CASE Commit
  <2>1. Entries' \in Seq(Entry)
    BY <1>4, CommittedEntries
  <2>. QED  BY <1>4, <2>1 DEF Commit, Entries
<1>5. CASE SweepDone
  BY <1>5 DEF SweepDone, DiskTypes
<1>. QED  BY <1>1, <1>2, <1>3, <1>4, <1>5, JournalWriters

LEMMA DiskTypesStep ==
    ASSUME Disk, Control, Next
    PROVE  DiskTypes'
<1>. DiskTypes
  BY DEF Disk
<1>1. dirty' \subseteq Covered'
  <2>1. CASE dirty' = dirty \cap Covered'
    BY <2>1
  <2>2. ASSUME NEW p \in Paths, NEW c \in Values, Edit(p, c)
        PROVE  dirty' \subseteq Covered'
    <3>1. Covered' = Covered
      BY <2>2 DEF Edit, Covered, Prepared, Entries, call
    <3>. QED  BY <2>2, <3>1 DEF Edit, DiskTypes
  <2>. QED  BY <2>1, <2>2, DirtyWriters
<1>2. first' \in [Paths -> Values] \cup {Lost} /\ edits' \in Nat
  <2>. first \in [Paths -> Values] \cup {Lost} /\ edits \in Nat
    BY DEF DiskTypes
  <2>1. first' \in {first, Lost}
    BY DEF Next, Write, Rewind, Capture, Return, Boot, RecoverClear, RecoverRestore, RecoverTidy, RecoverDone,
           FirstCheck, Stage, SecondCheck, Prepare, Backup, Install, Commit, Rollback, RollbackDone, Sweep,
           SweepDone, EarlyFailure, PrepareFailure, InstallFailure, RollbackFailure, RecoverFailure,
           ReturnFailure, Crash, Edit, FileStep, Failure
  <2>2. edits' \in {edits, edits + 1}
    BY DEF Next, Write, Rewind, Capture, Return, Boot, RecoverClear, RecoverRestore, RecoverTidy, RecoverDone,
           FirstCheck, Stage, SecondCheck, Prepare, Backup, Install, Commit, Rollback, RollbackDone, Sweep,
           SweepDone, EarlyFailure, PrepareFailure, InstallFailure, RollbackFailure, RecoverFailure,
           ReturnFailure, Crash, Edit, FileStep, Failure, counters
  <2>. QED  BY <2>1, <2>2
<1>. QED  BY <1>1, <1>2, FileTypes, JournalTypes DEF DiskTypes

LEMMA CheckpointsStep ==
    ASSUME Disk, Checkpoints, Control, Next
    PROVE  Checkpoints'
<1>. /\ DiskTypes /\ CallTypes
     /\ manifests \in Seq(Manifest)
     /\ \A m \in 1..Len(manifests) :
         /\ DOMAIN manifests[m].before = ToSet(manifests[m].order)
         /\ DOMAIN manifests[m].after = ToSet(manifests[m].order)
  BY DEF Disk, Control, Checkpoints
<1>. SUFFICES ASSUME manifests' # manifests
              PROVE  Checkpoints'
  BY DEF Checkpoints
<1>. DEFINE Good(ms) == ms \in Seq(Manifest) /\ \A m \in 1..Len(ms) :
                            /\ DOMAIN ms[m].before = ToSet(ms[m].order)
                            /\ DOMAIN ms[m].after = ToSet(ms[m].order)
<1>0. \A m \in 1..Len(manifests) : Good([manifests EXCEPT ![m].status = "rewound"])
  <2>. TAKE m \in 1..Len(manifests)
  <2>. DEFINE ms == [manifests EXCEPT ![m].status = "rewound"]
  <2>1. manifests[m] \in Manifest
    OBVIOUS
  <2>2. /\ [manifests[m] EXCEPT !.status = "rewound"] \in Manifest
        /\ [manifests[m] EXCEPT !.status = "rewound"].order = manifests[m].order
        /\ [manifests[m] EXCEPT !.status = "rewound"].before = manifests[m].before
        /\ [manifests[m] EXCEPT !.status = "rewound"].after = manifests[m].after
    BY <2>1 DEF Manifest
  <2>3. /\ ms \in Seq(Manifest) /\ Len(ms) = Len(manifests)
        /\ \A k \in 1..Len(manifests) : ms[k] = IF k = m THEN [manifests[m] EXCEPT !.status = "rewound"]
                                                ELSE manifests[k]
    BY <2>2
  <2>. QED  BY <2>2, <2>3
<1>1. CASE Capture
  <2>1. tx # NoTx
    BY <1>1 DEF Capture, Control, Phases, InCall
  <2>2. /\ tx.order \in Orders /\ tx.from \in [ToSet(tx.order) -> Values] /\ tx.to \in [ToSet(tx.order) -> Values]
    BY <2>1 DEF CallTypes
  <2>3. tx.from \in Functions /\ tx.to \in Functions
    BY <2>2, InFunctions, OrderFacts
  <2>. DEFINE m == [status |-> "ready", order |-> tx.order, before |-> tx.from, after |-> tx.to]
  <2>4. m \in Manifest /\ DOMAIN m.before = ToSet(m.order) /\ DOMAIN m.after = ToSet(m.order)
    BY <2>2, <2>3 DEF Manifest, Functions
  <2>5. manifests' = Append(manifests, m)
    BY <1>1 DEF Capture
  <2>. HIDE DEF m
  <2>. QED  BY <2>4, <2>5 DEF Checkpoints
<1>2. CASE Return
  <2>1. tx.m \in 0..Len(manifests)
    BY DEF CallTypes
  <2>2. CASE tx.kind = "write" /\ tx.m # 0 /\ fate # "commit"
    <3>1. manifests' = Front(manifests)
      BY <1>2, <2>2 DEF Return, Recorded
    <3>. QED  BY <3>1, <2>1, <2>2 DEF Front, Checkpoints
  <2>3. CASE tx.kind = "rewind" /\ fate = "commit"
    <3>1. manifests' = [manifests EXCEPT ![tx.m].status = "rewound"]
      BY <1>2, <2>3 DEF Return, Recorded
    <3>2. tx.m \in 1..Len(manifests)
      BY <3>1, <2>1
    <3>. QED  BY <3>1, <3>2, <1>0 DEF Checkpoints
  <2>. QED  BY <1>2, <2>2, <2>3 DEF Return, Recorded
<1>3. ASSUME NEW m \in 1..Len(manifests), Rewind(m)
      PROVE  Checkpoints'
  <2>1. manifests' = [manifests EXCEPT ![m].status = "rewound"]
    BY <1>3 DEF Rewind
  <2>. QED  BY <2>1, <1>0 DEF Checkpoints
<1>. QED  BY <1>1, <1>2, <1>3
          DEF Next, Write, Boot, RecoverClear, RecoverRestore, RecoverTidy, RecoverDone,
              FirstCheck, Stage, SecondCheck, Prepare, Backup, Install, Commit, Rollback, RollbackDone, Sweep,
              SweepDone, EarlyFailure, PrepareFailure, InstallFailure, RollbackFailure, RecoverFailure,
              ReturnFailure, Crash, Edit, FileStep, Failure

LEMMA CallTypesStep ==
    ASSUME Disk, Checkpoints, Control, Next
    PROVE  CallTypes'
<1>. DiskTypes /\ CallTypes
  BY DEF Disk, Control
<1>1. pc' \in Places
  BY DEF Next, Write, Rewind, Capture, Return, Boot, RecoverClear, RecoverRestore, RecoverTidy, RecoverDone,
         FirstCheck, Stage, SecondCheck, Prepare, Backup, Install, Commit, Rollback, RollbackDone, Sweep,
         SweepDone, EarlyFailure, PrepareFailure, InstallFailure, RollbackFailure, RecoverFailure,
         ReturnFailure, Crash, Edit, FileStep, Failure, CallTypes, Places, InCall, Recovering
<1>2. fate' \in {"none", "commit", "abort", "keep"}
  BY DEF Next, Write, Rewind, Capture, Return, Boot, RecoverClear, RecoverRestore, RecoverTidy, RecoverDone,
         FirstCheck, Stage, SecondCheck, Prepare, Backup, Install, Commit, Rollback, RollbackDone, Sweep,
         SweepDone, EarlyFailure, PrepareFailure, InstallFailure, RollbackFailure, RecoverFailure,
         ReturnFailure, Crash, Edit, FileStep, Failure, CallTypes, call
<1>3. i' \in Nat
  <2>. i \in Nat /\ Len(Entries) \in Nat
    BY EntryFacts DEF CallTypes
  <2>1. CASE RecoverTidy
    BY <2>1, SomeEntry, EntryFacts DEF RecoverTidy, Control, Steps
  <2>2. ASSUME NEW m \in 1..Len(manifests), Rewind(m)
        PROVE  i' \in Nat
    BY <2>2 DEF Rewind
  <2>3. CASE ~RecoverTidy /\ ~(\E m \in 1..Len(manifests) : Rewind(m))
    BY <2>3 DEF Next, Write, Capture, Return, Boot, RecoverClear, RecoverRestore, RecoverDone,
         FirstCheck, Stage, SecondCheck, Prepare, Backup, Install, Commit, Rollback, RollbackDone, Sweep,
         SweepDone, EarlyFailure, PrepareFailure, InstallFailure, RollbackFailure, RecoverFailure,
         ReturnFailure, Crash, Edit, FileStep, Failure
  <2>. QED  BY <2>1, <2>2, <2>3
<1>4. /\ tx' \in Calls
      /\ tx' # NoTx => /\ tx'.kind \in {"write", "rewind"}
                       /\ tx'.order \in Orders
                       /\ tx'.from \in [ToSet(tx'.order) -> Values]
                       /\ tx'.to \in [ToSet(tx'.order) -> Values]
  <2>1. CASE UNCHANGED tx
    BY <2>1 DEF CallTypes
  <2>2. ASSUME tx' # tx, Capture
        PROVE  <1>4!2 /\ <1>4!1
    <3>1. tx' = [tx EXCEPT !.m = Len(manifests) + 1] /\ tx # NoTx /\ Len(manifests) + 1 \in Nat
      BY <2>2 DEF Capture, Control, Phases, InCall, Checkpoints
    <3>. QED  BY <3>1, CaptureCall DEF CallTypes
  <2>3. ASSUME Return \/ ReturnFailure \/ Crash
        PROVE  <1>4!2 /\ <1>4!1
    BY <2>3, NoTxFacts DEF Return, ReturnFailure, Crash
  <2>4. ASSUME NEW order \in Orders, NEW to \in [ToSet(order) -> Values], Write(order, to)
        PROVE  <1>4!2 /\ <1>4!1
    BY <2>4, WriteTypes
  <2>5. ASSUME NEW m \in 1..Len(manifests), Rewind(m), tx' # tx
        PROVE  <1>4!2 /\ <1>4!1
    BY <2>5, RewindTypes
  <2>. QED  BY <2>1, <2>2, <2>3, <2>4, <2>5, CallWriters
<1>5. tx'.m \in 0..Len(manifests')
  <2>. tx.m \in 0..Len(manifests) /\ Len(manifests) \in Nat
    BY DEF CallTypes, Checkpoints
  <2>1. CASE UNCHANGED <<tx, manifests>>
    BY <2>1
  <2>2. CASE Capture /\ tx' # tx
    <3>1. /\ tx' = [tx EXCEPT !.m = Len(manifests) + 1] /\ tx # NoTx
          /\ Len(manifests') = Len(manifests) + 1
      BY <2>2 DEF Capture, Control, Phases, InCall, Checkpoints
    <3>2. tx'.m = Len(manifests) + 1
      BY <3>1, CaptureCall
    <3>. QED  BY <3>1, <3>2
  <2>3. CASE Return \/ ReturnFailure \/ Crash
    <3>1. tx'.m = 0
      BY <2>3, NoTxFacts DEF Return, ReturnFailure, Crash
    <3>2. Len(manifests') \in Nat
      BY CheckpointsStep DEF Checkpoints
    <3>. QED  BY <3>1, <3>2
  <2>4. ASSUME NEW order \in Orders, NEW to \in [ToSet(order) -> Values], Write(order, to)
        PROVE  tx'.m \in 0..Len(manifests')
    BY <2>4, WriteTypes DEF Write
  <2>5. ASSUME NEW m \in 1..Len(manifests), Rewind(m)
        PROVE  tx'.m \in 0..Len(manifests')
    <3>1. CASE tx' # tx
      BY <3>1, <2>5, RewindTypes
    <3>2. CASE tx' = tx
      <4>1. UNCHANGED manifests \/ manifests' = [manifests EXCEPT ![m].status = "rewound"]
        BY <2>5 DEF Rewind
      <4>2. Len(manifests') = Len(manifests)
        BY <4>1 DEF Checkpoints
      <4>. QED  BY <4>2, <3>2
    <3>. QED  BY <3>1, <3>2
  <2>6. CASE Capture /\ tx' = tx
    BY <2>6, CaptureCall DEF Capture, Control, Phases, InCall, Checkpoints
  <2>. QED  BY <2>1, <2>2, <2>3, <2>4, <2>5, <2>6
          DEF Next, Boot, RecoverClear, RecoverRestore, RecoverTidy, RecoverDone,
              FirstCheck, Stage, SecondCheck, Prepare, Backup, Install, Commit, Rollback, RollbackDone, Sweep,
              SweepDone, EarlyFailure, PrepareFailure, InstallFailure, RollbackFailure, RecoverFailure,
              Edit, FileStep, Failure, call
<1>. QED  BY <1>1, <1>2, <1>3, <1>4, <1>5 DEF CallTypes

-----------------------------------------------------------------------------
(* Where the call and its journal are                                       *)

LEMMA PhasesStep ==
    ASSUME Disk, Checkpoints, Control, Next
    PROVE  Phases'
<1>. USE DEF Phases, InCall
<1>. DiskTypes /\ CallTypes /\ Phases
  BY DEF Disk, Control
<1>1. ASSUME NEW order \in Orders, NEW to \in [ToSet(order) -> Values], Write(order, to)
      PROVE  Phases'
  BY <1>1, WriteTypes DEF Write
<1>2. ASSUME NEW m \in 1..Len(manifests), Rewind(m)
      PROVE  Phases'
  BY <1>2, RewindTypes DEF Rewind
<1>3. CASE Capture
  BY <1>3, CaptureCall DEF Capture, Checkpoints
<1>4. CASE Return
  BY <1>4, NoTxFacts DEF Return, FileStep, Failure, call
<1>5. CASE Boot
  BY <1>5, NoTxFacts DEF Boot, FileStep, Failure, call
<1>6. CASE RecoverClear
  BY <1>6, NoTxFacts DEF RecoverClear, FileStep, Failure, call
<1>7. CASE RecoverRestore
  BY <1>7, NoTxFacts DEF RecoverRestore, FileStep, Failure, call
<1>8. CASE RecoverTidy
  BY <1>8, NoTxFacts DEF RecoverTidy, FileStep, Failure, call
<1>9. CASE RecoverDone
  BY <1>9, NoTxFacts DEF RecoverDone, FileStep, Failure, call
<1>10. CASE FirstCheck
  BY <1>10, NoTxFacts DEF FirstCheck, FileStep, Failure, call
<1>11. CASE Stage
  BY <1>11, NoTxFacts DEF Stage, FileStep, Failure, call
<1>12. CASE SecondCheck
  BY <1>12, NoTxFacts DEF SecondCheck, FileStep, Failure, call
<1>13. CASE Prepare
  BY <1>13, NoTxFacts DEF Prepare, FileStep, Failure, call
<1>14. CASE Backup
  BY <1>14, NoTxFacts DEF Backup, FileStep, Failure, call
<1>15. CASE Install
  BY <1>15, NoTxFacts DEF Install, FileStep, Failure, call
<1>16. CASE Commit
  BY <1>16, NoTxFacts DEF Commit, FileStep, Failure, call
<1>17. CASE Rollback
  BY <1>17, NoTxFacts DEF Rollback, FileStep, Failure, call
<1>18. CASE RollbackDone
  BY <1>18, NoTxFacts DEF RollbackDone, FileStep, Failure, call
<1>19. CASE Sweep
  BY <1>19, NoTxFacts DEF Sweep, FileStep, Failure, call
<1>20. CASE SweepDone
  BY <1>20, NoTxFacts DEF SweepDone, FileStep, Failure, call
<1>21. CASE EarlyFailure
  BY <1>21, NoTxFacts DEF EarlyFailure, FileStep, Failure, call
<1>22. CASE PrepareFailure
  BY <1>22, NoTxFacts DEF PrepareFailure, FileStep, Failure, call
<1>23. CASE InstallFailure
  BY <1>23, NoTxFacts DEF InstallFailure, FileStep, Failure, call
<1>24. CASE RollbackFailure
  BY <1>24, NoTxFacts DEF RollbackFailure, FileStep, Failure, call
<1>25. CASE RecoverFailure
  BY <1>25, NoTxFacts DEF RecoverFailure, FileStep, Failure, call
<1>26. CASE ReturnFailure
  BY <1>26, NoTxFacts DEF ReturnFailure, FileStep, Failure, call
<1>27. CASE Crash
  BY <1>27, NoTxFacts DEF Crash, FileStep, Failure, call
<1>28. ASSUME NEW p \in Paths, NEW c \in Values, Edit(p, c)
      PROVE  Phases'
  BY <1>28, NoTxFacts DEF Edit, FileStep, Failure, call
<1>. QED  BY <1>1, <1>2, <1>3, <1>4, <1>5, <1>6, <1>7, <1>8, <1>9, <1>10, <1>11, <1>12,
             <1>13, <1>14, <1>15, <1>16, <1>17, <1>18, <1>19, <1>20, <1>21, <1>22, <1>23,
             <1>24, <1>25, <1>26, <1>27, <1>28 DEF Next

LEMMA StepsStep ==
    ASSUME Disk, Checkpoints, Control, Next
    PROVE  Steps'
<1>. USE DEF Steps, InCall
<1>. DiskTypes /\ CallTypes /\ Phases /\ Steps /\ JournalPhases
  BY DEF Disk, Control
<1>. /\ i \in Nat /\ Len(Entries) \in Nat /\ Len(tx.order) \in Nat
     /\ UNCHANGED journal => UNCHANGED Entries
     /\ tx # NoTx => Len(tx.order) # 0
  BY EntryFacts, OrderFacts DEF CallTypes, Calls, Entries
<1>1. ASSUME NEW order \in Orders, NEW to \in [ToSet(order) -> Values], Write(order, to)
      PROVE  Steps'
  BY <1>1 DEF Write, disk
<1>2. ASSUME NEW m \in 1..Len(manifests), Rewind(m)
      PROVE  Steps'
  BY <1>2, RewindTypes DEF Rewind, disk
<1>3. CASE Capture
  BY <1>3, CaptureCall DEF Capture, Checkpoints, disk, Phases
<1>4. CASE Return
  BY <1>4 DEF Return, FileStep, Failure, call
<1>5. CASE Boot
  BY <1>5 DEF Boot, FileStep, disk, Failure, call
<1>6. CASE RecoverClear
  BY <1>6 DEF RecoverClear, FileStep, Failure, call
<1>7. CASE RecoverRestore
  BY <1>7 DEF RecoverRestore, FileStep, Failure, call
<1>8. CASE RecoverTidy
  BY <1>8 DEF RecoverTidy, FileStep, Failure, call
<1>9. CASE RecoverDone
  BY <1>9 DEF RecoverDone, Phases, FileStep, Failure, call
<1>10. CASE FirstCheck
  BY <1>10 DEF FirstCheck, FileStep, Failure, call
<1>11. CASE Stage
  BY <1>11 DEF Stage, FileStep, Failure, call
<1>12. CASE SecondCheck
  BY <1>12 DEF SecondCheck, FileStep, Failure, call
<1>13. CASE Prepare
  BY <1>13 DEF Prepare, FileStep, Failure, call
<1>14. CASE Backup
  BY <1>14 DEF Backup, FileStep, Failure, call
<1>15. CASE Install
  BY <1>15 DEF Install, FileStep, Failure, call
<1>16. CASE Commit
  BY <1>16 DEF Commit, FileStep, Failure, call
<1>17. CASE Rollback
  BY <1>17 DEF Rollback, FileStep, Failure, call
<1>18. CASE RollbackDone
  BY <1>18 DEF RollbackDone, FileStep, Failure, call
<1>19. CASE Sweep
  BY <1>19 DEF Sweep, FileStep, Failure, call
<1>20. CASE SweepDone
  BY <1>20 DEF SweepDone, FileStep, Failure, call
<1>21. CASE EarlyFailure
  BY <1>21 DEF EarlyFailure, FileStep, Failure, call
<1>22. CASE PrepareFailure
  BY <1>22 DEF PrepareFailure, FileStep, Failure, call
<1>23. CASE InstallFailure
  BY <1>23 DEF InstallFailure, FileStep, Failure, call
<1>24. CASE RollbackFailure
  BY <1>24 DEF RollbackFailure, FileStep, Failure, call
<1>25. CASE RecoverFailure
  BY <1>25 DEF RecoverFailure, FileStep, Failure, call
<1>26. CASE ReturnFailure
  BY <1>26 DEF ReturnFailure, FileStep, Failure, call
<1>27. CASE Crash
  BY <1>27 DEF Crash, FileStep, Failure, call
<1>28. ASSUME NEW p \in Paths, NEW c \in Values, Edit(p, c)
      PROVE  Steps'
  BY <1>28 DEF Edit, FileStep, Failure, call
<1>. QED  BY <1>1, <1>2, <1>3, <1>4, <1>5, <1>6, <1>7, <1>8, <1>9, <1>10, <1>11, <1>12,
             <1>13, <1>14, <1>15, <1>16, <1>17, <1>18, <1>19, <1>20, <1>21, <1>22, <1>23,
             <1>24, <1>25, <1>26, <1>27, <1>28 DEF Next

LEMMA JournalPhasesStep ==
    ASSUME Disk, Checkpoints, Control, Next
    PROVE  JournalPhases'
<1>. /\ DiskTypes /\ CallTypes /\ Phases /\ Steps /\ JournalPhases /\ JournalShape
  BY DEF Disk, Control
<1>1. pc' \in {"current", "stage", "prepare"} => journal' = NoJournal
  BY DEF Next, Write, Rewind, Capture, Return, Boot, RecoverClear, RecoverRestore, RecoverTidy, RecoverDone,
         FirstCheck, Stage, SecondCheck, Prepare, Backup, Install, Commit, Rollback, RollbackDone, Sweep,
         SweepDone, EarlyFailure, PrepareFailure, InstallFailure, RollbackFailure, RecoverFailure,
         ReturnFailure, Crash, Edit, FileStep, Failure, disk, JournalPhases
<1>2. ASSUME pc' \in {"backup", "install", "rollback"}
      PROVE  journal' = [state |-> "prepared", entries |-> Journalled']
  <2>1. UNCHANGED tx
    BY <1>2 DEF Next, Write, Rewind, Capture, Return, Boot, RecoverClear, RecoverRestore, RecoverTidy, RecoverDone,
         FirstCheck, Stage, SecondCheck, Prepare, Backup, Install, Commit, Rollback, RollbackDone, Sweep,
         SweepDone, EarlyFailure, PrepareFailure, InstallFailure, RollbackFailure, RecoverFailure,
         ReturnFailure, Crash, Edit, FileStep, Failure, call
  <2>2. Journalled' = Journalled
    BY <2>1 DEF Journalled
  <2>3. journal' = [state |-> "prepared", entries |-> Journalled]
    BY <1>2 DEF Next, Write, Rewind, Capture, Return, Boot, RecoverClear, RecoverRestore, RecoverTidy, RecoverDone,
         FirstCheck, Stage, SecondCheck, Prepare, Backup, Install, Commit, Rollback, RollbackDone, Sweep,
         SweepDone, EarlyFailure, PrepareFailure, InstallFailure, RollbackFailure, RecoverFailure,
         ReturnFailure, Crash, Edit, FileStep, Failure, disk, JournalPhases
  <2>. QED  BY <2>2, <2>3
<1>. QED  BY <1>1, <1>2 DEF JournalPhases

LEMMA ControlStep ==
    ASSUME Disk, Checkpoints, Control, Next
    PROVE  Control'
BY CallTypesStep, PhasesStep, StepsStep, JournalPhasesStep DEF Control

\* The entries of a journal, before and after: none, those of the call, or the
\* same but for what a commit forgets.
LEMMA JournalShapeStep ==
    ASSUME Disk, Control, Next
    PROVE  JournalShape'
<1>. /\ DiskTypes /\ CallTypes /\ Phases /\ JournalShape
  BY DEF Disk, Control
<1>1. CASE UNCHANGED journal
  BY <1>1 DEF JournalShape, Entries
<1>2. CASE journal' = NoJournal
  BY <1>2 DEF JournalShape, Entries, NoJournal
<1>3. CASE Prepare \/ PrepareFailure
  <2>1. tx # NoTx
    BY <1>3 DEF Prepare, PrepareFailure, Phases, InCall
  <2>2. CASE journal' = [state |-> "prepared", entries |-> Journalled]
    BY <2>1, <2>2, JournalledFacts DEF JournalShape, Entries
  <2>. QED  BY <1>1, <1>3, <2>2 DEF Prepare, PrepareFailure
<1>4. CASE Commit
  BY <1>4, CommittedEntries DEF JournalShape
<1>. QED  BY <1>1, <1>2, <1>3, <1>4, JournalWriters DEF RecoverDone, SweepDone

-----------------------------------------------------------------------------
(* Backups and journal                                                      *)

LEMMA BackupOfEntry ==
    ASSUME Disk, NEW e \in ToSet(Entries), backup[e.path] # NoFile
    PROVE  e.existed
<1>1. DiskTypes /\ JournalShape
  BY DEF Disk
<1>2. PICK d \in ToSet(Entries) : d.path = e.path /\ d.existed
  BY <1>1, EntryFacts DEF Disk, BackupsAreJournalled
<1>. QED  BY <1>1, <1>2, OneEntry

LEMMA NoBackups ==
    ASSUME Disk, journal = NoJournal
    PROVE  \A p \in Paths : backup[p] = NoFile
BY DEF Disk, BackupsAreJournalled, Entries, NoJournal, ToSet

\* Nothing is beside the workspace any more when the journal goes.
LEMMA RecoveredClean ==
    ASSUME Inductive, RecoverDone
    PROVE  \A p \in Paths : backup[p] = NoFile
<1>1. \A n \in DOMAIN Entries : backup[Entries[n].path] = NoFile
  <2>1. pc \in Recovering /\ i = 0
    BY DEF RecoverDone, Recovering
  <2>2. \A n \in DOMAIN Entries : n > i
    BY <2>1, EntryFacts DEF Inductive, Disk
  <2>. QED  BY <2>1, <2>2 DEF Inductive, Progress, Recovery, Undone
<1>. QED  BY <1>1 DEF Inductive, Disk, BackupsAreJournalled, ToSet

LEMMA SweptClean ==
    ASSUME Inductive, SweepDone, fate # "keep"
    PROVE  /\ \A p \in Paths : backup[p] = NoFile
           /\ Prepared => \A e \in ToSet(Entries) : GoneIfRemoved(e)
<1>. /\ Disk /\ CallTypes /\ Phases /\ CleaningUp /\ BackupsAreJournalled /\ pc = "sweep" /\ DiskTypes /\ Steps
  BY DEF Inductive, Disk, Control, Progress, SweepDone
<1>1. CASE fate = "abort"
  <2>1. CASE journal = NoJournal
    BY <2>1, NoBackups DEF Prepared, NoJournal
  <2>2. CASE journal # NoJournal
    <3>1. Prepared /\ \A e \in ToSet(Entries) : Undone(e)
      BY <1>1, <2>2 DEF CleaningUp
    <3>. QED  BY <3>1 DEF BackupsAreJournalled, Undone
  <2>. QED  BY <2>1, <2>2
<1>2. CASE fate = "commit"
  <2>1. /\ journal.state = "committed" /\ \A e \in ToSet(Entries) : e.path \in ToSet(tx.order)
        /\ \A n \in DOMAIN tx.order : n < i => backup[tx.order[n]] = NoFile
    BY <1>2 DEF CleaningUp
  <2>2. tx # NoTx /\ i > Len(tx.order)
    BY DEF SweepDone, Phases, InCall
  <2>3. DOMAIN tx.order = 1..Len(tx.order) /\ Len(tx.order) \in Nat /\ i \in Nat
    BY <2>2, OrderFacts DEF CallTypes
  <2>4. \A n \in DOMAIN tx.order : n < i
    BY <2>2, <2>3
  <2>5. \A p \in ToSet(tx.order) : backup[p] = NoFile
    BY <2>1, <2>4 DEF ToSet
  <2>. QED  BY <2>1, <2>5 DEF BackupsAreJournalled, Prepared
<1>. QED  BY <1>1, <1>2 DEF CallTypes, Phases

LEMMA BackupsStep ==
    ASSUME Inductive, Next
    PROVE  BackupsAreJournalled'
<1>. /\ Disk /\ DiskTypes /\ CallTypes /\ Phases /\ Steps /\ JournalPhases /\ BackupsAreJournalled
  BY DEF Inductive, Disk, Control
<1>0. backup' \in [Paths -> Values]
  BY FileTypes DEF Inductive
<1>1. ASSUME UNCHANGED journal, \A p \in Paths : backup'[p] \in {backup[p], NoFile}
      PROVE  BackupsAreJournalled'
  BY <1>1 DEF BackupsAreJournalled, Entries
<1>2. ASSUME \A p \in Paths : backup'[p] = NoFile
      PROVE  BackupsAreJournalled'
  BY <1>2 DEF BackupsAreJournalled
<1>3. CASE RecoverDone
  BY <1>2, <1>3, RecoveredClean DEF RecoverDone
<1>4. CASE Prepare \/ PrepareFailure
  BY <1>2, <1>4, NoBackups DEF Prepare, PrepareFailure, JournalPhases
<1>5. CASE Commit
  <2>1. UNCHANGED backup
    BY <1>5 DEF Commit
  <2>2. ASSUME NEW p \in Paths, backup'[p] # NoFile
        PROVE  \E e \in ToSet(Entries)' : e.path = p /\ e.existed
    <3>1. PICK n \in DOMAIN Entries : Entries[n].path = p /\ Entries[n].existed
      BY <2>1, <2>2 DEF BackupsAreJournalled, ToSet
    <3>2. Entries'[n].path = p /\ Entries'[n].existed /\ n \in DOMAIN Entries'
      BY <3>1, <1>5, CommittedEntries
    <3>. QED  BY <3>2 DEF ToSet
  <2>. QED  BY <2>2 DEF BackupsAreJournalled
<1>6. CASE SweepDone
  BY <1>1, <1>2, <1>6, SweptClean DEF SweepDone, Preserves
<1>7. CASE Backup
  <2>1. UNCHANGED journal /\ tx # NoTx /\ pc = "backup" /\ i <= Len(tx.order) /\ Len(tx.order) \in Nat
    BY <1>7 DEF Backup, Phases, InCall, CallTypes, Calls
  <2>2. i \in 1..Len(tx.order)
    BY <2>1 DEF Steps
  <2>3. Path \in Paths /\ i \in DOMAIN tx.order
    BY <2>1, <2>2, SomePath
  <2>4. CASE tx.from[Path] = NoFile
    BY <2>4, <1>1, <1>7 DEF Backup
  <2>5. CASE tx.from[Path] # NoFile
    <3>1. Entries = Journalled /\ Journalled[i].path = Path /\ Journalled[i].existed /\ i \in DOMAIN Journalled
      BY <2>1, <2>3, <2>5, JournalledFacts DEF JournalPhases, Entries, Path
    <3>2. \E e \in ToSet(Entries) : e.path = Path /\ e.existed
      BY <3>1 DEF ToSet
    <3>3. \A p \in Paths : p # Path => backup'[p] = backup[p]
      BY <1>7, <2>5 DEF Backup, DiskTypes
    <3>. QED  BY <2>1, <3>2, <3>3 DEF BackupsAreJournalled, Entries
  <2>. QED  BY <2>4, <2>5
<1>8. CASE RecoverRestore
  BY <1>1, <1>8 DEF RecoverRestore, DiskTypes
<1>9. CASE RecoverTidy
  BY <1>1, <1>9 DEF RecoverTidy, DiskTypes
<1>10. CASE Rollback
  BY <1>1, <1>10 DEF Rollback, DiskTypes
<1>11. CASE Sweep
  BY <1>1, <1>11 DEF Sweep, DiskTypes
<1>. QED  BY <1>1, <1>3, <1>4, <1>5, <1>6, <1>7, <1>8, <1>9, <1>10, <1>11, JournalWriters, BackupWriters

LEMMA StaysDirty ==
    ASSUME Next, NEW p \in dirty, p \in Covered'
    PROVE  p \in dirty'
<1>1. ASSUME NEW q \in Paths, NEW c \in Values, Edit(q, c)
      PROVE  p \in dirty'
  BY <1>1 DEF Edit
<1>. QED  BY <1>1, DirtyWriters

LEMMA CoveredByEntry ==
    ASSUME Prepared, NEW e \in ToSet(Entries)
    PROVE  e.path \in Covered
BY DEF Covered

LEMMA CoveredByCall ==
    ASSUME pc \in {"prepare", "backup", "install", "rollback"}
    PROVE  ToSet(tx.order) \subseteq Covered
BY DEF Covered

LEMMA CallAt ==
    ASSUME Control, pc \in InCall
    PROVE  /\ tx # NoTx /\ tx.order \in Orders /\ Len(tx.order) \in Nat \ {0} /\ DOMAIN tx.order = 1..Len(tx.order)
           /\ tx.from \in [ToSet(tx.order) -> Values] /\ tx.to \in [ToSet(tx.order) -> Values]
           /\ i \in Nat
           /\ pc \in {"stage", "backup", "sweep"} => i >= 1 /\ i <= Len(tx.order) + 1
           /\ pc = "install" => i \in 1..Len(tx.order)
           /\ pc = "rollback" => i <= Len(tx.order)
<1>1. tx # NoTx /\ CallTypes /\ Steps
  BY DEF Control, Phases
<1>. QED  BY <1>1, OrderFacts DEF CallTypes, Steps

LEMMA NotCreatedStep ==
    ASSUME Inductive, Next
    PROVE  NotCreated'
<1>. /\ Disk /\ Control /\ DiskTypes /\ CallTypes /\ Phases /\ Steps /\ JournalPhases /\ NotCreated /\ JournalShape
  BY DEF Inductive, Disk, Control
<1>. DiskTypes' /\ files' \in [Paths -> Values] /\ staged' \in [Paths -> Values]
  BY DiskTypesStep, FileTypes DEF Inductive
<1>. SUFFICES ASSUME Prepared', NEW e \in ToSet(Entries)', ~e.existed, e.staged, staged'[e.path] # NoFile,
                     files'[e.path] # NoFile
              PROVE  e.path \in dirty'
  BY DEF NotCreated
<1>0. e.path \in Covered' /\ e.path \in Paths
  <2>1. e \in Entry
    BY DEF DiskTypes, Entries, ToSet
  <2>. QED  BY <2>1 DEF Covered, Entry
<1>1. ASSUME e.path \in dirty
      PROVE  e.path \in dirty'
  BY <1>0, <1>1, StaysDirty
<1>2. CASE Prepare \/ (PrepareFailure /\ journal' # journal)
  <2>1. pc = "prepare" /\ journal'.entries = Journalled /\ UNCHANGED files
    BY <1>2 DEF Prepare, PrepareFailure
  <2>2. tx # NoTx /\ DOMAIN Journalled = DOMAIN tx.order
    BY <2>1, CallAt, JournalledFacts DEF InCall
  <2>3. PICK n \in DOMAIN tx.order : e = Journalled[n]
    BY <2>1, <2>2 DEF Entries, ToSet
  <2>4. e.path = tx.order[n] /\ tx.from[tx.order[n]] = NoFile
    BY <2>2, <2>3, JournalledFacts
  <2>5. e.path \in dirty \/ files[e.path] = NoFile
    BY <2>1, <2>4 DEF Inductive, Progress, Installation, Untouched
  <2>. QED  BY <1>1, <2>1, <2>5
<1>3. CASE UNCHANGED journal
  <2>1. e \in ToSet(Entries) /\ Prepared
    BY <1>3 DEF Entries, Prepared
  <2>2. staged[e.path] # NoFile /\ files[e.path] # NoFile => e.path \in dirty'
    BY <1>1, <2>1 DEF NotCreated
  <2>3. \A d \in ToSet(Entries) : d.path = e.path => d = e
    BY <2>1, OneEntry
  <2>4. backup[e.path] = NoFile
    BY <2>1, BackupOfEntry
  <2>5. staged[e.path] # NoFile
    <3>1. CASE RecoverTidy
      BY <3>1 DEF RecoverTidy, DiskTypes
    <3>2. CASE Stage
      BY <3>2, <2>1 DEF Stage, JournalPhases, Prepared, NoJournal
    <3>3. CASE Install
      BY <1>0, <3>3 DEF Install, DiskTypes
    <3>4. CASE Sweep
      BY <3>4 DEF Sweep, DiskTypes
    <3>5. CASE Crash
      BY <3>5, <2>1 DEF Crash, Prepared, NoJournal
    <3>. QED  BY <3>1, <3>2, <3>3, <3>4, <3>5, StagedWriters
  <2>6. CASE UNCHANGED files
    BY <2>2, <2>5, <2>6
  <2>7. CASE RecoverClear \/ RollbackFailure
    BY <1>0, <2>2, <2>5, <2>7 DEF RecoverClear, RollbackFailure, DiskTypes
  <2>8. CASE RecoverRestore
    <3>1. i \in DOMAIN Entries /\ Entries[i] \in ToSet(Entries)
      BY <2>8, SomeEntry DEF RecoverRestore, CallTypes
    <3>2. CASE PutsBack(Entries[i])
      BY <1>0, <2>2, <2>3, <2>5, <2>8, <3>1, <3>2 DEF RecoverRestore, PutsBack, DiskTypes
    <3>3. CASE ~PutsBack(Entries[i])
      BY <2>2, <2>5, <2>8, <3>3 DEF RecoverRestore
    <3>. QED  BY <3>2, <3>3
  <2>9. CASE Backup
    BY <1>0, <2>2, <2>5, <2>9 DEF Backup, DiskTypes
  <2>10. CASE Install
    <3>1. CASE tx.to[Path] = NoFile
      BY <2>2, <2>5, <2>10, <3>1 DEF Install
    <3>2. CASE tx.to[Path] # NoFile
      BY <1>0, <2>2, <2>5, <2>10, <3>2 DEF Install, DiskTypes
    <3>. QED  BY <3>1, <3>2
  <2>11. CASE Rollback
    BY <1>0, <2>2, <2>4, <2>5, <2>11 DEF Rollback, DiskTypes
  <2>12. ASSUME NEW p \in Paths, NEW c \in Values, Edit(p, c)
         PROVE  e.path \in dirty'
    <3>1. e.path \in Covered
      BY <2>1, CoveredByEntry
    <3>. QED  BY <2>2, <2>5, <2>12, <3>1 DEF Edit, DiskTypes
  <2>. QED  BY <2>6, <2>7, <2>8, <2>9, <2>10, <2>11, <2>12, FilesWriters
<1>4. CASE RecoverDone \/ Commit \/ (SweepDone /\ journal' # journal)
  BY <1>4, CommittedEntries DEF RecoverDone, SweepDone, Prepared, NoJournal
<1>. QED  BY <1>2, <1>3, <1>4, JournalWriters

-----------------------------------------------------------------------------
(* Recovery, installation, rollback and clean-up                            *)

\* An entry with nothing left to undo stays so while its journal is there.
LEMMA StaysGone ==
    ASSUME DiskTypes, Next, UNCHANGED journal, NEW e \in ToSet(Entries), GoneIfRemoved(e),
           staged'[e.path] = NoFile => staged[e.path] = NoFile,
           files'[e.path] \in {files[e.path], NoFile} \/ e.path \in dirty'
    PROVE  GoneIfRemoved(e)'
<1>. SUFFICES ASSUME Removes(e)', files'[e.path] # NoFile
              PROVE  e.path \in dirty'
  BY DEF GoneIfRemoved
<1>1. Removes(e) /\ Prepared /\ Prepared' /\ e \in ToSet(Entries)'
  BY DEF Removes, Prepared, Entries
<1>2. e.path \in Covered'
  BY <1>1 DEF Covered
<1>3. CASE files'[e.path] \in {files[e.path], NoFile}
  BY <1>1, <1>2, <1>3, StaysDirty DEF GoneIfRemoved
<1>. QED  BY <1>3

LEMMA RecoveryStep ==
    ASSUME Inductive, Next
    PROVE  Recovery'
<1>. /\ Disk /\ Control /\ DiskTypes /\ CallTypes /\ Phases /\ Steps /\ JournalPhases /\ NotCreated /\ JournalShape
     /\ Recovery /\ DiskTypes' /\ i \in Nat
  BY DiskTypesStep DEF Inductive, Disk, Control, Progress, CallTypes
<1>e. /\ Len(Entries) \in Nat /\ DOMAIN Entries = 1..Len(Entries)
      /\ \A n \in DOMAIN Entries : Entries[n] \in ToSet(Entries) /\ Entries[n].path \in Paths
  BY EntryFacts
<1>1. ASSUME pc' = "recover", i' = Len(Entries), UNCHANGED journal
      PROVE  Recovery'
  BY <1>1, <1>e DEF Recovery, Entries
<1>2. ASSUME pc' \notin Recovering
      PROVE  Recovery'
  BY <1>2 DEF Recovery, Recovering
<1>3. CASE Boot
  BY <1>1, <1>3 DEF Boot, disk
<1>4. CASE Capture
  BY <1>1, <1>2, <1>4 DEF Capture, disk, Recovering
<1>5. ASSUME NEW m \in 1..Len(manifests), Rewind(m)
      PROVE  Recovery'
  <2>1. UNCHANGED journal /\ pc = "idle"
    BY <1>5 DEF Rewind, disk
  <2>2. CASE tx' = tx
    BY <1>1, <1>2, <1>5, <2>1, <2>2 DEF Rewind, Recovering
  <2>3. CASE tx' # tx
    BY <1>1, <2>1, <1>5, <2>3, RewindTypes DEF Inductive
  <2>. QED  BY <2>2, <2>3
<1>6. CASE RecoverClear
  <2>1. /\ UNCHANGED <<journal, staged, backup, i>> /\ pc = "recover" /\ pc' = "restore" /\ i > 0 /\ Entries' = Entries
    BY <1>6 DEF RecoverClear, Entries
  <2>2. i \in DOMAIN Entries
    BY <2>1, SomeEntry
  <2>3. \A p \in Paths : files'[p] \in {files[p], NoFile}
    BY <1>6 DEF RecoverClear, DiskTypes
  <2>4. \A n \in DOMAIN Entries : n > i => Undone(Entries[n])'
    BY <1>e, <2>1, <2>3, StaysGone DEF Recovery, Undone, Recovering
  <2>5. GoneIfRemoved(Entries[i])'
    <3>1. PutsBack(Entries[i]) \/ Removes(Entries[i]) => files'[Entries[i].path] = NoFile
      BY <1>6, <2>2, <1>e DEF RecoverClear, DiskTypes
    <3>2. Removes(Entries[i])' => Removes(Entries[i])
      BY <2>1 DEF Removes, Prepared
    <3>. QED  BY <3>1, <3>2, <2>1 DEF GoneIfRemoved
  <2>. QED  BY <2>1, <2>4, <2>5 DEF Recovery
<1>7. CASE RecoverRestore
  <2>1. /\ UNCHANGED <<journal, staged, i>> /\ pc = "restore" /\ pc' = "tidy" /\ Entries' = Entries
    BY <1>7 DEF RecoverRestore, Entries
  <2>2. i \in DOMAIN Entries
    BY <2>1, SomeEntry
  <2>3. \A p \in Paths : /\ backup'[p] \in {backup[p], NoFile}
                         /\ PutsBack(Entries[i]) => backup'[Entries[i].path] = NoFile
                         /\ files'[p] = files[p] \/ (PutsBack(Entries[i]) /\ p = Entries[i].path)
    BY <1>7, <1>e, <2>2 DEF RecoverRestore, DiskTypes
  <2>4. \A n \in DOMAIN Entries : n >= i /\ GoneIfRemoved(Entries[n]) => GoneIfRemoved(Entries[n])'
    <3>. SUFFICES ASSUME NEW n \in DOMAIN Entries, GoneIfRemoved(Entries[n])
                  PROVE  GoneIfRemoved(Entries[n])'
      BY <2>1
    <3>1. CASE files'[Entries[n].path] = files[Entries[n].path]
      <4>1. PICK e \in ToSet(Entries) : e = Entries[n]
        BY <1>e
      <4>2. /\ GoneIfRemoved(e) /\ files'[e.path] \in {files[e.path], NoFile}
            /\ staged'[e.path] = NoFile => staged[e.path] = NoFile
        BY <2>1, <3>1, <4>1
      <4>3. GoneIfRemoved(e)'
        BY <2>1, <4>2, StaysGone
      <4>. QED  BY <2>1, <4>1, <4>3 DEF GoneIfRemoved, Removes, Prepared
    <3>2. CASE Entries[n].path = Entries[i].path /\ PutsBack(Entries[i])
      <4>1. Entries[n] = Entries[i]
        BY <3>2, <2>2, <1>e, OneEntry
      <4>2. ~Removes(Entries[n])'
        BY <2>1, <3>2, <4>1 DEF Removes, PutsBack
      <4>. QED  BY <4>2 DEF GoneIfRemoved
    <3>. QED  BY <3>1, <3>2, <2>3, <1>e
  <2>5. \A n \in DOMAIN Entries : n > i => Undone(Entries[n])'
    BY <1>e, <2>1, <2>3, <2>4 DEF Recovery, Undone, Recovering
  <2>6. GoneIfRemoved(Entries[i])' /\ ~PutsBack(Entries[i])'
    BY <1>e, <2>1, <2>2, <2>3, <2>4 DEF Recovery, PutsBack, Prepared
  <2>. QED  BY <2>1, <2>5, <2>6 DEF Recovery
<1>8. CASE RecoverTidy
  <2>1. /\ UNCHANGED <<journal, files>> /\ pc = "tidy" /\ pc' = "recover" /\ i' = i - 1 /\ Entries' = Entries
    BY <1>8 DEF RecoverTidy, Entries
  <2>2. i \in DOMAIN Entries
    BY <2>1, SomeEntry
  <2>3. \A p \in Paths : /\ backup'[p] \in {backup[p], NoFile}
                         /\ p # Entries[i].path => staged'[p] = staged[p]
                         /\ Entries[i].existed => backup'[Entries[i].path] = NoFile
    BY <1>8, <1>e, <2>2 DEF RecoverTidy, DiskTypes
  <2>4. PICK e \in ToSet(Entries) : e = Entries[i]
    BY <2>2, <1>e
  <2>5. Undone(e)'
    <3>1. backup'[e.path] = NoFile
      BY <1>e, <2>2, <2>3, <2>4, BackupOfEntry
    <3>2. ASSUME Removes(e)'
          PROVE  files'[e.path] = NoFile \/ e.path \in dirty'
      <4>1. Prepared /\ ~e.existed /\ e.staged
        BY <2>1, <3>2 DEF Removes, Prepared
      <4>2. files[e.path] = NoFile \/ e.path \in dirty
        BY <4>1, <2>1, <2>4 DEF NotCreated, Recovery, GoneIfRemoved, Removes
      <4>3. e.path \in Covered'
        BY <2>1, <4>1 DEF Covered, Prepared
      <4>. QED  BY <2>1, <4>2, <4>3, StaysDirty
    <3>. QED  BY <3>1, <3>2 DEF Undone, GoneIfRemoved
  <2>6. ASSUME NEW n \in DOMAIN Entries, n > i, NEW d \in ToSet(Entries), d = Entries[n]
        PROVE  Undone(d)'
    <3>1. Undone(d)
      BY <2>1, <2>6 DEF Recovery, Recovering
    <3>2. d.path # e.path
      BY <2>2, <2>4, <2>6, <1>e DEF JournalShape
    <3>3. /\ GoneIfRemoved(d) /\ files'[d.path] \in {files[d.path], NoFile}
          /\ staged'[d.path] = NoFile => staged[d.path] = NoFile
      BY <2>1, <2>3, <2>4, <2>6, <3>1, <3>2, <1>e DEF Undone
    <3>4. GoneIfRemoved(d)'
      BY <2>1, <3>3, StaysGone
    <3>. QED  BY <2>3, <2>6, <3>1, <3>4, <1>e DEF Undone
  <2>7. ASSUME NEW n \in DOMAIN Entries, n > i'
        PROVE  Undone(Entries[n])'
    <3>1. n = i \/ n > i
      BY <2>1, <2>7, <1>e
    <3>2. CASE n = i
      BY <2>1, <2>4, <2>5, <3>2 DEF Undone, GoneIfRemoved, Removes, Prepared
    <3>3. CASE n > i
      BY <2>1, <2>6, <3>3, <1>e DEF Undone, GoneIfRemoved, Removes, Prepared
    <3>. QED  BY <3>1, <3>2, <3>3
  <2>. QED  BY <2>1, <2>7 DEF Recovery
<1>9. ASSUME NEW p \in Paths, NEW c \in Values, Edit(p, c)
      PROVE  Recovery'
  <2>1. UNCHANGED <<journal, staged, backup, pc, i, Entries>>
    BY <1>9 DEF Edit, Entries
  <2>2. \A n \in DOMAIN Entries : GoneIfRemoved(Entries[n]) => GoneIfRemoved(Entries[n])'
    <3>. SUFFICES ASSUME NEW n \in DOMAIN Entries, GoneIfRemoved(Entries[n]), Removes(Entries[n])'
                  PROVE  files'[Entries[n].path] = NoFile \/ Entries[n].path \in dirty'
      BY <2>1 DEF GoneIfRemoved
    <3>1. Removes(Entries[n]) /\ Prepared
      BY <2>1 DEF Removes, Prepared
    <3>2. Entries[n].path \in Covered
      BY <3>1, <1>e, CoveredByEntry
    <3>. QED  BY <1>9, <3>1, <3>2, <1>e DEF Edit, GoneIfRemoved, DiskTypes
  <2>3. \A n \in DOMAIN Entries : PutsBack(Entries[n])' <=> PutsBack(Entries[n])
    BY <2>1 DEF PutsBack, Prepared
  <2>4. \A n \in DOMAIN Entries : n > i /\ pc \in Recovering => Undone(Entries[n])'
    BY <2>1, <2>2 DEF Undone, Recovery
  <2>5. pc \in {"restore", "tidy"} => i \in DOMAIN Entries
    BY <1>e DEF Steps
  <2>. QED  BY <2>1, <2>2, <2>3, <2>4, <2>5 DEF Recovery
<1>. QED  BY <1>2, <1>3, <1>4, <1>5, <1>6, <1>7, <1>8, <1>9
          DEF Recovering, Next, Write, Return, RecoverDone, FirstCheck, Stage, SecondCheck, Prepare, Backup, Install,
              Commit, Rollback, RollbackDone, Sweep, SweepDone, EarlyFailure, PrepareFailure, InstallFailure,
              RollbackFailure, RecoverFailure, ReturnFailure, Crash, FileStep, Failure

\* A file that a step does not touch is where it was in the installation.
LEMMA StaysInstalled ==
    ASSUME Next, UNCHANGED tx, NEW p \in ToSet(tx.order), p \in Paths,
           pc' \in {"prepare", "backup", "install", "rollback"},
           staged'[p] = staged[p], backup'[p] = backup[p], files'[p] = files[p] \/ p \in dirty'
    PROVE  /\ Untouched(p) => Untouched(p)'
           /\ BackedUp(p) => BackedUp(p)'
           /\ Replaced(p) => Replaced(p)'
<1>1. p \in Covered'
  BY DEF Covered
<1>2. p \in dirty => p \in dirty'
  BY <1>1, StaysDirty
<1>3. tx'.to[p] = tx.to[p] /\ tx'.from[p] = tx.from[p]
  OBVIOUS
<1>. QED  BY <1>2, <1>3 DEF Untouched, BackedUp, Replaced, Saved

LEMMA InstallationStep ==
    ASSUME Inductive, Next
    PROVE  Installation'
<1>. /\ Disk /\ Control /\ DiskTypes /\ CallTypes /\ Phases /\ Steps /\ JournalPhases
     /\ Installation /\ DiskTypes' /\ i \in Nat
  BY DiskTypesStep DEF Inductive, Disk, Control, Progress, CallTypes
<1>. DEFINE Order == DOMAIN tx.order
<1>1. ASSUME pc' \notin {"stage", "prepare", "backup", "install"}
      PROVE  Installation'
  BY <1>1 DEF Installation
<1>2. CASE FirstCheck
  BY <1>1, <1>2, CallAt DEF FirstCheck, Installation, InCall
<1>3. CASE Stage
  <2>1. /\ UNCHANGED tx /\ pc = "stage" /\ pc' = "stage" /\ i' = i + 1 /\ i \in 1..Len(tx.order)
        /\ tx # NoTx /\ DOMAIN tx.order = 1..Len(tx.order)
    BY <1>3, CallAt DEF Stage, FileStep, call, InCall
  <2>2. \A n \in DOMAIN tx.order : tx.order[n] \in Paths /\ (n # i => tx.order[n] # Path)
    BY <2>1, SomePath, OrderFacts DEF CallTypes
  <2>3. \A p \in Paths : staged'[p] = IF p = Path THEN tx.to[Path] ELSE staged[p]
    BY <1>3 DEF Stage, DiskTypes
  <2>4. \A n \in DOMAIN tx.order : n < i + 1 => staged'[tx.order[n]] = tx.to[tx.order[n]]
    <3>. SUFFICES ASSUME NEW n \in DOMAIN tx.order, n < i + 1
                  PROVE  staged'[tx.order[n]] = tx.to[tx.order[n]]
      OBVIOUS
    <3>1. CASE n = i
      BY <2>2, <2>3, <3>1 DEF Path
    <3>2. CASE n < i
      BY <2>1, <2>2, <2>3, <3>2 DEF Installation
    <3>. QED  BY <3>1, <3>2, <2>1
  <2>. QED  BY <2>1, <2>4 DEF Installation
<1>4. CASE SecondCheck
  <2>1. CASE pc' = "prepare"
    <3>1. /\ UNCHANGED <<tx, files, staged, backup>> /\ pc = "stage" /\ Current /\ i > Len(tx.order)
          /\ tx # NoTx /\ DOMAIN tx.order = 1..Len(tx.order) /\ tx.order \in Orders /\ Len(tx.order) \in Nat
      BY <1>4, <2>1, CallAt DEF SecondCheck, InCall, disk
    <3>2. ASSUME NEW n \in DOMAIN tx.order
          PROVE  /\ staged[tx.order[n]] = tx.to[tx.order[n]] /\ backup[tx.order[n]] = NoFile
                 /\ files[tx.order[n]] = tx.from[tx.order[n]]
      <4>1. tx.order[n] \in ToSet(tx.order) /\ tx.order[n] \in Paths /\ n < i
        BY <3>1, OrderFacts
      <4>. QED  BY <3>1, <4>1, NoBackups DEF Installation, JournalPhases, Current
    <3>. QED  BY <2>1, <3>1, <3>2 DEF Installation, Untouched
  <2>2. CASE pc' # "prepare"
    BY <1>1, <1>4, <2>2 DEF SecondCheck
  <2>. QED  BY <2>1, <2>2
<1>5. CASE Prepare
  <2>1. /\ UNCHANGED <<tx, files, staged, backup, i>> /\ pc = "prepare" /\ pc' = "backup" /\ i = 1
        /\ tx # NoTx /\ DOMAIN tx.order = 1..Len(tx.order) /\ tx.order \in Orders
    BY <1>5, CallAt DEF Prepare, FileStep, call, InCall, Steps
  <2>2. \A n \in DOMAIN tx.order : n >= 1 /\ Untouched(tx.order[n])
    BY <2>1 DEF Installation
  <2>3. \A p \in ToSet(tx.order) : p \in Paths /\ (Untouched(p) => Untouched(p)')
    BY <2>1, StaysInstalled, OrderFacts
  <2>4. \A n \in DOMAIN tx.order : n >= 1 /\ Untouched(tx.order[n])'
    BY <2>1, <2>2, <2>3 DEF ToSet, Untouched
  <2>. QED  BY <2>1, <2>4 DEF Installation
<1>6. CASE Backup \/ Install
  <2>1. /\ UNCHANGED tx /\ i \in 1..Len(tx.order) /\ i \in DOMAIN tx.order /\ tx # NoTx
        /\ DOMAIN tx.order = 1..Len(tx.order) /\ tx.order \in Orders /\ pc' \in {"backup", "install"}
    BY <1>6, CallAt DEF Backup, Install, FileStep, call, InCall
  <2>2. \A n \in DOMAIN tx.order :
            tx.order[n] \in Paths /\ tx.order[n] \in ToSet(tx.order) /\ (n # i => tx.order[n] # Path)
    BY <2>1, SomePath, OrderFacts
  <2>3. \A p \in Paths : p # Path => files'[p] = files[p] /\ staged'[p] = staged[p] /\ backup'[p] = backup[p]
    BY <1>6 DEF Backup, Install, DiskTypes
  <2>4. ASSUME NEW n \in DOMAIN tx.order, n # i, NEW p \in ToSet(tx.order), p = tx.order[n]
        PROVE  (Untouched(p) => Untouched(p)') /\ (Replaced(p) => Replaced(p)')
    BY <2>1, <2>2, <2>3, <2>4, StaysInstalled
  <2>5. ASSUME NEW n \in DOMAIN tx.order, n # i
        PROVE  /\ Untouched(tx.order[n]) => Untouched(tx.order[n])'
               /\ Replaced(tx.order[n]) => Replaced(tx.order[n])'
    <3>1. PICK p \in ToSet(tx.order) : p = tx.order[n]
      BY <2>2
    <3>. QED  BY <2>1, <2>4, <2>5, <3>1 DEF Untouched, Replaced, Saved
  <2>6. PICK q \in Paths : q = Path /\ q \in ToSet(tx.order)
    BY <2>1, SomePath
  <2>7. /\ q \in dirty => q \in dirty'
        /\ tx'.to[q] = tx.to[q] /\ tx'.from[q] = tx.from[q]
    <3>1. q \in Covered'
      BY <2>1, <2>6 DEF Covered
    <3>. QED  BY <2>1, <3>1, StaysDirty
  <2>8. CASE Backup
    <3>1. Untouched(q) /\ i' = i /\ pc = "backup" /\ pc' = "install" /\ UNCHANGED staged
      BY <2>1, <2>6, <2>8 DEF Installation, Backup, Path
    <3>4. BackedUp(q)'
      <4>1. CASE tx.from[q] = NoFile
        BY <2>6, <2>7, <2>8, <3>1, <4>1 DEF Backup, Untouched, BackedUp, Saved
      <4>2. CASE tx.from[q] # NoFile
        <5>1. files[q] # NoFile /\ backup'[q] = files[q] /\ files'[q] = NoFile
          BY <2>6, <2>8, <4>2 DEF Backup, DiskTypes
        <5>. QED  BY <2>7, <3>1, <4>2, <5>1 DEF Untouched, BackedUp, Saved
      <4>. QED  BY <4>1, <4>2
    <3>5. BackedUp(tx.order[i])'
      BY <2>1, <2>6, <3>1, <3>4 DEF BackedUp, Saved, Path
    <3>. QED  BY <2>1, <2>5, <3>1, <3>5 DEF Installation
  <2>9. CASE Install
    <3>1. BackedUp(q) /\ i' = i + 1 /\ pc = "install" /\ pc' = "backup" /\ UNCHANGED backup
      BY <2>1, <2>6, <2>9 DEF Installation, Install, Path
    <3>2. staged'[q] = NoFile /\ (q \in dirty' \/ files'[q] = tx.to[q])
      BY <2>6, <2>7, <2>9, <3>1 DEF Install, BackedUp, DiskTypes
    <3>3. Replaced(q)'
      BY <2>7, <3>1, <3>2 DEF BackedUp, Replaced, Saved
    <3>5. \A n \in DOMAIN tx.order : n < i + 1 => (Replaced(tx.order[n]))'
      BY <2>1, <2>5, <2>6, <2>7, <3>1, <3>3 DEF Installation, Replaced, Saved, Path
    <3>6. \A n \in DOMAIN tx.order : n > i => (Untouched(tx.order[n]))'
      BY <2>1, <2>5, <3>1 DEF Installation
    <3>. QED  BY <2>1, <3>1, <3>5, <3>6 DEF Installation
  <2>. QED  BY <1>6, <2>8, <2>9
<1>7. ASSUME NEW p \in Paths, NEW c \in Values, Edit(p, c)
      PROVE  Installation'
  <2>1. UNCHANGED <<tx, pc, i, staged, backup>>
    BY <1>7 DEF Edit, call
  <2>2. CASE pc = "stage"
    BY <2>1, <2>2 DEF Installation
  <2>3. CASE pc \in {"prepare", "backup", "install"}
    <3>1. tx.order \in Orders /\ ToSet(tx.order) \subseteq Covered
      BY <2>3, CallAt, CoveredByCall DEF InCall
    <3>2. \A q \in Paths : q \in Covered => files'[q] = files[q] \/ q \in dirty'
      BY <1>7 DEF Edit, DiskTypes
    <3>3. \A q \in ToSet(tx.order) : /\ Untouched(q) => Untouched(q)'
                                     /\ BackedUp(q) => BackedUp(q)'
                                     /\ Replaced(q) => Replaced(q)'
      BY <2>1, <2>3, <3>1, <3>2, StaysInstalled, OrderFacts
    <3>4. ASSUME NEW n \in DOMAIN tx.order
          PROVE  /\ Untouched(tx.order[n]) => Untouched(tx.order[n])'
                 /\ BackedUp(tx.order[n]) => BackedUp(tx.order[n])'
                 /\ Replaced(tx.order[n]) => Replaced(tx.order[n])'
      <4>1. PICK q \in ToSet(tx.order) : q = tx.order[n]
        BY DEF ToSet
      <4>. QED  BY <2>1, <3>3, <4>1 DEF Untouched, BackedUp, Replaced, Saved
    <3>. QED  BY <2>1, <2>3, <3>4 DEF Installation
  <2>. QED  BY <1>1, <2>1, <2>2, <2>3
<1>. QED  BY <1>1, <1>2, <1>3, <1>4, <1>5, <1>6, <1>7
          DEF Next, Write, Rewind, Capture, Return, Boot, RecoverClear, RecoverRestore, RecoverTidy, RecoverDone,
              Commit, Rollback, RollbackDone, Sweep, SweepDone, EarlyFailure, PrepareFailure, InstallFailure,
              RollbackFailure, RecoverFailure, ReturnFailure, Crash, FileStep, Failure, Phases

LEMMA RollingBackStep ==
    ASSUME Inductive, Next
    PROVE  RollingBack'
<1>. /\ Disk /\ Control /\ DiskTypes /\ CallTypes /\ Phases /\ Steps /\ JournalPhases
     /\ Installation /\ RollingBack /\ DiskTypes' /\ i \in Nat
  BY DiskTypesStep DEF Inductive, Disk, Control, Progress, CallTypes
<1>1. ASSUME pc' # "rollback"
      PROVE  RollingBack'
  BY <1>1 DEF RollingBack
<1>2. ASSUME pc' = "rollback", pc \in {"backup", "install", "rollback"}, UNCHANGED <<tx, journal>>,
             \A n \in DOMAIN tx.order :
                 /\ n <= i' /\ tx.from[tx.order[n]] # NoFile /\ backup'[tx.order[n]] = NoFile
                        => ~(tx.to[tx.order[n]] # NoFile /\ staged'[tx.order[n]] = NoFile)
                 /\ n > i' /\ fate' = "abort" =>
                        /\ backup'[tx.order[n]] = NoFile
                        /\ tx.from[tx.order[n]] = NoFile /\ tx.to[tx.order[n]] # NoFile
                               /\ staged'[tx.order[n]] = NoFile
                               => files'[tx.order[n]] = NoFile \/ tx.order[n] \in dirty'
      PROVE  RollingBack'
  <2>1. tx # NoTx
    BY <1>2, CallAt DEF InCall
  <2>2. \A n \in DOMAIN tx.order : /\ Journalled'[n] = Journalled[n]
                                   /\ Journalled[n].path = tx.order[n]
                                   /\ Journalled[n].existed <=> tx.from[tx.order[n]] # NoFile
                                   /\ Journalled[n].staged <=> tx.to[tx.order[n]] # NoFile
    BY <1>2, <2>1, JournalledFacts DEF Journalled
  <2>3. ASSUME NEW n \in DOMAIN tx.order, n > i', fate' = "abort"
        PROVE  Undone(Journalled[n])'
    BY <1>2, <2>2, <2>3 DEF Undone, GoneIfRemoved, Removes
  <2>4. ASSUME NEW n \in DOMAIN tx.order, n <= i'
        PROVE  (tx.from[tx.order[n]] # NoFile /\ backup[tx.order[n]] = NoFile => ~Installed(tx.order[n]))'
    BY <1>2, <2>4 DEF Installed
  <2>. QED  BY <1>2, <2>3, <2>4 DEF RollingBack
<1>3. CASE InstallFailure
  <2>1. /\ UNCHANGED <<tx, journal, files, staged, backup, i>> /\ pc \in {"backup", "install"} /\ pc' = "rollback"
    BY <1>3 DEF InstallFailure, disk
  <2>2. \A n \in DOMAIN tx.order : /\ n < i => Replaced(tx.order[n])
                                   /\ n = i => BackedUp(tx.order[n]) \/ Untouched(tx.order[n])
                                   /\ n > i => Untouched(tx.order[n])
    BY <2>1 DEF Installation
  <2>3. \A n \in DOMAIN tx.order : n \in Nat
    BY <2>1, CallAt DEF InCall
  <2>. QED  BY <1>2, <2>1, <2>2, <2>3 DEF Replaced, BackedUp, Saved, Untouched
<1>4. CASE Rollback \/ RollbackFailure
  <2>1. /\ UNCHANGED <<tx, journal, staged>> /\ pc = "rollback" /\ pc' = "rollback" /\ i > 0 /\ i' = i - 1
        /\ i \in 1..Len(tx.order) /\ tx # NoTx /\ DOMAIN tx.order = 1..Len(tx.order) /\ tx.order \in Orders
        /\ Len(tx.order) \in Nat
    BY <1>4, CallAt DEF Rollback, RollbackFailure, FileStep, call, Failure, InCall
  <2>2. /\ Path \in Paths /\ Path \in ToSet(tx.order) /\ Path = tx.order[i] /\ i \in DOMAIN tx.order
        /\ \A n \in DOMAIN tx.order : tx.order[n] \in Paths /\ (n # i => tx.order[n] # Path)
    BY <2>1, SomePath, OrderFacts DEF Path
  <2>3. \A p \in Paths : p # Path => files'[p] = files[p] /\ backup'[p] = backup[p]
    BY <1>4 DEF Rollback, RollbackFailure, DiskTypes
  <2>4. \A p \in ToSet(tx.order) : p \in dirty => p \in dirty'
    BY <2>1, CoveredByCall, StaysDirty DEF Covered
  <2>5. \A n \in DOMAIN tx.order :
            n <= i' /\ tx.from[tx.order[n]] # NoFile /\ backup'[tx.order[n]] = NoFile
                => ~(tx.to[tx.order[n]] # NoFile /\ staged'[tx.order[n]] = NoFile)
    BY <2>1, <2>2, <2>3 DEF RollingBack, Installed
  <2>6. ASSUME NEW n \in DOMAIN tx.order, n > i', fate' = "abort"
        PROVE  /\ backup'[tx.order[n]] = NoFile
               /\ tx.from[tx.order[n]] = NoFile /\ tx.to[tx.order[n]] # NoFile /\ staged'[tx.order[n]] = NoFile
                      => files'[tx.order[n]] = NoFile \/ tx.order[n] \in dirty'
    <3>1. Rollback /\ fate = "abort"
      BY <1>4, <2>6 DEF Rollback, RollbackFailure, FileStep, call
    <3>2. CASE n = i
      <4>1. backup'[Path] = NoFile
        BY <3>1, <2>2 DEF Rollback, DiskTypes
      <4>2. ASSUME tx.from[Path] = NoFile, tx.to[Path] # NoFile, staged[Path] = NoFile
            PROVE  files'[Path] = NoFile
        <5>1. backup[Path] = NoFile
          <6>. SUFFICES ASSUME backup[Path] # NoFile
                        PROVE  FALSE
            OBVIOUS
          <6>1. Entries = Journalled
            BY <2>1 DEF JournalPhases, Entries
          <6>2. PICK e \in ToSet(Entries) : e = Journalled[i]
            BY <2>1, <2>2, <6>1, JournalledFacts DEF ToSet
          <6>3. e.path = Path /\ ~e.existed
            BY <2>1, <2>2, <4>2, <6>2, JournalledFacts
          <6>. QED  BY <6>2, <6>3, BackupOfEntry
        <5>. QED  BY <3>1, <4>2, <5>1, <2>2 DEF Rollback, Installed, DiskTypes
      <4>. QED  BY <2>1, <2>2, <3>2, <4>1, <4>2
    <3>3. CASE n > i
      <4>1. Undone(Journalled[n])
        BY <2>1, <3>1, <3>3 DEF RollingBack
      <4>2. Prepared
        BY <2>1 DEF JournalPhases, Prepared
      <4>3. /\ backup[tx.order[n]] = NoFile
            /\ tx.from[tx.order[n]] = NoFile /\ tx.to[tx.order[n]] # NoFile /\ staged[tx.order[n]] = NoFile
                   => files[tx.order[n]] = NoFile \/ tx.order[n] \in dirty
        BY <2>1, <4>1, <4>2, JournalledFacts DEF Undone, GoneIfRemoved, Removes
      <4>4. tx.order[n] # Path /\ tx.order[n] \in ToSet(tx.order)
        BY <2>2, <3>3 DEF ToSet
      <4>. QED  BY <2>1, <2>2, <2>3, <2>4, <4>3, <4>4
    <3>. QED  BY <2>1, <2>6, <3>2, <3>3
  <2>. QED  BY <1>2, <2>1, <2>5, <2>6
<1>5. ASSUME NEW p \in Paths, NEW c \in Values, Edit(p, c), pc' = "rollback"
      PROVE  RollingBack'
  <2>1. /\ UNCHANGED <<tx, journal, staged, backup, pc, i, fate>> /\ pc = "rollback" /\ tx # NoTx
        /\ DOMAIN tx.order = 1..Len(tx.order) /\ tx.order \in Orders
    BY <1>5, CallAt DEF Edit, call, InCall
  <2>2. \A q \in ToSet(tx.order) : q \in dirty' \/ (files'[q] = files[q] /\ q \notin dirty)
    BY <1>5, <2>1, CoveredByCall, OrderFacts DEF Edit, DiskTypes
  <2>3. Prepared
    BY <2>1 DEF JournalPhases, Prepared
  <2>4. ASSUME NEW n \in DOMAIN tx.order, n > i, fate = "abort"
        PROVE  /\ backup[tx.order[n]] = NoFile
               /\ tx.from[tx.order[n]] = NoFile /\ tx.to[tx.order[n]] # NoFile /\ staged[tx.order[n]] = NoFile
                      => files'[tx.order[n]] = NoFile \/ tx.order[n] \in dirty'
    <3>1. Undone(Journalled[n])
      BY <2>1, <2>4 DEF RollingBack
    <3>2. /\ backup[tx.order[n]] = NoFile
          /\ tx.from[tx.order[n]] = NoFile /\ tx.to[tx.order[n]] # NoFile /\ staged[tx.order[n]] = NoFile
                 => files[tx.order[n]] = NoFile \/ tx.order[n] \in dirty
      BY <2>1, <2>3, <3>1, JournalledFacts DEF Undone, GoneIfRemoved, Removes
    <3>. QED  BY <2>2, <3>2 DEF ToSet
  <2>. QED  BY <1>2, <2>1, <2>4 DEF RollingBack, Installed
<1>. QED  BY <1>1, <1>3, <1>4, <1>5
          DEF Next, Write, Rewind, Capture, Return, Boot, RecoverClear, RecoverRestore, RecoverTidy, RecoverDone,
              FirstCheck, Stage, SecondCheck, Prepare, Backup, Install, Commit, RollbackDone, Sweep, SweepDone,
              EarlyFailure, PrepareFailure, RecoverFailure, ReturnFailure, Crash, FileStep, Failure, Phases

LEMMA CleaningUpStep ==
    ASSUME Inductive, Next
    PROVE  CleaningUp'
<1>. /\ Disk /\ Control /\ DiskTypes /\ CallTypes /\ Phases /\ Steps /\ JournalPhases /\ NotCreated /\ JournalShape
     /\ RollingBack /\ CleaningUp /\ DiskTypes' /\ i \in Nat
  BY DiskTypesStep DEF Inductive, Disk, Control, Progress, CallTypes
<1>1. ASSUME pc' # "sweep"
      PROVE  CleaningUp'
  BY <1>1 DEF CleaningUp
<1>2. ASSUME fate' = "abort", journal' = NoJournal
      PROVE  CleaningUp'
  BY <1>2 DEF CleaningUp
<1>3. ASSUME fate' = "keep", Prepared'
      PROVE  CleaningUp'
  BY <1>3 DEF CleaningUp
<1>4. CASE SecondCheck
  BY <1>1, <1>2, <1>4 DEF SecondCheck, disk, JournalPhases
<1>5. CASE EarlyFailure
  BY <1>1, <1>2, <1>5 DEF EarlyFailure, disk, JournalPhases
<1>6. CASE PrepareFailure
  BY <1>2, <1>3, <1>6 DEF PrepareFailure, JournalPhases, Prepared
<1>7. CASE Commit
  <2>1. pc = "backup" /\ UNCHANGED <<tx, backup>> /\ i' = 1 /\ fate' = "commit"
    BY <1>7 DEF Commit
  <2>2. /\ tx # NoTx /\ DOMAIN tx.order = 1..Len(tx.order)
        /\ Entries = Journalled /\ {e.path : e \in ToSet(Journalled)} = ToSet(tx.order)
    BY <2>1, CallAt, JournalledFacts DEF InCall, JournalPhases, Entries
  <2>3. journal'.state = "committed" /\ {e.path : e \in ToSet(Entries)'} = ToSet(tx.order)
    BY <1>7, <2>2, CommittedEntries
  <2>4. \A e \in ToSet(Entries)' : e.path \in ToSet(tx.order)
    BY <2>3
  <2>5. \A n \in DOMAIN tx.order : ~(n < 1)
    BY <2>2
  <2>. QED  BY <2>1, <2>3, <2>4, <2>5 DEF CleaningUp
<1>8. CASE RollbackDone
  <2>1. pc = "rollback" /\ i = 0 /\ UNCHANGED <<tx, fate, files, staged, backup, journal>>
    BY <1>8 DEF RollbackDone, FileStep, call, disk
  <2>2. /\ tx # NoTx /\ DOMAIN tx.order = 1..Len(tx.order) /\ DOMAIN Journalled = DOMAIN tx.order
        /\ Entries = Journalled /\ Prepared /\ fate \in {"abort", "keep"}
    BY <2>1, CallAt, JournalledFacts DEF InCall, JournalPhases, Entries, Prepared, Phases
  <2>3. CASE fate = "keep"
    BY <1>3, <2>1, <2>2, <2>3 DEF Prepared
  <2>4. CASE fate = "abort"
    <3>1. \A e \in ToSet(Entries) : Undone(e)
      BY <2>1, <2>2, <2>4 DEF RollingBack, ToSet
    <3>2. Entries' = Entries /\ Prepared'
      BY <2>1, <2>2 DEF Entries, Prepared
    <3>3. ASSUME NEW e \in ToSet(Entries)
          PROVE  Undone(e)'
      <4>1. GoneIfRemoved(e) /\ backup'[e.path] = NoFile
        BY <2>1, <3>1, <3>3 DEF Undone
      <4>2. GoneIfRemoved(e)'
        BY <2>1, <3>3, <4>1, StaysGone
      <4>. QED  BY <4>1, <4>2 DEF Undone
    <3>. QED  BY <2>1, <2>4, <3>2, <3>3 DEF CleaningUp
  <2>. QED  BY <2>2, <2>3, <2>4
<1>9. ASSUME pc = "sweep", UNCHANGED <<tx, fate, journal>>,
             \A e \in ToSet(Entries) : Prepared /\ Undone(e) => Undone(e)',
             fate = "commit" => \A n \in DOMAIN tx.order : n < i' => backup'[tx.order[n]] = NoFile
      PROVE  CleaningUp'
  <2>1. Entries' = Entries /\ (Prepared' <=> Prepared)
    BY <1>9 DEF Entries, Prepared
  <2>2. fate = "abort" /\ journal # NoJournal => Prepared /\ \A e \in ToSet(Entries) : Undone(e)'
    BY <1>9 DEF CleaningUp
  <2>. QED  BY <1>9, <2>1, <2>2 DEF CleaningUp
<1>10. CASE Sweep
  <2>1. /\ UNCHANGED <<tx, fate, files, journal>> /\ pc = "sweep" /\ i' = i + 1 /\ i \in 1..Len(tx.order)
        /\ tx # NoTx /\ DOMAIN tx.order = 1..Len(tx.order)
    BY <1>10, CallAt DEF Sweep, FileStep, call, InCall
  <2>2. /\ \A p \in Paths : backup'[p] \in {backup[p], NoFile} /\ (fate = "commit" /\ p = Path => backup'[p] = NoFile)
        /\ Path \in Paths
    BY <1>10, <2>1, SomePath DEF Sweep, DiskTypes, Preserves
  <2>3. ASSUME NEW e \in ToSet(Entries), Prepared, Undone(e)
        PROVE  Undone(e)'
    <3>1. e.path \in Paths /\ e.path \in Covered'
      BY <2>1, <2>3, EntryFacts DEF Covered, Prepared, Entries
    <3>2. backup'[e.path] = NoFile
      BY <2>2, <2>3, <3>1 DEF Undone
    <3>3. Removes(e)' => files[e.path] = NoFile \/ e.path \in dirty
      BY <2>3 DEF Removes, NotCreated, Undone, GoneIfRemoved
    <3>4. e.path \in dirty => e.path \in dirty'
      BY <3>1, StaysDirty
    <3>. QED  BY <2>1, <3>2, <3>3, <3>4 DEF Undone, GoneIfRemoved
  <2>4. ASSUME fate = "commit", NEW n \in DOMAIN tx.order, n < i + 1
        PROVE  backup'[tx.order[n]] = NoFile
    <3>1. tx.order[n] \in Paths
      BY <2>1, OrderFacts DEF CallTypes
    <3>2. CASE n = i
      BY <2>2, <2>4, <3>1, <3>2 DEF Path
    <3>3. CASE n < i
      BY <2>1, <2>2, <2>4, <3>1, <3>3 DEF CleaningUp
    <3>. QED  BY <2>1, <2>4, <3>2, <3>3
  <2>. QED  BY <1>9, <2>1, <2>3, <2>4
<1>11. ASSUME NEW p \in Paths, NEW c \in Values, Edit(p, c)
       PROVE  CleaningUp'
  <2>1. UNCHANGED <<tx, fate, pc, i, staged, backup, journal>>
    BY <1>11 DEF Edit, call
  <2>2. CASE pc = "sweep"
    <3>1. ASSUME NEW e \in ToSet(Entries), Prepared, Undone(e)
          PROVE  Undone(e)'
      <4>1. e.path \in Paths /\ e.path \in Covered /\ (Removes(e)' <=> Removes(e)) /\ backup'[e.path] = NoFile
        BY <2>1, <3>1, EntryFacts, CoveredByEntry DEF Removes, Prepared, Undone
      <4>2. files'[e.path] = files[e.path] \/ e.path \in dirty'
        BY <1>11, <4>1 DEF Edit, DiskTypes
      <4>3. e.path \in dirty => e.path \in dirty'
        BY <1>11 DEF Edit
      <4>. QED  BY <3>1, <4>1, <4>2, <4>3 DEF Undone, GoneIfRemoved
    <3>. QED  BY <1>9, <2>1, <2>2, <3>1 DEF CleaningUp
  <2>. QED  BY <1>1, <2>1, <2>2
<1>. QED  BY <1>1, <1>4, <1>5, <1>6, <1>7, <1>8, <1>10, <1>11
          DEF Next, Write, Rewind, Capture, Return, Boot, RecoverClear, RecoverRestore, RecoverTidy, RecoverDone,
              FirstCheck, Stage, Prepare, Backup, Install, Rollback, SweepDone, InstallFailure,
              RollbackFailure, RecoverFailure, ReturnFailure, Crash, FileStep, Failure, Phases

-----------------------------------------------------------------------------
(* The invariant                                                            *)

LEMMA InductiveInit ==
    ASSUME Init
    PROVE  Inductive
<1>. Lost \in Functions /\ NoTx \in Calls
  BY NoTxFacts DEF Calls
<1>1. /\ files \in [Paths -> Values] /\ staged \in [Paths -> Values] /\ backup \in [Paths -> Values]
      /\ \A p \in Paths : backup[p] = NoFile
  BY DEF Init, Values
<1>2. journal = NoJournal /\ Entries = <<>> /\ ~Prepared /\ ToSet(Entries) = {}
  BY DEF Init, NoJournal, Entries, Prepared, ToSet
<1>3. DiskTypes
  BY <1>1, <1>2 DEF Init, DiskTypes, NoJournal
<1>4. Disk
  BY <1>1, <1>2, <1>3 DEF Disk, JournalShape, BackupsAreJournalled, NotCreated
<1>5. Checkpoints
  BY DEF Init, Checkpoints
<1>6. Control
  BY <1>2, NoTxFacts DEF Init, Control, CallTypes, Places, Phases, Steps, JournalPhases, InCall
<1>7. Progress
  BY DEF Init, Progress, Recovery, Recovering, Installation, RollingBack, CleaningUp
<1>. QED  BY <1>4, <1>5, <1>6, <1>7 DEF Inductive

LEMMA InductiveStep ==
    ASSUME Inductive, [Next]_vars
    PROVE  Inductive'
<1>1. CASE Next
  <2>. Disk /\ Checkpoints /\ Control
    BY DEF Inductive
  <2>1. Disk'
    BY <1>1, DiskTypesStep, JournalShapeStep, BackupsStep, NotCreatedStep DEF Disk
  <2>2. Progress'
    BY <1>1, RecoveryStep, InstallationStep, RollingBackStep, CleaningUpStep DEF Progress
  <2>. QED  BY <1>1, <2>1, <2>2, CheckpointsStep, ControlStep DEF Inductive
<1>2. CASE UNCHANGED vars
  <2>1. UNCHANGED <<files, staged, backup, journal, manifests, pc, tx, fate, i, dirty, first, edits>>
    BY <1>2 DEF vars, disk, call, counters
  <2>2. Entries' = Entries /\ Prepared' = Prepared /\ Covered' = Covered /\ Journalled' = Journalled
    BY <2>1 DEF Entries, Prepared, Covered, Journalled
  <2>3. Disk'
    BY <2>1, <2>2 DEF Inductive, Disk, DiskTypes, JournalShape, BackupsAreJournalled, NotCreated
  <2>4. Checkpoints' /\ Control'
    BY <2>1, <2>2 DEF Inductive, Checkpoints, Control, CallTypes, Phases, Steps, JournalPhases
  <2>5. Progress'
    BY <2>1, <2>2 DEF Inductive, Progress, Recovery, Installation, RollingBack, CleaningUp, Undone, GoneIfRemoved,
        Removes, PutsBack, Untouched, Saved, BackedUp, Replaced, Installed
  <2>. QED  BY <2>3, <2>4, <2>5 DEF Inductive
<1>. QED  BY <1>1, <1>2

\* Wherever a transaction, its recovery or a rewind stops, the journal, the
\* backups and the staged files are as the next recovery needs them.
THEOREM FileInvariant == Spec => []Inductive
<1>1. Init => Inductive
  BY InductiveInit
<1>2. Inductive /\ [Next]_vars => Inductive'
  BY InductiveStep
<1>. QED  BY <1>1, <1>2, PTL DEF Spec

\* Every variable of apply_file_transaction, its journal and the checkpoint
\* store has its type, in every state.
THEOREM FileTypesHold == Spec => []TypeOK
<1>1. Inductive => TypeOK
  <2>. SUFFICES ASSUME Inductive
                PROVE  TypeOK
    OBVIOUS
  <2>. DiskTypes /\ Checkpoints /\ CallTypes /\ Phases /\ Steps
    BY DEF Inductive, Disk, Control
  <2>1. /\ tx.kind \in {"none", "write", "rewind"}
        /\ DOMAIN tx.from = ToSet(tx.order) /\ DOMAIN tx.to = ToSet(tx.order) /\ Len(tx.order) \in Nat
    <3>1. CASE tx = NoTx
      BY <3>1, NoTxFacts DEF Lost
    <3>2. CASE tx # NoTx
      BY <3>2, OrderFacts DEF CallTypes
    <3>. QED  BY <3>1, <3>2
  <2>2. i \in 0..(Len(tx.order) + Len(Entries) + 1)
    BY <2>1, EntryFacts DEF Steps, CallTypes, Places, InCall, Recovering, Phases
  <2>3. pc \in {"idle", "down", "capture", "recover", "restore", "tidy", "current", "stage",
                "prepare", "backup", "install", "rollback", "sweep", "return"}
    BY DEF CallTypes, Places, InCall, Recovering
  <2>. QED  BY <2>1, <2>2, <2>3 DEF DiskTypes, Checkpoints, CallTypes, TypeOK
<1>. QED  BY <1>1, FileInvariant, PTL

\* A crash never loses a file's only old copy: while a backup is beside the
\* workspace, a journal tells recover_file_transactions to put it back.
THEOREM BackupsAlwaysJournalled == Spec => []BackupsAreJournalled
<1>1. Inductive => BackupsAreJournalled
  BY DEF Inductive, Disk
<1>. QED  BY <1>1, FileInvariant, PTL

-----------------------------------------------------------------------------
(* What recovery will restore                                               *)

Hit(p) == \E e \in ToSet(Entries) : e.path = p /\ (PutsBack(e) \/ Removes(e))

LEMMA LogicalAt ==
    ASSUME NEW p \in Paths
    PROVE  /\ Logical[p] = IF Hit(p) THEN backup[p] ELSE files[p]
           /\ Logical'[p] = IF Hit(p)' THEN backup'[p] ELSE files'[p]
<1>1. Logical[p] = IF Hit(p) THEN backup[p] ELSE files[p]
  BY DEF Logical, Hit
<1>2. Logical'[p] = IF Hit(p)' THEN backup'[p] ELSE files'[p]
  BY DEF Logical, Hit
<1>. QED  BY <1>1, <1>2

LEMMA HitByEntry ==
    ASSUME DiskTypes, JournalShape, NEW e \in ToSet(Entries), NEW p, e.path = p
    PROVE  /\ Hit(p) <=> PutsBack(e) \/ Removes(e)
           /\ UNCHANGED journal => (Hit(p)' <=> (PutsBack(e)' \/ Removes(e)'))
<1>1. \A d \in ToSet(Entries) : d.path = p => d = e
  BY OneEntry
<1>2. UNCHANGED journal => Entries' = Entries
  BY DEF Entries
<1>. QED  BY <1>1, <1>2 DEF Hit

LEMMA HitByNone ==
    ASSUME NEW p, \A e \in ToSet(Entries) : e.path # p
    PROVE  ~Hit(p) /\ (UNCHANGED journal => ~Hit(p)')
BY DEF Hit, Entries

LEMMA NoHit ==
    /\ ~Prepared => \A p : ~Hit(p)
    /\ ~Prepared' => \A p : ~Hit(p)'
BY DEF Hit, PutsBack, Removes

\* A file whose copies beside the workspace stay as they are.
LEMMA LogicalKept ==
    ASSUME NEW p \in Paths, UNCHANGED journal, staged'[p] = staged[p], backup'[p] = backup[p],
           files'[p] = files[p] \/ Hit(p)
    PROVE  Logical'[p] = Logical[p]
<1>1. Hit(p)' <=> Hit(p)
  BY DEF Hit, PutsBack, Removes, Prepared, Entries
<1>. QED  BY <1>1, LogicalAt

\* An entry with nothing left to undo has nothing to hide.
LEMMA LogicalIfUndone ==
    ASSUME Disk, NEW e \in ToSet(Entries), GoneIfRemoved(e), ~PutsBack(e), e.path \notin dirty
    PROVE  Logical[e.path] = files[e.path]
<1>1. DiskTypes /\ JournalShape /\ e.path \in Paths
  BY EntryFacts DEF Disk
<1>2. Removes(e) => backup[e.path] = NoFile /\ files[e.path] = NoFile
  BY BackupOfEntry DEF Removes, GoneIfRemoved
<1>. QED  BY <1>1, <1>2, LogicalOfEntry

LEMMA LogicalRecovery ==
    ASSUME Inductive, NEW p \in Paths, p \notin dirty,
           RecoverClear \/ RecoverRestore \/ RecoverTidy \/ RecoverDone
    PROVE  Logical'[p] = Logical[p]
<1>. /\ Disk /\ DiskTypes /\ JournalShape /\ CallTypes /\ Phases /\ Steps /\ NotCreated /\ Recovery /\ i \in Nat
     /\ files \in [Paths -> Values] /\ staged \in [Paths -> Values] /\ backup \in [Paths -> Values]
  BY DEF Inductive, Disk, Control, Progress, CallTypes, DiskTypes
<1>1. CASE RecoverClear
  <2>1. i \in DOMAIN Entries /\ Entries[i] \in ToSet(Entries)
    BY <1>1, SomeEntry DEF RecoverClear
  <2>2. UNCHANGED <<staged, backup, journal>>
    BY <1>1 DEF RecoverClear
  <2>3. files'[p] = files[p] \/ (Entries[i].path = p /\ (PutsBack(Entries[i]) \/ Removes(Entries[i])))
    BY <1>1 DEF RecoverClear
  <2>. QED  BY <2>1, <2>2, <2>3, LogicalKept, HitByEntry
<1>2. CASE RecoverRestore
  <2>1. PICK e \in ToSet(Entries) : e = Entries[i]
    BY <1>2, SomeEntry DEF RecoverRestore
  <2>2. UNCHANGED <<staged, journal>>
    BY <1>2 DEF RecoverRestore
  <2>3. CASE PutsBack(e) /\ e.path = p
    <3>1. files'[p] = backup[p] /\ backup'[p] = NoFile /\ e.existed
      BY <1>2, <2>1, <2>3 DEF RecoverRestore, PutsBack
    <3>2. ~PutsBack(e)' /\ ~Removes(e)'
      BY <2>3, <3>1 DEF PutsBack, Removes
    <3>. QED  BY <2>2, <2>3, <3>1, <3>2, LogicalAt, HitByEntry
  <2>4. CASE ~(PutsBack(e) /\ e.path = p)
    <3>1. files'[p] = files[p] /\ backup'[p] = backup[p]
      BY <1>2, <2>1, <2>4 DEF RecoverRestore
    <3>. QED  BY <2>2, <3>1, LogicalKept
  <2>. QED  BY <2>3, <2>4
<1>3. CASE RecoverTidy
  <2>1. PICK e \in ToSet(Entries) : e = Entries[i]
    BY <1>3, SomeEntry DEF RecoverTidy
  <2>2. UNCHANGED <<files, journal>> /\ GoneIfRemoved(e) /\ ~PutsBack(e)
    BY <1>3, <2>1 DEF RecoverTidy, Recovery
  <2>3. CASE e.path = p
    <3>1. Logical[p] = files[p]
      BY <2>2, <2>3, LogicalIfUndone
    <3>2. backup'[p] = backup[p] \/ backup'[p] = NoFile
      BY <1>3, <2>1, <2>3 DEF RecoverTidy
    <3>3. ~PutsBack(e)'
      BY <2>2, <2>3, <3>2 DEF PutsBack, Prepared
    <3>4. CASE Removes(e)'
      <4>1. Prepared /\ ~e.existed /\ e.staged
        BY <2>2, <3>4 DEF Removes, Prepared
      <4>2. backup'[p] = NoFile /\ files[p] = NoFile
        BY <2>2, <2>3, <3>2, <4>1, BackupOfEntry DEF GoneIfRemoved, Removes, NotCreated
      <4>. QED  BY <2>2, <2>3, <3>1, <3>4, <4>2, LogicalAt, HitByEntry
    <3>5. CASE ~Removes(e)'
      BY <2>2, <2>3, <3>1, <3>3, <3>5, LogicalAt, HitByEntry
    <3>. QED  BY <3>4, <3>5
  <2>4. CASE e.path # p
    <3>1. staged'[p] = staged[p] /\ backup'[p] = backup[p]
      BY <1>3, <2>1, <2>4 DEF RecoverTidy
    <3>. QED  BY <2>2, <3>1, LogicalKept
  <2>. QED  BY <2>3, <2>4
<1>4. CASE RecoverDone
  <2>1. UNCHANGED <<files, backup>> /\ ~Prepared' /\ i = 0 /\ pc = "recover"
    BY <1>4 DEF RecoverDone, Prepared, NoJournal
  <2>2. Logical'[p] = files[p]
    BY <2>1, LogicalAt, NoHit
  <2>3. ASSUME NEW e \in ToSet(Entries), e.path = p
        PROVE  Logical[p] = files[p]
    <3>1. Undone(e)
      BY <2>1, <2>3, EntryFacts DEF Recovery, Recovering
    <3>. QED  BY <2>3, <3>1, LogicalIfUndone DEF Undone, PutsBack
  <2>4. CASE \A e \in ToSet(Entries) : e.path # p
    BY <2>2, <2>4, LogicalOfOther
  <2>. QED  BY <2>2, <2>3, <2>4
<1>. QED  BY <1>1, <1>2, <1>3, <1>4

LEMMA CallEntry ==
    ASSUME Inductive, pc \in {"backup", "install", "rollback"}, NEW n \in DOMAIN tx.order
    PROVE  \E e \in ToSet(Entries) :
               /\ e.path = tx.order[n] /\ e.path \in Paths /\ Prepared
               /\ e.existed <=> tx.from[e.path] # NoFile
               /\ e.staged <=> tx.to[e.path] # NoFile
<1>1. Control /\ Disk /\ JournalPhases /\ CallTypes /\ DiskTypes
  BY DEF Inductive, Disk, Control
<1>2. Entries = Journalled /\ Prepared /\ tx # NoTx
  BY <1>1, CallAt DEF JournalPhases, Entries, Prepared, InCall
<1>3. n \in DOMAIN Journalled /\ Journalled[n].path = tx.order[n]
      /\ (Journalled[n].existed <=> tx.from[tx.order[n]] # NoFile)
      /\ (Journalled[n].staged <=> tx.to[tx.order[n]] # NoFile)
  BY <1>1, <1>2, JournalledFacts
<1>4. PICK e \in ToSet(Entries) : e = Journalled[n]
  BY <1>2, <1>3 DEF ToSet
<1>. QED  BY <1>1, <1>2, <1>3, <1>4, EntryFacts

LEMMA LogicalInstalling ==
    ASSUME Inductive, NEW p \in Paths, p \notin dirty,
           Stage \/ Prepare \/ PrepareFailure \/ Backup \/ Install
    PROVE  Logical'[p] = Logical[p]
<1>. /\ Disk /\ Control /\ DiskTypes /\ JournalShape /\ CallTypes /\ Phases /\ Steps /\ JournalPhases /\ Installation
     /\ files \in [Paths -> Values] /\ staged \in [Paths -> Values] /\ backup \in [Paths -> Values]
  BY DEF Inductive, Disk, Control, Progress, DiskTypes
<1>1. CASE Stage
  <2>1. ~Prepared /\ ~Prepared' /\ UNCHANGED files
    BY <1>1 DEF Stage, JournalPhases, Prepared, NoJournal
  <2>. QED  BY <2>1, LogicalAt, NoHit
<1>2. CASE Prepare \/ PrepareFailure
  <2>1. pc = "prepare" /\ UNCHANGED <<files, staged, backup>> /\ ~Prepared
    BY <1>2 DEF Prepare, PrepareFailure, JournalPhases, Prepared, NoJournal
  <2>2. tx # NoTx /\ DOMAIN Journalled = DOMAIN tx.order
    BY <2>1, CallAt, JournalledFacts DEF InCall
  <2>3. CASE UNCHANGED journal
    BY <2>1, <2>3, LogicalKept
  <2>4. CASE Entries' = Journalled
    <3>1. ASSUME NEW e \in ToSet(Entries)', e.path = p
          PROVE  ~PutsBack(e)' /\ ~Removes(e)'
      <4>1. PICK n \in DOMAIN tx.order : e = Journalled[n]
        BY <2>2, <2>4 DEF ToSet
      <4>2. tx.order[n] = p /\ (e.staged <=> tx.to[p] # NoFile)
        BY <2>2, <3>1, <4>1, JournalledFacts
      <4>3. Untouched(p)
        BY <2>1, <4>2 DEF Installation
      <4>. QED  BY <2>1, <3>1, <4>2, <4>3 DEF Untouched, PutsBack, Removes
    <3>2. ~Hit(p)'
      BY <3>1 DEF Hit
    <3>. QED  BY <2>1, <3>2, LogicalAt, NoHit
  <2>. QED  BY <1>2, <2>3, <2>4 DEF Prepare, PrepareFailure, Entries
<1>3. CASE Backup
  <2>1. pc = "backup" /\ UNCHANGED <<staged, journal>> /\ i \in 1..Len(tx.order) /\ i \in DOMAIN tx.order
    BY <1>3, CallAt DEF Backup, InCall
  <2>2. CASE Path = p /\ tx.from[p] # NoFile
    <3>1. PICK e \in ToSet(Entries) : e.path = p /\ Prepared /\ (e.existed <=> tx.from[p] # NoFile)
      BY <2>1, <2>2, CallEntry DEF Path
    <3>2. backup[p] = NoFile
      BY <2>1, <2>2 DEF Installation, Untouched, Path
    <3>3. ~PutsBack(e) /\ ~Removes(e)
      BY <2>2, <3>1, <3>2 DEF PutsBack, Removes
    <3>4. files[p] # NoFile /\ backup'[p] = files[p]
      BY <1>3, <2>2 DEF Backup
    <3>5. PutsBack(e)'
      BY <2>1, <2>2, <3>1, <3>4 DEF PutsBack, Prepared
    <3>. QED  BY <2>1, <3>1, <3>3, <3>4, <3>5, LogicalAt, HitByEntry
  <2>3. CASE ~(Path = p /\ tx.from[p] # NoFile)
    <3>1. backup'[p] = backup[p] /\ files'[p] = files[p]
      BY <1>3, <2>3 DEF Backup
    <3>. QED  BY <2>1, <3>1, LogicalKept
  <2>. QED  BY <2>2, <2>3
<1>4. CASE Install
  <2>1. pc = "install" /\ UNCHANGED <<backup, journal>> /\ i \in 1..Len(tx.order) /\ i \in DOMAIN tx.order
    BY <1>4, CallAt DEF Install, InCall
  <2>2. CASE Path = p /\ tx.to[p] # NoFile
    <3>1. PICK e \in ToSet(Entries) : /\ e.path = p /\ Prepared /\ (e.existed <=> tx.from[p] # NoFile)
                                      /\ e.staged <=> tx.to[p] # NoFile
      BY <2>1, <2>2, CallEntry DEF Path
    <3>2. (backup[p] = NoFile <=> tx.from[p] = NoFile) /\ staged[p] = tx.to[p] /\ files[p] = NoFile
      BY <2>1, <2>2 DEF Installation, BackedUp, Saved, Path
    <3>3. staged'[p] = NoFile
      BY <1>4, <2>2 DEF Install
    <3>4. CASE tx.from[p] = NoFile
      <4>1. Removes(e)' /\ ~PutsBack(e) /\ ~Removes(e)
        BY <2>1, <2>2, <3>1, <3>2, <3>3, <3>4 DEF Removes, PutsBack, Prepared
      <4>. QED  BY <2>1, <3>1, <3>2, <3>4, <4>1, LogicalAt, HitByEntry
    <3>5. CASE tx.from[p] # NoFile
      <4>1. PutsBack(e)' /\ PutsBack(e)
        BY <2>1, <2>2, <3>1, <3>2, <3>5 DEF PutsBack, Prepared
      <4>. QED  BY <2>1, <3>1, <4>1, LogicalAt, HitByEntry
    <3>. QED  BY <3>4, <3>5
  <2>3. CASE ~(Path = p /\ tx.to[p] # NoFile)
    <3>1. staged'[p] = staged[p] /\ files'[p] = files[p]
      BY <1>4, <2>3 DEF Install
    <3>. QED  BY <2>1, <3>1, LogicalKept
  <2>. QED  BY <2>2, <2>3
<1>. QED  BY <1>1, <1>2, <1>3, <1>4

LEMMA LogicalUndoing ==
    ASSUME Inductive, NEW p \in Paths, p \notin dirty, Rollback \/ RollbackFailure
    PROVE  Logical'[p] = Logical[p]
<1>. /\ Disk /\ Control /\ DiskTypes /\ JournalShape /\ CallTypes /\ Phases /\ Steps /\ JournalPhases /\ RollingBack
     /\ files \in [Paths -> Values] /\ staged \in [Paths -> Values] /\ backup \in [Paths -> Values]
  BY DEF Inductive, Disk, Control, Progress, DiskTypes
<1>1. pc = "rollback" /\ UNCHANGED <<staged, journal>> /\ i \in 1..Len(tx.order) /\ i \in DOMAIN tx.order
  BY CallAt DEF Rollback, RollbackFailure, InCall
<1>2. PICK e \in ToSet(Entries) : /\ e.path = Path /\ Prepared /\ (e.existed <=> tx.from[Path] # NoFile)
                                  /\ e.staged <=> tx.to[Path] # NoFile
  BY <1>1, CallEntry DEF Path
<1>3. CASE p # Path
  <2>1. backup'[p] = backup[p] /\ files'[p] = files[p]
    BY <1>3 DEF Rollback, RollbackFailure
  <2>. QED  BY <1>1, <2>1, LogicalKept
<1>4. CASE p = Path /\ backup[p] # NoFile
  <2>1. PutsBack(e) /\ ~Removes(e)
    BY <1>2, <1>4, BackupOfEntry DEF PutsBack, Removes
  <2>2. Hit(p)
    BY <1>2, <1>4, <2>1, HitByEntry
  <2>3. CASE RollbackFailure
    BY <1>1, <2>2, <2>3, LogicalKept DEF RollbackFailure
  <2>4. CASE Rollback
    <3>1. files'[p] = backup[p] /\ backup'[p] = NoFile
      BY <1>4, <2>4 DEF Rollback
    <3>2. ~PutsBack(e)' /\ ~Removes(e)'
      BY <1>1, <1>2, <1>4, <2>1, <3>1 DEF PutsBack, Removes
    <3>. QED  BY <1>1, <1>2, <1>4, <2>2, <3>1, <3>2, LogicalAt, HitByEntry
  <2>. QED  BY <2>3, <2>4
<1>5. CASE p = Path /\ backup[p] = NoFile
  <2>1. UNCHANGED backup
    BY <1>5 DEF Rollback, RollbackFailure
  <2>2. files'[p] = files[p] \/ Installed(p)
    BY <1>5 DEF Rollback, RollbackFailure
  <2>3. Installed(p) => Hit(p)
    <3>. SUFFICES ASSUME Installed(p)
                  PROVE  Hit(p)
      OBVIOUS
    <3>1. tx.from[p] = NoFile
      BY <1>1, <1>5 DEF RollingBack, Path
    <3>2. Removes(e)
      BY <1>2, <1>5, <3>1 DEF Removes, Installed
    <3>. QED  BY <1>2, <1>5, <3>2, HitByEntry
  <2>. QED  BY <1>1, <2>1, <2>2, <2>3, LogicalKept
<1>. QED  BY <1>3, <1>4, <1>5

LEMMA LogicalSweeping ==
    ASSUME Inductive, NEW p \in Paths, p \notin dirty, Sweep \/ SweepDone
    PROVE  Logical'[p] = Logical[p]
<1>. /\ Disk /\ Control /\ DiskTypes /\ JournalShape /\ CallTypes /\ Phases /\ CleaningUp /\ NotCreated
     /\ files \in [Paths -> Values] /\ staged \in [Paths -> Values] /\ backup \in [Paths -> Values]
     /\ pc = "sweep"
  BY DEF Inductive, Disk, Control, Progress, DiskTypes, Sweep, SweepDone
<1>1. CASE Sweep
  <2>1. UNCHANGED <<files, journal>>
    BY <1>1 DEF Sweep
  <2>2. CASE ~Prepared
    <3>1. ~Prepared'
      BY <2>1, <2>2 DEF Prepared
    <3>. QED  BY <2>1, <2>2, <3>1, LogicalAt, NoHit
  <2>3. CASE \A e \in ToSet(Entries) : e.path # p
    BY <2>1, <2>3, LogicalAt, HitByNone
  <2>4. ASSUME Prepared, NEW e \in ToSet(Entries), e.path = p
        PROVE  Logical'[p] = Logical[p]
    <3>1. backup'[p] = backup[p]
      <4>1. CASE fate = "keep"
        BY <1>1, <4>1 DEF Sweep, Preserves
      <4>2. CASE fate = "abort"
        <5>1. backup[p] = NoFile
          BY <2>4, <4>2 DEF CleaningUp, Undone, Prepared, NoJournal
        <5>. QED  BY <1>1, <5>1 DEF Sweep
      <4>3. fate # "commit"
        BY <2>4 DEF CleaningUp, Prepared
      <4>. QED  BY <4>1, <4>2, <4>3 DEF CallTypes, Phases
    <3>2. PutsBack(e)' <=> PutsBack(e)
      BY <2>1, <2>4, <3>1 DEF PutsBack, Prepared
    <3>3. Removes(e) => Removes(e)'
      BY <1>1, <2>1, <2>4 DEF Removes, Prepared, Sweep
    <3>4. Removes(e)' => backup[p] = NoFile
      BY <2>4, BackupOfEntry DEF Removes
    <3>5. Removes(e)' /\ ~Removes(e) => files[p] = NoFile
      BY <2>1, <2>4 DEF Removes, NotCreated
    <3>. QED  BY <2>1, <2>4, <3>1, <3>2, <3>3, <3>4, <3>5, LogicalAt, HitByEntry
  <2>. QED  BY <2>2, <2>3, <2>4
<1>2. CASE SweepDone /\ UNCHANGED journal
  BY <1>2, LogicalKept DEF SweepDone
<1>3. CASE SweepDone /\ journal' # journal
  <2>1. UNCHANGED files /\ ~Prepared' /\ fate # "keep"
    BY <1>3 DEF SweepDone, Preserves, Prepared, NoJournal
  <2>2. Logical'[p] = files[p]
    BY <2>1, LogicalAt, NoHit
  <2>3. CASE ~Prepared
    BY <2>2, <2>3, LogicalAt, NoHit
  <2>4. CASE \A e \in ToSet(Entries) : e.path # p
    BY <2>2, <2>4, LogicalAt, HitByNone
  <2>5. ASSUME Prepared, NEW e \in ToSet(Entries), e.path = p
        PROVE  Logical'[p] = Logical[p]
    <3>1. GoneIfRemoved(e) /\ ~PutsBack(e)
      BY <1>3, <2>1, <2>5, SweptClean DEF PutsBack
    <3>. QED  BY <2>2, <2>5, <3>1, LogicalIfUndone
  <2>. QED  BY <2>3, <2>4, <2>5
<1>. QED  BY <1>1, <1>2, <1>3

\* Only a commit, or another program, changes the workspace that recovery
\* will restore.
LEMMA LogicalStep ==
    ASSUME Inductive, Next, ~Commit, NEW p \in Paths, p \notin dirty,
           ~(\E q \in Paths, c \in Values : Edit(q, c))
    PROVE  Logical'[p] = Logical[p]
<1>1. CASE UNCHANGED disk
  BY <1>1, LogicalKept DEF disk
<1>2. CASE Crash
  <2>1. CASE journal = NoJournal
    <3>1. ~Prepared /\ ~Prepared' /\ UNCHANGED files
      BY <1>2, <2>1 DEF Crash, Prepared, NoJournal
    <3>. QED  BY <3>1, LogicalAt, NoHit
  <2>2. CASE journal # NoJournal
    BY <1>2, <2>2, LogicalKept DEF Crash
  <2>. QED  BY <2>1, <2>2
<1>. QED  BY <1>1, <1>2, LogicalRecovery, LogicalInstalling, LogicalUndoing, LogicalSweeping
          DEF Next, Write, Rewind, Capture, Return, Boot, FirstCheck, SecondCheck, RollbackDone, EarlyFailure,
              InstallFailure, RecoverFailure, ReturnFailure

-----------------------------------------------------------------------------
(* The refinement of AtomicWorkspace                                        *)

Seen == [p \in Paths |-> IF p \in dirty THEN Unknown ELSE Logical[p]]
Status == IF tx = NoTx THEN "free" ELSE IF fate = "commit" THEN "applied" ELSE "open"
Requested == IF tx = NoTx \/ fate = "commit" THEN [from |-> NoTx.from, to |-> NoTx.to]
             ELSE [from |-> tx.from, to |-> tx.to]

LEMMA SeenTypes ==
    ASSUME Inductive
    PROVE  Seen \in [Paths -> Values \cup {Unknown}]
BY LogicalTypes DEF Inductive, Disk, Seen

\* Before the commit every file of the call is what its caller read, and
\* after it what the caller asked for.
LEMMA LogicalCommit ==
    ASSUME Inductive, Commit
    PROVE  /\ dirty' = {}
           /\ \A p \in ToSet(tx.order) : p \in dirty \/ (Logical[p] = tx.from[p] /\ Logical'[p] = tx.to[p])
           /\ \A p \in Paths \ ToSet(tx.order) : Logical'[p] = Logical[p]
<1>. /\ Disk /\ Control /\ DiskTypes /\ JournalShape /\ CallTypes /\ Phases /\ JournalPhases /\ Installation
  BY DEF Inductive, Disk, Control, Progress
<1>1. /\ pc = "backup" /\ i > Len(tx.order) /\ UNCHANGED <<files, staged, backup>>
      /\ pc' = "sweep" /\ journal'.state = "committed"
  BY DEF Commit
<1>2. /\ tx # NoTx /\ tx.order \in Orders /\ DOMAIN tx.order = 1..Len(tx.order) /\ i \in Nat
      /\ Len(tx.order) \in Nat /\ ToSet(tx.order) \subseteq Paths
  BY <1>1, CallAt, OrderFacts DEF InCall
<1>3. dirty' = {}
  BY <1>1 DEF Commit, Settles, Covered, Prepared
<1>4. ~Prepared'
  BY <1>1 DEF Prepared
<1>5. ASSUME NEW p \in ToSet(tx.order), p \notin dirty
      PROVE  Logical[p] = tx.from[p] /\ Logical'[p] = tx.to[p]
  <2>1. PICK n \in DOMAIN tx.order : p = tx.order[n]
    BY DEF ToSet
  <2>2. Replaced(p) /\ p \in Paths
    BY <1>1, <1>2, <2>1 DEF Installation
  <2>3. PICK e \in ToSet(Entries) : /\ e.path = p /\ Prepared
                                    /\ e.existed <=> tx.from[p] # NoFile
                                    /\ e.staged <=> tx.to[p] # NoFile
    BY <1>1, <2>1, CallEntry
  <2>4. Logical'[p] = tx.to[p]
    BY <1>1, <1>4, <1>5, <2>2, LogicalAt, NoHit DEF Replaced
  <2>5. CASE tx.from[p] # NoFile
    <3>1. PutsBack(e) /\ backup[p] = tx.from[p]
      BY <1>5, <2>2, <2>3, <2>5 DEF Replaced, Saved, PutsBack
    <3>. QED  BY <2>2, <2>3, <2>4, <3>1, LogicalAt, HitByEntry
  <2>6. CASE tx.from[p] = NoFile /\ tx.to[p] # NoFile
    <3>1. Removes(e) /\ backup[p] = NoFile
      BY <2>2, <2>3, <2>6 DEF Replaced, Saved, Removes
    <3>. QED  BY <2>2, <2>3, <2>4, <2>6, <3>1, LogicalAt, HitByEntry
  <2>7. CASE tx.from[p] = NoFile /\ tx.to[p] = NoFile
    <3>1. ~PutsBack(e) /\ ~Removes(e) /\ files[p] = NoFile
      BY <1>5, <2>2, <2>3, <2>7 DEF Replaced, PutsBack, Removes
    <3>. QED  BY <2>2, <2>3, <2>4, <2>7, <3>1, LogicalAt, HitByEntry
  <2>. QED  BY <2>5, <2>6, <2>7
<1>6. ASSUME NEW p \in Paths, p \notin ToSet(tx.order)
      PROVE  Logical'[p] = Logical[p]
  <2>1. {e.path : e \in ToSet(Entries)} = ToSet(tx.order)
    BY <1>1, <1>2, JournalledFacts DEF JournalPhases, Entries
  <2>2. \A e \in ToSet(Entries) : e.path # p
    BY <1>6, <2>1
  <2>. QED  BY <1>1, <1>4, <2>2, LogicalAt, HitByNone, NoHit
<1>. QED  BY <1>3, <1>5, <1>6

\* Every other step of the daemon leaves what a reader will find, of all files
\* but those whose raced edit comes to light.
LEMMA SeenKept ==
    ASSUME Inductive, Next, ~Commit, ~(\E q \in Paths, c \in Values : Edit(q, c))
    PROVE  /\ Seen' \in [Paths -> Values \cup {Unknown}]
           /\ \A p \in Paths : Seen[p] = Unknown \/ Seen'[p] = Seen[p]
<1>1. Inductive'
  BY InductiveStep
<1>2. Seen' \in [Paths -> Values \cup {Unknown}]
  <2>1. Logical' \in [Paths -> Values]
    BY <1>1 DEF Inductive, Disk, DiskTypes, Logical
  <2>. QED  BY <2>1 DEF Seen
<1>3. ASSUME NEW p \in Paths, p \notin dirty
      PROVE  Seen'[p] = Seen[p]
  <2>1. p \notin dirty'
    BY <1>3, DirtyWriters
  <2>2. Logical'[p] = Logical[p]
    BY <1>3, LogicalStep
  <2>. QED  BY <1>3, <2>1, <2>2 DEF Seen
<1>4. \A p \in dirty \cap Paths : Seen[p] = Unknown
  BY DEF Seen
<1>. QED  BY <1>2, <1>3, <1>4

\* The steps that begin a call, those that end one, and those that do neither.
LEMMA CallKept ==
    ASSUME Inductive, Next, ~Commit, ~Return, ~ReturnFailure, ~Crash,
           ~(\E order \in Orders : \E to \in [ToSet(order) -> Values] : Write(order, to)),
           ~(\E m \in 1..Len(manifests) : Rewind(m) /\ tx' # tx)
    PROVE  Status' = Status /\ Requested' = Requested /\ tx'.start = tx.start
<1>. CallTypes /\ Phases
  BY DEF Inductive, Control
<1>1. tx'.from = tx.from /\ tx'.to = tx.to /\ tx'.start = tx.start /\ (tx' = NoTx <=> tx = NoTx)
  <2>1. CASE UNCHANGED tx
    BY <2>1
  <2>2. CASE Capture /\ tx' # tx
    <3>1. tx # NoTx /\ Len(manifests) + 1 \in Nat /\ tx' = [tx EXCEPT !.m = Len(manifests) + 1]
      BY <2>2 DEF Capture, Phases, InCall, Inductive, Checkpoints
    <3>. QED  BY <3>1, CaptureCall
  <2>. QED  BY <2>1, <2>2, CallWriters
<1>2. fate' = "commit" <=> fate = "commit"
  BY DEF Next, Rewind, Capture, Boot, RecoverClear, RecoverRestore, RecoverTidy, RecoverDone,
         FirstCheck, Stage, SecondCheck, Prepare, Backup, Install, Rollback, RollbackDone, Sweep,
         SweepDone, EarlyFailure, PrepareFailure, InstallFailure, RollbackFailure, RecoverFailure,
         Edit, FileStep, call, Phases
<1>. QED  BY <1>1, <1>2 DEF Status, Requested

LEMMA RequestBegun ==
    ASSUME Inductive, UNCHANGED fate, pc = "idle", tx' # NoTx, tx'.order \in Orders,
           tx'.from \in [ToSet(tx'.order) -> Values], tx'.to \in [ToSet(tx'.order) -> Values]
    PROVE  /\ Status = "free" /\ Status' = "open" /\ Requested' = [from |-> tx'.from, to |-> tx'.to]
           /\ tx'.from \in Functions /\ tx'.to \in Functions /\ DOMAIN tx'.from = DOMAIN tx'.to
<1>1. tx = NoTx /\ fate = "none"
  BY DEF Inductive, Control, Phases
<1>2. ToSet(tx'.order) \in SUBSET Paths
  BY OrderFacts
<1>. QED  BY <1>1, <1>2, InFunctions DEF Status, Requested

LEMMA WorkspaceInit ==
    ASSUME Init
    PROVE  Workspace!Init
<1>1. Inductive
  BY InductiveInit
<1>2. Logical \in [Paths -> Values] /\ dirty = {} /\ tx = NoTx /\ edits = 0
  BY <1>1, LogicalTypes DEF Init, Inductive, Disk
<1>3. NoTx.from = [p \in {} |-> p] /\ NoTx.to = [p \in {} |-> p]
  BY DEF NoTx
<1>. QED  BY <1>2, <1>3 DEF Workspace!Init, Workspace!NoRequest

LEMMA WorkspaceStep ==
    ASSUME Inductive, [Next]_vars
    PROVE  [Workspace!Next]_(Workspace!vars)
<1>. USE DEF Workspace!Next, Workspace!Become, Workspace!vars
<1>r. NoTx.from = [p \in {} |-> p] /\ NoTx.to = [p \in {} |-> p]
  BY DEF NoTx
<1>e. ASSUME Next, ~(\E p \in Paths, c \in Values : Edit(p, c))
      PROVE  UNCHANGED edits
  BY <1>e DEF Next, Write, Rewind, Capture, Return, Boot, RecoverClear, RecoverRestore, RecoverTidy, RecoverDone,
         FirstCheck, Stage, SecondCheck, Prepare, Backup, Install, Commit, Rollback, RollbackDone, Sweep,
         SweepDone, EarlyFailure, PrepareFailure, InstallFailure, RollbackFailure, RecoverFailure,
         ReturnFailure, Crash, FileStep, Failure, counters
<1>1. CASE UNCHANGED vars
  BY <1>1 DEF vars, disk, call, counters, Logical, PutsBack, Removes, Prepared, Entries
<1>2. ASSUME NEW p \in Paths, NEW c \in Values, Edit(p, c)
      PROVE  Workspace!Next
  <2>. DiskTypes /\ Disk /\ Next /\ Inductive'
    BY <1>2, InductiveStep DEF Inductive, Disk, Next
  <2>. DEFINE v == IF p \in Covered THEN Unknown ELSE c
  <2>1. UNCHANGED <<staged, backup, journal, tx, fate>> /\ edits' = edits + 1
    BY <1>2 DEF Edit, call
  <2>2. dirty' = (IF p \in Covered THEN dirty \cup {p} ELSE dirty) /\ dirty \subseteq Covered
    BY <1>2 DEF Edit, DiskTypes
  <2>3. ASSUME NEW q \in Paths, q # p
        PROVE  Logical'[q] = Logical[q]
    <3>1. files'[q] = files[q]
      BY <1>2, <2>3 DEF Edit, DiskTypes
    <3>. QED  BY <2>1, <3>1, LogicalKept
  <2>4. p \notin Covered => Logical'[p] = c
    <3>. SUFFICES ASSUME p \notin Covered
                  PROVE  Logical'[p] = c
      OBVIOUS
    <3>1. \A e \in ToSet(Entries) : Prepared => e.path # p
      BY CoveredByEntry
    <3>2. ~Hit(p)'
      BY <2>1, <3>1 DEF Hit, PutsBack, Removes, Prepared, Entries
    <3>3. files'[p] = c
      BY <1>2 DEF Edit, DiskTypes
    <3>. QED  BY <3>2, <3>3, LogicalAt
  <2>5. Seen' \in [Paths -> Values \cup {Unknown}] /\ Seen \in [Paths -> Values \cup {Unknown}]
    <3>1. Logical' \in [Paths -> Values]
      BY DEF Inductive, Disk, DiskTypes, Logical
    <3>. QED  BY <3>1, SeenTypes DEF Seen
  <2>6. \A q \in Paths : Seen'[q] = [Seen EXCEPT ![p] = v][q]
    <3>1. ASSUME NEW q \in Paths, q # p
          PROVE  Seen'[q] = Seen[q]
      BY <2>2, <2>3, <3>1 DEF Seen
    <3>2. Seen'[p] = v
      BY <2>2, <2>4 DEF Seen
    <3>. QED  BY <2>5, <3>1, <3>2
  <2>7. v \in Values \cup {Unknown}
    OBVIOUS
  <2>8. Status' = Status /\ Requested' = Requested
    BY <2>1 DEF Status, Requested
  <2>. HIDE DEF v
  <2>9. Workspace!Edit
    BY <2>1, <2>5, <2>6, <2>7, <2>8 DEF Workspace!Edit, Seen, Status, Requested
  <2>. QED  BY <2>9
<1>3. CASE Commit
  <2>1. /\ Status = "open" /\ Status' = "applied" /\ Requested = [from |-> tx.from, to |-> tx.to]
        /\ Requested' = [from |-> NoTx.from, to |-> NoTx.to] /\ UNCHANGED edits
    BY <1>3 DEF Commit, Status, Requested, Inductive, Control, Phases, InCall, counters
  <2>2. DOMAIN tx.from = ToSet(tx.order) /\ DOMAIN tx.to = ToSet(tx.order) /\ ToSet(tx.order) \subseteq Paths
    BY <1>3, CallAt, OrderFacts DEF Commit, Inductive, InCall
  <2>3. Seen' \in [Paths -> Values \cup {Unknown}]
    <3>1. Inductive'
      BY <1>3, InductiveStep DEF Next
    <3>2. Logical' \in [Paths -> Values]
      BY <3>1 DEF Inductive, Disk, DiskTypes, Logical
    <3>. QED  BY <3>2 DEF Seen
  <2>4. \A p \in ToSet(tx.order) : Seen[p] \in {tx.from[p], Unknown} /\ (Seen[p] = Unknown \/ Seen'[p] = tx.to[p])
    BY <1>3, <2>2, LogicalCommit DEF Seen
  <2>5. \A p \in Paths : p \notin ToSet(tx.order) => Seen[p] = Unknown \/ Seen'[p] = Seen[p]
    BY <1>3, LogicalCommit DEF Seen
  <2>6. \A p \in Paths : \/ Seen[p] = Unknown
                         \/ Seen'[p] = IF p \in DOMAIN tx.to THEN tx.to[p] ELSE Seen[p]
    BY <2>2, <2>4, <2>5
  <2>7. Workspace!Commit
    BY <1>r, <2>1, <2>2, <2>3, <2>4, <2>6 DEF Workspace!Commit, Workspace!NoRequest, Seen, Status, Requested
  <2>. QED  BY <2>7
<1>4. ASSUME Next, ~Commit, ~(\E q \in Paths, c \in Values : Edit(q, c))
      PROVE  Workspace!Become(Seen) /\ UNCHANGED edits
  BY <1>4, <1>e, SeenKept DEF Seen
<1>5. ASSUME Next, ~Commit, ~(\E q \in Paths, c \in Values : Edit(q, c)), pc = "idle", tx' # tx, UNCHANGED fate,
             tx' # NoTx, tx'.order \in Orders,
             tx'.from \in [ToSet(tx'.order) -> Values], tx'.to \in [ToSet(tx'.order) -> Values]
      PROVE  Workspace!Next
  <2>1. Requested' \in Workspace!Requests /\ Status = "free" /\ Status' = "open"
    BY <1>5, RequestBegun DEF Workspace!Requests, Functions
  <2>2. Workspace!Request
    BY <1>4, <1>5, <2>1 DEF Workspace!Request, Seen, Status, Requested
  <2>. QED  BY <2>2
<1>6. ASSUME Next, ~Commit, ~(\E q \in Paths, c \in Values : Edit(q, c)), tx' = NoTx
      PROVE  Workspace!Next
  <2>1. Status' = "free" /\ Requested' = [from |-> NoTx.from, to |-> NoTx.to]
    BY <1>6 DEF Status, Requested
  <2>2. CASE tx = NoTx
    <3>1. Workspace!Settle
      BY <1>4, <1>6, <2>1, <2>2 DEF Workspace!Settle, Seen, Status, Requested
    <3>. QED  BY <3>1
  <2>3. CASE tx # NoTx
    <3>1. Workspace!End
      BY <1>r, <1>4, <1>6, <2>1, <2>3 DEF Workspace!End, Workspace!NoRequest, Seen, Status, Requested
    <3>. QED  BY <3>1
  <2>. QED  BY <2>2, <2>3
<1>7. ASSUME Next, ~Commit, ~(\E q \in Paths, c \in Values : Edit(q, c)),
             Status' = Status, Requested' = Requested
      PROVE  Workspace!Next
  <2>1. Workspace!Settle
    BY <1>4, <1>7 DEF Workspace!Settle, Seen, Status, Requested
  <2>. QED  BY <2>1
<1>8. CASE Return \/ ReturnFailure \/ Crash
  <2>1. Next /\ ~Commit /\ tx' = NoTx
    BY <1>8 DEF Next, Return, ReturnFailure, Crash, Commit
  <2>2. ~(\E q \in Paths, c \in Values : Edit(q, c))
    BY <1>8 DEF Return, ReturnFailure, Crash, Edit, call
  <2>. QED  BY <1>6, <2>1, <2>2
<1>9. ASSUME NEW order \in Orders, NEW to \in [ToSet(order) -> Values], Write(order, to)
      PROVE  Workspace!Next
  <2>1. Next /\ ~Commit /\ UNCHANGED fate /\ pc = "idle" /\ tx = NoTx
    BY <1>9 DEF Next, Write, Commit, Inductive, Control, Phases
  <2>2. ~(\E q \in Paths, c \in Values : Edit(q, c))
    BY <1>9 DEF Write, Edit, call
  <2>. QED  BY <1>5, <1>9, <2>1, <2>2, WriteTypes DEF Inductive, Disk
<1>10. ASSUME NEW m \in 1..Len(manifests), Rewind(m), tx' # tx
       PROVE  Workspace!Next
  <2>1. Next /\ ~Commit /\ UNCHANGED fate /\ pc = "idle" /\ tx = NoTx
    BY <1>10 DEF Next, Rewind, Commit, Inductive, Control, Phases
  <2>2. ~(\E q \in Paths, c \in Values : Edit(q, c))
    BY <1>10 DEF Rewind, Edit, call
  <2>. QED  BY <1>5, <1>10, <2>1, <2>2, RewindTypes DEF Inductive, Disk
<1>11. CASE Next /\ ~Commit /\ ~Return /\ ~ReturnFailure /\ ~Crash /\ ~(\E q \in Paths, c \in Values : Edit(q, c))
            /\ ~(\E order \in Orders : \E to \in [ToSet(order) -> Values] : Write(order, to))
            /\ ~(\E m \in 1..Len(manifests) : Rewind(m) /\ tx' # tx)
  BY <1>7, <1>11, CallKept
<1>. QED  BY <1>1, <1>2, <1>3, <1>8, <1>9, <1>10, <1>11

\* transaction.py keeps what AtomicWorkspace promises: with a crash, a failed
\* rename or a failed recovery anywhere before the commit point, and edits by
\* other programs, a call changes all its files or none, reports success only
\* of what is there, and overwrites no edit made before the installation.
THEOREM FilesImplementAtomicWorkspace == Spec => ImplementsAtomicWorkspace
<1>1. Init => Workspace!Init
  BY WorkspaceInit
<1>2. Inductive /\ [Next]_vars => [Workspace!Next]_(Workspace!vars)
  BY WorkspaceStep
<1>. QED  BY <1>1, <1>2, FileInvariant, PTL DEF Spec, ImplementsAtomicWorkspace, Workspace!Spec

LEMMA UndisturbedStep ==
    ASSUME Inductive, Undisturbed, [Next]_vars
    PROVE  Undisturbed'
<1>1. CASE UNCHANGED vars
  BY <1>1 DEF vars, disk, call, counters, Undisturbed, Logical, PutsBack, Removes, Prepared, Entries
<1>. SUFFICES ASSUME Next, first' # Lost
              PROVE  dirty' = {} /\ (tx' # NoTx /\ fate' # "commit" => Logical' = tx'.start)
  BY <1>1 DEF Undisturbed
<1>2. first # Lost /\ ~(\E q \in Paths, c \in Values : Edit(q, c))
  BY DEF Next, Write, Rewind, Capture, Return, Boot, RecoverClear, RecoverRestore, RecoverTidy, RecoverDone,
         FirstCheck, Stage, SecondCheck, Prepare, Backup, Install, Commit, Rollback, RollbackDone, Sweep,
         SweepDone, EarlyFailure, PrepareFailure, InstallFailure, RollbackFailure, RecoverFailure,
         ReturnFailure, Crash, Edit, FileStep, Failure
<1>3. dirty = {} /\ dirty' = {} /\ (tx # NoTx /\ fate # "commit" => Logical = tx.start)
  BY <1>2, DirtyWriters DEF Undisturbed
<1>4. ASSUME ~Commit
      PROVE  Logical' = Logical
  <2>1. \A p \in Paths : Logical'[p] = Logical[p]
    BY <1>2, <1>3, <1>4, LogicalStep
  <2>. QED  BY <2>1 DEF Logical
<1>5. CASE Commit
  BY <1>3, <1>5 DEF Commit
<1>6. CASE Return \/ ReturnFailure \/ Crash
  BY <1>3, <1>6 DEF Return, ReturnFailure, Crash
<1>7. ASSUME NEW order \in Orders, NEW to \in [ToSet(order) -> Values], Write(order, to)
      PROVE  tx'.start = Logical /\ ~Commit
  BY <1>7, WriteTypes DEF Write, Commit, Inductive, Disk
<1>8. ASSUME NEW m \in 1..Len(manifests), Rewind(m), tx' # tx
      PROVE  tx'.start = Logical /\ ~Commit
  BY <1>8, RewindTypes DEF Rewind, Commit, Inductive, Disk
<1>9. CASE ~Commit /\ ~Return /\ ~ReturnFailure /\ ~Crash
           /\ ~(\E order \in Orders : \E to \in [ToSet(order) -> Values] : Write(order, to))
           /\ ~(\E m \in 1..Len(manifests) : Rewind(m) /\ tx' # tx)
  <2>1. Status' = Status /\ tx'.start = tx.start
    BY <1>9, CallKept
  <2>2. tx' # NoTx /\ fate' # "commit" => tx # NoTx /\ fate # "commit"
    BY <2>1 DEF Status
  <2>. QED  BY <1>3, <1>4, <1>9, <2>1, <2>2
<1>. QED  BY <1>3, <1>4, <1>5, <1>6, <1>7, <1>8, <1>9

\* A write, patch or rewind that raises leaves the workspace as it found it,
\* while nothing else edits the files, if nothing fails once the last file is
\* installed.
THEOREM FailedCallsChangeNothing == Spec => []FailedMeansUnchanged
<1>1. Init => Undisturbed
  BY DEF Init, Undisturbed
<1>2. Inductive /\ Undisturbed /\ [Next]_vars => Undisturbed'
  BY UndisturbedStep
<1>3. Inductive /\ Undisturbed => FailedMeansUnchanged
  BY DEF Inductive, Control, Phases, InCall, Undisturbed, FailedMeansUnchanged
<1>. QED  BY <1>1, <1>2, <1>3, FileInvariant, PTL DEF Spec
-----------------------------------------------------------------------------
(* Rewinding leads back to the first workspace                              *)

\* The workspaces that rewinding the checkpoints ms, newest first, leads
\* through, from ws back.
History(h, ms, ws) ==
    /\ h \in [1..(Len(ms) + 1) -> [Paths -> Values]]
    /\ h[Len(ms) + 1] = ws
    /\ \A k \in 1..Len(ms) : h[k] = Undo(h[k + 1], ms[k])

\* The newest checkpoint is that of the write being made.  Until the write is
\* committed, undoing it changes nothing.
Captured ==
    IF tx.m = 0
    THEN pc \in {"capture", "return"} /\ fate # "commit"
    ELSE /\ pc # "capture" /\ tx.m = Len(manifests)
         /\ manifests[tx.m].status = "ready" /\ manifests[tx.m].order = tx.order
         /\ manifests[tx.m].before = tx.from /\ manifests[tx.m].after = tx.to
         /\ fate # "commit" => \A p \in ToSet(tx.order) : Logical[p] = tx.from[p]

\* A rewind is of the last ready checkpoint and puts back all that is not as
\* it was before it.
Rewinding ==
    /\ pc # "capture" /\ tx.m # 0 /\ LatestReady(tx.m)
    /\ ToSet(tx.order) \subseteq ToSet(manifests[tx.m].order)
    /\ \A p \in ToSet(tx.order) : /\ tx.from[p] = manifests[tx.m].after[p]
                                  /\ tx.to[p] = manifests[tx.m].before[p]
    /\ \A p \in ToSet(manifests[tx.m].order) :
           p \notin ToSet(tx.order) \/ fate = "commit" => Logical[p] = manifests[tx.m].before[p]

Undoable ==
    first # Lost =>
        /\ tx.kind = "write" => Captured
        /\ tx.kind = "rewind" => Rewinding
        /\ \E h : History(h, manifests, Logical) /\ h[1] = first

\* Undoing a checkpoint makes a workspace.
LEMMA UndoTypes ==
    ASSUME NEW ws \in [Paths -> Values], NEW m, m.before \in [ToSet(m.order) -> Values]
    PROVE  Undo(ws, m) \in [Paths -> Values]
BY DEF Undo

\* Undoing what is undone, or was never done, changes nothing.
LEMMA UndoNothing ==
    ASSUME NEW ws \in [Paths -> Values], NEW m,
           m.status # "ready" \/ \A p \in ToSet(m.order) : ws[p] = m.before[p]
    PROVE  Undo(ws, m) = ws
BY DEF Undo

\* Undoing a change from old to ws gives back old.
LEMMA UndoAll ==
    ASSUME NEW ws \in [Paths -> Values], NEW old \in [Paths -> Values], NEW m, m.status = "ready",
           \A p \in ToSet(m.order) : ws[p] \in {m.before[p], m.after[p]} /\ old[p] = m.before[p],
           \A p \in Paths : p \notin ToSet(m.order) => old[p] = ws[p]
    PROVE  Undo(ws, m) = old
BY DEF Undo

\* Rewinding passes over the checkpoints that are not ready.
LEMMA HistorySkips ==
    ASSUME NEW S, NEW ms \in Seq(S), NEW ws, NEW h, History(h, ms, ws),
           NEW m \in 0..Len(ms), \A k \in 1..Len(ms) : k > m => ms[k].status # "ready",
           NEW n \in 1..(Len(ms) + 1), n > m
    PROVE  h[n] = ws
<1>. DEFINE A == {d \in Nat : d <= Len(ms) - m => h[Len(ms) + 1 - d] = ws}
<1>. Len(ms) \in Nat
  OBVIOUS
<1>1. 0 \in A
  BY DEF History
<1>2. ASSUME NEW d \in A
      PROVE  d + 1 \in A
  <2>. SUFFICES ASSUME d + 1 <= Len(ms) - m
                PROVE  h[Len(ms) + 1 - (d + 1)] = ws
    OBVIOUS
  <2>. DEFINE k == Len(ms) - d
  <2>1. /\ k \in 1..Len(ms) /\ k + 1 \in 1..(Len(ms) + 1) /\ k > m
        /\ Len(ms) + 1 - d = k + 1 /\ Len(ms) + 1 - (d + 1) = k
    OBVIOUS
  <2>2. h[k + 1] = ws
    BY <2>1
  <2>. HIDE DEF k
  <2>3. h[k] = Undo(h[k + 1], ms[k])
    BY <2>1 DEF History
  <2>4. h[k + 1] \in [Paths -> Values]
    BY <2>1 DEF History
  <2>5. h[k] = ws
    BY <2>1, <2>2, <2>3, <2>4, UndoNothing
  <2>. QED  BY <2>1, <2>5
<1>3. A = Nat
  <2>. HIDE DEF A
  <2>1. A \in SUBSET Nat
    BY DEF A
  <2>. QED  BY <1>1, <1>2, <2>1, NatStep
<1>. DEFINE d == Len(ms) + 1 - n
<1>4. d \in Nat /\ d <= Len(ms) - m /\ Len(ms) + 1 - d = n
  OBVIOUS
<1>. QED  BY <1>3, <1>4

\* An edit by another program gives up the first workspace for good.
LEMMA FirstKept ==
    ASSUME Next, first' # Lost
    PROVE  first' = first /\ ~(\E q \in Paths, c \in Values : Edit(q, c))
BY DEF Next, Write, Rewind, Capture, Return, Boot, RecoverClear, RecoverRestore, RecoverTidy, RecoverDone,
       FirstCheck, Stage, SecondCheck, Prepare, Backup, Install, Commit, Rollback, RollbackDone, Sweep,
       SweepDone, EarlyFailure, PrepareFailure, InstallFailure, RollbackFailure, RecoverFailure,
       ReturnFailure, Crash, Edit, FileStep, Failure

\* While only the daemon edits, no step but a commit changes the workspace.
LEMMA LogicalStays ==
    ASSUME Inductive, Undisturbed, Next, ~Commit, first' # Lost
    PROVE  Logical' = Logical
<1>1. first # Lost /\ ~(\E q \in Paths, c \in Values : Edit(q, c))
  BY FirstKept
<1>2. dirty = {}
  BY <1>1 DEF Undisturbed
<1>3. \A p \in Paths : Logical'[p] = Logical[p]
  BY <1>1, <1>2, LogicalStep
<1>. QED  BY <1>3 DEF Logical

LEMMA UndoableInit ==
    ASSUME Init
    PROVE  Undoable
<1>1. Inductive
  BY InductiveInit
<1>2. Logical \in [Paths -> Values] /\ tx.kind = "none"
  BY <1>1, LogicalTypes, NoTxFacts DEF Init, Inductive, Disk
<1>3. \A p \in Paths : Logical[p] = first[p]
  <2>1. ~Prepared /\ first = files
    BY DEF Init, Prepared, NoJournal
  <2>. QED  BY <2>1, LogicalAt, NoHit
<1>4. Logical = first
  BY <1>2, <1>3 DEF Init
<1>5. Len(manifests) = 0
  BY DEF Init
<1>. DEFINE h == [k \in 1..1 |-> Logical]
<1>6. History(h, manifests, Logical) /\ h[1] = first
  BY <1>2, <1>4, <1>5 DEF History
<1>. QED  BY <1>2, <1>6 DEF Undoable

\* Steps inside a call, but its commit.
LEMMA UndoableKept ==
    ASSUME Inductive, Undisturbed, Undoable, Next, ~Commit, first' # Lost, UNCHANGED <<manifests, tx>>
    PROVE  Undoable'
<1>. first # Lost /\ first' = first /\ Logical' = Logical
  BY FirstKept, LogicalStays
<1>. Phases
  BY DEF Inductive, Control
<1>1. ASSUME NEW h, History(h, manifests, Logical), h[1] = first
      PROVE  History(h, manifests', Logical') /\ h[1] = first'
  BY <1>1
<1>2. (LatestReady(tx.m))' <=> LatestReady(tx.m)
  BY DEF LatestReady, Ready
<1>3. CASE tx.kind \in {"write", "rewind"}
  <2>1. tx # NoTx
    BY <1>3, NoTxFacts
  <2>2. /\ ~Return /\ ~ReturnFailure /\ ~Crash
        /\ ~(\E order \in Orders : \E to \in [ToSet(order) -> Values] : Write(order, to))
        /\ ~(\E m \in 1..Len(manifests) : Rewind(m))
        /\ ~(\E q \in Paths, c \in Values : Edit(q, c))
    BY <2>1, FirstKept DEF Return, ReturnFailure, Crash, Write, Rewind, Phases
  <2>3. /\ fate' = "commit" <=> fate = "commit"
        /\ pc' = "capture" => pc = "capture"
        /\ pc \in {"capture", "return"} => pc' \in {"capture", "return"}
    BY <2>2
       DEF Next, Capture, Boot, RecoverClear, RecoverRestore, RecoverTidy, RecoverDone,
           FirstCheck, Stage, SecondCheck, Prepare, Backup, Install, Rollback, RollbackDone, Sweep,
           SweepDone, EarlyFailure, PrepareFailure, InstallFailure, RollbackFailure, RecoverFailure,
           FileStep, call, Phases
  <2>4. tx.kind = "write" => Captured'
    BY <2>3 DEF Undoable, Captured
  <2>5. tx.kind = "rewind" => Rewinding'
    BY <1>2, <2>3 DEF Undoable, Rewinding
  <2>. QED  BY <1>1, <2>4, <2>5 DEF Undoable
<1>4. CASE tx.kind \notin {"write", "rewind"}
  BY <1>1, <1>4 DEF Undoable
<1>. QED  BY <1>3, <1>4

\* A failed or crashed call leaves its checkpoint as it is, which undoes
\* nothing if the call was not committed.
LEMMA UndoableDropped ==
    ASSUME Inductive, Undisturbed, Undoable, Next, ReturnFailure \/ Crash, first' # Lost
    PROVE  Undoable'
<1>1. ~Commit /\ tx' = NoTx /\ UNCHANGED manifests
  BY DEF Commit, ReturnFailure, Crash
<1>2. first # Lost /\ first' = first /\ Logical' = Logical
  BY <1>1, FirstKept, LogicalStays
<1>3. PICK h : History(h, manifests, Logical) /\ h[1] = first
  BY <1>2 DEF Undoable
<1>4. History(h, manifests', Logical') /\ h[1] = first'
  BY <1>1, <1>2, <1>3
<1>. QED  BY <1>1, <1>4, NoTxFacts DEF Undoable

\* Marking the last ready checkpoint changes nothing in a workspace that is as
\* it was before it.
LEMMA HistoryMarked ==
    ASSUME Checkpoints, NEW ws \in [Paths -> Values], NEW h, History(h, manifests, ws),
           NEW m \in 1..Len(manifests), LatestReady(m),
           \A p \in ToSet(manifests[m].order) : ws[p] = manifests[m].before[p]
    PROVE  History(h, [manifests EXCEPT ![m].status = "rewound"], ws)
<1>. DEFINE marked == [manifests EXCEPT ![m].status = "rewound"]
<1>1. manifests \in Seq(Manifest) /\ Len(manifests) \in Nat
  BY DEF Checkpoints
<1>2. manifests[m] \in Manifest
  BY <1>1
<1>3. /\ marked[m].status = "rewound"
      /\ \A k \in 1..Len(manifests) : k # m => marked[k] = manifests[k]
      /\ Len(marked) = Len(manifests)
  BY <1>1, <1>2 DEF Manifest
<1>. HIDE DEF marked
<1>4. h[m + 1] = ws
  <2>1. \A k \in 1..Len(manifests) : k > m => manifests[k].status # "ready"
    BY DEF LatestReady, Ready
  <2>2. m \in 0..Len(manifests) /\ m + 1 \in 1..(Len(manifests) + 1) /\ m + 1 > m
    BY <1>1
  <2>. QED  BY <1>1, <2>1, <2>2, HistorySkips
<1>5. h[m] = ws
  <2>1. h[m] = Undo(ws, manifests[m])
    BY <1>4 DEF History
  <2>. QED  BY <2>1, UndoNothing
<1>6. \A k \in 1..Len(manifests) : h[k] = Undo(h[k + 1], marked[k])
  <2>. SUFFICES ASSUME NEW k \in 1..Len(manifests)
                PROVE  h[k] = Undo(h[k + 1], marked[k])
    OBVIOUS
  <2>1. CASE k = m
    <3>1. Undo(ws, marked[m]) = ws
      BY <1>3, UndoNothing
    <3>. QED  BY <1>4, <1>5, <2>1, <3>1
  <2>2. CASE k # m
    BY <1>3, <2>2 DEF History
  <2>. QED  BY <2>1, <2>2
<1>7. History(h, marked, ws)
  BY <1>3, <1>6 DEF History
<1>. QED  BY <1>7 DEF marked

\* A write has no checkpoint yet.
LEMMA UndoableWrite ==
    ASSUME Inductive, Undisturbed, Undoable, Next, first' # Lost,
           NEW order \in Orders, NEW to \in [ToSet(order) -> Values], Write(order, to)
    PROVE  Undoable'
<1>1. ~Commit /\ UNCHANGED manifests /\ pc' = "capture" /\ fate' = "none"
  BY DEF Commit, Write, Inductive, Control, Phases
<1>2. first # Lost /\ first' = first /\ Logical' = Logical
  BY <1>1, FirstKept, LogicalStays
<1>3. tx'.kind = "write" /\ tx'.m = 0
  BY WriteTypes DEF Inductive, Disk
<1>4. Captured'
  BY <1>1, <1>3 DEF Captured
<1>. QED  BY <1>1, <1>2, <1>3, <1>4 DEF Undoable

\* A rewind finds the change of its checkpoint as it was made, or undone.
LEMMA UndoableRewind ==
    ASSUME Inductive, Undisturbed, Undoable, Next, first' # Lost, NEW m \in 1..Len(manifests), Rewind(m)
    PROVE  Undoable'
<1>. DiskTypes /\ Checkpoints /\ Phases
  BY DEF Inductive, Disk, Control
<1>1. ~Commit /\ fate' = "none" /\ tx = NoTx
  BY DEF Commit, Rewind, Phases
<1>2. first # Lost /\ first' = first /\ Logical' = Logical
  BY <1>1, FirstKept, LogicalStays
<1>3. LatestReady(m) /\ Lasting(ToSet(manifests[m].order) \ Restorable(m)) /\ ConflictFree(m)
  BY DEF Rewind
<1>4. \A p \in ToSet(manifests[m].order) : p \notin Restorable(m) => Logical[p] = manifests[m].before[p]
  BY <1>3 DEF Lasting, Restorable
<1>5. PICK h : History(h, manifests, Logical) /\ h[1] = first
  BY <1>2 DEF Undoable
<1>6. CASE tx' = tx
  <2>1. Restorable(m) = {} /\ manifests' = [manifests EXCEPT ![m].status = "rewound"]
    <3>1. ASSUME NEW order, tx' = [kind |-> "rewind", m |-> m, order |-> order,
                                   from |-> Restricted(files, order),
                                   to |-> Restricted(manifests[m].before, order), start |-> Logical]
          PROVE  FALSE
      <4>1. tx'.kind = "rewind"
        BY <3>1
      <4>. QED  BY <1>1, <1>6, <4>1, NoTxFacts
    <3>. QED  BY <3>1 DEF Rewind
  <2>2. History(h, manifests', Logical)
    BY <1>3, <1>4, <1>5, <2>1, LogicalTypes, HistoryMarked
  <2>. QED  BY <1>1, <1>2, <1>5, <1>6, <2>2, NoTxFacts DEF Undoable
<1>7. CASE tx' # tx
  <2>1. PICK order \in Orders :
            /\ ToSet(order) = Restorable(m)
            /\ tx' = [kind |-> "rewind", m |-> m, order |-> order,
                      from |-> Restricted(files, order),
                      to |-> Restricted(manifests[m].before, order), start |-> Logical]
            /\ pc' = "recover" /\ UNCHANGED manifests
    BY <1>7, RewindCall
  <2>2. /\ tx'.kind = "rewind" /\ tx'.m = m /\ tx'.order = order
        /\ tx'.from = Restricted(files, order) /\ tx'.to = Restricted(manifests[m].before, order)
    BY <2>1
  <2>3. \A p \in ToSet(order) : /\ tx'.from[p] = manifests[m].after[p]
                                /\ tx'.to[p] = manifests[m].before[p]
    BY <1>3, <2>1, <2>2, RestrictedFacts DEF ConflictFree
  <2>4. LatestReady(m)'
    BY <1>3, <2>1 DEF LatestReady, Ready
  <2>5. ToSet(order) \subseteq ToSet(manifests[m].order)
    BY <2>1 DEF Restorable
  <2>6. Rewinding'
    BY <1>1, <1>2, <1>4, <2>1, <2>2, <2>3, <2>4, <2>5 DEF Rewinding
  <2>. QED  BY <1>2, <1>5, <2>1, <2>2, <2>6 DEF Undoable
<1>. QED  BY <1>6, <1>7

\* A new checkpoint undoes nothing yet.
LEMMA UndoableCapture ==
    ASSUME Inductive, Undisturbed, Undoable, Next, first' # Lost, Capture
    PROVE  Undoable'
<1>. DiskTypes /\ Checkpoints /\ Phases /\ CallTypes
  BY DEF Inductive, Disk, Control
<1>1. ~Commit /\ tx # NoTx /\ fate = "none" /\ pc = "capture"
  BY DEF Commit, Capture, Phases, InCall
<1>2. first # Lost /\ first' = first /\ Logical' = Logical
  BY <1>1, FirstKept, LogicalStays
<1>3. tx.kind = "write"
  BY <1>1, <1>2 DEF Undoable, Rewinding, CallTypes
<1>4. CASE ~Current
  BY <1>1, <1>4, UndoableKept DEF Capture
<1>5. CASE Current
  <2>. DEFINE n == Len(manifests)
              c == [status |-> "ready", order |-> tx.order, before |-> tx.from, after |-> tx.to]
              h(g) == [k \in 1..(n + 2) |-> IF k = n + 2 THEN Logical ELSE g[k]]
  <2>1. /\ manifests' = Append(manifests, c) /\ tx' = [tx EXCEPT !.m = n + 1] /\ pc' = "recover"
        /\ UNCHANGED fate /\ Lasting(ToSet(tx.order))
    BY <1>5 DEF Capture
  <2>2. manifests \in Seq(Manifest) /\ n \in Nat
    BY DEF Checkpoints
  <2>3. /\ Len(manifests') = n + 1 /\ manifests'[n + 1] = c
        /\ \A k \in 1..n : manifests'[k] = manifests[k]
    <3>. HIDE DEF c
    <3>. QED  BY <2>1, <2>2
  <2>4. /\ tx'.kind = "write" /\ tx'.m = n + 1
        /\ tx'.order = tx.order /\ tx'.from = tx.from /\ tx'.to = tx.to
    BY <1>1, <1>3, <2>1, <2>2, CaptureCall
  <2>5. \A p \in ToSet(tx.order) : Logical[p] = tx.from[p]
    BY <1>5, <2>1 DEF Current, Lasting
  <2>6. c.status = "ready" /\ c.order = tx.order /\ c.before = tx.from /\ c.after = tx.to
    OBVIOUS
  <2>. HIDE DEF c
  <2>7. Captured'
    BY <1>1, <1>2, <2>1, <2>2, <2>3, <2>4, <2>5, <2>6 DEF Captured
  <2>8. PICK g : History(g, manifests, Logical) /\ g[1] = first
    BY <1>2 DEF Undoable
  <2>9. Logical \in [Paths -> Values] /\ Undo(Logical, c) = Logical
    BY <2>5, <2>6, LogicalTypes, UndoNothing
  <2>10. h(g) \in [1..(n + 2) -> [Paths -> Values]] /\ h(g)[n + 2] = Logical
         /\ \A k \in 1..(n + 1) : h(g)[k] = g[k]
    BY <2>2, <2>8, <2>9 DEF History
  <2>. HIDE DEF h, n
  <2>11. \A k \in 1..(n + 1) : h(g)[k] = Undo(h(g)[k + 1], manifests'[k])
    <3>. SUFFICES ASSUME NEW k \in 1..(n + 1)
                  PROVE  h(g)[k] = Undo(h(g)[k + 1], manifests'[k])
      OBVIOUS
    <3>1. CASE k = n + 1
      <4>1. k + 1 = n + 2
        BY <2>2, <3>1
      <4>2. h(g)[k] = Logical
        BY <2>8, <2>10, <3>1 DEF History, n
      <4>. QED  BY <2>3, <2>9, <2>10, <3>1, <4>1, <4>2
    <3>2. CASE k # n + 1
      <4>1. k \in 1..n /\ k + 1 \in 1..(n + 1)
        BY <2>2, <3>2
      <4>2. g[k] = Undo(g[k + 1], manifests[k])
        BY <2>8, <4>1 DEF History, n
      <4>. QED  BY <2>3, <2>10, <4>1, <4>2
    <3>. QED  BY <3>1, <3>2
  <2>12. History(h(g), manifests', Logical') /\ h(g)[1] = first'
    <3>1. n + 1 + 1 = n + 2 /\ 1 \in 1..(n + 1)
      BY <2>2
    <3>. QED  BY <1>2, <2>3, <2>8, <2>10, <2>11, <3>1 DEF History
  <2>. QED  BY <2>4, <2>7, <2>12 DEF Undoable
<1>. QED  BY <1>4, <1>5

\* The commit of a write puts its checkpoint on the way back, and that of a
\* rewind goes back over the checkpoint it is of.
LEMMA UndoableCommit ==
    ASSUME Inductive, Undisturbed, Undoable, Next, first' # Lost, Commit
    PROVE  Undoable'
<1>. DEFINE n == Len(manifests)
<1>1. DiskTypes /\ Checkpoints /\ CallTypes /\ Phases /\ manifests \in Seq(Manifest) /\ n \in Nat
  BY DEF Inductive, Disk, Control, Checkpoints
<1>2. /\ tx # NoTx /\ fate = "none" /\ fate' = "commit" /\ UNCHANGED <<manifests, tx>>
      /\ pc = "backup" /\ pc' = "sweep"
  BY <1>1 DEF Commit, Phases, InCall
<1>3. first # Lost /\ first' = first /\ dirty = {}
  BY FirstKept DEF Undisturbed
<1>4. /\ \A p \in ToSet(tx.order) : Logical[p] = tx.from[p] /\ Logical'[p] = tx.to[p]
      /\ \A p \in Paths \ ToSet(tx.order) : Logical'[p] = Logical[p]
  BY <1>3, LogicalCommit
<1>5. Logical \in [Paths -> Values] /\ Logical' \in [Paths -> Values]
  <2>1. Inductive'
    BY InductiveStep
  <2>2. Logical' \in [Paths -> Values]
    BY <2>1 DEF Inductive, Disk, DiskTypes, Logical
  <2>. QED  BY <1>1, <2>2, LogicalTypes
<1>6. PICK g : History(g, manifests, Logical) /\ g[1] = first
  BY <1>3 DEF Undoable
\* Both kinds of call put the new workspace after the checkpoint they are for.
<1>7. ASSUME NEW m \in 1..n, g[m] = Undo(Logical', manifests[m]),
             \A k \in 1..n : k > m => manifests[k].status # "ready"
      PROVE  \E h : History(h, manifests', Logical') /\ h[1] = first'
  <2>. DEFINE h == [k \in 1..(n + 1) |-> IF k > m THEN Logical' ELSE g[k]]
  <2>1. /\ h \in [1..(n + 1) -> [Paths -> Values]] /\ h[n + 1] = Logical' /\ h[1] = first
    BY <1>1, <1>5, <1>6 DEF History
  <2>2. \A k \in 1..n : h[k] = IF k > m THEN Logical' ELSE g[k]
    BY <1>1
  <2>3. \A k \in 1..n : h[k + 1] = IF k >= m THEN Logical' ELSE g[k + 1]
    BY <1>1
  <2>. HIDE DEF h
  <2>4. \A k \in 1..n : h[k] = Undo(h[k + 1], manifests[k])
    <3>. SUFFICES ASSUME NEW k \in 1..n
                  PROVE  h[k] = Undo(h[k + 1], manifests[k])
      OBVIOUS
    <3>1. CASE k > m
      <4>1. k >= m
        BY <3>1
      <4>. QED  BY <1>5, <1>7, <2>2, <2>3, <3>1, <4>1, UndoNothing
    <3>2. CASE k = m
      <4>1. k >= m /\ ~(k > m)
        BY <3>2
      <4>. QED  BY <1>7, <2>2, <2>3, <3>2, <4>1
    <3>3. CASE k < m
      <4>1. ~(k >= m) /\ ~(k > m)
        BY <3>3
      <4>. QED  BY <1>6, <2>2, <2>3, <4>1 DEF History
    <3>. QED  BY <3>1, <3>2, <3>3
  <2>5. History(h, manifests', Logical') /\ h[1] = first'
    BY <1>2, <1>3, <2>1, <2>4 DEF History
  <2>. QED  BY <2>5
<1>8. CASE tx.kind = "write"
  <2>1. /\ tx.m = n /\ n # 0 /\ manifests[n].status = "ready" /\ manifests[n].order = tx.order
        /\ manifests[n].before = tx.from /\ manifests[n].after = tx.to
    BY <1>2, <1>3, <1>8 DEF Undoable, Captured
  <2>2. Captured'
    BY <1>2, <1>3, <1>8, <2>1 DEF Undoable, Captured
  <2>3. g[n] = Logical
    <3>1. n \in 1..n
      BY <1>1, <2>1
    <3>2. g[n] = Undo(Logical, manifests[n])
      BY <1>6, <3>1 DEF History
    <3>. QED  BY <1>4, <1>5, <2>1, <3>2, UndoNothing
  <2>4. Undo(Logical', manifests[n]) = Logical
    <3>1. \A p \in ToSet(manifests[n].order) : /\ Logical'[p] \in {manifests[n].before[p], manifests[n].after[p]}
                                               /\ Logical[p] = manifests[n].before[p]
      BY <1>4, <2>1
    <3>2. \A p \in Paths : p \notin ToSet(manifests[n].order) => Logical[p] = Logical'[p]
      BY <1>4, <2>1
    <3>. QED  BY <1>5, <2>1, <3>1, <3>2, UndoAll
  <2>5. n \in 1..n /\ \A k \in 1..n : ~(k > n)
    BY <1>1, <2>1
  <2>. QED  BY <1>2, <1>3, <1>7, <1>8, <2>2, <2>3, <2>4, <2>5 DEF Undoable
<1>9. CASE tx.kind = "rewind"
  <2>. DEFINE m == tx.m
  <2>1. Rewinding
    BY <1>3, <1>9 DEF Undoable
  <2>2. m \in 1..n /\ manifests[m].status = "ready" /\ \A k \in 1..n : k > m => manifests[k].status # "ready"
    BY <1>1, <2>1 DEF Rewinding, LatestReady, Ready
  <2>3. \A p \in ToSet(manifests[m].order) : Logical'[p] = manifests[m].before[p]
    <3>. SUFFICES ASSUME NEW p \in ToSet(manifests[m].order)
                  PROVE  Logical'[p] = manifests[m].before[p]
      OBVIOUS
    <3>1. p \in Paths
      BY <1>1, <2>2, ManifestFacts, OrderFacts
    <3>2. CASE p \in ToSet(tx.order)
      BY <1>4, <2>1, <3>2 DEF Rewinding
    <3>3. CASE p \notin ToSet(tx.order)
      BY <1>4, <2>1, <3>1, <3>3 DEF Rewinding
    <3>. QED  BY <3>2, <3>3
  <2>4. \A p \in ToSet(manifests[m].order) : Logical[p] \in {manifests[m].before[p], manifests[m].after[p]}
    BY <1>2, <1>4, <2>1 DEF Rewinding
  <2>5. \A p \in Paths : p \notin ToSet(manifests[m].order) => Logical'[p] = Logical[p]
    BY <1>4, <2>1 DEF Rewinding
  <2>6. g[m + 1] = Logical
    <3>1. m \in 0..n /\ m + 1 \in 1..(n + 1) /\ m + 1 > m
      BY <1>1, <2>2
    <3>. QED  BY <1>1, <1>6, <2>2, <3>1, HistorySkips
  <2>7. g[m] = Logical'
    <3>1. g[m] = Undo(Logical, manifests[m])
      BY <1>6, <2>2, <2>6 DEF History
    <3>2. Undo(Logical, manifests[m]) = Logical'
      BY <1>5, <2>2, <2>3, <2>4, <2>5, UndoAll
    <3>. QED  BY <3>1, <3>2
  <2>8. Undo(Logical', manifests[m]) = Logical'
    BY <1>5, <2>3, UndoNothing
  <2>9. Rewinding'
    <3>1. LatestReady(m)'
      BY <1>2, <2>1 DEF Rewinding, LatestReady, Ready
    <3>. QED  BY <1>2, <2>1, <2>3, <3>1 DEF Rewinding
  <2>. QED  BY <1>2, <1>7, <1>9, <2>2, <2>7, <2>8, <2>9 DEF Undoable
<1>. QED  BY <1>1, <1>2, <1>8, <1>9 DEF CallTypes

\* What a call records as it returns is a checkpoint that undoes nothing.
LEMMA UndoableReturn ==
    ASSUME Inductive, Undisturbed, Undoable, Next, first' # Lost, Return
    PROVE  Undoable'
<1>. DEFINE n == Len(manifests)
<1>1. DiskTypes /\ Checkpoints /\ CallTypes /\ Phases /\ manifests \in Seq(Manifest) /\ n \in Nat
  BY DEF Inductive, Disk, Control, Checkpoints
<1>2. ~Commit /\ tx' = NoTx /\ tx'.kind = "none" /\ manifests' = Recorded
  BY NoTxFacts DEF Commit, Return
<1>3. first # Lost /\ first' = first /\ Logical' = Logical /\ Logical \in [Paths -> Values]
  BY <1>1, <1>2, FirstKept, LogicalStays, LogicalTypes
<1>4. PICK g : History(g, manifests, Logical) /\ g[1] = first
  BY <1>3 DEF Undoable
<1>5. SUFFICES \E h : History(h, Recorded, Logical) /\ h[1] = first
  BY <1>2, <1>3 DEF Undoable
<1>6. CASE tx.kind = "write" /\ tx.m # 0 /\ fate # "commit"
  <2>1. /\ tx.m = n /\ n # 0 /\ manifests[n].status = "ready" /\ manifests[n].order = tx.order
        /\ manifests[n].before = tx.from /\ \A p \in ToSet(tx.order) : Logical[p] = tx.from[p]
    BY <1>3, <1>6 DEF Undoable, Captured
  <2>2. Recorded = Front(manifests)
    BY <1>6 DEF Recorded
  <2>3. /\ Len(Front(manifests)) = n - 1 /\ n - 1 \in Nat
        /\ \A k \in 1..(n - 1) : Front(manifests)[k] = manifests[k]
    <3>1. n - 1 \in Nat /\ n >= n - 1
      BY <1>1, <2>1
    <3>2. Front(manifests) = SubSeq(manifests, 1, n - 1)
      BY DEF Front
    <3>. HIDE DEF n
    <3>3. Len(SubSeq(manifests, 1, n - 1)) = n - 1
      BY <1>1, <3>1
    <3>4. \A k \in 1..(n - 1) : SubSeq(manifests, 1, n - 1)[k] = manifests[k]
      BY <1>1, <3>1 DEF n
    <3>. QED  BY <3>1, <3>2, <3>3, <3>4
  <2>4. g[n] = Logical
    <3>1. n \in 1..n
      BY <1>1, <2>1
    <3>2. g[n] = Undo(Logical, manifests[n])
      BY <1>4, <3>1 DEF History
    <3>. QED  BY <1>3, <2>1, <3>2, UndoNothing
  <2>. DEFINE h == [k \in 1..n |-> g[k]]
  <2>5. h \in [1..(n - 1 + 1) -> [Paths -> Values]] /\ h[n - 1 + 1] = Logical /\ h[1] = first
    BY <1>1, <1>4, <2>1, <2>4 DEF History
  <2>6. \A k \in 1..(n - 1) : h[k] = g[k] /\ h[k + 1] = g[k + 1] /\ g[k] = Undo(g[k + 1], manifests[k])
    BY <1>1, <1>4 DEF History
  <2>. HIDE DEF h
  <2>7. History(h, Front(manifests), Logical)
    BY <2>3, <2>5, <2>6 DEF History
  <2>. QED  BY <2>2, <2>5, <2>7
<1>7. CASE tx.kind = "rewind" /\ fate = "commit"
  <2>1. /\ tx.m \in 1..n /\ LatestReady(tx.m)
        /\ \A p \in ToSet(manifests[tx.m].order) : Logical[p] = manifests[tx.m].before[p]
    BY <1>1, <1>3, <1>7 DEF Undoable, Rewinding, LatestReady, Ready
  <2>2. Recorded = [manifests EXCEPT ![tx.m].status = "rewound"]
    BY <1>7 DEF Recorded
  <2>. QED  BY <1>1, <1>3, <1>4, <2>1, <2>2, HistoryMarked
<1>8. CASE Recorded = manifests
  BY <1>4, <1>8
<1>. QED  BY <1>6, <1>7, <1>8 DEF Recorded

\* Every step keeps the way back to the first workspace.
LEMMA UndoableStep ==
    ASSUME Inductive, Undisturbed, Undoable, [Next]_vars
    PROVE  Undoable'
<1>1. CASE UNCHANGED vars
  <2>1. UNCHANGED <<disk, manifests, pc, tx, fate, first>>
    BY <1>1 DEF vars, call
  <2>2. Logical' = Logical
    BY <2>1 DEF disk, Logical, PutsBack, Removes, Prepared, Entries
  <2>3. (Captured' <=> Captured) /\ (Rewinding' <=> Rewinding)
    BY <2>1, <2>2 DEF Captured, Rewinding, LatestReady, Ready
  <2>. QED  BY <2>1, <2>2, <2>3 DEF Undoable
<1>2. CASE first' = Lost
  BY <1>2 DEF Undoable
<1>. SUFFICES ASSUME Next, first' # Lost
              PROVE  Undoable'
  BY <1>1, <1>2
<1>3. CASE UNCHANGED <<manifests, tx>> /\ ~Commit
  BY <1>3, UndoableKept
<1>4. CASE ~(UNCHANGED tx) \/ Commit
  BY <1>4, CallWriters, UndoableCommit, UndoableCapture, UndoableReturn, UndoableDropped, UndoableWrite, UndoableRewind
<1>5. CASE ~(UNCHANGED manifests)
  <2>1. Capture \/ Return \/ \E m \in 1..Len(manifests) : Rewind(m)
    BY <1>5 DEF Next, Write, Boot, RecoverClear, RecoverRestore, RecoverTidy, RecoverDone,
       FirstCheck, Stage, SecondCheck, Prepare, Backup, Install, Commit, Rollback, RollbackDone, Sweep,
       SweepDone, EarlyFailure, PrepareFailure, InstallFailure, RollbackFailure, RecoverFailure,
       ReturnFailure, Crash, Edit, FileStep, Failure
  <2>. QED  BY <2>1, UndoableCapture, UndoableReturn, UndoableRewind
<1>. QED  BY <1>3, <1>4, <1>5

\* What folding Undo over the checkpoints computes.
LEMMA UndoFolds ==
    ASSUME Checkpoints, NEW ws \in [Paths -> Values], NEW h, History(h, manifests, ws)
    PROVE  FoldRight(LAMBDA m, v : Undo(v, m), manifests, ws) = h[1]
<1>. DEFINE n == Len(manifests)
            D == DOMAIN manifests
            V == [Paths -> Values]
            Rhs(g) == [s \in SUBSET D |-> IF s = {} THEN ws ELSE Undo(g[s \ {Min(s)}], manifests[Min(s)])]
            fold == CHOOSE g : g = Rhs(g)
            op == [x \in D \X V |-> Undo(x[2], manifests[x[1]])]
            choose == [s \in SUBSET D |-> Min(s)]
<1>1. FoldRight(LAMBDA m, v : Undo(v, m), manifests, ws) = fold[D]
  BY DEF FoldRight, MapThenFoldSet
<1>2. D = 1..n /\ n \in Nat /\ IsFiniteSet(D)
  <2>1. manifests \in Seq(Manifest)
    BY DEF Checkpoints
  <2>2. D = 1..n /\ n \in Nat
    BY <2>1
  <2>. QED  BY <2>2, FS_Interval
<1>3. \A s \in SUBSET D : s # {} => Min(s) \in s /\ choose[s] = Min(s)
  BY <1>2, MinIsLeast
<1>4. \A k \in D, v \in V : op[k, v] = Undo(v, manifests[k]) /\ Undo(v, manifests[k]) \in V
  BY <1>2, ManifestFacts, UndoTypes
<1>5. op \in [D \X V -> V]
  BY <1>4
<1>6. PICK g \in [SUBSET D -> V] : FoldEquation(g, D, choose, op, ws)
  <2>. HIDE DEF op, choose, D, V
  <2>1. \A s \in SUBSET D : s # {} => choose[s] \in s
    BY <1>3
  <2>. QED  BY <1>2, <1>5, <2>1, FoldDefined DEF V
<1>. HIDE DEF op
<1>7. g = Rhs(g)
  <2>1. ASSUME NEW s \in SUBSET D
        PROVE  g[s] = IF s = {} THEN ws ELSE Undo(g[s \ {Min(s)}], manifests[Min(s)])
    <3>1. g[s] = IF s = {} THEN ws ELSE op[choose[s], g[s \ {choose[s]}]]
      BY <1>6 DEF FoldEquation
    <3>2. CASE s # {}
      <4>1. choose[s] = Min(s) /\ Min(s) \in D /\ g[s \ {Min(s)}] \in V
        BY <1>3, <3>2
      <4>. HIDE DEF choose, D, V
      <4>. QED  BY <1>4, <3>1, <3>2, <4>1
    <3>. QED  BY <3>1, <3>2
  <2>. QED  BY <2>1
<1>8. fold = Rhs(fold)
  BY <1>7
<1>9. /\ fold[{}] = ws
      /\ \A s \in SUBSET D : s # {} => fold[s] = Undo(fold[s \ {Min(s)}], manifests[Min(s)])
  BY <1>8
<1>. HIDE DEF fold
<1>. DEFINE A == {d \in Nat : d <= n => fold[(n + 1 - d)..n] = h[n + 1 - d]}
<1>10. 0 \in A
  <2>1. (n + 1 - 0)..n = {} /\ n + 1 - 0 = n + 1
    BY <1>2
  <2>. QED  BY <1>9, <2>1 DEF History
<1>11. ASSUME NEW d \in A
       PROVE  d + 1 \in A
  <2>. SUFFICES ASSUME d + 1 <= n
                PROVE  fold[(n + 1 - (d + 1))..n] = h[n + 1 - (d + 1)]
    OBVIOUS
  <2>. DEFINE k == n - d
  <2>1. k \in 1..n /\ n + 1 - (d + 1) = k /\ n + 1 - d = k + 1 /\ d <= n
    <3>. HIDE DEF n
    <3>1. d \in Nat
      OBVIOUS
    <3>. QED  BY <1>2, <3>1
  <2>2. fold[(k + 1)..n] = h[k + 1]
    BY <2>1
  <2>. HIDE DEF k, n, A, D
  <2>3. k..n \in SUBSET D /\ k..n \in SUBSET Nat /\ k \in k..n /\ (k..n) \ {k} = (k + 1)..n
    BY <1>2, <2>1
  <2>4. Min(k..n) = k
    <3>1. Min(k..n) \in k..n /\ Min(k..n) <= k
      BY <2>3, MinIsLeast
    <3>. QED  BY <1>2, <2>1, <3>1
  <2>5. fold[k..n] = Undo(h[k + 1], manifests[k])
    BY <1>9, <2>2, <2>3, <2>4
  <2>6. h[k] = Undo(h[k + 1], manifests[k])
    BY <2>1 DEF History, n
  <2>. QED  BY <2>1, <2>5, <2>6
<1>12. n \in A
  <2>1. A \in SUBSET Nat
    OBVIOUS
  <2>. HIDE DEF A, n
  <2>. QED  BY <1>2, <1>10, <1>11, <2>1, NatStep
<1>13. n + 1 - n = 1 /\ n <= n
  BY <1>2
<1>. QED  BY <1>1, <1>2, <1>12, <1>13

\* While only the daemon edits, and rewinds are newest first, the checkpoints
\* lead back to the first workspace, whichever writes, patches and rewinds
\* failed, crashed or could not be recorded.
THEOREM CheckpointsLeadBack == Spec => []UndoReachesStart
<1>1. Init => Undisturbed /\ Undoable
  BY UndoableInit DEF Init, Undisturbed
<1>2. Inductive /\ Undisturbed /\ Undoable /\ [Next]_vars => Undisturbed' /\ Undoable'
  BY UndisturbedStep, UndoableStep
<1>3. Inductive /\ Undoable => UndoReachesStart
  <2>. SUFFICES ASSUME Inductive, Undoable, first # Lost
                PROVE  FoldRight(LAMBDA m, ws : Undo(ws, m), manifests, Logical) = first
    BY DEF UndoReachesStart
  <2>1. PICK h : History(h, manifests, Logical) /\ h[1] = first
    BY DEF Undoable
  <2>2. Checkpoints /\ Logical \in [Paths -> Values]
    BY LogicalTypes DEF Inductive, Disk
  <2>. QED  BY <2>1, <2>2, UndoFolds
<1>. QED  BY <1>1, <1>2, <1>3, FileInvariant, PTL DEF Spec
=============================================================================
