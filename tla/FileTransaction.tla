-------------------------- MODULE FileTransaction --------------------------
(***************************************************************************)
(* Changes to workspace files: apply_file_transaction and its recovery     *)
(* (core/editing/transaction.py), the checkpoint taken before each change  *)
(* and the rewind to it (core/checkpoints/store.py), as write_file and     *)
(* apply_patch call them.                                                  *)
(*                                                                         *)
(* The code runs without an await, so the daemon makes one change at a     *)
(* time; what can come between two file operations is a crash, an OSError  *)
(* or an edit by another program.  A step is one file operation.           *)
(*                                                                         *)
(* An operator defined just before another, with its parameters and a name *)
(* that extends its name, is a mistaken variant of it that nothing here    *)
(* uses: each property is known to fail when a variant takes its place.    *)
(***************************************************************************)
EXTENDS Integers, Sequences, SequencesExt

CONSTANTS
    Paths,           \* files in the workspace
    Contents,        \* what a file can contain
    NoFile,          \* the file does not exist
    Unknown,         \* see AtomicWorkspace
    MaxFiles,        \* bound: files of one call
    MaxCalls,        \* bound: writes and rewinds
    MaxFaults        \* bound: crashes, OSErrors and edits by other programs

ASSUME FileAssumption ==
    /\ NoFile \notin Contents
    /\ Unknown \notin Contents \cup {NoFile}
    /\ {MaxFiles, MaxCalls, MaxFaults} \subseteq Nat

Values == Contents \cup {NoFile}

VARIABLES
    files,     \* the workspace
    staged,    \* the temporary file that holds a path's new content
    backup,    \* the file a path's old content was moved to
    journal,   \* the transaction's journal on disk
    manifests, \* the checkpoints, oldest first
    pc,        \* where the daemon is: "idle", "down" or inside a call
    tx,        \* the call being made
    i,         \* the entry a loop of the call has reached
    fate,      \* of the call: "commit", "abort", or "keep" the journal
    dirty,     \* history: files edited while a commit was being installed
    first,     \* history: the workspace at the start, as long as it is known
               \* that rewinding should lead back to it
    edits,     \* history: edits by other programs
    calls, faults

disk == <<files, staged, backup, journal>>
call == <<tx, fate>>
counters == <<edits, calls, faults>>
vars == <<disk, manifests, pc, call, i, dirty, first, counters>>

----------------------------------------------------------------------------
\* The parts of the state.

NoTx == [kind |-> "none", m |-> 0, order |-> <<>>,
         from |-> [p \in {} |-> p], to |-> [p \in {} |-> p], start |-> [p \in {} |-> p]]
Lost == [p \in {} |-> p]
NoJournal == [state |-> "none", entries |-> <<>>]

Orders == {s \in UNION {[1..n -> Paths] : n \in 1..MaxFiles} : IsInjective(s)}

Manifest == [status : {"ready", "rewound"}, order : Orders,
             before : UNION {[P -> Values] : P \in SUBSET Paths},
             after : UNION {[P -> Values] : P \in SUBSET Paths}]

Entry == [path : Paths, existed : BOOLEAN, staged : BOOLEAN]

Entries == journal.entries
Prepared == journal.state = "prepared"

\* What recovery does to an entry of an uncommitted journal: it puts the
\* backup back, or removes a new file whose staged copy is gone.
PutsBack(e) == Prepared /\ e.existed /\ backup[e.path] # NoFile
Removes(e) == Prepared /\ ~e.existed /\ e.staged /\ staged[e.path] = NoFile

\* The workspace as it will be once recovery has run.
Logical ==
    LET Hit(p) == {e \in ToSet(Entries) : e.path = p /\ (PutsBack(e) \/ Removes(e))}
    IN  [p \in Paths |-> IF Hit(p) = {} THEN files[p] ELSE backup[p]]

\* Files whose edits the transaction in progress, or its journal, overwrites.
Covered ==
    (IF pc \in {"prepare", "backup", "install", "rollback"} THEN ToSet(tx.order) ELSE {})
    \cup (IF Prepared THEN {e.path : e \in ToSet(Entries)} ELSE {})

\* A raced edit is settled once nothing covers its file (last in each action).
Settles == dirty' = dirty \cap Covered'

\* What most steps of a call leave alone, and what most failures do.
Failure ==
    /\ faults < MaxFaults /\ faults' = faults + 1
    /\ UNCHANGED <<manifests, tx, first, edits, calls>>

FileStep == UNCHANGED <<manifests, call, first, counters>> /\ Settles

TypeOK ==
    /\ {files, staged, backup} \subseteq [Paths -> Values]
    /\ first \in [Paths -> Values] \cup {Lost}
    /\ journal \in [state : {"none", "prepared", "committed"}, entries : Seq(Entry)]
    /\ manifests \in Seq(Manifest)
    /\ pc \in {"idle", "down", "capture", "recover", "restore", "tidy", "current", "stage",
               "prepare", "backup", "install", "rollback", "sweep", "return"}
    /\ tx.kind \in {"none", "write", "rewind"}
    /\ tx.m \in 0..Len(manifests)
    /\ DOMAIN tx.from = ToSet(tx.order) /\ DOMAIN tx.to = ToSet(tx.order)
    /\ i \in 0..(Len(tx.order) + Len(Entries) + 1)
    /\ fate \in {"none", "commit", "abort", "keep"}
    /\ dirty \subseteq Covered

Init ==
    /\ files \in [Paths -> Values]
    /\ first = files
    /\ staged = [p \in Paths |-> NoFile]
    /\ backup = staged
    /\ journal = NoJournal
    /\ manifests = <<>>
    /\ pc = "idle" /\ tx = NoTx /\ i = 0 /\ fate = "none"
    /\ dirty = {}
    /\ edits = 0 /\ calls = 0 /\ faults = 0

----------------------------------------------------------------------------
\* Calls.

RestrictedNot(f, s) == [p \in Paths |-> f[p]]
Restricted(f, s) == [p \in ToSet(s) |-> f[p]]

\* write_file and apply_patch read the files they are to change.
Write(order, to) ==
    /\ pc = "idle" /\ calls < MaxCalls
    /\ \A p \in ToSet(order) : files[p] # NoFile \/ to[p] # NoFile
    /\ tx' = [kind |-> "write", m |-> 0, order |-> order,
              from |-> Restricted(files, order), to |-> to, start |-> Logical]
    /\ pc' = "capture"
    /\ calls' = calls + 1
    /\ UNCHANGED <<disk, manifests, i, fate, first, edits, faults>> /\ Settles

\* Every file of the call is still what the caller read.
Current == \A p \in ToSet(tx.order) : files[p] = tx.from[p]

\* CheckpointStore.create and rewind read the files before the transaction they
\* are for recovers an earlier journal, and that recovery may change them.
Lasting(ps) == \A p \in ps : files[p] = Logical[p]

\* CheckpointStore.create.
Capture ==
    /\ pc = "capture"
    /\ IF Current
       THEN /\ manifests' = Append(manifests, [status |-> "ready", order |-> tx.order,
                                               before |-> tx.from, after |-> tx.to])
            /\ tx' = [tx EXCEPT !.m = Len(manifests) + 1]
            /\ pc' = "recover" /\ i' = Len(Entries)
            /\ UNCHANGED fate
       ELSE /\ pc' = "return" /\ fate' = "abort"
            /\ UNCHANGED <<manifests, tx, i>>
    /\ first' = IF Current => Lasting(ToSet(tx.order)) THEN first ELSE Lost
    /\ UNCHANGED <<disk, counters>> /\ Settles

Ready == {m \in 1..Len(manifests) : manifests[m].status = "ready"}
LatestReady(m) == m \in Ready /\ \A n \in Ready : n <= m

\* rewind leaves alone a file that is as it was before the change ...
Restorable(m) == {p \in ToSet(manifests[m].order) : files[p] # manifests[m].before[p]}

\* ... and refuses when another has changed since.
ConflictFree(m) == \A p \in Restorable(m) : files[p] = manifests[m].after[p]

\* The members of a set, if any, in the order they have in a sequence.
Filtered(s, S) ==
    {t \in Orders : /\ ToSet(t) = S
                    /\ \A j, k \in DOMAIN t : j < k =>
                           \E l, n \in DOMAIN s : l < n /\ s[l] = t[j] /\ s[n] = t[k]}

\* CheckpointStore.rewind, of the latest ready checkpoint or of a given one.
Rewind(m) ==
    /\ pc = "idle" /\ calls < MaxCalls
    /\ ConflictFree(m)
    /\ \/ /\ Restorable(m) = {}
          /\ manifests' = [manifests EXCEPT ![m].status = "rewound"]
          /\ UNCHANGED <<pc, tx, i>>
       \/ \E order \in Filtered(manifests[m].order, Restorable(m)) :
              /\ tx' = [kind |-> "rewind", m |-> m, order |-> order,
                        from |-> Restricted(files, order),
                        to |-> Restricted(manifests[m].before, order), start |-> Logical]
              /\ pc' = "recover" /\ i' = Len(Entries)
              /\ UNCHANGED manifests
    /\ calls' = calls + 1
    /\ first' = IF LatestReady(m) /\ Lasting(ToSet(manifests[m].order) \ Restorable(m))
                THEN first ELSE Lost
    /\ UNCHANGED <<disk, fate, edits, faults>> /\ Settles

\* The caller keeps the checkpoint of a committed write, discards that of a
\* failed one, the newest, and marks a completed rewind.
RecordedEagerly ==
    CASE tx.kind = "write" /\ tx.m # 0 /\ fate # "commit" -> Front(manifests)
      [] tx.kind = "rewind" -> [manifests EXCEPT ![tx.m].status = "rewound"]
      [] OTHER -> manifests
Recorded ==
    CASE tx.kind = "write" /\ tx.m # 0 /\ fate # "commit" -> Front(manifests)
      [] tx.kind = "rewind" /\ fate = "commit" -> [manifests EXCEPT ![tx.m].status = "rewound"]
      [] OTHER -> manifests

Return ==
    /\ pc = "return"
    /\ manifests' = Recorded
    /\ pc' = "idle" /\ tx' = NoTx /\ fate' = "none" /\ i' = 0
    /\ UNCHANGED <<disk, first, counters>> /\ Settles

----------------------------------------------------------------------------
\* recover_file_transactions, at boot (no call) and before each transaction.

Boot ==
    /\ pc = "down"
    /\ pc' = "recover" /\ i' = Len(Entries)
    /\ UNCHANGED disk /\ FileStep

\* target.unlink
RecoverClear ==
    /\ pc = "recover" /\ i > 0
    /\ files' = IF PutsBack(Entries[i]) \/ Removes(Entries[i])
                THEN [files EXCEPT ![Entries[i].path] = NoFile] ELSE files
    /\ pc' = "restore"
    /\ UNCHANGED <<staged, backup, journal, i>> /\ FileStep

\* os.replace(backup, target)
RecoverRestore ==
    /\ pc = "restore"
    /\ LET p == Entries[i].path
       IN  IF PutsBack(Entries[i])
           THEN /\ files' = [files EXCEPT ![p] = backup[p]]
                /\ backup' = [backup EXCEPT ![p] = NoFile]
           ELSE UNCHANGED <<files, backup>>
    /\ pc' = "tidy"
    /\ UNCHANGED <<staged, journal, i>> /\ FileStep

\* staged.unlink and backup.unlink, of what the journal lists.
RecoverTidy ==
    /\ pc = "tidy"
    /\ LET e == Entries[i]
       IN  /\ staged' = IF e.staged THEN [staged EXCEPT ![e.path] = NoFile] ELSE staged
           /\ backup' = IF e.existed THEN [backup EXCEPT ![e.path] = NoFile] ELSE backup
    /\ pc' = "recover" /\ i' = i - 1
    /\ UNCHANGED <<files, journal>> /\ FileStep

RecoverDone ==
    /\ pc = "recover" /\ i = 0
    /\ journal' = NoJournal
    /\ pc' = IF tx = NoTx THEN "idle" ELSE "current"
    /\ UNCHANGED <<files, staged, backup, i>> /\ FileStep

----------------------------------------------------------------------------
\* apply_file_transaction.

FirstCheck ==
    /\ pc = "current"
    /\ IF Current
       THEN pc' = "stage" /\ i' = 1 /\ UNCHANGED fate
       ELSE pc' = "return" /\ fate' = "abort" /\ UNCHANGED i
    /\ UNCHANGED <<disk, manifests, tx, first, counters>> /\ Settles

Path == tx.order[i]

Stage ==
    /\ pc = "stage" /\ i <= Len(tx.order)
    /\ staged' = [staged EXCEPT ![Path] = tx.to[Path]]
    /\ i' = i + 1
    /\ UNCHANGED <<files, backup, journal, pc>> /\ FileStep

SecondCheck ==
    /\ pc = "stage" /\ i > Len(tx.order)
    /\ IF Current
       THEN pc' = "prepare" /\ UNCHANGED fate
       ELSE pc' = "sweep" /\ fate' = "abort"
    /\ i' = 1
    /\ UNCHANGED <<disk, manifests, tx, first, counters>> /\ Settles

JournalledIfInstalled == [n \in 1..Len(tx.order) |->
    [path |-> tx.order[n], existed |-> tx.from[tx.order[n]] # NoFile /\ tx.to[tx.order[n]] # NoFile,
     staged |-> tx.to[tx.order[n]] # NoFile]]
Journalled == [n \in 1..Len(tx.order) |->
    [path |-> tx.order[n], existed |-> tx.from[tx.order[n]] # NoFile,
     staged |-> tx.to[tx.order[n]] # NoFile]]

Prepare ==
    /\ pc = "prepare"
    /\ journal' = [state |-> "prepared", entries |-> Journalled]
    /\ pc' = "backup"
    /\ UNCHANGED <<files, staged, backup, i>> /\ FileStep

\* os.replace(path, backup), of a file that existed.
Backup ==
    /\ pc = "backup" /\ i <= Len(tx.order)
    /\ IF tx.from[Path] = NoFile
       THEN UNCHANGED <<files, backup>>
       ELSE /\ files[Path] # NoFile
            /\ backup' = [backup EXCEPT ![Path] = files[Path]]
            /\ files' = [files EXCEPT ![Path] = NoFile]
    /\ pc' = "install"
    /\ UNCHANGED <<staged, journal, i>> /\ FileStep

\* os.replace(staged, path), of a file that is to exist.
Install ==
    /\ pc = "install"
    /\ IF tx.to[Path] = NoFile
       THEN UNCHANGED <<files, staged>>
       ELSE /\ files' = [files EXCEPT ![Path] = staged[Path]]
            /\ staged' = [staged EXCEPT ![Path] = NoFile]
    /\ pc' = "backup" /\ i' = i + 1
    /\ UNCHANGED <<backup, journal>> /\ FileStep

\* The commit point: the journal is replaced by one that says "committed".
Commit ==
    /\ pc = "backup" /\ i > Len(tx.order)
    /\ journal' = [state |-> "committed",
                   entries |-> [n \in DOMAIN Entries |-> [Entries[n] EXCEPT !.staged = FALSE]]]
    /\ pc' = "sweep" /\ i' = 1 /\ fate' = "commit"
    /\ UNCHANGED <<files, staged, backup, manifests, tx, first, counters>> /\ Settles

Installed(p) == tx.to[p] # NoFile /\ staged[p] = NoFile

\* Undoes the paths in reverse order, whatever became of the later ones.
Rollback ==
    /\ pc = "rollback" /\ i > 0
    /\ IF backup[Path] # NoFile
       THEN /\ files' = [files EXCEPT ![Path] = backup[Path]]
            /\ backup' = [backup EXCEPT ![Path] = NoFile]
       ELSE /\ files' = IF Installed(Path) THEN [files EXCEPT ![Path] = NoFile] ELSE files
            /\ UNCHANGED backup
    /\ i' = i - 1
    /\ UNCHANGED <<staged, journal, pc>> /\ FileStep

RollbackDone ==
    /\ pc = "rollback" /\ i = 0
    /\ pc' = "sweep" /\ i' = 1
    /\ UNCHANGED disk /\ FileStep

\* The clean-up of either end.  A failed rollback preserves the backups and
\* the journal, for the next recovery.
PreservesNever == FALSE
Preserves == fate = "keep"

Sweep ==
    /\ pc = "sweep" /\ i <= Len(tx.order)
    /\ staged' = [staged EXCEPT ![Path] = NoFile]
    /\ backup' = IF Preserves THEN backup ELSE [backup EXCEPT ![Path] = NoFile]
    /\ i' = i + 1
    /\ UNCHANGED <<files, journal, pc>> /\ FileStep

SweepDone ==
    /\ pc = "sweep" /\ i > Len(tx.order)
    /\ journal' = IF Preserves THEN journal ELSE NoJournal
    /\ pc' = "return" /\ i' = 0
    /\ UNCHANGED <<files, staged, backup>> /\ FileStep

----------------------------------------------------------------------------
\* What goes wrong.

\* An OSError before anything is journalled.
EarlyFailure ==
    /\ Failure
    /\ \/ pc = "capture" /\ pc' = "return"
       \/ pc = "stage" /\ i <= Len(tx.order) /\ pc' = "sweep"
    /\ i' = 1 /\ fate' = "abort"
    /\ UNCHANGED disk /\ Settles

\* The journal is not written, or it is and the directory's fsync fails; then
\* nobody removes it before the next recovery.
PrepareFailure ==
    /\ Failure
    /\ pc = "prepare"
    /\ \/ fate' = "abort" /\ UNCHANGED journal
       \/ fate' = "keep" /\ journal' = [state |-> "prepared", entries |-> Journalled]
    /\ pc' = "sweep"
    /\ UNCHANGED <<files, staged, backup, i>> /\ Settles

\* A rename fails, perhaps as the file has gone.
InstallFailure ==
    /\ pc \in {"backup", "install"} /\ i <= Len(tx.order)
    /\ \/ faults < MaxFaults /\ faults' = faults + 1
       \/ /\ pc = "backup" /\ tx.from[Path] # NoFile /\ files[Path] = NoFile
          /\ UNCHANGED faults
    /\ pc' = "rollback" /\ fate' = "abort"
    /\ UNCHANGED <<disk, manifests, tx, i, first, edits, calls>> /\ Settles

\* The unlink of what was installed fails, or the rename of the backup after it.
RollbackFailure ==
    /\ Failure
    /\ pc = "rollback" /\ i > 0
    /\ Installed(Path) \/ backup[Path] # NoFile
    /\ \/ UNCHANGED files
       \/ backup[Path] # NoFile /\ files' = [files EXCEPT ![Path] = NoFile]
    /\ i' = i - 1 /\ fate' = "keep"
    /\ UNCHANGED <<staged, backup, journal, pc>> /\ Settles

\* The fsync of a directory, the second journal or its clean-up fails when all
\* files are installed: the finally clause cleans up and the call raises.
LateFailure ==
    /\ Failure
    /\ \/ pc = "backup" /\ i > Len(tx.order)
       \/ pc = "sweep" /\ fate = "commit"
    /\ pc' = "sweep" /\ i' = 1 /\ fate' = "abort"
    /\ UNCHANGED disk /\ Settles

\* A recovery that fails leaves the journal: the daemon does not start, or the
\* transaction is not begun.
RecoverFailure ==
    /\ Failure
    /\ pc \in {"recover", "restore", "tidy"} /\ journal # NoJournal
    /\ IF tx = NoTx
       THEN pc' = "down" /\ UNCHANGED fate
       ELSE pc' = "return" /\ fate' = "abort"
    /\ i' = 0
    /\ UNCHANGED disk /\ Settles

\* discard ignores an OSError; a rewind whose mark fails reports it.
ReturnFailure ==
    /\ faults < MaxFaults
    /\ pc = "return"
    /\ pc' = "idle" /\ tx' = NoTx /\ fate' = "none" /\ i' = 0
    /\ faults' = faults + 1
    /\ UNCHANGED <<disk, manifests, first, edits, calls>> /\ Settles

\* Temporary files of a transaction that has no journal yet stay for ever,
\* under names that nothing reads.
Crash ==
    /\ pc # "down" /\ faults < MaxFaults
    /\ pc' = "down" /\ tx' = NoTx /\ fate' = "none" /\ i' = 0
    /\ staged' = IF journal = NoJournal THEN [p \in Paths |-> NoFile] ELSE staged
    /\ faults' = faults + 1
    /\ UNCHANGED <<files, backup, journal, manifests, first, edits, calls>>
    /\ Settles

\* Another program, or a shell command of the agent, changes a file.
Edit(p, c) ==
    /\ faults < MaxFaults
    /\ files[p] # c
    /\ files' = [files EXCEPT ![p] = c]
    /\ dirty' = IF p \in Covered THEN dirty \cup {p} ELSE dirty
    /\ first' = Lost
    /\ edits' = edits + 1 /\ faults' = faults + 1
    /\ UNCHANGED <<staged, backup, journal, manifests, pc, call, i, calls>>

Next ==
    \/ \E order \in Orders : \E to \in [ToSet(order) -> Values] : Write(order, to)
    \/ \E m \in 1..Len(manifests) : Rewind(m)
    \/ Capture \/ Return \/ Boot
    \/ RecoverClear \/ RecoverRestore \/ RecoverTidy \/ RecoverDone
    \/ FirstCheck \/ Stage \/ SecondCheck \/ Prepare \/ Backup \/ Install \/ Commit
    \/ Rollback \/ RollbackDone \/ Sweep \/ SweepDone
    \/ EarlyFailure \/ PrepareFailure \/ InstallFailure \/ RollbackFailure
    \/ RecoverFailure \/ ReturnFailure \/ Crash
    \/ \E p \in Paths, c \in Values : Edit(p, c)

Spec == Init /\ [][Next]_vars

\* With failures after the last installation as well, which the code does not
\* survive: see FailedMeansUnchanged.
SpecLate == Init /\ [][Next \/ LateFailure]_vars

----------------------------------------------------------------------------
\* Properties.

\* AtomicWorkspace, in terms of what recovery will restore: the call is
\* applied once its journal says committed, and a failure is reported only of
\* a call that is not.
Workspace == INSTANCE AtomicWorkspace WITH
    contents <- [p \in Paths |-> IF p \in dirty THEN Unknown ELSE Logical[p]],
    status <- IF tx = NoTx THEN "free" ELSE IF fate = "commit" THEN "applied" ELSE "open",
    request <- IF tx = NoTx \/ fate = "commit" THEN [from |-> NoTx.from, to |-> NoTx.to]
               ELSE [from |-> tx.from, to |-> tx.to]

\* The transactions of transaction.py, with every crash, failed rename and
\* failed recovery before the commit point, change all their files or none and
\* overwrite no edit made before the installation.
ImplementsAtomicWorkspace == Workspace!Spec

\* The workspace after the ready checkpoints have been rewound newest first.
Undo(ws, m) ==
    IF m.status # "ready" \/ \E p \in ToSet(m.order) : ws[p] \notin {m.before[p], m.after[p]}
    THEN ws
    ELSE [p \in Paths |-> IF p \in ToSet(m.order) THEN m.before[p] ELSE ws[p]]

\* CheckpointStore keeps enough to take a run's changes back: while only the
\* daemon edits and rewinds are newest first, rewinding every ready checkpoint
\* leads to the first workspace, whichever calls failed or crashed on the way.
UndoReachesStart ==
    pc \in {"idle", "down"} /\ first # Lost =>
        FoldRight(LAMBDA m, ws : Undo(ws, m), manifests, Logical) = first

\* A file's only old copy is never beside the workspace without a journal that
\* tells recovery about it.
BackupsAreJournalled ==
    \A p \in Paths : backup[p] # NoFile =>
        \E e \in ToSet(Entries) : e.path = p /\ e.existed

\* apply_file_transaction "以可恢复日志和逐文件备份原子提交一组工作区文件修改"
\* (transaction.py:84, commits its changes atomically): a call that raises
\* leaves the workspace as it found it, while nothing else edits the files.
FailedMeansUnchanged ==
    pc = "return" /\ fate # "commit" /\ first # Lost => Logical = tx.start
=============================================================================
