---------------------------- MODULE RuntimeStore ----------------------------
(***************************************************************************)
(* The durable projection of CodeRook's runtime: the SQLite tables that    *)
(* core/runtime/store.py keeps for threads, turns, turn items and the      *)
(* per-thread event log, one action per transaction.  A transaction that   *)
(* raises is rolled back whole, so only the ones that commit are steps.    *)
(*                                                                         *)
(* Crash stops the daemon between two transactions; the next daemon has a  *)
(* new boot id and runs boot recovery before it serves (core/app.py).      *)
(*                                                                         *)
(* An operator defined just before another, with its parameters and a name *)
(* that extends its name, is a mistaken variant of it that nothing here    *)
(* uses: each property is known to fail when a variant takes its place.    *)
(***************************************************************************)
EXTENDS Integers, FiniteSets

CONSTANTS
    Threads,    \* thread ids (one per session)
    Turns,      \* turn ids (one per run)
    Keys,       \* item identities inside a turn: tool call ids, message roles
    LedgerSeqs, \* session-ledger sequence numbers of auxiliary usage records
    NoThread,   \* the owner of a turn that has no row
    NoTurn,     \* the turn of an event that belongs to the thread alone
    MaxEvents,  \* bound: only recovery appends while this many events exist
    MaxBoot     \* bound: daemon starts

ASSUME StoreAssumption ==
    /\ NoThread \notin Threads
    /\ NoTurn \notin Turns
    /\ IsFiniteSet(Turns)
    /\ MaxEvents \in Nat
    /\ MaxBoot \in Nat

TurnStatus == {"queued", "running", "waiting", "completed", "failed", "interrupted"}
Terminal == {"completed", "failed", "interrupted"}
Active == {"running", "waiting"}

\* _TURN_TRANSITIONS
Successors ==
    [queued      |-> {"running", "failed", "interrupted"},
     running     |-> {"waiting"} \cup Terminal,
     waiting     |-> {"running"} \cup Terminal,
     completed   |-> {},
     failed      |-> {},
     interrupted |-> {}]

\* The thread statuses that a session's own state gives are all "idle" here; the
\* one that boot recovery writes is kept apart.
ThreadStatus == {"idle", "interrupted"}
Kinds == {"message", "tool_call", "tool_result"}
Phases == {"booting", "serving", "degraded"}

\* Event types, as far as the log's meaning depends on them.
StatusEvent ==
    [queued |-> "turn.updated", running |-> "turn.updated", waiting |-> "turn.updated",
     completed |-> "turn.completed", failed |-> "turn.failed",
     interrupted |-> "turn.interrupted"]
EventTypes == {"turn.completed", "turn.failed", "turn.interrupted", "turn.updated",
               "item", "note", "usage", "auxiliary_usage"}

NoKey == "none"
ImportedBoot == 0

Item == [turn : Turns, kind : Kinds, key : Keys]
Event == [thread : Threads, seq : Nat \ {0}, turn : Turns \cup {NoTurn},
          type : EventTypes, ledger : LedgerSeqs \cup {NoKey}]

VARIABLES
    threadStatus, \* runtime_threads: status, or "none" without a row
    counter,      \* runtime_event_counters: next_seq, 0 without a row
    status,       \* runtime_turns.status, or "none" without a row
    owner,        \* runtime_turns.thread_id
    bootOf,       \* runtime_turns.boot_id, ImportedBoot for NULL
    items,        \* runtime_turn_items
    log,          \* runtime_events
    boot,         \* boot_id of the daemon that is up
    phase         \* what of boot recovery this daemon has done

turnVars == <<status, owner, bootOf>>
vars == <<threadStatus, counter, status, owner, bootOf, items, log, boot, phase>>

-----------------------------------------------------------------------------
Exists(t) == threadStatus[t] # "none"
EventsOf(t) == {e \in log : e.thread = t}
SeqsOf(t) == {e.seq : e \in EventsOf(t)}
ItemsOf(r) == {i \in items : i.turn = r}
Has(r, kind, key) == [turn |-> r, kind |-> kind, key |-> key] \in items

\* Tool calls of r that have no tool_result yet (_unmatched_tool_call_ids).
Unmatched(r) == {k \in Keys : Has(r, "tool_call", k) /\ ~Has(r, "tool_result", k)}

\* A turn that writes may still change.
OpenAny(r) == status[r] # "none"
Open(r) == status[r] \in TurnStatus \ Terminal

\* INSERT OR IGNORE of a thread's counter row.
SeedCounterMissing(n) == n
SeedCounterAlways(n) == 1
SeedCounter(n) == IF n = 0 THEN 1 ELSE n

Up == phase \in {"serving", "degraded"}

\* _insert_event: the next seq of the thread, and the counter moved past it.
NewEvent(t, r, type, ledger) ==
    [thread |-> t, seq |-> counter[t], turn |-> r, type |-> type, ledger |-> ledger]
InsertEventUnowned(t, r, type, ledger) ==
    /\ Exists(t)
    /\ Cardinality(log) < MaxEvents
    /\ log' = log \cup {NewEvent(t, r, type, ledger)}
    /\ counter' = [counter EXCEPT ![t] = @ + 1]
InsertEvent(t, r, type, ledger) ==
    /\ Exists(t)
    /\ Cardinality(log) < MaxEvents
    /\ r # NoTurn => owner[r] = t
    /\ log' = log \cup {NewEvent(t, r, type, ledger)}
    /\ counter' = [counter EXCEPT ![t] = @ + 1]

-----------------------------------------------------------------------------
Init ==
    /\ threadStatus = [t \in Threads |-> "none"]
    /\ counter = [t \in Threads |-> 0]
    /\ status = [r \in Turns |-> "none"]
    /\ owner = [r \in Turns |-> NoThread]
    /\ bootOf = [r \in Turns |-> ImportedBoot]
    /\ items = {}
    /\ log = {}
    /\ boot = 1
    /\ phase = "booting"

\* create_thread and upsert_thread: a counter that exists is kept.
UpsertThread(t, s) ==
    /\ Up
    /\ threadStatus' = [threadStatus EXCEPT ![t] = s]
    /\ counter' = [counter EXCEPT ![t] = SeedCounter(@)]
    /\ UNCHANGED <<turnVars, items, log, boot, phase>>

\* delete_thread: the foreign keys cascade to counter, turns, items and events.
DeleteThread(t) ==
    /\ Up
    /\ Exists(t)
    /\ threadStatus' = [threadStatus EXCEPT ![t] = "none"]
    /\ counter' = [counter EXCEPT ![t] = 0]
    /\ status' = [r \in Turns |-> IF owner[r] = t THEN "none" ELSE status[r]]
    /\ owner' = [r \in Turns |-> IF owner[r] = t THEN NoThread ELSE owner[r]]
    /\ bootOf' = [r \in Turns |-> IF owner[r] = t THEN ImportedBoot ELSE bootOf[r]]
    /\ items' = {i \in items : owner[i.turn] # t}
    /\ log' = log \ EventsOf(t)
    /\ UNCHANGED <<boot, phase>>

\* create_turn.  start_turn creates running turns of this boot; the import of
\* old sessions creates terminal ones that carry no boot id.
CreateTurn(r, t, s) ==
    /\ Up
    /\ Exists(t)
    /\ status[r] = "none"
    /\ status' = [status EXCEPT ![r] = s]
    /\ owner' = [owner EXCEPT ![r] = t]
    /\ bootOf' = [bootOf EXCEPT ![r] = IF s = "running" THEN boot ELSE ImportedBoot]
    /\ UNCHANGED <<threadStatus, counter, items, log, boot, phase>>

\* _validate_transition: staying is allowed, moving follows the table.
MayMove(r, s) == s = status[r] \/ s \in Successors[status[r]]

\* _validate_tool_result, and the primary key and the unique index on results.
MayInsertAny(r, kind, key) == ~Has(r, kind, key)
MayInsert(r, kind, key) ==
    /\ ~Has(r, kind, key)
    /\ kind = "tool_result" => Has(r, "tool_call", key)

\* record_item_and_event, with the optional change of status in s.
RecordItem(r, kind, key, s) ==
    /\ Up
    /\ Open(r)
    /\ MayMove(r, s)
    /\ MayInsert(r, kind, key)
    /\ items' = items \cup {[turn |-> r, kind |-> kind, key |-> key]}
    /\ s \in Terminal => Unmatched(r)' = {}
    /\ status' = [status EXCEPT ![r] = s]
    /\ InsertEvent(owner[r], r, "item", NoKey)
    /\ UNCHANGED <<threadStatus, owner, bootOf, boot, phase>>

\* append_event, which a terminal turn does not refuse.
AppendEvent(t, r) ==
    /\ Up
    /\ InsertEvent(t, r, "note", NoKey)
    /\ UNCHANGED <<threadStatus, turnVars, items, boot, phase>>

\* append_auxiliary_usage, idempotent in the ledger's sequence number.
BilledNever(t, l) == FALSE
Billed(t, l) == \E e \in EventsOf(t) : e.type = "auxiliary_usage" /\ e.ledger = l
AppendAuxiliaryUsage(t, l) ==
    /\ Up
    /\ ~Billed(t, l)
    /\ InsertEvent(t, NoTurn, "auxiliary_usage", l)
    /\ UNCHANGED <<threadStatus, turnVars, items, boot, phase>>

\* transition_turn_and_event
TransitionTurn(r, s) ==
    /\ Up
    /\ Open(r)
    /\ MayMove(r, s)
    /\ s \in Terminal => Unmatched(r) = {}
    /\ status' = [status EXCEPT ![r] = s]
    /\ InsertEvent(owner[r], r, StatusEvent[s], NoKey)
    /\ UNCHANGED <<threadStatus, owner, bootOf, items, boot, phase>>

\* update_usage_and_event
UpdateUsage(r) ==
    /\ Up
    /\ status[r] # "none"
    /\ InsertEvent(owner[r], r, "usage", NoKey)
    /\ UNCHANGED <<threadStatus, turnVars, items, boot, phase>>

-----------------------------------------------------------------------------
(* Boot recovery: recover_stale_turns and _repair_recovery_counter.        *)

StaleRunning == {r \in Turns : status[r] = "running" /\ bootOf[r] # boot}
Stale == {r \in Turns : status[r] \in Active /\ bootOf[r] # boot}
StaleOf(t) == {r \in Stale : owner[r] = t}
LastSeq(t) ==
    IF SeqsOf(t) = {} THEN 0
    ELSE CHOOSE n \in SeqsOf(t) : \A m \in SeqsOf(t) : m <= n
Contiguous(t) == Cardinality(EventsOf(t)) = LastSeq(t)
RecoverySeqsOverlap(t) == LastSeq(t) .. LastSeq(t) + Cardinality(StaleOf(t)) - 1
RecoverySeqs(t) == LastSeq(t) + 1 .. LastSeq(t) + Cardinality(StaleOf(t))

\* The seqs the stale turns' events receive, one after the other per thread.
RecoveryOrders ==
    {f \in [Stale -> UNION {RecoverySeqs(t) : t \in Threads}] :
        /\ \A t \in Threads : {f[r] : r \in StaleOf(t)} = RecoverySeqs(t)
        /\ \A r, q \in Stale : owner[r] = owner[q] /\ f[r] = f[q] => r = q}

RecoveredItems ==
    {[turn |-> r, kind |-> "tool_result", key |-> k] : r \in Stale, k \in Keys}

RecoverStaleTurns ==
    /\ phase = "booting"
    /\ \A t \in Threads : StaleOf(t) # {} => Contiguous(t)
    /\ items' = items \cup {i \in RecoveredItems : i.key \in Unmatched(i.turn)}
    /\ status' = [r \in Turns |-> IF r \in Stale THEN "interrupted" ELSE status[r]]
    /\ threadStatus' = [t \in Threads |->
                          IF StaleOf(t) # {} THEN "interrupted" ELSE threadStatus[t]]
    /\ \E f \in RecoveryOrders :
         log' = log \cup {[thread |-> owner[r], seq |-> f[r], turn |-> r,
                           type |-> StatusEvent["interrupted"], ledger |-> NoKey]
                          : r \in Stale}
    /\ counter' = [t \in Threads |->
                     IF StaleOf(t) # {} THEN LastSeq(t) + Cardinality(StaleOf(t)) + 1
                     ELSE counter[t]]
    /\ phase' = "serving"
    /\ UNCHANGED <<owner, bootOf, boot>>

\* A storage error in recovery rolls back and the daemon goes on, audit degraded.
RecoveryFails ==
    /\ phase = "booting"
    /\ phase' = "degraded"
    /\ UNCHANGED <<threadStatus, counter, turnVars, items, log, boot>>

\* The daemon stops, at any point between two transactions, and starts again.
Crash ==
    /\ Up
    /\ boot < MaxBoot
    /\ boot' = boot + 1
    /\ phase' = "booting"
    /\ UNCHANGED <<threadStatus, counter, turnVars, items, log>>

Next ==
    \/ \E t \in Threads :
         \/ \E s \in ThreadStatus : UpsertThread(t, s)
         \/ DeleteThread(t)
         \/ \E r \in Turns, s \in {"running", "completed", "interrupted"} : CreateTurn(r, t, s)
         \/ \E r \in Turns \cup {NoTurn} : AppendEvent(t, r)
         \/ \E l \in LedgerSeqs : AppendAuxiliaryUsage(t, l)
    \/ \E r \in Turns :
         \/ \E kind \in Kinds, key \in Keys, s \in TurnStatus : RecordItem(r, kind, key, s)
         \/ \E s \in TurnStatus : TransitionTurn(r, s)
         \/ UpdateUsage(r)
    \/ RecoverStaleTurns
    \/ RecoveryFails
    \/ Crash

Spec == Init /\ [][Next]_vars

-----------------------------------------------------------------------------
(* Properties *)

\* The types of the state, with the rows that exist exactly together: a thread
\* with its counter, and a turn with an owner.
TypeOK ==
    /\ threadStatus \in [Threads -> ThreadStatus \cup {"none"}]
    /\ counter \in [Threads -> Nat]
    /\ status \in [Turns -> TurnStatus \cup {"none"}]
    /\ owner \in [Turns -> Threads \cup {NoThread}]
    /\ bootOf \in [Turns -> Nat]
    /\ items \subseteq Item
    /\ log \subseteq Event
    /\ boot \in Nat \ {0}
    /\ phase \in Phases
    /\ \A t \in Threads : Exists(t) <=> counter[t] > 0
    /\ \A r \in Turns : status[r] # "none" <=> owner[r] # NoThread

\* No orphan rows: a turn's thread exists, an item's turn exists and an event
\* names a turn of its own thread, whatever was deleted (the cascades, and the
\* ownership check of _insert_event).
RowsLinked ==
    /\ \A r \in Turns : owner[r] \in Threads => Exists(owner[r])
    /\ \A i \in items : status[i.turn] # "none"
    /\ \A e \in log : /\ Exists(e.thread)
                      /\ e.turn # NoTurn => owner[e.turn] = e.thread

\* The events of a thread carry the seqs 1 .. next_seq - 1, each one once, across
\* every kind of write, boot recovery and deletion: a reader that resumes after
\* seq n neither skips nor repeats (_insert_event, _repair_recovery_counter).
DenseLog ==
    /\ \A t \in Threads : SeqsOf(t) = 1 .. (counter[t] - 1)
    /\ \A e, f \in log : e.thread = f.thread /\ e.seq = f.seq => e = f

\* Every tool result answers a recorded call, and a turn that ended left no call
\* without a result, also when recovery had to end it (_validate_tool_result,
\* _validate_terminal_tool_pairs, the synthetic results of recover_stale_turns).
ToolCallsPaired ==
    /\ \A i \in items : i.kind = "tool_result" => Has(i.turn, "tool_call", i.key)
    /\ \A r \in Turns : status[r] \in Terminal => Unmatched(r) = {}

\* Once recovery is done, no turn that a former daemon started is still running
\* or waiting (recover_stale_turns).
NoStaleActive ==
    phase = "serving" => \A r \in Turns : status[r] \in Active => bootOf[r] = boot

\* A terminal event in the log tells the turn's status, and a turn has at most
\* one: transitions, recovery and item writes agree on when a turn is over.
TerminalEventsAgree ==
    /\ \A e \in log : \A s \in Terminal :
          e.turn # NoTurn /\ e.type = StatusEvent[s] => status[e.turn] = s
    /\ \A e, f \in log : \A s \in Terminal :
          /\ e.turn # NoTurn /\ e.turn = f.turn
          /\ e.type = StatusEvent[s] /\ f.type = StatusEvent[s]
          => e = f

\* One usage event per ledger record, however often a recovery replays the
\* ledger into append_auxiliary_usage: nothing is billed twice.
UsageBilledOnce ==
    \A e, f \in log :
        /\ e.thread = f.thread /\ e.ledger = f.ledger
        /\ e.type = "auxiliary_usage" /\ f.type = "auxiliary_usage"
        => e = f

KeepsEndedTurns ==
    \A r \in Turns :
        status[r] \in Terminal /\ owner'[r] = owner[r]
        => status'[r] = status[r] /\ ItemsOf(r)' = ItemsOf(r)

AppendsOnly ==
    \A t \in Threads : Exists(t) /\ Exists(t)'
        => /\ EventsOf(t) \subseteq EventsOf(t)'
           /\ \A e \in EventsOf(t)' \ EventsOf(t) : e.seq >= counter[t]

\* A turn that ended keeps its status and its items until its thread is deleted.
EndedTurnsAreFinal == [][KeepsEndedTurns]_vars

\* While a thread lives its log only grows, at seqs that no reader has passed.
LogOnlyGrows == [][AppendsOnly]_vars
=============================================================================
