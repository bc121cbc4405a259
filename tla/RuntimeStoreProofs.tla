------------------------- MODULE RuntimeStoreProofs -------------------------
(***************************************************************************)
(* Proofs about RuntimeStore, for any sets of threads, turns and keys and   *)
(* any bounds.  The invariants of the module are proved together: density  *)
(* of the log is what makes boot recovery's numbering right, and the links *)
(* between rows are what makes deletion leave nothing behind.              *)
(***************************************************************************)
EXTENDS RuntimeStore, FiniteSetTheorems, TLAPS

\* No caller creates a queued turn, and no transition enters that status.
NeverQueued == \A r \in Turns : status[r] # "queued"

\* TypeOK, in the parts that the proof of type correctness treats apart.
RowTypes ==
    /\ threadStatus \in [Threads -> ThreadStatus \cup {"none"}]
    /\ status \in [Turns -> TurnStatus \cup {"none"}]
    /\ owner \in [Turns -> Threads \cup {NoThread}]
    /\ bootOf \in [Turns -> Nat]
    /\ items \subseteq Item
    /\ boot \in Nat \ {0}
    /\ phase \in Phases
ThreadRows == \A t \in Threads : Exists(t) <=> counter[t] > 0
TurnRows == \A r \in Turns : status[r] # "none" <=> owner[r] # NoThread

IInv ==
    /\ TypeOK
    /\ RowsLinked
    /\ DenseLog
    /\ ToolCallsPaired
    /\ NoStaleActive
    /\ TerminalEventsAgree
    /\ UsageBilledOnce
    /\ NeverQueued

-----------------------------------------------------------------------------
(* Lemmas about the operators *)

\* The stale turns of a thread are finitely many.
LEMMA StaleCount ==
    ASSUME NEW t \in Threads
    PROVE  /\ Cardinality(StaleOf(t)) \in Nat
           /\ StaleOf(t) # {} => Cardinality(StaleOf(t)) > 0
<1>1. IsFiniteSet(StaleOf(t))
  BY StoreAssumption, FS_Subset DEF StaleOf, Stale
<1>2. Cardinality(StaleOf(t)) \in Nat
  BY <1>1, FS_CardinalityType
<1>3. StaleOf(t) # {} => Cardinality(StaleOf(t)) # 0
  BY <1>1, FS_EmptySet
<1>. QED  BY <1>2, <1>3

\* In a dense log the last seq is the one before next_seq.
LEMMA DenseLastSeq ==
    ASSUME TypeOK, DenseLog, NEW t \in Threads, Exists(t)
    PROVE  LastSeq(t) = counter[t] - 1
<1>1. counter[t] \in Nat \ {0}
  BY DEF TypeOK
<1>2. SeqsOf(t) = 1 .. (counter[t] - 1)
  BY DEF DenseLog
<1>3. CASE counter[t] = 1
  <2>1. SeqsOf(t) = {}
    BY <1>2, <1>3
  <2>. QED  BY <2>1, <1>3 DEF LastSeq
<1>4. CASE counter[t] > 1
  <2>1. /\ counter[t] - 1 \in SeqsOf(t)
        /\ \A m \in SeqsOf(t) : m \in Int /\ m <= counter[t] - 1
    BY <1>1, <1>2, <1>4
  <2>2. LastSeq(t) = CHOOSE n \in SeqsOf(t) : \A m \in SeqsOf(t) : m <= n
    BY <2>1 DEF LastSeq
  <2>3. LastSeq(t) \in SeqsOf(t) /\ \A m \in SeqsOf(t) : m <= LastSeq(t)
    BY <2>1, <2>2
  <2>4. LastSeq(t) <= counter[t] - 1 /\ counter[t] - 1 <= LastSeq(t) /\ LastSeq(t) \in Int
    BY <2>1, <2>3
  <2>. QED  BY <1>1, <2>4
<1>. QED  BY <1>1, <1>3, <1>4

\* Every stale turn belongs to a thread that exists.
LEMMA StaleOwner ==
    ASSUME TypeOK, RowsLinked, NEW r \in Stale
    PROVE  /\ r \in Turns
           /\ owner[r] \in Threads
           /\ r \in StaleOf(owner[r])
           /\ Exists(owner[r])
<1>1. r \in Turns /\ status[r] \in Active
  BY DEF Stale
<1>2. owner[r] \in Threads
  BY <1>1 DEF TypeOK, Active
<1>. QED  BY <1>1, <1>2 DEF StaleOf, RowsLinked

\* Inserting an event keeps the log dense and well typed.
LEMMA InsertEventDense ==
    ASSUME TypeOK, DenseLog,
           NEW t \in Threads, NEW r \in Turns \cup {NoTurn},
           NEW type \in EventTypes, NEW l \in LedgerSeqs \cup {NoKey},
           InsertEvent(t, r, type, l)
    PROVE  /\ counter' \in [Threads -> Nat]
           /\ \A u \in Threads : counter'[u] > 0 <=> counter[u] > 0
           /\ log' \subseteq Event
           /\ DenseLog'
<1> DEFINE e == NewEvent(t, r, type, l)
<1>1. counter[t] \in Nat \ {0}
  BY DEF InsertEvent, TypeOK
<1>2. e \in Event /\ e.thread = t /\ e.seq = counter[t]
  BY <1>1 DEF NewEvent, Event
<1>3. log' = log \cup {e} /\ counter' = [counter EXCEPT ![t] = @ + 1]
  BY DEF InsertEvent
<1>4. counter' \in [Threads -> Nat]
  BY <1>1, <1>3 DEF TypeOK
<1>5. \A u \in Threads : counter'[u] > 0 <=> counter[u] > 0
  BY <1>1, <1>3 DEF TypeOK
<1>6. log' \subseteq Event
  BY <1>2, <1>3 DEF TypeOK
<1>7. ASSUME NEW u \in Threads PROVE SeqsOf(u)' = 1 .. (counter'[u] - 1)
  <2>1. SeqsOf(u) = 1 .. (counter[u] - 1)
    BY DEF DenseLog
  <2>2. CASE u = t
    <3>1. SeqsOf(u)' = SeqsOf(u) \cup {counter[t]}
      BY <1>2, <1>3, <2>2 DEF SeqsOf, EventsOf
    <3>2. counter'[u] = counter[t] + 1
      BY <1>1, <1>3, <2>2 DEF TypeOK
    <3>. QED  BY <1>1, <2>1, <2>2, <3>1, <3>2
  <2>3. CASE u # t
    <3>1. SeqsOf(u)' = SeqsOf(u)
      BY <1>2, <1>3, <2>3 DEF SeqsOf, EventsOf
    <3>2. counter'[u] = counter[u]
      BY <1>3, <2>3 DEF TypeOK
    <3>. QED  BY <2>1, <3>1, <3>2
  <2>. QED  BY <2>2, <2>3
<1>8. \A f \in log : f.thread = t => f.seq < counter[t]
  <2>1. SeqsOf(t) = 1 .. (counter[t] - 1)
    BY DEF DenseLog
  <2>. QED  BY <1>1, <2>1 DEF SeqsOf, EventsOf
<1>9. \A f, g \in log' : f.thread = g.thread /\ f.seq = g.seq => f = g
  <2>1. \A f, g \in log : f.thread = g.thread /\ f.seq = g.seq => f = g
    BY DEF DenseLog
  <2>2. \A f \in log : f.thread = e.thread => f.seq # e.seq
    <3>1. \A f \in log : f.seq \in Nat
      BY DEF TypeOK, Event
    <3>. QED  BY <1>1, <1>2, <1>8, <3>1
  <2>. HIDE DEF e
  <2>. QED  BY <1>3, <2>1, <2>2
<1>. QED  BY <1>4, <1>5, <1>6, <1>7, <1>9 DEF DenseLog

\* The fields of rows in the sets that the schema gives them.
LEMMA RowFields ==
    ASSUME TypeOK
    PROVE  /\ \A e \in log : e.thread \in Threads /\ e.turn \in Turns \cup {NoTurn}
           /\ \A i \in items : i.turn \in Turns /\ i.kind \in Kinds /\ i.key \in Keys
BY DEF TypeOK, Event, Item

\* Each write that appends an event does so with InsertEvent, for an owning thread.
LEMMA TurnInserts ==
    ASSUME TypeOK, NEW r \in Turns, status[r] # "none"
    PROVE  owner[r] \in Threads
BY DEF TypeOK

\* The events boot recovery writes: one per stale turn, numbered on from next_seq.
LEMMA RecoveryEvents ==
    ASSUME TypeOK, RowsLinked, DenseLog, RecoverStaleTurns
    PROVE  \E f \in [Stale -> Nat \ {0}] :
             /\ log' = log \cup {[thread |-> owner[r], seq |-> f[r], turn |-> r,
                                 type |-> "turn.interrupted", ledger |-> NoKey]
                                : r \in Stale}
             /\ \A r \in Stale : f[r] >= counter[owner[r]]
             /\ \A t \in Threads : StaleOf(t) # {} =>
                   {f[r] : r \in StaleOf(t)} = counter[t] .. (counter'[t] - 1)
             /\ \A r, q \in Stale : owner[r] = owner[q] /\ f[r] = f[q] => r = q
<1>1. PICK f \in RecoveryOrders :
         log' = log \cup {[thread |-> owner[r], seq |-> f[r], turn |-> r,
                          type |-> StatusEvent["interrupted"], ledger |-> NoKey]
                         : r \in Stale}
  BY DEF RecoverStaleTurns
<1>2. /\ DOMAIN f = Stale /\ f = [r \in Stale |-> f[r]]
      /\ \A t \in Threads : {f[r] : r \in StaleOf(t)} = RecoverySeqs(t)
      /\ \A r, q \in Stale : owner[r] = owner[q] /\ f[r] = f[q] => r = q
  BY DEF RecoveryOrders
<1>3. ASSUME NEW t \in Threads, StaleOf(t) # {}
      PROVE  /\ RecoverySeqs(t) = counter[t] .. (counter'[t] - 1)
             /\ counter[t] \in Nat \ {0}
  <2>1. PICK r \in StaleOf(t) : TRUE
    BY <1>3
  <2>2. Exists(t)
    BY <2>1, StaleOwner DEF StaleOf
  <2>3. LastSeq(t) = counter[t] - 1 /\ counter[t] \in Nat \ {0}
    BY <2>2, DenseLastSeq DEF TypeOK
  <2>4. counter'[t] = LastSeq(t) + Cardinality(StaleOf(t)) + 1
    BY <1>3 DEF RecoverStaleTurns
  <2>5. Cardinality(StaleOf(t)) \in Nat
    BY StaleCount
  <2>. QED  BY <2>3, <2>4, <2>5 DEF RecoverySeqs
<1>4. ASSUME NEW r \in Stale
      PROVE  f[r] \in Nat \ {0} /\ f[r] >= counter[owner[r]]
  <2>1. owner[r] \in Threads /\ r \in StaleOf(owner[r])
    BY StaleOwner
  <2>2. f[r] \in RecoverySeqs(owner[r])
    BY <1>2, <2>1
  <2>3. /\ RecoverySeqs(owner[r]) = counter[owner[r]] .. (counter'[owner[r]] - 1)
        /\ counter[owner[r]] \in Nat \ {0}
    BY <1>3, <2>1
  <2>. HIDE DEF RecoverySeqs
  <2>. QED  BY <2>2, <2>3
<1>5. f \in [Stale -> Nat \ {0}]
  BY <1>2, <1>4
<1>6. StatusEvent["interrupted"] = "turn.interrupted"
  BY DEF StatusEvent
<1>7. log' = log \cup {[thread |-> owner[r], seq |-> f[r], turn |-> r,
                       type |-> "turn.interrupted", ledger |-> NoKey] : r \in Stale}
  BY <1>1, <1>6
<1>8. \A t \in Threads : StaleOf(t) # {} =>
        {f[r] : r \in StaleOf(t)} = counter[t] .. (counter'[t] - 1)
  BY <1>2, <1>3
<1>. QED  BY <1>2, <1>4, <1>5, <1>7, <1>8

\* Boot recovery keeps the log dense and well typed.
LEMMA RecoveryDense ==
    ASSUME TypeOK, RowsLinked, DenseLog, RecoverStaleTurns
    PROVE  /\ counter' \in [Threads -> Nat]
           /\ \A u \in Threads : counter'[u] > 0 <=> counter[u] > 0
           /\ log' \subseteq Event
           /\ DenseLog'
<1>1. PICK f \in [Stale -> Nat \ {0}] :
        /\ log' = log \cup {[thread |-> owner[r], seq |-> f[r], turn |-> r,
                            type |-> "turn.interrupted", ledger |-> NoKey] : r \in Stale}
        /\ \A r \in Stale : f[r] >= counter[owner[r]]
        /\ \A t \in Threads : StaleOf(t) # {} =>
              {f[r] : r \in StaleOf(t)} = counter[t] .. (counter'[t] - 1)
        /\ \A r, q \in Stale : owner[r] = owner[q] /\ f[r] = f[q] => r = q
  BY RecoveryEvents
<1> DEFINE new(r) == [thread |-> owner[r], seq |-> f[r], turn |-> r,
                      type |-> "turn.interrupted", ledger |-> NoKey]
<1>2. \A r \in Stale : new(r) \in Event
  BY StaleOwner DEF Event, EventTypes
<1>3. ASSUME NEW t \in Threads, StaleOf(t) # {}
      PROVE  /\ counter'[t] \in Nat /\ counter'[t] > counter[t]
             /\ counter[t] \in Nat \ {0}
  <2>1. PICK r \in StaleOf(t) : TRUE
    BY <1>3
  <2>2. Exists(t)
    BY <2>1, StaleOwner DEF StaleOf
  <2>3. LastSeq(t) = counter[t] - 1 /\ counter[t] \in Nat \ {0}
    BY <2>2, DenseLastSeq DEF TypeOK
  <2>4. counter'[t] = LastSeq(t) + Cardinality(StaleOf(t)) + 1
    BY <1>3 DEF RecoverStaleTurns
  <2>5. Cardinality(StaleOf(t)) \in Nat /\ Cardinality(StaleOf(t)) > 0
    BY <1>3, StaleCount
  <2>. QED  BY <2>3, <2>4, <2>5
<1>4. \A t \in Threads : StaleOf(t) = {} => counter'[t] = counter[t]
  BY DEF RecoverStaleTurns
<1>5. counter' \in [Threads -> Nat]
  <2>1. \A t \in Threads : counter'[t] \in Nat
    BY <1>3, <1>4 DEF TypeOK
  <2>2. counter' = [t \in Threads |-> counter'[t]]
    BY DEF RecoverStaleTurns
  <2>. QED  BY <2>1, <2>2
<1>6. \A u \in Threads : counter'[u] > 0 <=> counter[u] > 0
  BY <1>3, <1>4
<1>7. log' \subseteq Event
  BY <1>1, <1>2 DEF TypeOK
<1>8. ASSUME NEW t \in Threads PROVE SeqsOf(t)' = 1 .. (counter'[t] - 1)
  <2>1. SeqsOf(t)' = SeqsOf(t) \cup {f[r] : r \in StaleOf(t)}
    <3>1. EventsOf(t)' = EventsOf(t) \cup {new(r) : r \in StaleOf(t)}
      BY <1>1 DEF EventsOf, StaleOf
    <3>2. \A r : new(r).seq = f[r]
      OBVIOUS
    <3>. HIDE DEF new
    <3>. QED  BY <3>1, <3>2 DEF SeqsOf
  <2>2. SeqsOf(t) = 1 .. (counter[t] - 1)
    BY DEF DenseLog
  <2>3. CASE StaleOf(t) = {}
    BY <1>4, <2>1, <2>2, <2>3
  <2>4. CASE StaleOf(t) # {}
    <3>1. SeqsOf(t)' = (1 .. (counter[t] - 1)) \cup (counter[t] .. (counter'[t] - 1))
      BY <1>1, <2>1, <2>2, <2>4
    <3>. QED  BY <1>3, <2>4, <3>1
  <2>. QED  BY <2>3, <2>4
<1>9. \A d, e \in log' : d.thread = e.thread /\ d.seq = e.seq => d = e
  <2>1. \A d, e \in log : d.thread = e.thread /\ d.seq = e.seq => d = e
    BY DEF DenseLog
  <2>2. \A r, q \in Stale : new(r).thread = new(q).thread /\ new(r).seq = new(q).seq
                           => new(r) = new(q)
    BY <1>1
  <2>3. ASSUME NEW d \in log, NEW r \in Stale, d.thread = owner[r]
        PROVE  d.seq # f[r]
    <3>1. owner[r] \in Threads /\ Exists(owner[r])
      BY StaleOwner
    <3>2. SeqsOf(owner[r]) = 1 .. (counter[owner[r]] - 1)
      BY <3>1 DEF DenseLog
    <3>3. d.seq \in SeqsOf(owner[r])
      BY <2>3 DEF SeqsOf, EventsOf
    <3>4. counter[owner[r]] \in Nat
      BY <3>1 DEF TypeOK
    <3>. QED  BY <1>1, <3>2, <3>3, <3>4
  <2>. QED  BY <1>1, <2>1, <2>2, <2>3
<1>. QED  BY <1>5, <1>6, <1>7, <1>8, <1>9 DEF DenseLog

-----------------------------------------------------------------------------
(* One lemma per part of the invariant: every step keeps it. *)

\* The event log stays dense whatever step is taken.
LEMMA LogStep ==
    ASSUME IInv, [Next]_vars
    PROVE  /\ counter' \in [Threads -> Nat]
           /\ log' \subseteq Event
           /\ DenseLog'
<1>. USE DEF IInv
<1>1. ASSUME NEW t \in Threads, NEW s \in ThreadStatus, UpsertThread(t, s)
      PROVE  /\ counter' \in [Threads -> Nat] /\ log' = log
             /\ \A u \in Threads : SeqsOf(u)' = 1 .. (counter'[u] - 1)
  <2>1. counter' \in [Threads -> Nat] /\ log' = log
    BY <1>1 DEF UpsertThread, SeedCounter, TypeOK
  <2>2. ASSUME NEW u \in Threads PROVE 1 .. (counter'[u] - 1) = 1 .. (counter[u] - 1)
    BY <1>1 DEF UpsertThread, SeedCounter, TypeOK
  <2>3. ASSUME NEW u \in Threads PROVE SeqsOf(u)' = SeqsOf(u)
    BY <2>1 DEF SeqsOf, EventsOf
  <2>. QED  BY <2>1, <2>2, <2>3 DEF DenseLog
<1>2. ASSUME NEW t \in Threads, DeleteThread(t)
      PROVE  /\ counter' \in [Threads -> Nat] /\ log' \subseteq log
             /\ \A u \in Threads : SeqsOf(u)' = 1 .. (counter'[u] - 1)
  <2>1. counter' \in [Threads -> Nat] /\ log' = log \ EventsOf(t)
    BY <1>2 DEF DeleteThread, TypeOK
  <2>2. SeqsOf(t)' = {} /\ counter'[t] = 0
    BY <1>2, <2>1 DEF DeleteThread, SeqsOf, EventsOf, TypeOK
  <2>3. ASSUME NEW u \in Threads, u # t
        PROVE  SeqsOf(u)' = SeqsOf(u) /\ counter'[u] = counter[u]
    <3>1. EventsOf(u)' = EventsOf(u)
      BY <2>1, <2>3 DEF EventsOf
    <3>. QED  BY <1>2, <2>3, <3>1 DEF DeleteThread, SeqsOf, TypeOK
  <2>4. SeqsOf(t)' = 1 .. (counter'[t] - 1)
    BY <2>2
  <2>5. ASSUME NEW u \in Threads, u # t PROVE SeqsOf(u)' = 1 .. (counter'[u] - 1)
    BY <2>3, <2>5 DEF DenseLog
  <2>. QED  BY <2>1, <2>4, <2>5
<1>3. ASSUME NEW t \in Threads, NEW r \in Turns \cup {NoTurn}, NEW type \in EventTypes,
             NEW l \in LedgerSeqs \cup {NoKey}, InsertEvent(t, r, type, l)
      PROVE  counter' \in [Threads -> Nat] /\ log' \subseteq Event /\ DenseLog'
  BY <1>3, InsertEventDense
<1>4. ASSUME NEW t \in Threads, NEW r \in Turns \cup {NoTurn}, AppendEvent(t, r)
      PROVE  InsertEvent(t, r, "note", NoKey)
  BY <1>4 DEF AppendEvent
<1>5. ASSUME NEW t \in Threads, NEW l \in LedgerSeqs, AppendAuxiliaryUsage(t, l)
      PROVE  InsertEvent(t, NoTurn, "auxiliary_usage", l)
  BY <1>5 DEF AppendAuxiliaryUsage, Billed
<1>6. ASSUME NEW r \in Turns, NEW kind \in Kinds, NEW key \in Keys, NEW s \in TurnStatus,
             RecordItem(r, kind, key, s)
      PROVE  owner[r] \in Threads /\ InsertEvent(owner[r], r, "item", NoKey)
  BY <1>6, TurnInserts DEF RecordItem, Open, TurnStatus
<1>7. ASSUME NEW r \in Turns, NEW s \in TurnStatus, TransitionTurn(r, s)
      PROVE  /\ owner[r] \in Threads /\ StatusEvent[s] \in EventTypes
             /\ InsertEvent(owner[r], r, StatusEvent[s], NoKey)
  BY <1>7, TurnInserts DEF TransitionTurn, Open, TurnStatus, StatusEvent, EventTypes
<1>8. ASSUME NEW r \in Turns, UpdateUsage(r)
      PROVE  owner[r] \in Threads /\ InsertEvent(owner[r], r, "usage", NoKey)
  BY <1>8, TurnInserts DEF UpdateUsage
<1>9. {"item", "note", "usage", "auxiliary_usage"} \subseteq EventTypes
  BY DEF EventTypes
<1>10. ASSUME \/ \E t \in Threads, r \in Turns, s \in TurnStatus : CreateTurn(r, t, s)
              \/ RecoveryFails \/ Crash \/ UNCHANGED vars
       PROVE  counter' = counter /\ log' = log
  BY <1>10 DEF CreateTurn, RecoveryFails, Crash, vars
<1>11. ASSUME counter' = counter, log' = log
       PROVE  counter' \in [Threads -> Nat] /\ log' \subseteq Event /\ DenseLog'
  BY <1>11 DEF TypeOK, DenseLog, SeqsOf, EventsOf
<1>12. ASSUME counter' \in [Threads -> Nat], log' \subseteq log,
              \A u \in Threads : SeqsOf(u)' = 1 .. (counter'[u] - 1)
       PROVE  log' \subseteq Event /\ DenseLog'
  BY <1>12 DEF TypeOK, DenseLog
<1>13. {"running", "completed", "interrupted"} \subseteq TurnStatus
  BY DEF TurnStatus
<1>14. CASE RecoverStaleTurns
  BY <1>14, RecoveryDense
<1>15. CASE \E t \in Threads :
              \/ \E s \in ThreadStatus : UpsertThread(t, s)
              \/ DeleteThread(t)
              \/ \E r \in Turns, s \in {"running", "completed", "interrupted"} : CreateTurn(r, t, s)
              \/ \E r \in Turns \cup {NoTurn} : AppendEvent(t, r)
              \/ \E l \in LedgerSeqs : AppendAuxiliaryUsage(t, l)
  BY <1>1, <1>2, <1>3, <1>4, <1>5, <1>9, <1>10, <1>11, <1>12, <1>13, <1>15
<1>16. CASE \E r \in Turns :
              \/ \E kind \in Kinds, key \in Keys, s \in TurnStatus : RecordItem(r, kind, key, s)
              \/ \E s \in TurnStatus : TransitionTurn(r, s)
              \/ UpdateUsage(r)
  BY <1>3, <1>6, <1>7, <1>8, <1>9, <1>16
<1>. QED  BY <1>10, <1>11, <1>14, <1>15, <1>16 DEF Next
\* Every step keeps the types of the rows.
LEMMA RowTypesStep ==
    ASSUME IInv, [Next]_vars
    PROVE  RowTypes'
<1>. USE DEF IInv
<1>1. ASSUME NEW t \in Threads, NEW s \in ThreadStatus, UpsertThread(t, s)
      PROVE  RowTypes'
  BY <1>1 DEF UpsertThread, SeedCounter, RowTypes, TypeOK, turnVars
<1>2. ASSUME NEW t \in Threads, DeleteThread(t)
      PROVE  RowTypes'
  <2>1. items' \subseteq items
    BY <1>2 DEF DeleteThread
  <2>2. /\ status' \in [Turns -> TurnStatus \cup {"none"}]
        /\ owner' \in [Turns -> Threads \cup {NoThread}]
        /\ bootOf' \in [Turns -> Nat]
    BY <1>2 DEF DeleteThread, TypeOK, ImportedBoot
  <2>. QED  BY <1>2, <2>1, <2>2 DEF DeleteThread, RowTypes, TypeOK
<1>3. ASSUME NEW t \in Threads, NEW r \in Turns, NEW s \in {"running", "completed", "interrupted"},
             CreateTurn(r, t, s)
      PROVE  RowTypes'
  BY <1>3 DEF CreateTurn, RowTypes, TypeOK, TurnStatus, ImportedBoot
<1>4. ASSUME NEW t \in Threads, NEW r \in Turns \cup {NoTurn}, AppendEvent(t, r)
      PROVE  RowTypes'
  BY <1>4 DEF AppendEvent, RowTypes, TypeOK, turnVars
<1>5. ASSUME NEW t \in Threads, NEW l \in LedgerSeqs, AppendAuxiliaryUsage(t, l)
      PROVE  RowTypes'
  BY <1>5 DEF AppendAuxiliaryUsage, Billed, RowTypes, TypeOK, turnVars, Phases
<1>6. ASSUME NEW r \in Turns, NEW kind \in Kinds, NEW key \in Keys, NEW s \in TurnStatus,
             RecordItem(r, kind, key, s)
      PROVE  RowTypes'
  <2>1. [turn |-> r, kind |-> kind, key |-> key] \in Item
    BY <1>6 DEF Item
  <2>. QED  BY <1>6, <2>1 DEF RecordItem, Open, RowTypes, TypeOK
<1>7. ASSUME NEW r \in Turns, NEW s \in TurnStatus, TransitionTurn(r, s)
      PROVE  RowTypes'
  BY <1>7 DEF TransitionTurn, Open, RowTypes, TypeOK, turnVars, Phases
<1>8. ASSUME NEW r \in Turns, UpdateUsage(r)
      PROVE  RowTypes'
  BY <1>8 DEF UpdateUsage, RowTypes, TypeOK, turnVars, Phases
<1>9. CASE RecoverStaleTurns
  <2>1. RecoveredItems \subseteq Item
    BY DEF RecoveredItems, Item, Kinds, Stale
  <2>2. items' \subseteq Item
    BY <1>9, <2>1 DEF RecoverStaleTurns, TypeOK
  <2>3. /\ threadStatus' \in [Threads -> ThreadStatus \cup {"none"}]
        /\ status' \in [Turns -> TurnStatus \cup {"none"}]
    BY <1>9 DEF RecoverStaleTurns, TypeOK, TurnStatus, ThreadStatus
  <2>. QED  BY <1>9, <2>2, <2>3 DEF RecoverStaleTurns, RowTypes, TypeOK, Phases
<1>10. CASE RecoveryFails
  BY <1>10 DEF RecoveryFails, RowTypes, TypeOK, turnVars, Phases
<1>11. CASE Crash
  BY <1>11 DEF Crash, RowTypes, TypeOK, turnVars, Phases
<1>12. CASE UNCHANGED vars
  BY <1>12 DEF vars, RowTypes, TypeOK, turnVars, Phases
<1>. HIDE DEF IInv
<1>. QED  BY <1>1, <1>2, <1>3, <1>4, <1>5, <1>6, <1>7, <1>8, <1>9, <1>10, <1>11, <1>12
          DEF Next

\* A thread has a counter exactly while it has a row.
LEMMA ThreadRowsStep ==
    ASSUME IInv, [Next]_vars
    PROVE  ThreadRows'
<1>. USE DEF IInv
<1>1. ASSUME NEW t \in Threads, NEW s \in ThreadStatus, UpsertThread(t, s)
      PROVE  ThreadRows'
  BY <1>1 DEF UpsertThread, SeedCounter, ThreadRows, TypeOK, Exists, ThreadStatus
<1>2. ASSUME NEW t \in Threads, DeleteThread(t)
      PROVE  ThreadRows'
  BY <1>2 DEF DeleteThread, ThreadRows, TypeOK, Exists
<1>3. ASSUME NEW t \in Threads, NEW r \in Turns, NEW s \in {"running", "completed", "interrupted"},
             CreateTurn(r, t, s)
      PROVE  ThreadRows'
  BY <1>3 DEF CreateTurn, ThreadRows, TypeOK, Exists
<1>4. ASSUME NEW t \in Threads, NEW r \in Turns \cup {NoTurn}, AppendEvent(t, r)
      PROVE  ThreadRows'
  <2>1. InsertEvent(t, r, "note", NoKey) /\ threadStatus' = threadStatus
    BY <1>4 DEF AppendEvent
  <2>2. "note" \in EventTypes
    BY <1>4 DEF AppendEvent, EventTypes, TurnStatus, StatusEvent
  <2>3. \A u \in Threads : counter'[u] > 0 <=> counter[u] > 0
    BY <2>1, <2>2, InsertEventDense
  <2>. QED  BY <2>1, <2>3 DEF ThreadRows, TypeOK, Exists
<1>5. ASSUME NEW t \in Threads, NEW l \in LedgerSeqs, AppendAuxiliaryUsage(t, l)
      PROVE  ThreadRows'
  <2>1. InsertEvent(t, NoTurn, "auxiliary_usage", l) /\ threadStatus' = threadStatus
    BY <1>5 DEF AppendAuxiliaryUsage, Billed
  <2>2. "auxiliary_usage" \in EventTypes
    BY <1>5 DEF AppendAuxiliaryUsage, Billed, EventTypes, TurnStatus, StatusEvent
  <2>3. \A u \in Threads : counter'[u] > 0 <=> counter[u] > 0
    BY <2>1, <2>2, InsertEventDense
  <2>. QED  BY <2>1, <2>3 DEF ThreadRows, TypeOK, Exists
<1>6. ASSUME NEW r \in Turns, NEW kind \in Kinds, NEW key \in Keys, NEW s \in TurnStatus,
             RecordItem(r, kind, key, s)
      PROVE  ThreadRows'
  <2>1. InsertEvent(owner[r], r, "item", NoKey) /\ threadStatus' = threadStatus
    BY <1>6 DEF RecordItem, Open
  <2>2. "item" \in EventTypes /\ owner[r] \in Threads
    BY <1>6, TurnInserts DEF RecordItem, Open, EventTypes, TurnStatus, StatusEvent
  <2>3. \A u \in Threads : counter'[u] > 0 <=> counter[u] > 0
    BY <2>1, <2>2, InsertEventDense
  <2>. QED  BY <2>1, <2>3 DEF ThreadRows, TypeOK, Exists
<1>7. ASSUME NEW r \in Turns, NEW s \in TurnStatus, TransitionTurn(r, s)
      PROVE  ThreadRows'
  <2>1. InsertEvent(owner[r], r, StatusEvent[s], NoKey) /\ threadStatus' = threadStatus
    BY <1>7 DEF TransitionTurn, Open
  <2>2. StatusEvent[s] \in EventTypes /\ owner[r] \in Threads
    BY <1>7, TurnInserts DEF TransitionTurn, Open, EventTypes, TurnStatus, StatusEvent
  <2>3. \A u \in Threads : counter'[u] > 0 <=> counter[u] > 0
    BY <2>1, <2>2, InsertEventDense
  <2>. QED  BY <2>1, <2>3 DEF ThreadRows, TypeOK, Exists
<1>8. ASSUME NEW r \in Turns, UpdateUsage(r)
      PROVE  ThreadRows'
  <2>1. InsertEvent(owner[r], r, "usage", NoKey) /\ threadStatus' = threadStatus
    BY <1>8 DEF UpdateUsage
  <2>2. "usage" \in EventTypes /\ owner[r] \in Threads
    BY <1>8, TurnInserts DEF UpdateUsage, EventTypes, TurnStatus, StatusEvent
  <2>3. \A u \in Threads : counter'[u] > 0 <=> counter[u] > 0
    BY <2>1, <2>2, InsertEventDense
  <2>. QED  BY <2>1, <2>3 DEF ThreadRows, TypeOK, Exists
<1>9. CASE RecoverStaleTurns
  <2>1. \A u \in Threads : counter'[u] > 0 <=> counter[u] > 0
    BY <1>9, RecoveryDense
  <2>2. \A u \in Threads : StaleOf(u) # {} => threadStatus[u] # "none"
    BY StaleOwner DEF StaleOf, Exists
  <2>3. \A u \in Threads : threadStatus'[u] = "none" <=> threadStatus[u] = "none"
    BY <1>9, <2>2 DEF RecoverStaleTurns
  <2>. QED  BY <2>1, <2>3 DEF ThreadRows, TypeOK, Exists
<1>10. CASE RecoveryFails
  BY <1>10 DEF RecoveryFails, ThreadRows, TypeOK, Exists
<1>11. CASE Crash
  BY <1>11 DEF Crash, ThreadRows, TypeOK, Exists
<1>12. CASE UNCHANGED vars
  BY <1>12 DEF vars, ThreadRows, TypeOK, Exists
<1>. HIDE DEF IInv
<1>. QED  BY <1>1, <1>2, <1>3, <1>4, <1>5, <1>6, <1>7, <1>8, <1>9, <1>10, <1>11, <1>12
          DEF Next

\* A turn has an owner exactly while it has a row.
LEMMA TurnRowsStep ==
    ASSUME IInv, [Next]_vars
    PROVE  TurnRows'
<1>. USE DEF IInv
<1>1. ASSUME NEW t \in Threads, NEW s \in ThreadStatus, UpsertThread(t, s)
      PROVE  TurnRows'
  BY <1>1 DEF UpsertThread, SeedCounter, TurnRows, TypeOK, turnVars, TurnStatus
<1>2. ASSUME NEW t \in Threads, DeleteThread(t)
      PROVE  TurnRows'
  BY <1>2 DEF DeleteThread, TurnRows, TypeOK, turnVars, TurnStatus
<1>3. ASSUME NEW t \in Threads, NEW r \in Turns, NEW s \in {"running", "completed", "interrupted"},
             CreateTurn(r, t, s)
      PROVE  TurnRows'
  BY <1>3, StoreAssumption DEF CreateTurn, TurnRows, TypeOK, TurnStatus
<1>4. ASSUME NEW t \in Threads, NEW r \in Turns \cup {NoTurn}, AppendEvent(t, r)
      PROVE  TurnRows'
  BY <1>4 DEF AppendEvent, TurnRows, TypeOK, turnVars, TurnStatus
<1>5. ASSUME NEW t \in Threads, NEW l \in LedgerSeqs, AppendAuxiliaryUsage(t, l)
      PROVE  TurnRows'
  BY <1>5 DEF AppendAuxiliaryUsage, Billed, TurnRows, TypeOK, turnVars, TurnStatus
<1>6. ASSUME NEW r \in Turns, NEW kind \in Kinds, NEW key \in Keys, NEW s \in TurnStatus,
             RecordItem(r, kind, key, s)
      PROVE  TurnRows'
  BY <1>6 DEF RecordItem, Open, TurnRows, TypeOK, turnVars, TurnStatus
<1>7. ASSUME NEW r \in Turns, NEW s \in TurnStatus, TransitionTurn(r, s)
      PROVE  TurnRows'
  BY <1>7 DEF TransitionTurn, Open, TurnRows, TypeOK, turnVars, TurnStatus
<1>8. ASSUME NEW r \in Turns, UpdateUsage(r)
      PROVE  TurnRows'
  BY <1>8 DEF UpdateUsage, TurnRows, TypeOK, turnVars, TurnStatus
<1>9. CASE RecoverStaleTurns
  <2>1. owner' = owner /\ \A r \in Turns : status'[r] = "none" <=> status[r] = "none"
    BY <1>9 DEF RecoverStaleTurns, Stale, Active
  <2>. QED  BY <2>1 DEF TurnRows, TypeOK
<1>10. CASE RecoveryFails
  BY <1>10 DEF RecoveryFails, TurnRows, TypeOK, turnVars, TurnStatus
<1>11. CASE Crash
  BY <1>11 DEF Crash, TurnRows, TypeOK, turnVars, TurnStatus
<1>12. CASE UNCHANGED vars
  BY <1>12 DEF vars, TurnRows, TypeOK, turnVars, TurnStatus
<1>. HIDE DEF IInv
<1>. QED  BY <1>1, <1>2, <1>3, <1>4, <1>5, <1>6, <1>7, <1>8, <1>9, <1>10, <1>11, <1>12
          DEF Next


\* The type invariant is kept.
LEMMA TypeStep ==
    ASSUME IInv, [Next]_vars
    PROVE  TypeOK'
BY RowTypesStep, ThreadRowsStep, TurnRowsStep, LogStep
   DEF TypeOK, RowTypes, ThreadRows, TurnRows

\* An inserted event belongs to an existing thread and names its own turn.
LEMMA InsertEventLinked ==
    ASSUME TypeOK, RowsLinked,
           NEW t \in Threads, NEW r \in Turns \cup {NoTurn}, NEW type, NEW l,
           InsertEvent(t, r, type, l), UNCHANGED <<threadStatus, owner>>
    PROVE  \A e \in log' : /\ threadStatus'[e.thread] # "none"
                           /\ e.turn # NoTurn => owner'[e.turn] = e.thread
<1>1. ASSUME NEW e \in log PROVE Exists(e.thread) /\ (e.turn # NoTurn => owner[e.turn] = e.thread)
  BY DEF RowsLinked
<1>2. /\ NewEvent(t, r, type, l).thread = t
      /\ NewEvent(t, r, type, l).turn = r
  BY DEF NewEvent
<1>3. Exists(t) /\ (r # NoTurn => owner[r] = t)
  BY DEF InsertEvent
<1>4. log' = log \cup {NewEvent(t, r, type, l)}
  BY DEF InsertEvent
<1>. QED  BY <1>1, <1>2, <1>3, <1>4 DEF Exists

\* Every step keeps rows linked.
LEMMA LinksStep ==
    ASSUME IInv, [Next]_vars
    PROVE  RowsLinked'
<1>. USE DEF IInv
<1>1. ASSUME NEW t \in Threads, NEW s \in ThreadStatus, UpsertThread(t, s)
      PROVE  RowsLinked'
  BY <1>1, RowFields DEF UpsertThread, SeedCounter, RowsLinked, TypeOK, Exists, ThreadStatus, turnVars
<1>2. ASSUME NEW t \in Threads, DeleteThread(t)
      PROVE  RowsLinked'
  <2>1. \A e \in log' : e \in log /\ e.thread # t
    BY <1>2 DEF DeleteThread, EventsOf
  <2>2. ASSUME NEW e \in log'
        PROVE  Exists(e.thread)' /\ (e.turn # NoTurn => owner'[e.turn] = e.thread)
    BY <1>2, <2>1, <2>2, RowFields DEF DeleteThread, RowsLinked, TypeOK, Exists
  <2>3. ASSUME NEW i \in items' PROVE status'[i.turn] # "none"
    <3>1. i \in items /\ i.turn \in Turns /\ owner[i.turn] # t
      BY <1>2, <2>3, RowFields DEF DeleteThread
    <3>. QED  BY <1>2, <3>1 DEF DeleteThread, RowsLinked
  <2>4. \A r \in Turns : owner'[r] \in Threads => threadStatus'[owner'[r]] # "none"
    BY <1>2, StoreAssumption DEF DeleteThread, RowsLinked, Exists, TypeOK
  <2>. QED  BY <2>2, <2>3, <2>4 DEF RowsLinked, Exists
<1>3. ASSUME NEW t \in Threads, NEW r \in Turns, NEW s \in {"running", "completed", "interrupted"},
             CreateTurn(r, t, s)
      PROVE  RowsLinked'
  <2>1. \A r2 \in Turns : owner[r2] = NoThread <=> status[r2] = "none"
    BY DEF TypeOK
  <2>2. \A e \in log : e.turn # r
    BY <1>3, <2>1, RowFields, StoreAssumption DEF CreateTurn, RowsLinked
  <2>. QED  BY <1>3, <2>2, RowFields DEF CreateTurn, RowsLinked, TypeOK, Exists, TurnStatus
<1>4. ASSUME NEW t \in Threads, NEW r \in Turns \cup {NoTurn}, AppendEvent(t, r)
      PROVE  RowsLinked'
  <2>1. InsertEvent(t, r, "note", NoKey) /\ UNCHANGED <<threadStatus, owner>>
    BY <1>4 DEF AppendEvent, turnVars
  <2>2. \A e \in log' : /\ threadStatus'[e.thread] # "none"
                        /\ e.turn # NoTurn => owner'[e.turn] = e.thread
    BY <2>1, InsertEventLinked
  <2>3. \A i \in items' : status'[i.turn] # "none"
    BY <1>4, RowFields DEF AppendEvent, RowsLinked, TypeOK, TurnStatus, turnVars
  <2>4. \A q \in Turns : owner'[q] \in Threads => threadStatus'[owner'[q]] # "none"
    BY <2>1 DEF RowsLinked, Exists
  <2>. QED  BY <2>2, <2>3, <2>4 DEF RowsLinked, Exists
<1>5. ASSUME NEW t \in Threads, NEW l \in LedgerSeqs, AppendAuxiliaryUsage(t, l)
      PROVE  RowsLinked'
  <2>1. InsertEvent(t, NoTurn, "auxiliary_usage", l) /\ UNCHANGED <<threadStatus, owner>>
    BY <1>5 DEF AppendAuxiliaryUsage, Billed, turnVars
  <2>2. \A e \in log' : /\ threadStatus'[e.thread] # "none"
                        /\ e.turn # NoTurn => owner'[e.turn] = e.thread
    BY <2>1, InsertEventLinked
  <2>3. \A i \in items' : status'[i.turn] # "none"
    BY <1>5, RowFields DEF AppendAuxiliaryUsage, Billed, RowsLinked, TypeOK, TurnStatus, turnVars
  <2>4. \A q \in Turns : owner'[q] \in Threads => threadStatus'[owner'[q]] # "none"
    BY <2>1 DEF RowsLinked, Exists
  <2>. QED  BY <2>2, <2>3, <2>4 DEF RowsLinked, Exists
<1>6. ASSUME NEW r \in Turns, NEW kind \in Kinds, NEW key \in Keys, NEW s \in TurnStatus,
             RecordItem(r, kind, key, s)
      PROVE  RowsLinked'
  <2>1. InsertEvent(owner[r], r, "item", NoKey) /\ UNCHANGED <<threadStatus, owner>>
    BY <1>6 DEF RecordItem, Open, turnVars
  <2>2. \A e \in log' : /\ threadStatus'[e.thread] # "none"
                        /\ e.turn # NoTurn => owner'[e.turn] = e.thread
    BY <2>1, InsertEventLinked, TurnInserts, <1>6 DEF RecordItem, Open, TurnStatus
  <2>3. \A i \in items' : status'[i.turn] # "none"
    BY <1>6, RowFields DEF RecordItem, Open, RowsLinked, TypeOK, TurnStatus, turnVars
  <2>4. \A q \in Turns : owner'[q] \in Threads => threadStatus'[owner'[q]] # "none"
    BY <2>1 DEF RowsLinked, Exists
  <2>. QED  BY <2>2, <2>3, <2>4 DEF RowsLinked, Exists
<1>7. ASSUME NEW r \in Turns, NEW s \in TurnStatus, TransitionTurn(r, s)
      PROVE  RowsLinked'
  <2>1. InsertEvent(owner[r], r, StatusEvent[s], NoKey) /\ UNCHANGED <<threadStatus, owner>>
    BY <1>7 DEF TransitionTurn, Open, turnVars
  <2>2. \A e \in log' : /\ threadStatus'[e.thread] # "none"
                        /\ e.turn # NoTurn => owner'[e.turn] = e.thread
    BY <2>1, InsertEventLinked, TurnInserts, <1>7 DEF TransitionTurn, Open, TurnStatus
  <2>3. \A i \in items' : status'[i.turn] # "none"
    BY <1>7, RowFields DEF TransitionTurn, Open, RowsLinked, TypeOK, TurnStatus, turnVars
  <2>4. \A q \in Turns : owner'[q] \in Threads => threadStatus'[owner'[q]] # "none"
    BY <2>1 DEF RowsLinked, Exists
  <2>. QED  BY <2>2, <2>3, <2>4 DEF RowsLinked, Exists
<1>8. ASSUME NEW r \in Turns, UpdateUsage(r)
      PROVE  RowsLinked'
  <2>1. InsertEvent(owner[r], r, "usage", NoKey) /\ UNCHANGED <<threadStatus, owner>>
    BY <1>8 DEF UpdateUsage, turnVars
  <2>2. \A e \in log' : /\ threadStatus'[e.thread] # "none"
                        /\ e.turn # NoTurn => owner'[e.turn] = e.thread
    BY <2>1, InsertEventLinked, TurnInserts, <1>8 DEF UpdateUsage, TurnStatus
  <2>3. \A i \in items' : status'[i.turn] # "none"
    BY <1>8, RowFields DEF UpdateUsage, RowsLinked, TypeOK, TurnStatus, turnVars
  <2>4. \A q \in Turns : owner'[q] \in Threads => threadStatus'[owner'[q]] # "none"
    BY <2>1 DEF RowsLinked, Exists
  <2>. QED  BY <2>2, <2>3, <2>4 DEF RowsLinked, Exists
<1>9. CASE RecoverStaleTurns
  <2>1. PICK f : log' = log \cup {[thread |-> owner[r], seq |-> f[r], turn |-> r,
                                  type |-> "turn.interrupted", ledger |-> NoKey] : r \in Stale}
    BY <1>9, RecoveryEvents
  <2>2. \A u \in Threads : StaleOf(u) # {} => threadStatus[u] # "none"
    BY StaleOwner DEF StaleOf, Exists
  <2>3. \A u \in Threads : Exists(u)' <=> Exists(u)
    BY <1>9, <2>2 DEF RecoverStaleTurns, Exists
  <2>4. owner' = owner
    BY <1>9 DEF RecoverStaleTurns
  <2>5. ASSUME NEW e \in log' PROVE Exists(e.thread)' /\ (e.turn # NoTurn => owner'[e.turn] = e.thread)
    <3>1. CASE e \in log
      BY <2>3, <2>4, <3>1, RowFields DEF RowsLinked
    <3>2. ASSUME NEW r \in Stale,
                 e = [thread |-> owner[r], seq |-> f[r], turn |-> r,
                      type |-> "turn.interrupted", ledger |-> NoKey]
          PROVE  Exists(e.thread)' /\ (e.turn # NoTurn => owner'[e.turn] = e.thread)
      BY <2>3, <2>4, <3>2, StaleOwner
    <3>. QED  BY <2>1, <3>1, <3>2
  <2>6. \A i \in items' : status'[i.turn] # "none"
    BY <1>9, RowFields DEF RecoverStaleTurns, RecoveredItems, RowsLinked, Stale
  <2>. QED  BY <2>3, <2>4, <2>5, <2>6 DEF RowsLinked
<1>10. CASE RecoveryFails
  BY <1>10 DEF RecoveryFails, RowsLinked, Exists, turnVars
<1>11. CASE Crash
  BY <1>11 DEF Crash, RowsLinked, Exists, turnVars
<1>12. CASE UNCHANGED vars
  BY <1>12 DEF vars, RowsLinked, Exists, turnVars
<1>. HIDE DEF IInv
<1>. QED  BY <1>1, <1>2, <1>3, <1>4, <1>5, <1>6, <1>7, <1>8, <1>9, <1>10, <1>11, <1>12
          DEF Next

\* Every step keeps tool calls paired with results.
LEMMA PairedStep ==
    ASSUME IInv, [Next]_vars
    PROVE  ToolCallsPaired'
<1>. USE DEF IInv
<1>1. ASSUME NEW t \in Threads, NEW s \in ThreadStatus, UpsertThread(t, s)
      PROVE  ToolCallsPaired'
  BY <1>1 DEF UpsertThread, SeedCounter, ToolCallsPaired, TypeOK, turnVars, Has, Unmatched
<1>2. ASSUME NEW t \in Threads, DeleteThread(t)
      PROVE  ToolCallsPaired'
  BY <1>2 DEF DeleteThread, ToolCallsPaired, TypeOK, turnVars, Has, Unmatched
<1>3. ASSUME NEW t \in Threads, NEW r \in Turns, NEW s \in {"running", "completed", "interrupted"},
             CreateTurn(r, t, s)
      PROVE  ToolCallsPaired'
  <2>1. \A i \in items : i.turn # r
    BY <1>3 DEF CreateTurn, RowsLinked
  <2>2. Unmatched(r) = {}
    BY <2>1 DEF Unmatched, Has
  <2>3. items' = items /\ \A q \in Turns : q # r => status'[q] = status[q]
    BY <1>3 DEF CreateTurn, TypeOK
  <2>4. \A q \in Turns : Unmatched(q)' = Unmatched(q)
    BY <2>3 DEF Unmatched, Has
  <2>5. \A q \in Turns : status'[q] \in Terminal => Unmatched(q)' = {}
    BY <2>2, <2>3, <2>4 DEF ToolCallsPaired
  <2>. QED  BY <2>3, <2>5 DEF ToolCallsPaired, Has
<1>4. ASSUME NEW t \in Threads, NEW r \in Turns \cup {NoTurn}, AppendEvent(t, r)
      PROVE  ToolCallsPaired'
  BY <1>4 DEF AppendEvent, ToolCallsPaired, TypeOK, turnVars, Has, Unmatched
<1>5. ASSUME NEW t \in Threads, NEW l \in LedgerSeqs, AppendAuxiliaryUsage(t, l)
      PROVE  ToolCallsPaired'
  BY <1>5 DEF AppendAuxiliaryUsage, Billed, ToolCallsPaired, TypeOK, turnVars, Has, Unmatched
<1>6. ASSUME NEW r \in Turns, NEW kind \in Kinds, NEW key \in Keys, NEW s \in TurnStatus,
             RecordItem(r, kind, key, s)
      PROVE  ToolCallsPaired'
  <2>1. items' = items \cup {[turn |-> r, kind |-> kind, key |-> key]}
    BY <1>6 DEF RecordItem, Open
  <2>2. kind = "tool_result" => Has(r, "tool_call", key)
    BY <1>6 DEF RecordItem, Open, MayInsert
  <2>3. \A i \in items' : i.kind = "tool_result" => Has(i.turn, "tool_call", i.key)'
    BY <2>1, <2>2 DEF ToolCallsPaired, Has
  <2>4. ASSUME NEW q \in Turns, q # r, status'[q] \in Terminal PROVE Unmatched(q)' = {}
    <3>1. Unmatched(q)' = Unmatched(q)
      BY <2>1, <2>4 DEF Unmatched, Has
    <3>2. status[q] \in Terminal
      BY <1>6, <2>4 DEF RecordItem, Open, TypeOK
    <3>. QED  BY <3>1, <3>2 DEF ToolCallsPaired
  <2>5. status'[r] \in Terminal => Unmatched(r)' = {}
    BY <1>6 DEF RecordItem, Open, TypeOK
  <2>. QED  BY <2>3, <2>4, <2>5 DEF ToolCallsPaired
<1>7. ASSUME NEW r \in Turns, NEW s \in TurnStatus, TransitionTurn(r, s)
      PROVE  ToolCallsPaired'
  BY <1>7 DEF TransitionTurn, Open, ToolCallsPaired, TypeOK, turnVars, Has, Unmatched
<1>8. ASSUME NEW r \in Turns, UpdateUsage(r)
      PROVE  ToolCallsPaired'
  BY <1>8 DEF UpdateUsage, ToolCallsPaired, TypeOK, turnVars, Has, Unmatched
<1>9. CASE RecoverStaleTurns
  <2>1. items' = items \cup {i \in RecoveredItems : i.key \in Unmatched(i.turn)}
    BY <1>9 DEF RecoverStaleTurns
  <2>2. \A i \in RecoveredItems : i.kind = "tool_result" /\ i.turn \in Stale /\ i.key \in Keys
    BY DEF RecoveredItems
  <2>3. \A q \in Turns : \A k \in Unmatched(q) : Has(q, "tool_call", k)
    BY DEF Unmatched
  <2>4. \A i \in items' : i.kind = "tool_result" => Has(i.turn, "tool_call", i.key)'
    BY <2>1, <2>2, <2>3 DEF ToolCallsPaired, Has, Stale
  <2>5. ASSUME NEW q \in Stale PROVE Unmatched(q)' = {}
    <3>1. ASSUME NEW k \in Keys, Has(q, "tool_call", k)' PROVE Has(q, "tool_result", k)'
      <4>1. Has(q, "tool_call", k)
        BY <2>1, <2>2, <3>1 DEF Has
      <4>2. [turn |-> q, kind |-> "tool_result", key |-> k] \in RecoveredItems
        BY DEF RecoveredItems
      <4>3. CASE k \in Unmatched(q)
        BY <2>1, <4>2, <4>3 DEF Has
      <4>4. CASE k \notin Unmatched(q)
        BY <2>1, <4>1, <4>4 DEF Unmatched, Has
      <4>. QED  BY <4>3, <4>4
    <3>. QED  BY <3>1 DEF Unmatched
  <2>6. ASSUME NEW q \in Turns, q \notin Stale, status'[q] \in Terminal PROVE Unmatched(q)' = {}
    <3>1. Unmatched(q) = {}
      BY <1>9, <2>6 DEF RecoverStaleTurns, ToolCallsPaired
    <3>2. \A k \in Keys : Has(q, "tool_call", k)' => Has(q, "tool_call", k)
      BY <2>1, <2>2, <2>6 DEF Has
    <3>3. \A k \in Keys : Has(q, "tool_result", k) => Has(q, "tool_result", k)'
      BY <2>1 DEF Has
    <3>. QED  BY <3>1, <3>2, <3>3 DEF Unmatched
  <2>. QED  BY <2>4, <2>5, <2>6 DEF ToolCallsPaired
<1>10. CASE RecoveryFails
  BY <1>10 DEF RecoveryFails, ToolCallsPaired, TypeOK, turnVars, Has, Unmatched
<1>11. CASE Crash
  BY <1>11 DEF Crash, ToolCallsPaired, TypeOK, turnVars, Has, Unmatched
<1>12. CASE UNCHANGED vars
  BY <1>12 DEF vars, ToolCallsPaired, TypeOK, turnVars, Has, Unmatched
<1>. HIDE DEF IInv
<1>. QED  BY <1>1, <1>2, <1>3, <1>4, <1>5, <1>6, <1>7, <1>8, <1>9, <1>10, <1>11, <1>12
          DEF Next

\* No step leaves an active turn of a former daemon while serving.
LEMMA StaleStep ==
    ASSUME IInv, [Next]_vars
    PROVE  NoStaleActive'
<1>. USE DEF IInv
<1>1. ASSUME NEW t \in Threads, NEW s \in ThreadStatus, UpsertThread(t, s)
      PROVE  NoStaleActive'
  BY <1>1 DEF UpsertThread, SeedCounter, NoStaleActive, turnVars
<1>2. ASSUME NEW t \in Threads, DeleteThread(t)
      PROVE  NoStaleActive'
  BY <1>2 DEF DeleteThread, NoStaleActive, Active
<1>3. ASSUME NEW t \in Threads, NEW r \in Turns, NEW s \in {"running", "completed", "interrupted"},
             CreateTurn(r, t, s)
      PROVE  NoStaleActive'
  BY <1>3 DEF CreateTurn, NoStaleActive, TypeOK, Active
<1>4. ASSUME NEW t \in Threads, NEW r \in Turns \cup {NoTurn}, AppendEvent(t, r)
      PROVE  NoStaleActive'
  BY <1>4 DEF AppendEvent, NoStaleActive, turnVars
<1>5. ASSUME NEW t \in Threads, NEW l \in LedgerSeqs, AppendAuxiliaryUsage(t, l)
      PROVE  NoStaleActive'
  BY <1>5 DEF AppendAuxiliaryUsage, Billed, NoStaleActive, turnVars
<1>6. ASSUME NEW r \in Turns, NEW kind \in Kinds, NEW key \in Keys, NEW s \in TurnStatus,
             RecordItem(r, kind, key, s)
      PROVE  NoStaleActive'
  <2>1. \A q \in Turns : status'[q] \in Active => status[q] \in Active
    BY <1>6 DEF RecordItem, Open, TypeOK, Active, Terminal, TurnStatus, NeverQueued
  <2>2. UNCHANGED <<bootOf, boot, phase>>
    BY <1>6 DEF RecordItem, Open
  <2>. QED  BY <2>1, <2>2 DEF NoStaleActive
<1>7. ASSUME NEW r \in Turns, NEW s \in TurnStatus, TransitionTurn(r, s)
      PROVE  NoStaleActive'
  <2>1. \A q \in Turns : status'[q] \in Active => status[q] \in Active
    BY <1>7 DEF TransitionTurn, Open, TypeOK, Active, Terminal, TurnStatus, NeverQueued
  <2>2. UNCHANGED <<bootOf, boot, phase>>
    BY <1>7 DEF TransitionTurn, Open
  <2>. QED  BY <2>1, <2>2 DEF NoStaleActive
<1>8. ASSUME NEW r \in Turns, UpdateUsage(r)
      PROVE  NoStaleActive'
  BY <1>8 DEF UpdateUsage, NoStaleActive, turnVars
<1>9. CASE RecoverStaleTurns
  <2>1. \A q \in Turns : status'[q] \in Active => q \notin Stale /\ status[q] \in Active
    BY <1>9 DEF RecoverStaleTurns, Active
  <2>2. UNCHANGED <<bootOf, boot>>
    BY <1>9 DEF RecoverStaleTurns
  <2>. QED  BY <2>1, <2>2 DEF NoStaleActive, Stale
<1>10. CASE RecoveryFails
  BY <1>10 DEF RecoveryFails, NoStaleActive, turnVars
<1>11. CASE Crash
  BY <1>11 DEF Crash, NoStaleActive, turnVars
<1>12. CASE UNCHANGED vars
  BY <1>12 DEF vars, NoStaleActive, turnVars
<1>. HIDE DEF IInv
<1>. QED  BY <1>1, <1>2, <1>3, <1>4, <1>5, <1>6, <1>7, <1>8, <1>9, <1>10, <1>11, <1>12
          DEF Next

\* No step queues a turn.
LEMMA QueuedStep ==
    ASSUME IInv, [Next]_vars
    PROVE  NeverQueued'
<1>. USE DEF IInv
<1>1. ASSUME NEW t \in Threads, NEW s \in ThreadStatus, UpsertThread(t, s)
      PROVE  NeverQueued'
  BY <1>1 DEF UpsertThread, SeedCounter, NeverQueued, turnVars
<1>2. ASSUME NEW t \in Threads, DeleteThread(t)
      PROVE  NeverQueued'
  BY <1>2 DEF DeleteThread, NeverQueued, TypeOK, turnVars
<1>3. ASSUME NEW t \in Threads, NEW r \in Turns, NEW s \in {"running", "completed", "interrupted"},
             CreateTurn(r, t, s)
      PROVE  NeverQueued'
  BY <1>3 DEF CreateTurn, NeverQueued, TypeOK, turnVars
<1>4. ASSUME NEW t \in Threads, NEW r \in Turns \cup {NoTurn}, AppendEvent(t, r)
      PROVE  NeverQueued'
  BY <1>4 DEF AppendEvent, NeverQueued, TypeOK, turnVars
<1>5. ASSUME NEW t \in Threads, NEW l \in LedgerSeqs, AppendAuxiliaryUsage(t, l)
      PROVE  NeverQueued'
  BY <1>5 DEF AppendAuxiliaryUsage, Billed, NeverQueued, TypeOK, turnVars
<1>6. ASSUME NEW r \in Turns, NEW kind \in Kinds, NEW key \in Keys, NEW s \in TurnStatus,
             RecordItem(r, kind, key, s)
      PROVE  NeverQueued'
  <2>1. s # "queued"
    BY <1>6 DEF RecordItem, Open, MayMove, Successors, NeverQueued, TurnStatus, Terminal
  <2>. QED  BY <1>6, <2>1 DEF RecordItem, Open, NeverQueued, TypeOK
<1>7. ASSUME NEW r \in Turns, NEW s \in TurnStatus, TransitionTurn(r, s)
      PROVE  NeverQueued'
  <2>1. s # "queued"
    BY <1>7 DEF TransitionTurn, Open, MayMove, Successors, NeverQueued, TurnStatus, Terminal
  <2>. QED  BY <1>7, <2>1 DEF TransitionTurn, Open, NeverQueued, TypeOK
<1>8. ASSUME NEW r \in Turns, UpdateUsage(r)
      PROVE  NeverQueued'
  BY <1>8 DEF UpdateUsage, NeverQueued, TypeOK, turnVars
<1>9. CASE RecoverStaleTurns
  BY <1>9 DEF RecoverStaleTurns, NeverQueued, TypeOK, turnVars
<1>10. CASE RecoveryFails
  BY <1>10 DEF RecoveryFails, NeverQueued, TypeOK, turnVars
<1>11. CASE Crash
  BY <1>11 DEF Crash, NeverQueued, TypeOK, turnVars
<1>12. CASE UNCHANGED vars
  BY <1>12 DEF vars, NeverQueued, TypeOK, turnVars
<1>. HIDE DEF IInv
<1>. QED  BY <1>1, <1>2, <1>3, <1>4, <1>5, <1>6, <1>7, <1>8, <1>9, <1>10, <1>11, <1>12
          DEF Next

\* An event that tells no terminal status, and leaves the status of every ended turn
\* alone, keeps the log's terminal events in agreement with the statuses.
LEMMA OtherEvent ==
    ASSUME TypeOK, TerminalEventsAgree,
           NEW t, NEW r, NEW type, NEW l, InsertEvent(t, r, type, l),
           \A s \in Terminal : type # StatusEvent[s],
           \A q \in Turns : status[q] \in Terminal => status'[q] = status[q]
    PROVE  TerminalEventsAgree'
<1>1. log' = log \cup {NewEvent(t, r, type, l)}
  BY DEF InsertEvent
<1>2. NewEvent(t, r, type, l).type = type
  BY DEF NewEvent
<1>3. \A e \in log', s \in Terminal : e.type = StatusEvent[s] => e \in log
  BY <1>1, <1>2
<1>. QED  BY <1>3, RowFields DEF TerminalEventsAgree

\* Every step keeps terminal events and statuses in agreement.
LEMMA TerminalStep ==
    ASSUME IInv, [Next]_vars
    PROVE  TerminalEventsAgree'
<1>. USE DEF IInv
<1>1. ASSUME NEW t \in Threads, NEW s \in ThreadStatus, UpsertThread(t, s)
      PROVE  TerminalEventsAgree'
  <2>1. log' = log /\ status' = status
    BY <1>1 DEF UpsertThread, SeedCounter, turnVars
  <2>. QED  BY <2>1 DEF TerminalEventsAgree
<1>2. ASSUME NEW t \in Threads, DeleteThread(t)
      PROVE  TerminalEventsAgree'
  <2>1. \A e \in log' : e \in log /\ e.thread # t
    BY <1>2 DEF DeleteThread, EventsOf
  <2>2. \A e \in log' : e.turn # NoTurn => status'[e.turn] = status[e.turn]
    BY <1>2, <2>1, RowFields DEF DeleteThread, RowsLinked
  <2>. QED  BY <2>1, <2>2 DEF TerminalEventsAgree
<1>3. ASSUME NEW t \in Threads, NEW r \in Turns, NEW s \in {"running", "completed", "interrupted"},
             CreateTurn(r, t, s)
      PROVE  TerminalEventsAgree'
  <2>1. \A e \in log : e.turn # r
    <3>1. owner[r] = NoThread
      BY <1>3 DEF CreateTurn, TypeOK
    <3>. QED  BY <3>1, RowFields, StoreAssumption DEF RowsLinked
  <2>2. log' = log /\ \A q \in Turns : q # r => status'[q] = status[q]
    BY <1>3 DEF CreateTurn, TypeOK
  <2>. QED  BY <2>1, <2>2, RowFields DEF TerminalEventsAgree
<1>4. ASSUME NEW t \in Threads, NEW r \in Turns \cup {NoTurn}, AppendEvent(t, r)
      PROVE  TerminalEventsAgree'
  <2>1. InsertEvent(t, r, "note", NoKey)
    BY <1>4 DEF AppendEvent
  <2>2. \A s2 \in Terminal : "note" # StatusEvent[s2]
    BY DEF Terminal, StatusEvent
  <2>3. \A q \in Turns : status[q] \in Terminal => status'[q] = status[q]
    BY <1>4 DEF AppendEvent, turnVars, TypeOK
  <2>. QED  BY <2>1, <2>2, <2>3, OtherEvent
<1>5. ASSUME NEW t \in Threads, NEW l \in LedgerSeqs, AppendAuxiliaryUsage(t, l)
      PROVE  TerminalEventsAgree'
  <2>1. InsertEvent(t, NoTurn, "auxiliary_usage", l)
    BY <1>5 DEF AppendAuxiliaryUsage, Billed
  <2>2. \A s2 \in Terminal : "auxiliary_usage" # StatusEvent[s2]
    BY DEF Terminal, StatusEvent
  <2>3. \A q \in Turns : status[q] \in Terminal => status'[q] = status[q]
    BY <1>5 DEF AppendAuxiliaryUsage, Billed, turnVars, TypeOK
  <2>. QED  BY <2>1, <2>2, <2>3, OtherEvent
<1>6. ASSUME NEW r \in Turns, NEW kind \in Kinds, NEW key \in Keys, NEW s \in TurnStatus,
             RecordItem(r, kind, key, s)
      PROVE  TerminalEventsAgree'
  <2>1. InsertEvent(owner[r], r, "item", NoKey)
    BY <1>6 DEF RecordItem, Open
  <2>2. \A s2 \in Terminal : "item" # StatusEvent[s2]
    BY DEF Terminal, StatusEvent
  <2>3. \A q \in Turns : status[q] \in Terminal => status'[q] = status[q]
    BY <1>6 DEF RecordItem, Open, turnVars, TypeOK
  <2>. QED  BY <2>1, <2>2, <2>3, OtherEvent
<1>7. ASSUME NEW r \in Turns, NEW s \in TurnStatus, TransitionTurn(r, s)
      PROVE  TerminalEventsAgree'
  <2>1. InsertEvent(owner[r], r, StatusEvent[s], NoKey)
    BY <1>7 DEF TransitionTurn, Open
  <2>2. log' = log \cup {NewEvent(owner[r], r, StatusEvent[s], NoKey)}
    BY <2>1 DEF InsertEvent
  <2>3. /\ NewEvent(owner[r], r, StatusEvent[s], NoKey).type = StatusEvent[s]
        /\ NewEvent(owner[r], r, StatusEvent[s], NoKey).turn = r
    BY DEF NewEvent
  <2>4. /\ status[r] \notin Terminal
        /\ \A q \in Turns : q # r => status'[q] = status[q]
        /\ status'[r] = s
    BY <1>7 DEF TransitionTurn, Open, TypeOK
  <2>5. \A e \in log, s2 \in Terminal : e.type = StatusEvent[s2] => e.turn # r
    BY <2>4, StoreAssumption DEF TerminalEventsAgree
  <2>6. \A s1, s2 \in TurnStatus : s1 \in Terminal /\ StatusEvent[s1] = StatusEvent[s2] => s1 = s2
    BY DEF StatusEvent, TurnStatus, Terminal
  <2>7. \A e \in log', s2 \in Terminal :
          e.turn # NoTurn /\ e.type = StatusEvent[s2] => status'[e.turn] = s2
    BY <2>2, <2>3, <2>4, <2>5, <2>6, RowFields DEF TerminalEventsAgree, Terminal, TurnStatus
  <2>8. \A e, f \in log', s2 \in Terminal :
          /\ e.turn # NoTurn /\ e.turn = f.turn
          /\ e.type = StatusEvent[s2] /\ f.type = StatusEvent[s2]
          => e = f
    <3>1. \A e, f \in log, s2 \in Terminal :
            /\ e.turn # NoTurn /\ e.turn = f.turn
            /\ e.type = StatusEvent[s2] /\ f.type = StatusEvent[s2]
            => e = f
      BY DEF TerminalEventsAgree
    <3>. QED  BY <2>2, <2>3, <2>5, <3>1
  <2>. QED  BY <2>7, <2>8 DEF TerminalEventsAgree
<1>8. ASSUME NEW r \in Turns, UpdateUsage(r)
      PROVE  TerminalEventsAgree'
  <2>1. InsertEvent(owner[r], r, "usage", NoKey)
    BY <1>8 DEF UpdateUsage
  <2>2. \A s2 \in Terminal : "usage" # StatusEvent[s2]
    BY DEF Terminal, StatusEvent
  <2>3. \A q \in Turns : status[q] \in Terminal => status'[q] = status[q]
    BY <1>8 DEF UpdateUsage, turnVars, TypeOK
  <2>. QED  BY <2>1, <2>2, <2>3, OtherEvent
<1>9. CASE RecoverStaleTurns
  <2>1. PICK f : log' = log \cup {[thread |-> owner[r], seq |-> f[r], turn |-> r,
                                  type |-> "turn.interrupted", ledger |-> NoKey] : r \in Stale}
    BY <1>9, RecoveryEvents
  <2> DEFINE new(r) == [thread |-> owner[r], seq |-> f[r], turn |-> r,
                        type |-> "turn.interrupted", ledger |-> NoKey]
  <2>2. \A r \in Stale : new(r).turn = r /\ new(r).type = "turn.interrupted"
    OBVIOUS
  <2>3. \A e \in log' : e \in log \/ \E r \in Stale : e = new(r)
    BY <2>1
  <2>4. /\ \A q \in Stale : status[q] \notin Terminal /\ status'[q] = "interrupted"
        /\ \A q \in Turns \ Stale : status'[q] = status[q]
    BY <1>9 DEF RecoverStaleTurns, Stale, Active, Terminal
  <2>5. \A e \in log : \A s \in Terminal :
          e.turn # NoTurn /\ e.type = StatusEvent[s] => e.turn \notin Stale
    BY <2>4, RowFields DEF TerminalEventsAgree
  <2>6. \A s \in Terminal : StatusEvent[s] = "turn.interrupted" => s = "interrupted"
    BY DEF StatusEvent, Terminal
  <2>7. Stale \subseteq Turns /\ NoTurn \notin Stale
    BY StoreAssumption DEF Stale
  <2> HIDE DEF new
  <2>8. \A e \in log', s \in Terminal :
          e.turn # NoTurn /\ e.type = StatusEvent[s] => status'[e.turn] = s
    BY <2>2, <2>3, <2>4, <2>5, <2>6, <2>7, RowFields DEF TerminalEventsAgree
  <2>9. \A e, g \in log', s \in Terminal :
          /\ e.turn # NoTurn /\ e.turn = g.turn
          /\ e.type = StatusEvent[s] /\ g.type = StatusEvent[s]
          => e = g
    BY <2>2, <2>3, <2>5, <2>7 DEF TerminalEventsAgree
  <2>. QED  BY <2>8, <2>9 DEF TerminalEventsAgree
<1>10. CASE RecoveryFails
  <2>1. log' = log /\ status' = status
    BY <1>10 DEF RecoveryFails, turnVars
  <2>. QED  BY <2>1 DEF TerminalEventsAgree
<1>11. CASE Crash
  <2>1. log' = log /\ status' = status
    BY <1>11 DEF Crash, turnVars
  <2>. QED  BY <2>1 DEF TerminalEventsAgree
<1>12. CASE UNCHANGED vars
  <2>1. log' = log /\ status' = status
    BY <1>12 DEF vars, turnVars
  <2>. QED  BY <2>1 DEF TerminalEventsAgree
<1>. HIDE DEF IInv
<1>. QED  BY <1>1, <1>2, <1>3, <1>4, <1>5, <1>6, <1>7, <1>8, <1>9, <1>10, <1>11, <1>12
          DEF Next

\* An event of another kind bills nothing.
LEMMA UnbilledEvent ==
    ASSUME UsageBilledOnce,
           NEW t, NEW r, NEW type, NEW l, InsertEvent(t, r, type, l),
           type # "auxiliary_usage"
    PROVE  UsageBilledOnce'
<1>1. log' = log \cup {NewEvent(t, r, type, l)} /\ NewEvent(t, r, type, l).type = type
  BY DEF InsertEvent, NewEvent
<1>. QED  BY <1>1 DEF UsageBilledOnce

\* Every step bills a ledger record at most once.
LEMMA UsageStep ==
    ASSUME IInv, [Next]_vars
    PROVE  UsageBilledOnce'
<1>. USE DEF IInv
<1>1. ASSUME NEW t \in Threads, NEW s \in ThreadStatus, UpsertThread(t, s)
      PROVE  UsageBilledOnce'
  BY <1>1 DEF UpsertThread, SeedCounter, UsageBilledOnce
<1>2. ASSUME NEW t \in Threads, DeleteThread(t)
      PROVE  UsageBilledOnce'
  <2>1. log' \subseteq log
    BY <1>2 DEF DeleteThread
  <2>. QED  BY <2>1 DEF UsageBilledOnce
<1>3. ASSUME NEW t \in Threads, NEW r \in Turns, NEW s \in {"running", "completed", "interrupted"},
             CreateTurn(r, t, s)
      PROVE  UsageBilledOnce'
  BY <1>3 DEF CreateTurn, UsageBilledOnce
<1>4. ASSUME NEW t \in Threads, NEW r \in Turns \cup {NoTurn}, AppendEvent(t, r)
      PROVE  UsageBilledOnce'
  <2>1. InsertEvent(t, r, "note", NoKey)
    BY <1>4 DEF AppendEvent
  <2>2. "note" # "auxiliary_usage"
    BY DEF StatusEvent, TurnStatus
  <2>. QED  BY <2>1, <2>2, UnbilledEvent
<1>5. ASSUME NEW t \in Threads, NEW l \in LedgerSeqs, AppendAuxiliaryUsage(t, l)
      PROVE  UsageBilledOnce'
  <2>1. log' = log \cup {NewEvent(t, NoTurn, "auxiliary_usage", l)}
    BY <1>5 DEF AppendAuxiliaryUsage, Billed, InsertEvent
  <2>2. \A e \in log : e.type = "auxiliary_usage" /\ e.ledger = l => e.thread # t
    BY <1>5 DEF AppendAuxiliaryUsage, Billed, EventsOf
  <2>3. /\ NewEvent(t, NoTurn, "auxiliary_usage", l).thread = t
        /\ NewEvent(t, NoTurn, "auxiliary_usage", l).ledger = l
    BY DEF NewEvent
  <2>. QED  BY <2>1, <2>2, <2>3 DEF UsageBilledOnce
<1>6. ASSUME NEW r \in Turns, NEW kind \in Kinds, NEW key \in Keys, NEW s \in TurnStatus,
             RecordItem(r, kind, key, s)
      PROVE  UsageBilledOnce'
  <2>1. InsertEvent(owner[r], r, "item", NoKey)
    BY <1>6 DEF RecordItem, Open
  <2>2. "item" # "auxiliary_usage"
    BY DEF StatusEvent, TurnStatus
  <2>. QED  BY <2>1, <2>2, UnbilledEvent
<1>7. ASSUME NEW r \in Turns, NEW s \in TurnStatus, TransitionTurn(r, s)
      PROVE  UsageBilledOnce'
  <2>1. InsertEvent(owner[r], r, StatusEvent[s], NoKey)
    BY <1>7 DEF TransitionTurn, Open
  <2>2. StatusEvent[s] # "auxiliary_usage"
    BY DEF StatusEvent, TurnStatus
  <2>. QED  BY <2>1, <2>2, UnbilledEvent
<1>8. ASSUME NEW r \in Turns, UpdateUsage(r)
      PROVE  UsageBilledOnce'
  <2>1. InsertEvent(owner[r], r, "usage", NoKey)
    BY <1>8 DEF UpdateUsage
  <2>2. "usage" # "auxiliary_usage"
    BY DEF StatusEvent, TurnStatus
  <2>. QED  BY <2>1, <2>2, UnbilledEvent
<1>9. CASE RecoverStaleTurns
  <2>1. PICK f : log' = log \cup {[thread |-> owner[r], seq |-> f[r], turn |-> r,
                                  type |-> "turn.interrupted", ledger |-> NoKey] : r \in Stale}
    BY <1>9, RecoveryEvents
  <2>2. \A e \in log' : e.type = "auxiliary_usage" => e \in log
    BY <2>1
  <2>. QED  BY <2>2 DEF UsageBilledOnce
<1>10. CASE RecoveryFails
  BY <1>10 DEF RecoveryFails, UsageBilledOnce
<1>11. CASE Crash
  BY <1>11 DEF Crash, UsageBilledOnce
<1>12. CASE UNCHANGED vars
  BY <1>12 DEF vars, UsageBilledOnce
<1>. HIDE DEF IInv
<1>. QED  BY <1>1, <1>2, <1>3, <1>4, <1>5, <1>6, <1>7, <1>8, <1>9, <1>10, <1>11, <1>12
          DEF Next

\* No step touches a turn that ended.
LEMMA EndedTurnsStep ==
    ASSUME IInv, [Next]_vars
    PROVE  KeepsEndedTurns
<1>. USE DEF IInv
<1>1. ASSUME NEW t \in Threads, NEW s \in ThreadStatus, UpsertThread(t, s)
      PROVE  KeepsEndedTurns
  BY <1>1 DEF UpsertThread, SeedCounter, KeepsEndedTurns, ItemsOf, turnVars
<1>2. ASSUME NEW t \in Threads, DeleteThread(t)
      PROVE  KeepsEndedTurns
  <2>. SUFFICES ASSUME NEW r \in Turns, owner'[r] = owner[r]
       PROVE  status'[r] = status[r] /\ ItemsOf(r)' = ItemsOf(r)
    BY DEF KeepsEndedTurns
  <2>1. owner[r] # t
    BY <1>2, StoreAssumption DEF DeleteThread
  <2>. QED  BY <1>2, <2>1 DEF DeleteThread, ItemsOf
<1>3. ASSUME NEW t \in Threads, NEW r \in Turns, NEW s \in {"running", "completed", "interrupted"},
             CreateTurn(r, t, s)
      PROVE  KeepsEndedTurns
  BY <1>3 DEF CreateTurn, KeepsEndedTurns, ItemsOf, TypeOK, Terminal
<1>4. ASSUME NEW t \in Threads, NEW r \in Turns \cup {NoTurn}, AppendEvent(t, r)
      PROVE  KeepsEndedTurns
  BY <1>4 DEF AppendEvent, KeepsEndedTurns, ItemsOf, turnVars
<1>5. ASSUME NEW t \in Threads, NEW l \in LedgerSeqs, AppendAuxiliaryUsage(t, l)
      PROVE  KeepsEndedTurns
  BY <1>5 DEF AppendAuxiliaryUsage, Billed, KeepsEndedTurns, ItemsOf, turnVars
<1>6. ASSUME NEW r \in Turns, NEW kind \in Kinds, NEW key \in Keys, NEW s \in TurnStatus,
             RecordItem(r, kind, key, s)
      PROVE  KeepsEndedTurns
  <2>1. status[r] \notin Terminal /\ \A q \in Turns : q # r => status'[q] = status[q]
    BY <1>6 DEF RecordItem, Open, TypeOK
  <2>2. \A q \in Turns : q # r => ItemsOf(q)' = ItemsOf(q)
    BY <1>6 DEF RecordItem, Open, ItemsOf
  <2>. QED  BY <2>1, <2>2 DEF KeepsEndedTurns
<1>7. ASSUME NEW r \in Turns, NEW s \in TurnStatus, TransitionTurn(r, s)
      PROVE  KeepsEndedTurns
  BY <1>7 DEF TransitionTurn, Open, KeepsEndedTurns, ItemsOf, TypeOK
<1>8. ASSUME NEW r \in Turns, UpdateUsage(r)
      PROVE  KeepsEndedTurns
  BY <1>8 DEF UpdateUsage, KeepsEndedTurns, ItemsOf, turnVars
<1>9. CASE RecoverStaleTurns
  <2>1. \A q \in Turns : status[q] \in Terminal => q \notin Stale
    BY DEF Stale, Active, Terminal
  <2>2. \A q \in Turns : q \notin Stale => status'[q] = status[q]
    BY <1>9 DEF RecoverStaleTurns
  <2>3. \A q \in Turns : q \notin Stale => ItemsOf(q)' = ItemsOf(q)
    BY <1>9 DEF RecoverStaleTurns, RecoveredItems, ItemsOf
  <2>. QED  BY <2>1, <2>2, <2>3 DEF KeepsEndedTurns
<1>10. CASE RecoveryFails
  BY <1>10 DEF RecoveryFails, KeepsEndedTurns, ItemsOf, turnVars
<1>11. CASE Crash
  BY <1>11 DEF Crash, KeepsEndedTurns, ItemsOf, turnVars
<1>12. CASE UNCHANGED vars
  BY <1>12 DEF vars, KeepsEndedTurns, ItemsOf, turnVars
<1>. HIDE DEF IInv
<1>. QED  BY <1>1, <1>2, <1>3, <1>4, <1>5, <1>6, <1>7, <1>8, <1>9, <1>10, <1>11, <1>12
          DEF Next

\* An inserted event extends its thread's log at next_seq.
LEMMA InsertAppends ==
    ASSUME TypeOK, NEW t, NEW r, NEW type, NEW l, InsertEvent(t, r, type, l)
    PROVE  AppendsOnly
<1>1. log' = log \cup {NewEvent(t, r, type, l)}
  BY DEF InsertEvent
<1>2. NewEvent(t, r, type, l).thread = t /\ NewEvent(t, r, type, l).seq = counter[t]
  BY DEF NewEvent
<1>3. ASSUME NEW u \in Threads
      PROVE  /\ EventsOf(u) \subseteq EventsOf(u)'
             /\ \A e \in EventsOf(u)' \ EventsOf(u) : e.seq = counter[u]
  BY <1>1, <1>2 DEF EventsOf
<1>4. \A u \in Threads : counter[u] \in Nat
  BY DEF TypeOK
<1>. QED  BY <1>3, <1>4 DEF AppendsOnly

\* Every step only appends to the logs of threads that live on.
LEMMA LogStepAppends ==
    ASSUME IInv, [Next]_vars
    PROVE  AppendsOnly
<1>. USE DEF IInv
<1>1. ASSUME NEW t \in Threads, NEW s \in ThreadStatus, UpsertThread(t, s)
      PROVE  AppendsOnly
  <2>1. log' = log
    BY <1>1 DEF UpsertThread, SeedCounter
  <2>. QED  BY <2>1 DEF AppendsOnly, EventsOf
<1>2. ASSUME NEW t \in Threads, DeleteThread(t)
      PROVE  AppendsOnly
  <2>1. \A u \in Threads : u = t => ~Exists(u)'
    BY <1>2 DEF DeleteThread, Exists, TypeOK
  <2>2. \A u \in Threads : u # t => EventsOf(u)' = EventsOf(u)
    BY <1>2 DEF DeleteThread, EventsOf
  <2>. QED  BY <2>1, <2>2 DEF AppendsOnly
<1>3. ASSUME NEW t \in Threads, NEW r \in Turns, NEW s \in {"running", "completed", "interrupted"},
             CreateTurn(r, t, s)
      PROVE  AppendsOnly
  <2>1. log' = log
    BY <1>3 DEF CreateTurn
  <2>. QED  BY <2>1 DEF AppendsOnly, EventsOf
<1>4. ASSUME NEW t \in Threads, NEW r \in Turns \cup {NoTurn}, AppendEvent(t, r)
      PROVE  AppendsOnly
  <2>1. InsertEvent(t, r, "note", NoKey)
    BY <1>4 DEF AppendEvent
  <2>. QED  BY <2>1, InsertAppends
<1>5. ASSUME NEW t \in Threads, NEW l \in LedgerSeqs, AppendAuxiliaryUsage(t, l)
      PROVE  AppendsOnly
  <2>1. InsertEvent(t, NoTurn, "auxiliary_usage", l)
    BY <1>5 DEF AppendAuxiliaryUsage, Billed
  <2>. QED  BY <2>1, InsertAppends
<1>6. ASSUME NEW r \in Turns, NEW kind \in Kinds, NEW key \in Keys, NEW s \in TurnStatus,
             RecordItem(r, kind, key, s)
      PROVE  AppendsOnly
  <2>1. InsertEvent(owner[r], r, "item", NoKey)
    BY <1>6 DEF RecordItem, Open
  <2>. QED  BY <2>1, InsertAppends
<1>7. ASSUME NEW r \in Turns, NEW s \in TurnStatus, TransitionTurn(r, s)
      PROVE  AppendsOnly
  <2>1. InsertEvent(owner[r], r, StatusEvent[s], NoKey)
    BY <1>7 DEF TransitionTurn, Open
  <2>. QED  BY <2>1, InsertAppends
<1>8. ASSUME NEW r \in Turns, UpdateUsage(r)
      PROVE  AppendsOnly
  <2>1. InsertEvent(owner[r], r, "usage", NoKey)
    BY <1>8 DEF UpdateUsage
  <2>. QED  BY <2>1, InsertAppends
<1>9. CASE RecoverStaleTurns
  <2>1. PICK f \in [Stale -> Nat \ {0}] :
          /\ log' = log \cup {[thread |-> owner[r], seq |-> f[r], turn |-> r,
                              type |-> "turn.interrupted", ledger |-> NoKey] : r \in Stale}
          /\ \A r \in Stale : f[r] >= counter[owner[r]]
    BY <1>9, RecoveryEvents
  <2>. QED  BY <2>1 DEF AppendsOnly, EventsOf
<1>10. CASE RecoveryFails
  <2>1. log' = log
    BY <1>10 DEF RecoveryFails
  <2>. QED  BY <2>1 DEF AppendsOnly, EventsOf
<1>11. CASE Crash
  <2>1. log' = log
    BY <1>11 DEF Crash
  <2>. QED  BY <2>1 DEF AppendsOnly, EventsOf
<1>12. CASE UNCHANGED vars
  <2>1. log' = log
    BY <1>12 DEF vars
  <2>. QED  BY <2>1 DEF AppendsOnly, EventsOf
<1>. HIDE DEF IInv
<1>. QED  BY <1>1, <1>2, <1>3, <1>4, <1>5, <1>6, <1>7, <1>8, <1>9, <1>10, <1>11, <1>12
          DEF Next

-----------------------------------------------------------------------------
(* The theorems *)

\* The strengthened invariant holds in every reachable state.
THEOREM StoreInvariant == Spec => []IInv
<1>1. Init => IInv
  <2>. SUFFICES ASSUME Init PROVE IInv
    OBVIOUS
  <2>1. TypeOK
    BY StoreAssumption DEF Init, TypeOK, Exists, Phases, ImportedBoot
  <2>2. RowsLinked /\ TerminalEventsAgree /\ UsageBilledOnce /\ NeverQueued /\ NoStaleActive
    BY StoreAssumption DEF Init, RowsLinked, TerminalEventsAgree, UsageBilledOnce, NeverQueued,
                           NoStaleActive, Active
  <2>3. DenseLog
    <3>1. log = {} /\ \A t \in Threads : counter[t] = 0
      BY DEF Init
    <3>2. \A t \in Threads : SeqsOf(t) = {}
      BY <3>1 DEF SeqsOf, EventsOf
    <3>. QED  BY <3>1, <3>2 DEF DenseLog
  <2>4. ToolCallsPaired
    BY DEF Init, ToolCallsPaired, Terminal
  <2>. QED  BY <2>1, <2>2, <2>3, <2>4 DEF IInv
<1>2. IInv /\ [Next]_vars => IInv'
  BY TypeStep, LinksStep, LogStep, PairedStep, StaleStep, TerminalStep, UsageStep, QueuedStep
     DEF IInv
<1>. QED  BY <1>1, <1>2, PTL DEF Spec

\* The types of the state hold always, with rows complete.
THEOREM TypeCorrect == Spec => []TypeOK
<1>1. IInv => TypeOK
  BY DEF IInv
<1>. QED  BY StoreInvariant, <1>1, PTL

\* No transaction, deletion or recovery leaves a row without its parent.
THEOREM RowsStayLinked == Spec => []RowsLinked
<1>1. IInv => RowsLinked
  BY DEF IInv
<1>. QED  BY StoreInvariant, <1>1, PTL

\* The seqs of a thread's log have no gap and no repetition, for any history of
\* writes, crashes, recoveries and deletions.
THEOREM LogIsDense == Spec => []DenseLog
<1>1. IInv => DenseLog
  BY DEF IInv
<1>. QED  BY StoreInvariant, <1>1, PTL

\* No turn ends with a tool call that lacks its result.
THEOREM ToolCallsStayPaired == Spec => []ToolCallsPaired
<1>1. IInv => ToolCallsPaired
  BY DEF IInv
<1>. QED  BY StoreInvariant, <1>1, PTL

\* A daemon that finished its recovery shows no turn of a former one as active.
THEOREM RecoveryIsComplete == Spec => []NoStaleActive
<1>1. IInv => NoStaleActive
  BY DEF IInv
<1>. QED  BY StoreInvariant, <1>1, PTL

\* The log's terminal events agree with the turns' statuses.
THEOREM TerminalEventsCorrect == Spec => []TerminalEventsAgree
<1>1. IInv => TerminalEventsAgree
  BY DEF IInv
<1>. QED  BY StoreInvariant, <1>1, PTL

\* No ledger record is billed twice.
THEOREM UsageCorrect == Spec => []UsageBilledOnce
<1>1. IInv => UsageBilledOnce
  BY DEF IInv
<1>. QED  BY StoreInvariant, <1>1, PTL

\* A turn that ended is never changed while its thread lives.
THEOREM EndedTurnsCorrect == Spec => EndedTurnsAreFinal
<1>1. IInv /\ [Next]_vars => [KeepsEndedTurns]_vars
  BY EndedTurnsStep
<1>. QED  BY StoreInvariant, <1>1, PTL DEF Spec, EndedTurnsAreFinal

\* The log of a living thread is append-only.
THEOREM LogGrows == Spec => LogOnlyGrows
<1>1. IInv /\ [Next]_vars => [AppendsOnly]_vars
  BY LogStepAppends
<1>. QED  BY StoreInvariant, <1>1, PTL DEF Spec, LogOnlyGrows
=============================================================================
