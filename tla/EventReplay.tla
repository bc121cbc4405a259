---------------------------- MODULE EventReplay ----------------------------
(***************************************************************************)
(* How the events of one thread reach one client: the tasks that write     *)
(* them under RuntimeService's lock (core/runtime/service.py), the         *)
(* broadcaster that pushes them (core/transport/ipc_broadcaster.py), the   *)
(* handler that replays the past to a new subscription and hands it over   *)
(* to live delivery (core/app.py), and the client that deduplicates by its *)
(* cursor (tui/connection.py).                                             *)
(*                                                                         *)
(* asyncio runs one task at a time: a step is what a task does between two *)
(* awaits.  A write runs in a worker thread, which a cancelled task leaves *)
(* behind at work.                                                         *)
(*                                                                         *)
(* An operator defined just before another, with its parameters and a name *)
(* that extends its name, is a mistaken variant of it that nothing here    *)
(* uses: each property is known to fail when a variant takes its place.    *)
(***************************************************************************)
EXTENDS Integers, Sequences, SequencesExt, FiniteSetsExt

CONSTANTS
    Writers,     \* tasks that append runtime events
    BatchSize,   \* events per list_events page (1000 in the code)
    MaxSeq,      \* bound: events ever written
    MaxConns,    \* bound: connections the client makes
    MaxCancels,  \* bound: writers cancelled
    MaxFailures  \* bound: activations that fail in the client

ASSUME ReplayAssumption ==
    /\ BatchSize \in Nat \ {0}
    /\ {MaxSeq, MaxConns, MaxCancels, MaxFailures} \subseteq Nat

VARIABLES
    committed, \* seq of the last durable event
    wpc,       \* what each writer is doing
    unsent,    \* the event each writer has committed and not published
    orphans,   \* writes still at work whose task was cancelled
    unpublished, \* history: durable events that no task will publish
    sub,       \* the broadcaster's subscription: "none", "replaying", "live"
    pending,   \* sub.pending_runtime: events held back during the replay
    handler,   \* where the subscribe handler is
    high,      \* its high_water
    replayed,  \* its cursor
    wire,      \* what the server sent on this connection, not yet received
    conn,      \* "down", "up", or "closing" once the server closed it
    mode,      \* what the client does with events
    cursor,    \* _session_cursors
    target,    \* last_seq of the subscription's reply
    buffer,    \* _activation_buffer
    batch,     \* the part of it being delivered
    delivered, \* the seqs given to the client's handler, in order
    conns,     \* connections made so far
    cancels,   \* cancellations so far
    failures   \* failed activations so far

writerVars == <<committed, wpc, unsent, orphans, unpublished, cancels>>
serverVars == <<sub, pending, handler, high, replayed>>
linkVars == <<wire, conn, conns>>
clientVars == <<mode, cursor, target, buffer, batch, delivered, failures>>
vars == <<writerVars, serverVars, linkVars, clientVars>>

Seqs == 1 .. MaxSeq
Event(n) == [kind |-> "event", seq |-> n]
Reply(n) == [kind |-> "reply", seq |-> n]

Init ==
    /\ committed = 0
    /\ wpc = [w \in Writers |-> "idle"]
    /\ unsent = [w \in Writers |-> 0]
    /\ orphans = 0 /\ cancels = 0 /\ unpublished = {}
    /\ sub = "none" /\ pending = {} /\ handler = "none" /\ high = 0 /\ replayed = 0
    /\ wire = <<>> /\ conn = "down" /\ conns = 0
    /\ mode = "off" /\ cursor = 0 /\ target = 0 /\ buffer = {} /\ batch = {}
    /\ delivered = <<>> /\ failures = 0

-----------------------------------------------------------------------------
(* Sending.  The server never waits for a client: a write whose buffer is  *)
(* over the limit is the last one, and the connection is closed behind it. *)

\* The subscription is gone and its handler fails with ConnectionError.
DropSubscription ==
    /\ sub' = "none"
    /\ pending' = {}
    /\ handler' = "none"

\* The events ns are sent in order, or the buffer fills up at one of them.
SentInFull(ns) ==
    /\ wire' = wire \o [i \in DOMAIN ns |-> Event(ns[i])]
    /\ UNCHANGED <<conn, conns>>
SentUntilFull(ns) ==
    /\ conns < MaxConns
    /\ \E k \in DOMAIN ns : wire' = wire \o [i \in 1 .. k |-> Event(ns[i])]
    /\ conn' = "closing"
    /\ UNCHANGED conns

-----------------------------------------------------------------------------
(* Writers *)

LockFreeUnpublished == \A w \in Writers : wpc[w] # "writing"
LockFree == \A w \in Writers : wpc[w] = "idle"

\* Taking _write_lock and starting the transaction in a worker thread.
Write(w) ==
    /\ wpc[w] = "idle"
    /\ LockFree
    /\ committed + orphans < MaxSeq
    /\ wpc' = [wpc EXCEPT ![w] = "writing"]
    /\ UNCHANGED <<committed, unsent, orphans, unpublished, cancels,
                   serverVars, linkVars, clientVars>>

Commit(w) ==
    /\ wpc[w] = "writing"
    /\ committed' = committed + 1
    /\ unsent' = [unsent EXCEPT ![w] = committed + 1]
    /\ wpc' = [wpc EXCEPT ![w] = "publishing"]
    /\ UNCHANGED <<orphans, unpublished, cancels, serverVars, linkVars, clientVars>>

\* _publish_runtime_event, and IpcEventBroadcaster.handle for this subscription.
\* finish_turn and boot recovery go on to another event under the same lock.
Publish(w) ==
    /\ wpc[w] = "publishing"
    /\ \/ sub = "none" /\ UNCHANGED <<serverVars, linkVars>>
       \/ /\ sub = "replaying"
          /\ pending' = pending \cup {unsent[w]}
          /\ UNCHANGED <<sub, handler, high, replayed, linkVars>>
       \/ /\ sub = "live"
          /\ \/ SentInFull(<<unsent[w]>>) /\ UNCHANGED <<sub, pending, handler>>
             \/ SentUntilFull(<<unsent[w]>>) /\ DropSubscription
          /\ UNCHANGED <<high, replayed>>
    /\ unsent' = [unsent EXCEPT ![w] = 0]
    /\ \E next \in {"idle", "writing"} :
         /\ next = "writing" => committed + orphans < MaxSeq
         /\ wpc' = [wpc EXCEPT ![w] = next]
    /\ UNCHANGED <<committed, orphans, unpublished, cancels, clientVars>>

\* The task is cancelled, as cancel_run does: the lock is released, nothing is
\* published, and a transaction at work in its thread is not stopped.
CancelWriter(w) ==
    /\ wpc[w] # "idle"
    /\ cancels < MaxCancels
    /\ cancels' = cancels + 1
    /\ orphans' = IF wpc[w] = "writing" THEN orphans + 1 ELSE orphans
    /\ unpublished' = unpublished \cup ({unsent[w]} \ {0})
    /\ wpc' = [wpc EXCEPT ![w] = "idle"]
    /\ unsent' = [unsent EXCEPT ![w] = 0]
    /\ UNCHANGED <<committed, serverVars, linkVars, clientVars>>

OrphanCommit ==
    /\ orphans > 0
    /\ orphans' = orphans - 1
    /\ committed' = committed + 1
    /\ unpublished' = unpublished \cup {committed + 1}
    /\ UNCHANGED <<wpc, unsent, cancels, serverVars, linkVars, clientVars>>

-----------------------------------------------------------------------------
(* The subscribe handler *)

\* latest_event_seq, read once the subscription is registered.
ReadHighWater ==
    /\ handler = "registered"
    /\ high' = committed
    /\ handler' = "replaying"
    /\ UNCHANGED <<sub, pending, replayed, writerVars, linkVars, clientVars>>

\* One page of list_events, and replay_runtime_batch.
PageFull == [i \in 1 .. BatchSize |-> replayed + i]
Page == [i \in 1 .. Min({BatchSize, high - replayed}) |-> replayed + i]
ReplayBatch ==
    /\ handler = "replaying"
    /\ replayed < high
    /\ \/ /\ SentInFull(Page)
          /\ replayed' = Last(Page)
          /\ UNCHANGED <<sub, pending, handler>>
       \/ SentUntilFull(Page) /\ DropSubscription /\ UNCHANGED replayed
    /\ UNCHANGED <<high, writerVars, clientVars>>

\* finish_runtime_replay: the held back events above the cursor, sorted, and the
\* switch to live delivery in the same step.
Sorted(s) ==
    {q \in [1 .. Cardinality(s) -> s] :
        Range(q) = s /\ \A i, j \in DOMAIN q : i < j => q[i] < q[j]}
HeldOffByOne(s, n) == Sorted({m \in s : m > n + 1})
Held(s, n) == Sorted({m \in s : m > n})
FinishReplay ==
    /\ handler = "replaying"
    /\ replayed >= high
    /\ \E held \in Held(pending, replayed) :
        \/ /\ SentInFull(held)
           /\ sub' = "live"
           /\ pending' = {}
           /\ handler' = "replying"
           /\ replayed' = IF held = <<>> THEN replayed ELSE Last(held)
        \/ SentUntilFull(held) /\ DropSubscription /\ UNCHANGED replayed
    /\ UNCHANGED <<high, writerVars, clientVars>>

SendReply ==
    /\ handler = "replying"
    /\ wire' = Append(wire, Reply(replayed))
    /\ handler' = "none"
    /\ UNCHANGED <<sub, pending, high, replayed, conn, conns, writerVars, clientVars>>

-----------------------------------------------------------------------------
(* The client *)

\* event.subscribe with after_seq at the cursor.  The reply of a request is
\* awaited before the next one, so a request reaches an idle handler.
SubscribeFrom(n) ==
    /\ sub' = "replaying"
    /\ pending' = {}
    /\ handler' = "registered"
    /\ replayed' = n
    /\ high' = 0

\* A connection, on which a restored session is activated, and one that has just
\* been created subscribed without activation.
Connect ==
    /\ conn = "down"
    /\ conns < MaxConns
    /\ conn' = "up"
    /\ conns' = conns + 1
    /\ wire' = <<>>
    /\ SubscribeFrom(cursor)
    /\ mode' \in {"activating"} \cup IF conns = 0 THEN {"live"} ELSE {}
    /\ buffer' = {} /\ batch' = {}
    /\ UNCHANGED <<cursor, target, delivered, failures, writerVars>>

\* The connection is lost with all that was on it, or the client reads the end
\* of one that the server closed.
Disconnect ==
    /\ \/ conn = "up" /\ conns < MaxConns
       \/ conn = "closing" /\ wire = <<>>
    /\ conn' = "down"
    /\ wire' = <<>>
    /\ DropSubscription
    /\ mode' = "off"
    /\ buffer' = {} /\ batch' = {}
    /\ UNCHANGED <<high, replayed, conns, cursor, target, delivered, failures, writerVars>>

\* _dispatch_runtime_event
SeenNever(n) == FALSE
Seen(n) == n <= cursor
DeliverNow(n) ==
    /\ delivered' = Append(delivered, n)
    /\ cursor' = n
ReceiveEvent ==
    /\ wire # <<>> /\ Head(wire).kind = "event"
    /\ wire' = Tail(wire)
    /\ LET n == Head(wire).seq IN
         \/ /\ mode = "fenced" \/ Seen(n)
            /\ UNCHANGED <<cursor, buffer, delivered>>
         \/ /\ mode \in {"activating", "draining"} /\ ~Seen(n)
            /\ buffer' = buffer \cup {n}
            /\ UNCHANGED <<cursor, delivered>>
         \/ /\ mode = "live" /\ ~Seen(n)
            /\ DeliverNow(n)
            /\ UNCHANGED buffer
    /\ UNCHANGED <<mode, target, batch, failures, conn, conns, writerVars, serverVars>>

\* The reply to event.subscribe; an activation goes on to prepare the view.
ReceiveReply ==
    /\ wire # <<>> /\ Head(wire).kind = "reply"
    /\ wire' = Tail(wire)
    /\ IF mode = "activating"
         THEN mode' = "draining" /\ target' = Head(wire).seq
         ELSE UNCHANGED <<mode, target>>
    /\ UNCHANGED <<cursor, buffer, batch, delivered, failures, conn, conns,
                   writerVars, serverVars>>

\* The loop of _activate_session_locked over the buffer, one delivery a step.
TakeBatch ==
    /\ mode = "draining" /\ batch = {} /\ buffer # {}
    /\ batch' = buffer
    /\ buffer' = {}
    /\ UNCHANGED <<mode, cursor, target, delivered, failures, writerVars, serverVars, linkVars>>

DeliverBatched ==
    /\ mode = "draining" /\ batch # {}
    /\ \E n \in batch :
         /\ \A m \in batch : n <= m
         /\ batch' = batch \ {n}
         /\ IF Seen(n) THEN UNCHANGED <<cursor, delivered>> ELSE DeliverNow(n)
    /\ UNCHANGED <<mode, target, buffer, failures, writerVars, serverVars, linkVars>>

DrainedEarly == batch = {}
Drained == batch = {} /\ buffer = {}
FinishActivation ==
    /\ mode = "draining" /\ Drained
    /\ cursor' = Max({cursor, target})
    /\ mode' = "live"
    /\ UNCHANGED <<target, buffer, batch, delivered, failures, writerVars, serverVars, linkVars>>

\* Preparing the view or a delivery raises: the session is fenced, the new
\* subscription removed.
FailActivation ==
    /\ mode = "draining"
    /\ failures < MaxFailures
    /\ failures' = failures + 1
    /\ mode' = "fenced"
    /\ buffer' = {} /\ batch' = {}
    /\ DropSubscription
    /\ UNCHANGED <<cursor, target, delivered, high, replayed, writerVars, linkVars>>

\* The user activates the session again on the same connection.
Reactivate ==
    /\ mode = "fenced" /\ conn = "up"
    /\ mode' = "activating"
    /\ SubscribeFrom(cursor)
    /\ UNCHANGED <<cursor, target, buffer, batch, delivered, failures, writerVars, linkVars>>

-----------------------------------------------------------------------------
Server == ReadHighWater \/ ReplayBatch \/ FinishReplay \/ SendReply
Client == ReceiveEvent \/ ReceiveReply \/ TakeBatch \/ DeliverBatched \/ FinishActivation

Next ==
    \/ \E w \in Writers : Write(w) \/ Commit(w) \/ Publish(w) \/ CancelWriter(w)
    \/ OrphanCommit
    \/ ReadHighWater \/ ReplayBatch \/ FinishReplay \/ SendReply
    \/ Connect \/ Disconnect
    \/ ReceiveEvent \/ ReceiveReply
    \/ TakeBatch \/ DeliverBatched \/ FinishActivation
    \/ FailActivation \/ Reactivate

Spec == Init /\ [][Next]_vars

\* A task that can run does: a publication, a handler and the client's loops are
\* never starved, and the client reconnects for ever (the bounds end that).
FairSpec ==
    /\ Spec
    /\ \A w \in Writers : WF_vars(Commit(w)) /\ WF_vars(Publish(w))
    /\ WF_vars(Server)
    /\ WF_vars(Client)
    /\ WF_vars(Connect)
    /\ WF_vars(conn = "closing" /\ Disconnect)

-----------------------------------------------------------------------------
(* Properties *)

\* The types of the state.
TypeOK ==
    /\ committed \in 0 .. MaxSeq
    /\ wpc \in [Writers -> {"idle", "writing", "publishing"}]
    /\ unsent \in [Writers -> Seqs \cup {0}]
    /\ orphans \in 0 .. MaxCancels
    /\ sub \in {"none", "replaying", "live"}
    /\ handler \in {"none", "registered", "replaying", "replying"}
    /\ pending \cup buffer \cup batch \cup unpublished \subseteq 1 .. committed
    /\ conn \in {"down", "up", "closing"}
    /\ mode \in {"off", "activating", "draining", "live", "fenced"}
    /\ \A m \in Range(wire) : m.kind \in {"event", "reply"} /\ m.seq \in Seqs \cup {0}
    /\ {cursor, target, high, replayed} \subseteq Seqs \cup {0}

\* What the comment at the sequence boundary of record_bus_event rules out: a
\* client confirms a seq, by the cursor it sends as after_seq, and so skips a
\* smaller one for good.
CursorNeverSkips == \A n \in 1 .. cursor : n \in Range(delivered)

\* The same where no writer was cancelled: the cursor, which an activation also
\* moves to a high water captured long before, passes only events the client has
\* been given, or that a cancelled task left unpublished.
CursorConfirmsDelivered ==
    \A n \in 1 .. cursor : n \in Range(delivered) \cup unpublished

OnWire == {m.seq : m \in {e \in Range(wire) : e.kind = "event"}}

\* Once a subscription is live, every committed event is delivered, on its way to
\* the client, or in the hands of a writer about to publish it, unless its writer
\* was cancelled: the handover from replay to live delivery drops nothing.
HandoverLosesNothing ==
    sub = "live" /\ mode # "fenced" =>
        \A n \in 1 .. committed :
            \/ n <= cursor
            \/ n \in OnWire \cup buffer \cup batch \cup unpublished
            \/ \E w \in Writers : unsent[w] = n

\* Every committed event reaches the client, unless its writer was cancelled, or an
\* activation failed and the user does not open the session again.
EventuallyDelivered ==
    \A n \in Seqs :
        committed >= n ~> n \in Range(delivered) \cup unpublished \/ mode = "fenced"

\* The stream implements ordered delivery: each event once, in ascending order,
\* whatever replay, held back and live events overlap, and nothing left out but
\* what a cancelled task left unpublished.
Ordered == INSTANCE OrderedDelivery
ImplementsOrderedDelivery == Ordered!Spec
=============================================================================
