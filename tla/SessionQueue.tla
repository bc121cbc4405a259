---------------------------- MODULE SessionQueue ----------------------------
(***************************************************************************)
(* The messages a user hands to a session while it works, from the call    *)
(* that accepts one to the conversation that receives it: the durable      *)
(* queue (core/runtime/store.py, runtime_message_queue), its dispatcher    *)
(* task, the turns that hold the session lock, the native loop of a run    *)
(* that claims follow-ups and drains steering, and cancel_run              *)
(* (core/session/manager.py, core/agent_runtime, core/interaction.py).     *)
(*                                                                         *)
(* asyncio runs one task at a time: a step is what a task does between two *)
(* awaits.  A queue operation of the store is one step.                    *)
(*                                                                         *)
(* An operator defined just before another, with its parameters and a name *)
(* that extends its name, is a mistaken variant of it that nothing here    *)
(* uses: each property is known to fail when a variant takes its place.    *)
(***************************************************************************)
EXTENDS Integers, FiniteSets, Sequences, SequencesExt, Functions

CONSTANTS
    MaxMessages, \* bound: messages queued or steered
    MaxTurns,    \* bound: turns the user starts with a message of their own
    MaxSteers,   \* bound: messages given as steering
    MaxRetries,  \* bound: blocked messages the user retries
    MaxStops,    \* bound: calls of cancel_run
    MaxFailures, \* bound: turns and runs that fail
    MaxCrashes   \* bound: restarts of the daemon

ASSUME QueueAssumption ==
    {MaxMessages, MaxTurns, MaxSteers, MaxRetries, MaxStops, MaxFailures, MaxCrashes}
        \subseteq Nat

VARIABLES
    queue,    \* ids of the rows, in the order of created_at
    status,   \* where each message is
    steering, \* steering accepted and not drained
    drained,  \* steering the loop has drained and not appended
    log,      \* messages given to the conversation, in order
    retried,  \* how often the user retried each message
    removed,  \* messages the user removed
    barred,   \* messages a stop found pending and the user has not retried
    wakeup,   \* the dispatcher's event is set
    dpc,      \* where the dispatcher is
    held,     \* the message it claimed, or 0
    owner,    \* who runs the turn: "user", "dispatcher", "none"
    phase,    \* where the turn is
    failed,   \* send_message of this turn raises
    runner,   \* the runner task: "none", "active", "done"
    loop,     \* where its native loop is
    claimed,  \* follow-ups the loop claimed, in order
    orphans,  \* store operations at work for a cancelled run: 0 claims, m removes m
    stop,     \* where cancel_run is
    saved,    \* steering it took from the run
    listed,   \* rows it has still to block
    finished, \* the stopped run's active.finished is set
    aborted,  \* a cancel_run has raised, or did not survive a restart
    retaken,  \* steering a cancel_run took back from its run
    used      \* how much of each bound is used up

rowVars == <<queue, status, log, retried, removed, barred>>
dispatchVars == <<wakeup, dpc, held>>
turnVars == <<owner, phase, failed>>
runVars == <<runner, loop, claimed, steering, drained, orphans>>
stopVars == <<stop, saved, listed, finished, aborted, retaken>>
vars == <<rowVars, dispatchVars, turnVars, runVars, stopVars, used>>

Messages == 1 .. MaxMessages
Statuses == {"new", "steered", "queued", "dispatching", "blocked", "gone", "dropped"}
Limit == [turns |-> MaxTurns, steers |-> MaxSteers, retries |-> MaxRetries,
          stops |-> MaxStops, failures |-> MaxFailures, crashes |-> MaxCrashes]
Use(b) == used[b] < Limit[b] /\ used' = [used EXCEPT ![b] = @ + 1]

Init ==
    /\ queue = <<>> /\ status = [m \in Messages |-> "new"] /\ log = <<>>
    /\ retried = [m \in Messages |-> 0] /\ removed = {} /\ barred = {}
    /\ wakeup = FALSE /\ dpc = "off" /\ held = 0
    /\ owner = "none" /\ phase = "none" /\ failed = FALSE
    /\ runner = "none" /\ loop = "idle" /\ claimed = <<>> /\ steering = <<>>
    /\ drained = <<>> /\ orphans = {}
    /\ stop = "none" /\ saved = <<>> /\ listed = <<>> /\ finished = FALSE
    /\ aborted = FALSE /\ retaken = {}
    /\ used = [b \in DOMAIN Limit |-> 0]

Locked == phase \in {"preparing", "persisting", "starting", "running", "ending"}
Paused == stop \in {"cancelling", "saving", "listing", "blocking", "waiting"}
Row(m) == m \in Range(queue)
Queued == {m \in Range(queue) : status[m] = "queued"}

-----------------------------------------------------------------------------
(* The rows *)

Mark(m, s) == status' = [status EXCEPT ![m] = s] /\ UNCHANGED queue
Insert(m) ==
    /\ queue' = Append(queue, m)
    /\ status' = [status EXCEPT ![m] = "queued"]
Delete(m) ==
    /\ \E k \in DOMAIN queue : queue[k] = m /\ queue' = RemoveAt(queue, k)
    /\ status' = [status EXCEPT ![m] = "gone"]

\* claim_next_queued_message takes the oldest queued row.
Claim(m) ==
    /\ \E k \in DOMAIN queue : queue[k] = m /\ \A j \in 1 .. k - 1 : queue[j] \notin Queued
    /\ m \in Queued /\ Mark(m, "dispatching")

\* defer_queued_message and retry_queued_message demand the status they change.
Deferrable(m) == Row(m) /\ status[m] = "dispatching"

\* _schedule_queue_dispatch: the event is set, and a task runs.
Schedule ==
    /\ wakeup' = TRUE
    /\ dpc' = IF dpc = "off" THEN "start" ELSE dpc
    /\ UNCHANGED held

\* The dispatcher's task ends; its callback starts another if the event is set.
ReturnHolding == dpc' = (IF wakeup THEN "start" ELSE "off") /\ UNCHANGED <<held, wakeup>>
Return ==
    /\ dpc' = IF wakeup THEN "start" ELSE "off"
    /\ held' = 0
    /\ UNCHANGED wakeup

\* It looks for the next message at once.
AgainOnCall == dpc' = "off" /\ held' = 0 /\ UNCHANGED wakeup
Again == wakeup' = TRUE /\ dpc' = "start" /\ held' = 0

-----------------------------------------------------------------------------
(* The user's calls *)

NextMessage(m) == status[m] = "new" /\ \A n \in Messages : n < m => status[n] # "new"

QueueMessage(m) ==
    /\ NextMessage(m)
    /\ Insert(m)
    /\ Schedule
    /\ UNCHANGED <<log, retried, removed, barred, turnVars, runVars, stopVars, used>>

\* A running message cannot be removed.
RemoveQueued(m) ==
    /\ Row(m) /\ status[m] # "dispatching"
    /\ Delete(m)
    /\ removed' = removed \cup {m}
    /\ UNCHANGED <<log, retried, barred, dispatchVars, turnVars, runVars, stopVars, used>>

RetryQueued(m) ==
    /\ Row(m) /\ status[m] = "blocked"
    /\ Use("retries")
    /\ Mark(m, "queued")
    /\ retried' = [retried EXCEPT ![m] = @ + 1]
    /\ barred' = barred \ {m}
    /\ Schedule
    /\ UNCHANGED <<log, removed, turnVars, runVars, stopVars>>

\* steer_run, while the run is registered.
SteerRun(m) ==
    /\ runner = "active" /\ phase = "running"
    /\ NextMessage(m)
    /\ Use("steers")
    /\ Mark(m, "steered")
    /\ steering' = Append(steering, m)
    /\ UNCHANGED <<log, retried, removed, barred, dispatchVars, turnVars,
                   runner, loop, claimed, drained, orphans, stopVars>>

-----------------------------------------------------------------------------
(* Turns: send_message, by the user or by the dispatcher *)

\* preflight_turn_start takes the reservation.
Reserve(who) ==
    /\ phase = "none"
    /\ phase' = "reserved"
    /\ owner' = who
    /\ failed' = FALSE

UserTurn ==
    /\ Use("turns")
    /\ Reserve("user")
    /\ UNCHANGED <<rowVars, dispatchVars, runVars, stopVars>>

TakeLock ==
    /\ phase = "reserved"
    /\ phase' = "preparing"
    /\ UNCHANGED <<owner, failed, rowVars, dispatchVars, runVars, stopVars, used>>

\* Everything is ready: the runner task is created and the run can be stopped.
Register ==
    /\ phase = "preparing"
    /\ phase' = "persisting"
    /\ runner' = "active" /\ loop' = "idle"
    /\ UNCHANGED <<owner, failed, rowVars, dispatchVars, claimed, steering, drained,
                   orphans, stopVars, used>>

\* append_message: the conversation has the message.
Deliver(m) == log' = Append(log, m)
AppendMessage ==
    /\ phase = "persisting"
    /\ phase' = "starting"
    /\ IF owner = "dispatcher" THEN Deliver(held) ELSE UNCHANGED log
    /\ UNCHANGED <<owner, failed, queue, status, retried, removed, barred,
                   dispatchVars, runVars, stopVars, used>>

\* start_turn waits for the write lock behind a claim under way.
Starts == phase = "starting" /\ dpc \notin {"claiming", "sending"}
StartTurn ==
    /\ Starts
    /\ phase' = "running"
    /\ UNCHANGED <<owner, failed, rowVars, dispatchVars, runVars, stopVars, used>>

\* What the run had in memory is dropped when its task ends.
EndRun ==
    /\ runner' = "done"
    /\ loop' = "idle"
    /\ claimed' = <<>>
    /\ steering' = <<>> /\ drained' = <<>>
LoseSteering ==
    /\ status' = [m \in Messages |-> IF m \in Range(steering) \cup Range(drained)
                                      THEN "dropped" ELSE status[m]]
    /\ UNCHANGED queue

\* active.finished, which every end of a registered turn sets.
FinishOnReturn(ended) == finished' = (finished \/ (ended /\ phase = "ending"))
Finish(ended) == finished' = (finished \/ ended)

\* A hook, a plan or the route refuses the turn, or start_turn fails.
TurnFails ==
    /\ phase = "preparing" \/ Starts
    /\ Use("failures")
    /\ failed' = TRUE
    /\ phase' = "released"
    /\ Finish(phase = "starting")
    /\ IF phase = "starting"
         THEN EndRun /\ UNCHANGED orphans
         ELSE UNCHANGED runVars
    /\ UNCHANGED <<owner, rowVars, dispatchVars, stop, saved, listed, aborted, retaken>>

\* The runner task is done; finish_turn is under way.
AwaitRunner ==
    /\ phase = "running" /\ runner = "done"
    /\ phase' = "ending"
    /\ UNCHANGED <<owner, failed, rowVars, dispatchVars, runVars, stopVars, used>>

\* active.finished is set and the session lock released.
ReleaseLock ==
    /\ phase = "ending"
    /\ phase' = "released"
    /\ runner' = "none"
    /\ Finish(TRUE)
    /\ UNCHANGED <<owner, failed, rowVars, dispatchVars, loop, claimed, steering, drained,
                   orphans, stop, saved, listed, aborted, retaken, used>>

\* send_message drops its reservation and returns or raises, and the dispatcher
\* removes or blocks the message.
SettleSent == "removing"
SettleDeferred == IF failed THEN "deferring" ELSE "removing"
Settle == IF failed THEN "blocking" ELSE "removing"
EndTurn ==
    /\ phase = "released"
    /\ phase' = "none" /\ owner' = "none" /\ failed' = FALSE
    /\ runner' = "none"
    /\ dpc' = IF owner = "dispatcher" THEN Settle ELSE dpc
    /\ UNCHANGED <<rowVars, wakeup, held, loop, claimed, steering, drained, orphans,
                   stopVars, used>>

-----------------------------------------------------------------------------
(* The dispatcher: _dispatch_queued_messages *)

DispatchStart ==
    /\ dpc = "start"
    /\ wakeup' = FALSE
    /\ dpc' = "polling"
    /\ UNCHANGED <<held, rowVars, turnVars, runVars, stopVars, used>>

DispatchPoll ==
    /\ dpc = "polling" /\ ~Locked
    /\ IF Paused THEN Return ELSE dpc' = "claiming" /\ UNCHANGED <<wakeup, held>>
    /\ UNCHANGED <<rowVars, turnVars, runVars, stopVars, used>>

DispatchClaim ==
    /\ dpc = "claiming"
    /\ \/ /\ \E m \in Messages : Claim(m) /\ held' = m
          /\ dpc' = "sending"
          /\ UNCHANGED wakeup
       \/ Queued = {} /\ Return /\ UNCHANGED <<queue, status>>
    /\ UNCHANGED <<log, retried, removed, barred, turnVars, runVars, stopVars, used>>

DispatchSend ==
    /\ dpc = "sending"
    /\ \/ Reserve("dispatcher") /\ dpc' = "turn" /\ UNCHANGED used
       \/ phase # "none" /\ dpc' = "deferring" /\ UNCHANGED <<turnVars, used>>
       \/ phase = "none" /\ Use("failures") /\ dpc' = "blocking" /\ UNCHANGED turnVars
    /\ UNCHANGED <<wakeup, held, rowVars, runVars, stopVars>>

\* The session was busy.
DispatchDefer ==
    /\ dpc = "deferring"
    /\ \/ /\ Deferrable(held)
          /\ Mark(held, "queued")
          /\ Again
       \/ ~Deferrable(held) /\ Return /\ UNCHANGED <<queue, status>>
    /\ UNCHANGED <<log, retried, removed, barred, turnVars, runVars, stopVars, used>>

DispatchBlock ==
    /\ dpc = "blocking"
    /\ IF Row(held) THEN Mark(held, "blocked") ELSE UNCHANGED <<queue, status>>
    /\ Return
    /\ UNCHANGED <<log, retried, removed, barred, turnVars, runVars, stopVars, used>>

DispatchRemove ==
    /\ dpc = "removing"
    /\ \/ /\ Row(held)
          /\ Delete(held)
          /\ Again
       \/ ~Row(held) /\ Return /\ UNCHANGED <<queue, status>>
    /\ UNCHANGED <<log, retried, removed, barred, turnVars, runVars, stopVars, used>>

-----------------------------------------------------------------------------
(* The native loop of a run.  A cancelled task takes no further step of it. *)

Looping == runner = "active" /\ phase = "running" /\ stop # "cancelling"

\* drain_messages takes one message, or (in mode "all") every one.  The loop goes on
\* to its step, which awaits, and appends them there.
DrainSteering ==
    /\ Looping /\ loop = "idle" /\ drained = <<>> /\ steering # <<>>
    /\ \/ drained' = <<Head(steering)>> /\ steering' = Tail(steering)
       \/ drained' = steering /\ steering' = <<>>
    /\ UNCHANGED <<rowVars, dispatchVars, turnVars, runner, loop, claimed, orphans,
                   stopVars, used>>

AppendSteering ==
    /\ Looping /\ loop = "idle" /\ drained # <<>>
    /\ Deliver(Head(drained))
    /\ Mark(Head(drained), "gone")
    /\ drained' = Tail(drained)
    /\ UNCHANGED <<retried, removed, barred, dispatchVars, turnVars, runner, loop,
                   claimed, steering, orphans, stopVars, used>>

\* next_follow_up, once there is no steering.  Its claim waits for the write
\* lock behind what the dispatcher asked for first.
AskFollowUpUnordered == TRUE
AskFollowUp == dpc \notin {"claiming", "sending", "deferring"}
FollowUp ==
    /\ Looping /\ loop = "idle" /\ drained = <<>> /\ steering = <<>>
    /\ AskFollowUp
    /\ loop' = IF Paused THEN "finishing" ELSE "claiming"
    /\ UNCHANGED <<rowVars, dispatchVars, turnVars, runner, claimed, steering, drained,
                   orphans, stopVars, used>>

\* Nothing to claim ends the loop, or the batch.
Conclude(batch) == loop' = IF batch = <<>> THEN "finishing" ELSE "emitting"
FollowUpClaim ==
    /\ Looping /\ loop = "claiming"
    /\ \/ /\ \E m \in Messages : Claim(m) /\ claimed' = Append(claimed, m)
          /\ loop' = "claimed"
       \/ Queued = {} /\ Conclude(claimed) /\ UNCHANGED <<queue, status, claimed>>
    /\ UNCHANGED <<log, retried, removed, barred, dispatchVars, turnVars, runner,
                   steering, drained, orphans, stopVars, used>>

\* The message fits the run (in follow_up_mode "all" the next one is claimed too),
\* needs a turn of its own, or is refused.  Deferring what is no longer dispatching
\* raises, and ends the run.
FollowUpDecide ==
    /\ Looping /\ loop = "claimed"
    /\ LET m == Last(claimed) IN
         \/ /\ loop' \in {"emitting", "claiming"}
            /\ UNCHANGED <<queue, status, claimed, runner, steering, drained, used>>
         \/ /\ Deferrable(m)
            /\ Mark(m, "queued")
            /\ claimed' = Front(claimed) /\ Conclude(claimed')
            /\ UNCHANGED <<runner, steering, drained, used>>
         \/ ~Deferrable(m) /\ EndRun /\ LoseSteering /\ UNCHANGED used
         \/ /\ Row(m)
            /\ Use("failures")
            /\ Mark(m, "blocked")
            /\ claimed' = Front(claimed) /\ Conclude(claimed')
            /\ UNCHANGED <<runner, steering, drained>>
    /\ UNCHANGED <<log, retried, removed, barred, dispatchVars, turnVars, orphans, stopVars>>

\* append_user: the transcript has the follow-up; admitted() goes on to the row.
FollowUpPersist ==
    /\ Looping /\ loop = "emitting"
    /\ Deliver(Head(claimed))
    /\ loop' = "admitting"
    /\ UNCHANGED <<queue, status, retried, removed, barred, dispatchVars, turnVars,
                   runner, claimed, steering, drained, orphans, stopVars, used>>

FollowUpAdmit ==
    /\ Looping /\ loop = "admitting"
    /\ IF Row(Head(claimed))
         THEN /\ Delete(Head(claimed))
              /\ claimed' = Tail(claimed)
              /\ loop' = IF Tail(claimed) = <<>> THEN "idle" ELSE "emitting"
              /\ UNCHANGED <<runner, steering, drained>>
         ELSE EndRun /\ LoseSteering
    /\ UNCHANGED <<log, retried, removed, barred, dispatchVars, turnVars, orphans,
                   stopVars, used>>

\* No follow-up was left: the run ends, and unregister_run drops its steering.
RunEnds ==
    /\ Looping /\ loop = "finishing"
    /\ EndRun /\ LoseSteering
    /\ UNCHANGED <<log, retried, removed, barred, dispatchVars, turnVars, orphans,
                   stopVars, used>>

\* The model, a step or time limit, or an error ends it anywhere.
RunFails ==
    /\ Looping
    /\ Use("failures")
    /\ EndRun /\ LoseSteering
    /\ UNCHANGED <<log, retried, removed, barred, dispatchVars, turnVars, orphans, stopVars>>

-----------------------------------------------------------------------------
(* cancel_run *)

\* What is pending when the user stops the run: rows that no turn delivers.
Pending == {m \in Range(queue) : status[m] \in {"queued", "dispatching"}}
               \ (Range(log) \cup IF dpc = "turn" THEN {held} ELSE {})
StopRun ==
    /\ stop = "none" /\ runner = "active"
    /\ Use("stops")
    /\ stop' = "cancelling"
    /\ saved' = steering /\ steering' = <<>>
    /\ listed' = <<>> /\ finished' = FALSE
    /\ retaken' = retaken \cup Range(steering)
    /\ barred' = barred \cup Pending
    /\ UNCHANGED <<queue, status, log, retried, removed, dispatchVars, turnVars,
                   runner, loop, claimed, drained, orphans, aborted>>

\* The runner task ends; a transaction it had begun goes on in its thread.
RunCancelled ==
    /\ stop = "cancelling" /\ runner = "active"
    /\ EndRun /\ LoseSteering
    /\ orphans' = orphans \cup IF loop = "claiming" THEN {0}
                               ELSE IF loop = "admitting" THEN {Head(claimed)} ELSE {}
    /\ UNCHANGED <<log, retried, removed, barred, dispatchVars, turnVars, stopVars, used>>

OrphanCommits(x) ==
    /\ orphans' = orphans \ {x}
    /\ IF x = 0
         THEN IF Queued # {} THEN \E m \in Messages : Claim(m) ELSE UNCHANGED <<queue, status>>
         ELSE IF Row(x) THEN Delete(x) ELSE UNCHANGED <<queue, status>>
    /\ UNCHANGED <<log, retried, removed, barred, dispatchVars, turnVars, runner, loop,
                   claimed, steering, drained, stopVars, used>>

StopAwaited ==
    /\ stop = "cancelling" /\ runner # "active"
    /\ stop' = "saving"
    /\ UNCHANGED <<rowVars, dispatchVars, turnVars, runVars, saved, listed, finished, aborted,
                   retaken, used>>

\* Steering the run never read becomes a queued message.
StopSaves ==
    /\ stop = "saving"
    /\ IF saved = <<>>
         THEN stop' = "listing" /\ UNCHANGED <<queue, status, dispatchVars, saved>>
         ELSE Insert(Head(saved)) /\ Schedule /\ saved' = Tail(saved) /\ UNCHANGED stop
    /\ UNCHANGED <<log, retried, removed, barred, turnVars, runVars, listed, finished,
                   aborted, retaken, used>>

UnsentQueued(m) == status[m] = "queued"
Unsent(m) == status[m] \in {"queued", "dispatching"}

\* Some rows, in the order of the queue.
InOrder(rows) ==
    {s \in [1 .. Cardinality(rows) -> rows] :
        /\ Range(s) = rows
        /\ \A i, j \in DOMAIN s : i < j =>
               \E k, l \in DOMAIN queue : k < l /\ queue[k] = s[i] /\ queue[l] = s[j]}
StopLists ==
    /\ stop = "listing"
    /\ listed' \in InOrder({m \in Range(queue) : Unsent(m)})
    /\ stop' = "blocking"
    /\ UNCHANGED <<rowVars, dispatchVars, turnVars, runVars, saved, finished, aborted,
                   retaken, used>>

\* block_queued_message raises RecordNotFoundError when the row is gone.
StopBlocks ==
    /\ stop = "blocking"
    /\ \/ listed = <<>> /\ stop' = "waiting" /\ UNCHANGED <<queue, status, listed, aborted>>
       \/ /\ listed # <<>> /\ Row(Head(listed))
          /\ Mark(Head(listed), "blocked")
          /\ listed' = Tail(listed)
          /\ UNCHANGED <<stop, aborted>>
       \/ /\ listed # <<>> /\ ~Row(Head(listed))
          /\ stop' = "raised"
          /\ aborted' = TRUE
          /\ UNCHANGED <<queue, status, listed>>
    /\ UNCHANGED <<log, retried, removed, barred, dispatchVars, turnVars, runVars,
                   saved, finished, retaken, used>>

StopReturns ==
    /\ \/ stop = "raised"
       \/ stop = "waiting" /\ finished
    /\ stop' = "none"
    /\ UNCHANGED <<rowVars, dispatchVars, turnVars, runVars, saved, listed, finished, aborted,
                   retaken, used>>

-----------------------------------------------------------------------------
(* A restart: recover_queued_messages, and a dispatcher for the session. *)

RecoveredStaleRows(m) == IF status[m] = "steered" THEN "dropped" ELSE status[m]
RecoveredResent(m) ==
    CASE status[m] = "dispatching" -> "queued"
      [] status[m] = "steered" -> "dropped"
      [] OTHER -> status[m]
Recovered(m) ==
    CASE status[m] = "dispatching" -> "blocked"
      [] status[m] = "steered" -> "dropped"
      [] OTHER -> status[m]
Restart ==
    /\ Use("crashes")
    /\ status' = [m \in Messages |-> Recovered(m)]
    /\ Again
    /\ owner' = "none" /\ phase' = "none" /\ failed' = FALSE
    /\ runner' = "none" /\ loop' = "idle" /\ claimed' = <<>> /\ steering' = <<>>
    /\ drained' = <<>> /\ orphans' = {}
    /\ stop' = "none" /\ saved' = <<>> /\ listed' = <<>> /\ finished' = FALSE
    /\ aborted' = (aborted \/ Paused)
    /\ UNCHANGED <<queue, log, retried, removed, barred, retaken>>

-----------------------------------------------------------------------------
Turn == TakeLock \/ Register \/ AppendMessage \/ StartTurn \/ AwaitRunner \/ ReleaseLock \/ EndTurn
Dispatcher ==
    \/ DispatchStart \/ DispatchPoll \/ DispatchClaim \/ DispatchSend
    \/ DispatchDefer \/ DispatchBlock \/ DispatchRemove
Loop == DrainSteering \/ AppendSteering \/ FollowUp \/ FollowUpClaim
            \/ FollowUpDecide \/ FollowUpPersist \/ FollowUpAdmit
Stop == RunCancelled \/ StopAwaited \/ StopSaves \/ StopLists \/ StopBlocks \/ StopReturns

Next ==
    \/ \E m \in Messages : QueueMessage(m) \/ SteerRun(m) \/ RemoveQueued(m) \/ RetryQueued(m)
    \/ UserTurn \/ StopRun
    \/ TakeLock \/ Register \/ AppendMessage \/ StartTurn \/ TurnFails
    \/ AwaitRunner \/ ReleaseLock \/ EndTurn
    \/ DispatchStart \/ DispatchPoll \/ DispatchClaim \/ DispatchSend
    \/ DispatchDefer \/ DispatchBlock \/ DispatchRemove
    \/ DrainSteering \/ AppendSteering \/ FollowUp \/ FollowUpClaim
    \/ FollowUpDecide \/ FollowUpPersist \/ FollowUpAdmit
    \/ RunEnds \/ RunFails
    \/ RunCancelled \/ StopAwaited \/ StopSaves \/ StopLists \/ StopBlocks \/ StopReturns
    \/ \E x \in orphans : OrphanCommits(x)
    \/ Restart

Spec == Init /\ [][Next]_vars

\* No task that can run is starved, and every run comes to its end.
FairSpec ==
    /\ Spec
    /\ WF_vars(Turn) /\ WF_vars(Dispatcher) /\ WF_vars(Loop) /\ WF_vars(Stop)
    /\ WF_vars(RunEnds)

-----------------------------------------------------------------------------
(* Properties *)

\* The types of the state.
TypeOK ==
    /\ Range(queue) \subseteq Messages /\ IsInjective(queue)
    /\ status \in [Messages -> Statuses]
    /\ \A m \in Messages : Row(m) <=> status[m] \in {"queued", "dispatching", "blocked"}
    /\ UNION {Range(s) : s \in {log, steering, drained, claimed, saved, listed}} \subseteq Messages
    /\ held \in Messages \cup {0} /\ (held = 0 <=> dpc \in {"off", "start", "polling", "claiming"})
    /\ owner \in {"none", "user", "dispatcher"} /\ (owner = "none" <=> phase = "none")
    /\ runner \in {"none", "active", "done"}
    /\ orphans \subseteq Messages \cup {0}

Deliveries(m) == Cardinality({k \in DOMAIN log : log[k] = m})

\* Each message is given to the conversation at most once, and once more for each
\* retry the user asked for, whoever claims it: dispatcher, native loop, a
\* cancelled run's thread, or the daemon after a restart.
DeliveredOncePerConfirmation == \A m \in Messages : Deliveries(m) <= 1 + retried[m]

\* A message of the queue disappears only delivered, or removed by the user: no claim,
\* deferral, stop, orphaned write or restart loses one.  Steering that cancel_run took
\* back from its run never drops either, unless that cancel_run raises or the daemon
\* dies under it.  Other steering may be lost, "dropped", and nothing here says it is
\* not: what was accepted after the run's last drain, what the loop had drained and
\* not appended when the run ended, failed or was stopped (cancel_run looks only in
\* the run's deque), and whatever a run held in memory when the daemon died.
NothingLost ==
    \A m \in Messages :
        /\ status[m] = "gone" => m \in Range(log) \cup removed
        /\ m \in retaken => status[m] # "dropped" \/ aborted

\* Messages the user did not retry are delivered in the order they were accepted,
\* however dispatcher, runs, stops and failures claim, defer and block them;
\* steering alone may overtake what is queued.
DeliveredInOrder ==
    \A i, j \in DOMAIN log :
        i < j /\ used.steers = 0 /\ retried[log[i]] = 0 /\ retried[log[j]] = 0
            => log[i] < log[j]

\* A message marked dispatching is in the hands of a task that will settle it.
DispatchingIsOwned ==
    \A m \in Messages :
        status[m] = "dispatching" => m = held \/ m \in Range(claimed) \/ Paused

\* An idle session has no message waiting to be sent.
NothingStranded ==
    dpc = "off" /\ phase = "none" /\ stop = "none" => Queued = {}

\* Both hold as long as no turn or run has failed and nothing was stopped, whatever
\* wakeups, deferrals, retries and restarts meet.
Undisturbed == used.stops = 0 /\ used.failures = 0
DispatchingIsOwnedUndisturbed == Undisturbed => DispatchingIsOwned
NothingStrandedUndisturbed == Undisturbed => NothingStranded

\* After a stop, what was pending is sent only when the user retries it.
StopKeepsMessages == barred \cap Range(log) = {}
StopKeepsMessagesUnlessItRaises == aborted \/ StopKeepsMessages

\* cancel_run comes to an end, whatever turn and dispatcher are doing.
StopEnds == Paused ~> ~Paused

\* Undisturbed, a queued message is settled: delivered, blocked by a restart for the
\* user to retry, or removed.
QueueDrainsUndisturbed ==
    \A m \in Messages :
        status[m] = "queued" ~> status[m] \in {"gone", "blocked"} \/ ~Undisturbed
=============================================================================
