------------------------------- MODULE Fleet --------------------------------
(***************************************************************************)
(* The local fleet: one durable record per workflow worker (fleet.db,      *)
(* core/subagent/registry.py) and one call of the scheduler per execution  *)
(* of it (core/fleet/scheduler.py), which runs a process on the host.      *)
(*                                                                         *)
(* A step of a call is what it does between two awaits or two commits to   *)
(* fleet.db; heartbeats, events and descriptions of a worker decide        *)
(* nothing and are left out.  Workflow composes these steps with the       *)
(* executor that makes the calls.                                          *)
(*                                                                         *)
(* An operator defined just before another, with its parameters and a name *)
(* that extends its name, is a mistaken variant of it that nothing here    *)
(* uses: each property is known to fail when a variant takes its place.    *)
(***************************************************************************)
EXTENDS Integers, FiniteSets

CONSTANTS
    Workers,        \* worker steps of the workflow
    Slots,          \* max_concurrency of the scheduler
    WorkerAttempts, \* max_attempts of a record (10 in the code)
    Answers,        \* what a result of a worker may say: its verdict, or its summary
    Cost            \* the tokens of a result

ASSUME FleetAssumption ==
    /\ Slots \in Nat \ {0}
    /\ WorkerAttempts \in Nat \ {0}
    /\ Answers \in [Workers -> SUBSET BOOLEAN \ {{}}] /\ Cost \in [Workers -> Nat]

VARIABLES
    rec,   \* durable: the record of each worker
    call,  \* where the call for each worker is
    reply, \* what it has to tell its caller
    stray  \* workers of which a process was let go of and may be alive

fleetVars == <<rec, call, reply, stray>>

Active == {"queued", "running"}
Ended == {"completed", "failed", "budget_limited"}
WorkerStatus == Active \cup Ended \cup {"interrupted", "none"}
CallPhases == {"idle", "looking", "queued", "slot", "process", "stopping",
               "failing", "cleanup", "usage", "done", "cancelled"}

Reply(s, a, t) == [status |-> s, answer |-> a, tokens |-> t]
Replies == [status : Ended, answer : BOOLEAN, tokens : Nat]
Failure == Reply("failed", FALSE, 0)

FleetTypeOK ==
    /\ rec \in [Workers -> [status : WorkerStatus, attempt : 1 .. WorkerAttempts,
                            answer : BOOLEAN, usage : Nat]]
    /\ reply \in [Workers -> Replies]
    /\ call \in [Workers -> CallPhases]
    /\ stray \subseteq Workers

FleetInit ==
    /\ rec = [w \in Workers |-> [status |-> "none", attempt |-> 1,
                                 answer |-> FALSE, usage |-> 0]]
    /\ call = [w \in Workers |-> "idle"]
    /\ reply = [w \in Workers |-> Failure]
    /\ stray = {}

-----------------------------------------------------------------------------
(* The registry's transactions *)

Status(w, s) == rec' = [rec EXCEPT ![w].status = s]

\* The processes the supervisor has in its table.
Processes == {w \in Workers : call[w] \in {"process", "stopping", "failing"}}

\* create, or prepare_retry from a record that failed or was interrupted.
Preparable(w) ==
    rec[w].status \in {"failed", "interrupted"} /\ rec[w].attempt < WorkerAttempts
Prepare(w) ==
    \/ rec[w].status = "none" /\ Status(w, "queued")
    \/ /\ Preparable(w)
       /\ rec' = [rec EXCEPT ![w].status = "queued", ![w].attempt = @ + 1]

\* recover_stale: what an earlier daemon left active is interrupted.
RecoverStaleAll ==
    rec' = [w \in Workers |-> IF rec[w].status # "none"
                              THEN [rec[w] EXCEPT !.status = "interrupted"] ELSE rec[w]]
RecoverStale ==
    rec' = [w \in Workers |-> IF rec[w].status \in Active
                              THEN [rec[w] EXCEPT !.status = "interrupted"] ELSE rec[w]]

-----------------------------------------------------------------------------
(* A call of run_worker *)

Advance(w, p) == call' = [call EXCEPT ![w] = p]
Goto(w, p) == Advance(w, p) /\ UNCHANGED stray
Answer(w, r) == reply' = [reply EXCEPT ![w] = r]

Call(w) == call[w] = "idle" /\ Goto(w, "looking") /\ UNCHANGED <<rec, reply>>

Restorable(w) == rec[w].status \in {"completed", "budget_limited"}

\* _restored_result: a finished record answers for its process, without usage.
Restore(w) ==
    /\ call[w] = "looking" /\ Restorable(w)
    /\ Answer(w, Reply(rec[w].status, rec[w].answer, 0))
    /\ Goto(w, "done")
    /\ UNCHANGED rec

\* The registry refuses a record that is active or out of attempts: the
\* exception is the caller's failure.
Refuse(w) ==
    /\ call[w] = "looking" /\ rec[w].status # "none" /\ ~Restorable(w) /\ ~Preparable(w)
    /\ Answer(w, Failure)
    /\ Goto(w, "done")
    /\ UNCHANGED rec

Queue(w) ==
    /\ call[w] = "looking" /\ ~Restorable(w) /\ Prepare(w)
    /\ Goto(w, "queued") /\ UNCHANGED reply

Start(w) ==
    /\ call[w] = "queued" /\ Status(w, "running")
    /\ Goto(w, "slot") /\ UNCHANGED reply

SlotFree == Cardinality(Processes) < Slots
Spawn(w) == call[w] = "slot" /\ SlotFree /\ Goto(w, "process") /\ UNCHANGED <<rec, reply>>

\* The process exits: with a result, or with an exit code or a result that does
\* not parse, which are failures whose usage is not known.
HostReturns(w) ==
    /\ call[w] = "process"
    /\ \/ \E a \in Answers[w] : Answer(w, Reply("completed", a, Cost[w]))
       \/ Answer(w, Reply("budget_limited", FALSE, Cost[w]))
       \/ Answer(w, Failure)
    /\ Goto(w, "cleanup")
    /\ UNCHANGED rec

\* Its pipes break, or it says too much: the host ends it and raises.
HostRaises(w) == call[w] = "process" /\ Goto(w, "failing") /\ UNCHANGED <<rec, reply>>
Failed(w) ==
    /\ call[w] = "failing" /\ Answer(w, Failure)
    /\ Goto(w, "cleanup") /\ UNCHANGED rec

\* The heartbeat task is gone: nothing awaits any more until the caller has its
\* result.
AddTokenUsage(w) ==
    /\ call[w] = "cleanup"
    /\ rec' = [rec EXCEPT ![w].usage = @ + reply[w].tokens]
    /\ Goto(w, "usage") /\ UNCHANGED reply

Record(w) ==
    /\ call[w] = "usage"
    /\ rec' = [rec EXCEPT ![w].status = reply[w].status, ![w].answer = reply[w].answer]
    /\ Goto(w, "done") /\ UNCHANGED reply

\* Cancellation of the caller.  A process is ended first, and the record is
\* interrupted; while the heartbeat task is awaited, nothing is recorded.
CancelProcess(w) ==
    \/ call[w] = "process" /\ Goto(w, "stopping") /\ UNCHANGED <<rec, reply>>
    \/ call[w] = "cleanup" /\ Goto(w, "cancelled") /\ UNCHANGED <<rec, reply>>
Cancel(w) ==
    \/ /\ call[w] = "process" /\ Goto(w, "stopping") /\ UNCHANGED <<rec, reply>>
    \/ /\ call[w] = "slot" /\ Status(w, "interrupted")
       /\ Goto(w, "cancelled") /\ UNCHANGED reply
    \/ /\ call[w] = "cleanup" /\ Goto(w, "cancelled") /\ UNCHANGED <<rec, reply>>

Stopped(w) ==
    /\ call[w] = "stopping" /\ Status(w, "interrupted")
    /\ Goto(w, "cancelled") /\ UNCHANGED reply

\* A cancellation that finds terminate at work cuts it short, in the grace SIGTERM
\* leaves or later.  forget lets go of the process and kills it no more.
Interrupt(w) ==
    /\ call[w] \in {"stopping", "failing"} /\ Status(w, "interrupted")
    /\ Advance(w, "cancelled") /\ UNCHANGED reply
    /\ stray' = stray \cup {w}

Returned(w) == call[w] \in {"done", "cancelled"}
Collect(w) == Returned(w) /\ Goto(w, "idle") /\ Answer(w, Failure) /\ UNCHANGED rec

\* The steps between two awaits, and those that resume from one.
Admit(w) == Restore(w) \/ Refuse(w) \/ Queue(w)
Process(w) == Spawn(w) \/ HostReturns(w) \/ HostRaises(w) \/ Failed(w) \/ Stopped(w)

\* The processes of a daemon that dies may live on.
FleetRestart ==
    /\ RecoverStale
    /\ stray' = stray \cup Processes
    /\ call' = [w \in Workers |-> "idle"] /\ reply' = [w \in Workers |-> Failure]
=============================================================================
