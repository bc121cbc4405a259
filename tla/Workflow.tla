------------------------------ MODULE Workflow ------------------------------
(***************************************************************************)
(* A declarative workflow: the tree of steps WorkflowExecutor interprets   *)
(* (core/workflow/executor.py), the ledger of events that survives the     *)
(* daemon (core/workflow/ledger.py, graph.py), and the fleet its workers   *)
(* run on (Fleet).  The daemon dies and is restarted at any step; the      *)
(* ledger and the records of the workers are what is left, and resume_all  *)
(* runs the workflow again from them.                                      *)
(*                                                                         *)
(* Each event appended to the ledger is one transaction and one step.      *)
(* Every step of the tree is executed by at most one coroutine at a time,  *)
(* so its frame is a function of the node.  asyncio runs one coroutine     *)
(* between two awaits: baton is the one that runs, or Free when all wait.  *)
(***************************************************************************)
EXTENDS Fleet, Sequences, Functions, FiniteSetsExt

CONSTANTS
    Nodes,       \* the steps of the tree
    Root,        \* its root
    Goal,        \* the ledger's node of the whole workflow
    Kind,        \* the type of each step
    Kids,        \* its children, in order: of a branch <<then, else>>, of a gate <<step, reviewer>>
    Source,      \* the node a branch asks
    Limit,       \* max_concurrency of a parallel step, max_attempts of a retry
    Backoff,     \* retries wait before they try again
    TokenBudget, \* of the workflow
    Concurrency, \* workers the workflow runs at a time
    MaxRuns      \* bound: calls of workflow.start and restarts of the daemon

Free == "free"
Main == "main"
Composite == {"sequence", "parallel", "branch", "retry", "gate", "fan_in"}
Gathering == {"parallel", "fan_in"}
AllNodes == Nodes \cup {Goal}

KidSet(n) == Range(Kids[n])
Parent(n) == CHOOSE p \in Nodes : n \in KidSet(p)

\* A subtree: what is in every set that holds n and the children of its members.
Below == [n \in Nodes |-> {m \in Nodes :
    \A S \in SUBSET Nodes : n \in S /\ (\A k \in S : KidSet(k) \subseteq S) => m \in S}]

\* _flatten: the goal, then the tree depth first.
Precedes(m, n) ==
    \/ m = Goal
    \/ m \in Nodes /\ n \in Below[m]
    \/ \E p \in Nodes : \E i, j \in DOMAIN Kids[p] :
           i < j /\ m \in Below[Kids[p][i]] /\ n \in Below[Kids[p][j]]
First(S) == {n \in S : \A m \in S \ {n} : ~Precedes(m, n)}

Arity(k) == CASE k \in {"branch", "gate"} -> {2} [] k = "retry" -> {1} [] k = "worker" -> {0}
              [] OTHER -> Nat \ {0}

\* A definition nests its steps, and the parser refuses an id that occurs twice: no
\* step has two places, and each is below the root.
IsTree ==
    /\ \A n \in Nodes : Root \notin KidSet(n)
    /\ \A m, n \in Nodes : \A i \in DOMAIN Kids[m], j \in DOMAIN Kids[n] :
        Kids[m][i] = Kids[n][j] => m = n /\ i = j
    /\ Below[Root] = Nodes

ASSUME WorkflowAssumption ==
    /\ IsFiniteSet(Nodes) /\ Root \in Nodes /\ {Goal, Free, Main} \cap Nodes = {}
    /\ Kind \in [Nodes -> Composite \cup {"worker"}] /\ Kids \in [Nodes -> Seq(Nodes)]
    /\ \A n \in Nodes : Len(Kids[n]) \in Arity(Kind[n])
    /\ Workers = {n \in Nodes : Kind[n] = "worker"}
    /\ \A g \in Nodes : Kind[g] = "gate" => Kids[g][2] \in Workers
    /\ \A b \in Nodes : Kind[b] = "branch" => Source[b] \in Nodes
    /\ Backoff \in BOOLEAN
    /\ {TokenBudget, Concurrency, MaxRuns} \subseteq Nat
ASSUME TreeAssumption == IsTree

Reviewers == {Kids[g][2] : g \in {n \in Nodes : Kind[n] = "gate"}}

VARIABLES
    flow,    \* durable: the workflow's status
    node,    \* durable: what the ledger says of each node
    main,    \* where run() is, or "off"
    pc,      \* where the frame of each node is
    outcome, \* what the frame returned, until its caller starts over
    baton,   \* who runs
    runs     \* how much of the bound is used up

flowVars == <<flow, node, main, pc, outcome, baton, runs>>
vars == <<fleetVars, flowVars>>

NodeStatus == {"absent", "pending", "running", "completed", "failed", "blocked",
               "skipped", "interrupted", "budget_limited"}
FlowStatus == {"none", "pending", "running", "completed", "failed", "interrupted"}
MainPhases == {"off", "begin", "recover", "register", "start", "goal", "await",
               "closing", "cancelling", "giving_up"}
Frames == {"none", "ready", "call", "run", "gather", "sleep", "semaphore", "host"}
Outcomes == {"none", "ok", "approved", "bad"}
Good == {"ok", "approved"}

TypeOK ==
    /\ FleetTypeOK
    /\ flow \in FlowStatus
    /\ node \in [AllNodes -> [status : NodeStatus, attempt : Nat, answer : BOOLEAN, usage : Nat]]
    /\ main \in MainPhases
    /\ pc \in [Nodes -> Frames] /\ outcome \in [Nodes -> Outcomes]
    /\ baton \in Nodes \cup {Free, Main}
    /\ runs \in 0 .. MaxRuns

Init ==
    /\ FleetInit
    /\ flow = "none"
    /\ node = [n \in AllNodes |-> [status |-> "absent", attempt |-> 0, answer |-> FALSE, usage |-> 0]]
    /\ main = "off"
    /\ pc = [n \in Nodes |-> "none"] /\ outcome = [n \in Nodes |-> "none"]
    /\ baton = Free
    /\ runs = 0

-----------------------------------------------------------------------------
(* The ledger *)

\* apply_workflow_event for the events of a node: node.started counts the
\* attempt, the others set its status.
Event(n, s) ==
    node' = [node EXCEPT ![n].status = s, ![n].attempt = IF s = "running" THEN @ + 1 ELSE @]
WorkerEvent(n, s, r) ==
    node' = [node EXCEPT ![n].status = s, ![n].answer = r.answer, ![n].usage = @ + r.tokens]

\* _recorded_token_usage; between two awaits the executor's own count is the same.
TokensUsed == FoldSet(LAMBDA w, sum : sum + node[w].usage, 0, Workers)

Settled(n) == node[n].status \in {"completed", "skipped"}
Unmarkable == {"completed", "failed", "budget_limited", "skipped", "blocked"}

\* _mark_tree: the first node of the subtrees that is still to be marked.
Unmarked(trees) == {n \in trees : node[n].status \notin Unmarkable}
Mark(trees, s) == \E n \in First(Unmarked(trees)) : Event(n, s)

-----------------------------------------------------------------------------
(* Frames *)

Keep == UNCHANGED <<fleetVars, flow, main, runs>>
KeepLedger == UNCHANGED node
Stay == UNCHANGED <<pc, outcome, baton>>
Enter(n, p, next) ==
    /\ pc' = [pc EXCEPT ![n] = p] /\ baton' = next
    /\ UNCHANGED outcome

\* The coroutine of n returns: to the caller that awaits it, or to gather.
CallerOf(n) ==
    IF n = Root THEN Main ELSE IF Kind[Parent(n)] \in Gathering THEN Free ELSE Parent(n)
Return(n, o) ==
    /\ pc' = [pc EXCEPT ![n] = "none"] /\ outcome' = [outcome EXCEPT ![n] = o]
    /\ baton' = CallerOf(n)

\* The running coroutine awaits _run_step(c).
RunStep(c) ==
    /\ pc' = [pc EXCEPT ![c] = "call"] /\ outcome' = [outcome EXCEPT ![c] = "none"]
    /\ baton' = c

\* _restored_outcome: what the ledger knows of a node that has settled.  A
\* worker's verdict is not part of it; that of a gate is.
RestoredOutcomeStatus(n) == node[n].status
RestoredOutcome(n) ==
    IF Kind[n] = "gate" /\ node[n].status = "completed" THEN "approved" ELSE "ok"

Reusable(n) == Settled(n)
Reuse(n) ==
    /\ pc[n] = "call" /\ Reusable(n)
    /\ Return(n, RestoredOutcome(n)) /\ KeepLedger /\ Keep

StartComposite(n) ==
    /\ pc[n] = "call" /\ ~Reusable(n) /\ Kind[n] # "worker"
    /\ Event(n, "running")
    /\ pc' = [pc EXCEPT ![n] = "run"]
    /\ outcome' = [k \in Nodes |-> IF k \in KidSet(n) THEN "none" ELSE outcome[k]]
    /\ UNCHANGED baton /\ Keep

\* A composite step fails or completes.
Fails(n) == Event(n, "failed") /\ Return(n, "bad")
Completes(n, o) == Event(n, "completed") /\ Return(n, o)

MarkThenFail(n, trees) ==
    \/ Mark(trees, "blocked") /\ Stay
    \/ Unmarked(trees) = {} /\ Fails(n)

LaterThan(n, i) == UNION {Below[Kids[n][j]] : j \in i + 1 .. Len(Kids[n])}
Sequence(n) ==
    \/ (\A k \in KidSet(n) : outcome[k] \in Good) /\ Completes(n, "ok")
    \/ \E i \in DOMAIN Kids[n] :
        /\ \A j \in 1 .. i - 1 : outcome[Kids[n][j]] \in Good
        /\ \/ outcome[Kids[n][i]] = "bad" /\ MarkThenFail(n, LaterThan(n, i))
           \/ outcome[Kids[n][i]] = "none" /\ RunStep(Kids[n][i]) /\ KeepLedger

\* _run_branch asks its source once; no await separates that from the marks.
Matches(n) == node[Source[n]].status = "completed" /\ node[Source[n]].answer
Selected(n) == Kids[n][IF Matches(n) THEN 1 ELSE 2]
Passed(n) == Kids[n][IF Matches(n) THEN 2 ELSE 1]
Branch(n) ==
    \/ (\E k \in KidSet(n) : outcome[k] \in Good) /\ Completes(n, "ok")
    \/ (\E k \in KidSet(n) : outcome[k] = "bad") /\ Fails(n)
    \/ /\ \A k \in KidSet(n) : outcome[k] = "none"
       /\ \/ node[Source[n]].status \in {"pending", "running"} /\ Fails(n)
          \/ /\ node[Source[n]].status \notin {"pending", "running"}
             /\ \/ Mark(Below[Passed(n)], "skipped") /\ Stay
                \/ Unmarked(Below[Passed(n)]) = {} /\ RunStep(Selected(n)) /\ KeepLedger

\* The attempts of a retry are those the ledger counts for its child.
Exhausted(n) == node[Kids[n][1]].attempt >= Limit[n]
Retry(n) ==
    LET c == Kids[n][1]
    IN \/ outcome[c] \in Good /\ Completes(n, "ok")
       \/ outcome[c] \notin Good /\ Exhausted(n) /\ Fails(n)
       \/ /\ outcome[c] = "bad" /\ ~Exhausted(n)
          /\ pc' = [pc EXCEPT ![n] = IF Backoff THEN "sleep" ELSE "run"]
          /\ baton' = (IF Backoff THEN Free ELSE n)
          /\ outcome' = [outcome EXCEPT ![c] = "none"]
          /\ KeepLedger
       \/ outcome[c] = "none" /\ ~Exhausted(n) /\ RunStep(c) /\ KeepLedger

GatePassesCompleted(o) == o \in Good
GatePasses(o) == o = "approved"
Gate(n) ==
    LET target == Kids[n][1]
        reviewer == Kids[n][2]
    IN \/ outcome[target] = "none" /\ RunStep(target) /\ KeepLedger
       \/ outcome[target] = "bad" /\ MarkThenFail(n, {reviewer})
       \/ outcome[target] \in Good /\ outcome[reviewer] = "none" /\ RunStep(reviewer) /\ KeepLedger
       \/ /\ outcome[target] \in Good /\ outcome[reviewer] # "none"
          /\ IF GatePasses(outcome[reviewer]) THEN Completes(n, "approved") ELSE Fails(n)

\* _run_parallel and _run_fan_in make a task of each child and wait for all.
Scatter(n) ==
    /\ pc' = [k \in Nodes |-> IF k = n THEN "gather" ELSE IF k \in KidSet(n) THEN "ready" ELSE pc[k]]
    /\ baton' = Free
    /\ UNCHANGED outcome /\ KeepLedger

StepOf(n) ==
    /\ baton = n /\ pc[n] = "run"
    /\ CASE Kind[n] = "sequence" -> Sequence(n)
         [] Kind[n] = "branch" -> Branch(n)
         [] Kind[n] = "retry" -> Retry(n)
         [] Kind[n] = "gate" -> Gate(n)
         [] Kind[n] \in Gathering -> Scatter(n)
    /\ Keep

Working(n) == pc[n] \notin {"none", "ready"}
Branches(n) == {k \in KidSet(n) : Working(k)}
TakeTurn(n) ==
    /\ pc[n] = "ready"
    /\ Kind[Parent(n)] = "parallel" => Cardinality(Branches(Parent(n))) < Limit[Parent(n)]
    /\ n \in First({k \in KidSet(Parent(n)) : pc[k] = "ready"})
    /\ Enter(n, "call", n) /\ KeepLedger /\ Keep

Gathered(n) == \A k \in KidSet(n) : outcome[k] # "none"
Gather(n) ==
    /\ pc[n] = "gather" /\ Gathered(n)
    /\ IF \A k \in KidSet(n) : outcome[k] \in Good THEN Completes(n, "ok") ELSE Fails(n)
    /\ Keep

WakeUp(n) == pc[n] = "sleep" /\ Enter(n, "run", n) /\ KeepLedger /\ Keep

-----------------------------------------------------------------------------
(* Workers *)

LimitTokens(n) ==
    /\ pc[n] = "call" /\ ~Reusable(n) /\ Kind[n] = "worker"
    /\ TokensUsed >= TokenBudget
    /\ Event(n, "budget_limited") /\ Return(n, "bad") /\ Keep

StartWorker(n) ==
    /\ pc[n] = "call" /\ ~Reusable(n) /\ Kind[n] = "worker"
    /\ TokensUsed < TokenBudget
    /\ Event(n, "running") /\ Enter(n, "semaphore", Free) /\ Keep

Acquire(n) ==
    /\ pc[n] = "semaphore" /\ Cardinality({w \in Workers : pc[w] = "host"}) < Concurrency
    /\ Enter(n, "host", n) /\ KeepLedger
    /\ Call(n)
    /\ UNCHANGED <<flow, main, runs>>

\* Its call of the fleet.
KeepFlow == UNCHANGED flowVars
InCall(n, next) ==
    /\ pc[n] = "host" /\ baton' = next
    /\ UNCHANGED <<flow, node, main, pc, outcome, runs>>

\* The worker's own wall-time.  It cancels once: a call it has cancelled goes on
\* to "stopping", one whose host has raised is cut short.
TimeOut(n) ==
    /\ main = "await" /\ baton = Free
    /\ Cancel(n) \/ (call[n] = "failing" /\ Interrupt(n))
    /\ InCall(n, Free)

\* What the executor appends of the result.  Tokens spent while the worker ran
\* count against it; a call that was cancelled is a failure.
OverspentNever(r) == FALSE
Overspent(r) == TokensUsed + r.tokens > TokenBudget
Result(n) == IF call[n] = "cancelled" THEN Failure ELSE reply[n]
RecordResult(n) ==
    LET r == Result(n)
        s == IF Overspent(r) THEN "budget_limited" ELSE r.status
    IN /\ pc[n] = "host" /\ Collect(n)
       /\ WorkerEvent(n, s, r)
       /\ Return(n, IF s # "completed" THEN "bad"
                    ELSE IF n \in Reviewers /\ r.answer THEN "approved" ELSE "ok")
       /\ UNCHANGED <<flow, main, runs>>

-----------------------------------------------------------------------------
(* The run *)

Flow(s) == flow' = s
At(m) == baton = Main /\ main = m
KeepFrames == UNCHANGED <<pc, outcome>>
Proceed(m) == main' = m /\ UNCHANGED baton
KeepRest == UNCHANGED <<fleetVars, runs>> /\ KeepFrames

\* workflow.start: the definition is saved, and a task runs unless one does.
Submit ==
    /\ main = "off" /\ runs < MaxRuns /\ runs' = runs + 1
    /\ flow' = IF flow = "none" THEN "pending" ELSE flow
    /\ main' = "begin" /\ baton' = Main
    /\ UNCHANGED <<fleetVars, node>> /\ KeepFrames

Exit == main' = "off" /\ baton' = Free

Begin ==
    /\ At("begin")
    /\ \/ flow = "completed" /\ Exit
       \/ flow = "running" /\ Proceed("recover")
       \/ flow \notin {"completed", "running"} /\ Proceed("register")
    /\ UNCHANGED <<flow, node>> /\ KeepRest

\* recover_interrupted
RunningNodes == {n \in AllNodes : node[n].status = "running"}
RecoverNode ==
    /\ At("recover") /\ \E n \in First(RunningNodes) : Event(n, "interrupted")
    /\ UNCHANGED <<flow, main, baton>> /\ KeepRest
RecoverFlow ==
    /\ At("recover") /\ RunningNodes = {}
    /\ Flow("interrupted") /\ Proceed("register") /\ UNCHANGED node /\ KeepRest

\* _ensure_graph_registered: what an earlier run registered stays.
Register ==
    /\ At("register")
    /\ node' = [n \in AllNodes |-> IF node[n].status = "absent"
                                   THEN [node[n] EXCEPT !.status = "pending"] ELSE node[n]]
    /\ Proceed("start") /\ UNCHANGED flow /\ KeepRest

StartFlow ==
    /\ At("start") /\ Flow("running") /\ Proceed("goal") /\ UNCHANGED node /\ KeepRest

StartGoal ==
    /\ At("goal")
    /\ IF node[Goal].status = "completed" THEN KeepLedger ELSE Event(Goal, "running")
    /\ main' = "await" /\ RunStep(Root)
    /\ UNCHANGED <<fleetVars, flow, runs>>

CloseGoal ==
    /\ At("await")
    /\ Event(Goal, IF outcome[Root] \in Good THEN "completed" ELSE "failed")
    /\ Proceed("closing") /\ UNCHANGED flow /\ KeepRest
CloseFlow ==
    /\ At("closing")
    /\ Flow(IF outcome[Root] \in Good THEN "completed" ELSE "failed")
    /\ Exit /\ UNCHANGED node /\ KeepRest

\* The workflow's wall-time: every coroutine below run() is cancelled, and run()
\* resumes when the calls of the fleet have ended.
WallTime ==
    /\ main = "await" /\ baton = Free
    /\ main' = "cancelling"
    /\ pc' = [n \in Nodes |-> IF n \in Workers /\ call[n] # "idle" THEN "host" ELSE "none"]
    /\ UNCHANGED <<fleetVars, flow, node, outcome, baton, runs>>

\* A call that stops its process may be cancelled again: by this wall-time after the
\* worker's own or the other way round, or by _gather_step_tasks once a sibling is
\* cancelled.
CancelCall(n) == main = "cancelling" /\ (Cancel(n) \/ Interrupt(n)) /\ KeepFlow
DropCall(n) ==
    /\ main = "cancelling" /\ Collect(n)
    /\ pc' = [pc EXCEPT ![n] = "none"]
    /\ UNCHANGED <<flow, node, main, outcome, baton, runs>>
CancelledEarly ==
    /\ main = "cancelling"
    /\ main' = "giving_up" /\ baton' = Main
    /\ UNCHANGED <<flow, node>> /\ KeepRest
Cancelled ==
    /\ main = "cancelling" /\ \A n \in Nodes : pc[n] = "none"
    /\ main' = "giving_up" /\ baton' = Main
    /\ UNCHANGED <<flow, node>> /\ KeepRest

\* _interrupt_running, then workflow.failed.
GiveUpNode ==
    /\ At("giving_up") /\ \E n \in First(RunningNodes) : Event(n, "interrupted")
    /\ UNCHANGED <<flow, main, baton>> /\ KeepRest
GiveUp ==
    /\ At("giving_up") /\ RunningNodes = {} /\ Flow("failed") /\ Exit /\ UNCHANGED node /\ KeepRest

\* The daemon dies and is started again: the registry recovers its records and
\* resume_all starts what was under way.
Resumable == flow \in {"running", "interrupted"}
Restart ==
    /\ flow # "none" /\ runs < MaxRuns /\ runs' = runs + 1
    /\ FleetRestart
    /\ pc' = [n \in Nodes |-> "none"] /\ outcome' = [n \in Nodes |-> "none"]
    /\ main' = IF Resumable THEN "begin" ELSE "off"
    /\ baton' = IF Resumable THEN Main ELSE Free
    /\ UNCHANGED <<flow, node>>

-----------------------------------------------------------------------------

\* The coroutine of n runs, or resumes while no other does.
RunsCall(n) ==
    \/ Admit(n) /\ InCall(n, n)
    \/ Start(n) /\ InCall(n, Free)
    \/ Record(n) /\ InCall(n, n)
ResumesCall(n) ==
    \/ Process(n) /\ InCall(n, Free)
    \/ AddTokenUsage(n) /\ InCall(n, n)
Running(n) ==
    /\ baton = n
    /\ \/ Reuse(n) \/ StartComposite(n) \/ StepOf(n) \/ LimitTokens(n) \/ StartWorker(n)
       \/ n \in Workers /\ RunsCall(n)
Resume(n) ==
    /\ baton = Free /\ main = "await"
    /\ \/ TakeTurn(n) \/ Gather(n) \/ WakeUp(n) \/ Acquire(n)
       \/ n \in Workers /\ ResumesCall(n)
Deliver(n) == n \in Workers /\ main = "await" /\ baton \in {Free, n} /\ RecordResult(n)
Frame(n) == Running(n) \/ Resume(n) \/ Deliver(n)
Run ==
    \/ Begin \/ RecoverNode \/ RecoverFlow \/ Register \/ StartFlow \/ StartGoal
    \/ CloseGoal \/ CloseFlow \/ Cancelled \/ GiveUpNode \/ GiveUp
Cancelling(n) ==
    \/ CancelCall(n) \/ DropCall(n)
    \/ main = "cancelling" /\ Stopped(n) /\ InCall(n, Free)
Work == Run \/ (\E n \in Nodes : Frame(n)) \/ (\E n \in Workers : Cancelling(n))
Next == Work \/ Submit \/ Restart \/ WallTime \/ (\E n \in Workers : TimeOut(n))

Spec == Init /\ [][Next]_vars /\ WF_vars(Work) /\ SF_vars(WallTime)

-----------------------------------------------------------------------------
(* Properties *)

\* Every process the daemon holds belongs to a run: its record and its node say that
\* it runs, and none is held, and no node runs, when the workflow is over.  A process
\* that was let go of (stray: its stop was cut short by a second cancellation, or the
\* daemon died) may outlive all that, beside a new process of the same worker; but
\* what it was started for is on record as interrupted, and only a new attempt ends
\* it otherwise (executor.py 300-310, the cancellation of siblings 665-680,
\* scheduler.py 185-198, processes.py 309-339).
ProcessesBelong ==
    /\ \A w \in Processes : {rec[w].status, node[w].status, flow} = {"running"}
    /\ main = "off" /\ flow \in {"completed", "failed"} => Processes = {} /\ RunningNodes = {}
    /\ \A w \in stray : rec[w].status = "interrupted" \/ rec[w].attempt > 1

\* Workers run beside each other on a budget that was checked before they
\* started: what is completed all the same fits in it (executor.py 344-365, 410-432).
CompletedWithinBudget ==
    FoldSet(LAMBDA w, sum : sum + node[w].usage, 0,
            {w \in Workers : node[w].status = "completed"}) <= TokenBudget

\* A result the fleet has recorded is not worked for again, and the attempts of
\* a record stay within its limit, however often the workflow is run
\* (scheduler.py 139-163, registry.py 598-638).
AcceptedResultsStand ==
    [][\A w \in Workers : rec[w].status = "completed" => rec'[w] = rec[w]]_vars

\* The executor, its ledger and the fleet implement the abstract graph.
Graph == INSTANCE WorkGraph WITH
    done <- {n \in Nodes : node[n].status = "completed"},
    skipped <- {n \in Nodes : node[n].status = "skipped"},
    busy <- Processes,
    approved <- {w \in Reviewers : rec[w].status = "completed" /\ rec[w].answer},
    finished <- flow = "completed"
GraphPromise == Graph!Spec

\* The parser asks of the source of a branch only that the tree has it (parser.py 170).
\* What the branch takes cannot change between two runs if its source is below a step
\* that is completed before it.
SourcesPrecede ==
    \A b \in Nodes : Kind[b] = "branch" =>
        \E a \in Nodes : b \in Below[a] /\ \E x \in Graph!Before(a) : Source[b] \in Below[x]

\* A run ends, with or without its wall-time, unless the tokens are used up
\* (executor.py 204-268).
Settles == main # "off" ~> main = "off" \/ TokensUsed >= TokenBudget

\* "Retries the child up to the largest number of attempts" (executor.py 559):
\* so a run ends whatever is left of its tokens.
RunsEnd == main # "off" ~> main = "off"

\* "Nodes that are completed reuse the result of the durable graph" (executor.py
\* 213): so a gate fails only for want of a step or an approval, and a retry
\* only for want of its child.
FailureIsEarned ==
    \A n \in Nodes : node[n].status = "failed" =>
        /\ Kind[n] = "gate" => \/ \E k \in KidSet(n) : node[k].status # "completed"
                               \/ ~rec[Kids[n][2]].answer
        /\ Kind[n] = "retry" => node[Kids[n][1]].status # "completed"
=============================================================================
