------------------------------ MODULE GoalLoop ------------------------------
(***************************************************************************)
(* The durable goals of one session (core/goal/service.py) and who works   *)
(* on them: the turns the session manager links to a goal, the             *)
(* continuations it schedules (core/session/manager.py), the model calls   *)
(* that reserve and settle tokens (core/goal/budget.py), the handlers of   *)
(* clients (core/app.py) and the recovery at boot.                         *)
(*                                                                         *)
(* A mutation of a goal is one transaction on its file.  A step is what a  *)
(* task does between two awaits; GoalService never awaits, so a check and  *)
(* the mutation that follows it in one task are one step.                  *)
(***************************************************************************)
EXTENDS Integers, FiniteSets, FiniteSetsExt

CONSTANTS
    Criteria,     \* completion criteria a goal may declare
    Budget,       \* token_budget of every goal
    Least, Most,  \* what a model call needs at least and asks for
    MaxAutoTurns, \* max_auto_turns of every goal
    MaxWaits,     \* how often a continuation waits for reserved tokens (50 in the code)
    MaxGoals,     \* bound: goals created
    MaxRuns,      \* bound: turns started
    MaxActs,      \* bound: what users ask besides creation
    MaxOutside,   \* bound: calls of background workers
    MaxCrashes    \* bound: restarts of the daemon

ASSUME GoalAssumption ==
    /\ IsFiniteSet(Criteria)
    /\ {Budget, Least, Most, MaxAutoTurns, MaxWaits} \subseteq Nat \ {0} /\ Least <= Most
    /\ {MaxGoals, MaxRuns, MaxActs, MaxOutside, MaxCrashes} \subseteq Nat

Goals == 1 .. MaxGoals
None == 0

VARIABLES
    goal,      \* durable: the goals, in the order of their creation
    turn,      \* the session's turn
    cont,      \* the continuation task
    asking,    \* clients whose send_message has not reached its preflight
    call,      \* model calls in flight: the goal each has reserved tokens of
    used,      \* the bounds used up
    spent,     \* history: tokens the calls of a goal may really have spent
    overspent, \* history: goals of which a provider spent more than it had reserved
    unsettled, \* history: goals of which a settlement failed since the daemon's start
    allowance, \* history: automatic turns the user has agreed to
    lost       \* history: runs since the daemon's start that ended and were not released

vars == <<goal, turn, cont, asking, call, used, spent, overspent, unsettled, allowance, lost>>

Unfinished == {"active", "paused", "blocked"}
GoalStatus == Unfinished \cup {"none", "completed", "cleared"}
Clients == {"create", "resume"}
Callers == {"run", "worker"}
Holders == Callers \cup {"gone"} \* gone: calls that died, or were not settled
Gate == "gate"                   \* evidence of a verification, whatever it covers
TurnPhases == {"none", "reserved", "candidate", "linked", "prepared", "running", "cancelled", "closing"}

GoalRecord ==
    [status : GoalStatus, auto : BOOLEAN, confirm : BOOLEAN,
     used : Nat, lease : [Holders -> 0 .. Budget], turns : 0 .. MaxAutoTurns,
     run : 0 .. MaxRuns, linked : BOOLEAN,
     criteria : SUBSET Criteria, verified : SUBSET (Criteria \cup {Gate})]

TurnRecord ==
    [phase : TurnPhases, by : Clients \cup {"user", "auto"}, of : Goals \cup {None},
     goal : Goals \cup {None}, run : 0 .. MaxRuns, bound : BOOLEAN,
     fate : {"open", "transient", "failed"}, again : BOOLEAN]

ContRecord == [phase : {"none", "waiting", "asking", "turn"}, goal : Goals \cup {None}, waits : 0 .. MaxWaits]

TypeOK ==
    /\ goal \in [Goals -> GoalRecord] /\ turn \in TurnRecord /\ cont \in ContRecord
    /\ asking \in [Clients -> Goals \cup {None}]
    /\ call \in [Callers -> Goals \cup {None}]
    /\ used \in [runs : 0 .. MaxRuns, acts : Nat, outside : Nat, crashes : Nat]
    /\ lost \subseteq 1 .. MaxRuns /\ overspent \subseteq Goals /\ unsettled \subseteq Goals
    /\ spent \in [Goals -> Nat] /\ allowance \in [Goals -> Int]

NoGoal == [status |-> "none", auto |-> FALSE, confirm |-> FALSE, used |-> 0,
           lease |-> [h \in Holders |-> 0], turns |-> 0, run |-> None, linked |-> FALSE,
           criteria |-> {}, verified |-> {}]
NoTurn == [phase |-> "none", by |-> "user", of |-> None, goal |-> None, run |-> None,
           bound |-> FALSE, fate |-> "open", again |-> FALSE]
NoCont == [phase |-> "none", goal |-> None, waits |-> 0]

Init ==
    /\ goal = [g \in Goals |-> NoGoal]
    /\ turn = NoTurn /\ cont = NoCont
    /\ asking = [k \in Clients |-> None] /\ call = [c \in Callers |-> None]
    /\ used = [runs |-> 0, acts |-> 0, outside |-> 0, crashes |-> 0]
    /\ spent = [g \in Goals |-> 0] /\ overspent = {} /\ unsettled = {}
    /\ allowance = [g \in Goals |-> 0] /\ lost = {}

-----------------------------------------------------------------------------
(* The goal record *)

Reserved(r) == r.lease["run"] + r.lease["worker"] + r.lease["gone"]
AvailableUnused(r) == Budget - r.used
Available(r) == Budget - r.used - Reserved(r)

\* What the calls in flight of a goal hold.
InFlight(g) == LET held(c) == IF call[c] = g THEN goal[g].lease[c] ELSE 0
               IN held("run") + held("worker")

Pause(r) == [r EXCEPT !.status = "paused", !.confirm = TRUE]
Block(r) == [r EXCEPT !.status = "blocked", !.confirm = FALSE]

\* current: the session's last goal that is not finished, or none.
IsCurrent(g) ==
    /\ g # None => goal[g].status \in Unfinished
    /\ \A h \in Goals : h > g => goal[h].status \notin Unfinished

TurnsLeftLate(r) == r.turns <= MaxAutoTurns
TurnsLeft(r) == r.turns < MaxAutoTurns

\* _continue_reason; limit is the wall clock's and the authority's.
PauseReasons == {"acceptance", "exhausted", "turns", "limit"}
ContinueReason(r, limit) ==
    CASE ~r.auto -> "disabled"
      [] r.auto /\ r.status # "active" -> "inactive"
      [] OTHER ->
         IF r.run # None THEN "running"
         ELSE IF r.criteria # {} /\ r.criteria \subseteq r.verified THEN "acceptance"
         ELSE IF Available(r) <= 0 THEN IF Reserved(r) > 0 THEN "reserved" ELSE "exhausted"
         ELSE IF ~TurnsLeft(r) THEN "turns"
         ELSE IF limit THEN "limit" ELSE "ready"

\* decide_continue
Decided(r, why) == IF why \in PauseReasons THEN Pause(r) ELSE r

\* start_run asks again, of the first run only for budget and limit.
StartReason(r, limit) ==
    IF r.linked THEN ContinueReason(r, limit)
    ELSE IF limit THEN "limit" ELSE IF Available(r) <= 0 THEN "exhausted" ELSE "ready"

\* finish_run
Finished(r, succeeded, why) ==
    LET s == [r EXCEPT !.run = None]
    IN IF r.status \in {"paused", "cleared"} THEN s
       ELSE IF why = "wall" /\ r.auto THEN Pause(s)
       ELSE IF ~succeeded /\ r.status # "completed" /\ ~(r.auto /\ why = "transient") THEN Block(s)
       ELSE s

\* abort_run, of the run that still holds the goal.
AbortedActive(r, run) == IF r.run = run /\ r.status = "active" THEN Block([r EXCEPT !.run = None]) ELSE r
Aborted(r, run) ==
    IF r.run # run THEN r
    ELSE LET s == [r EXCEPT !.run = None] IN IF r.status = "active" THEN Block(s) ELSE s

\* recover_interrupted
Charged(r) == [r EXCEPT !.lease = [h \in Holders |-> 0],
                        !.used = IF Reserved(r) = 0 THEN @ ELSE Min({@ + Reserved(r), Budget})]
RecoveredUncharged(r) ==
    IF r.status \notin Unfinished \/ (~r.auto /\ r.run = None) THEN r
    ELSE LET s == [r EXCEPT !.run = None] IN IF r.auto THEN Pause(s) ELSE Block(s)
RecoveredAsItWas(r) ==
    IF r.status \notin Unfinished \/ r.run = None THEN r ELSE [Charged(r) EXCEPT !.run = None]
Recovered(r) ==
    IF r.status \notin Unfinished \/ (~r.auto /\ r.run = None) THEN r
    ELSE LET s == [Charged(r) EXCEPT !.run = None] IN IF r.auto THEN Pause(s) ELSE Block(s)

-----------------------------------------------------------------------------
(* Turns *)

Keep == UNCHANGED <<call, spent, overspent, unsettled>>

\* What the caller of send_message does of its goal when that raises: with a
\* HandlerError, or with another exception.
AfterFailure(gs, by, g, handler) ==
    IF \/ by = "create" /\ handler
       \/ by = "resume" /\ handler /\ gs[g].status = "active"
       \/ by = "auto" /\ gs[g].status = "active"
    THEN [gs EXCEPT ![g] = Block(@)] ELSE gs

\* The turn is over, and so is the continuation that awaits it.
Leave ==
    /\ turn' = NoTurn
    /\ cont' = IF turn.by = "auto" THEN NoCont ELSE cont
    /\ UNCHANGED asking
Raise(gs, handler) == goal' = AfterFailure(gs, turn.by, turn.of, handler) /\ Leave

Busy == turn.phase # "none" \/ cont.phase # "none"
Reserve(by, g) ==
    /\ used.runs < MaxRuns
    /\ turn' = [NoTurn EXCEPT !.phase = "reserved", !.by = by, !.of = g, !.run = used.runs + 1]

CountRun == used' = [used EXCEPT !.runs = @ + 1]

\* preflight_turn_start for a client: the session is busy with a turn or with a
\* continuation.
Preflight(k) ==
    /\ asking[k] # None /\ asking' = [asking EXCEPT ![k] = None]
    /\ \/ /\ Busy /\ goal' = AfterFailure(goal, k, asking[k], TRUE)
          /\ UNCHANGED <<turn, used>>
       \/ ~Busy /\ Reserve(k, asking[k]) /\ CountRun /\ UNCHANGED goal
    /\ Keep /\ UNCHANGED <<cont, allowance, lost>>

Advance(phase) == turn' = [turn EXCEPT !.phase = phase]

\* Under the session's lock: the goal the turn is for, and whether it may go on.
Candidate ==
    /\ turn.phase = "reserved"
    /\ \E g \in Goals \cup {None} :
        /\ IsCurrent(g)
        /\ IF g = None \/ goal[g].status # "active"
           THEN Advance("candidate") /\ UNCHANGED <<goal, cont, asking>>
           ELSE \E limit \in BOOLEAN :
                LET why == ContinueReason(goal[g], limit)
                IN IF goal[g].auto /\ goal[g].linked /\ why # "ready"
                   THEN Raise([goal EXCEPT ![g] = Decided(@, why)], TRUE)
                   ELSE /\ turn' = [turn EXCEPT !.phase = "candidate", !.goal = g]
                        /\ UNCHANGED <<goal, cont, asking>>
    /\ Keep /\ UNCHANGED <<used, allowance, lost>>

\* A command, template, route or attachment is refused before the goal is touched.
TurnRefused ==
    /\ turn.phase \in {"reserved", "candidate"}
    /\ \E handler \in BOOLEAN : Raise(goal, handler)
    /\ Keep /\ UNCHANGED <<used, allowance, lost>>

StartRun ==
    /\ turn.phase = "candidate"
    /\ IF turn.goal = None THEN Advance("linked") /\ UNCHANGED <<goal, cont, asking, allowance>>
       ELSE \E limit \in BOOLEAN :
            LET g == turn.goal
                why == IF goal[g].auto THEN StartReason(goal[g], limit) ELSE "ready"
            IN IF goal[g].status # "active" \/ goal[g].run # None
               THEN Raise(goal, FALSE) /\ UNCHANGED allowance
               ELSE IF why # "ready"
               THEN Raise([goal EXCEPT ![g] = Decided(@, why)], FALSE) /\ UNCHANGED allowance
               ELSE /\ goal' = [goal EXCEPT ![g].run = turn.run, ![g].linked = TRUE,
                                            ![g].turns = IF goal[g].auto THEN @ + 1 ELSE @]
                    /\ allowance' = [allowance EXCEPT ![g] = @ - 1]
                    /\ Advance("linked") /\ UNCHANGED <<cont, asking>>
    /\ Keep /\ UNCHANGED <<used, lost>>

\* The turn fails and leaves the goal to its run, if it still holds it.
Lose ==
    /\ lost' = lost \cup ({turn.run} \cap {goal[g].run : g \in Goals})
    /\ \E handler \in BOOLEAN : Raise(goal, handler)
    /\ Keep /\ UNCHANGED <<used, allowance>>

\* Extensions are initialised outside of the try that would release the run.
SetupFails == turn.phase = "linked" /\ Lose

\* The runner's task exists, behind a barrier: the run can be cancelled.
Prepare ==
    /\ turn.phase = "linked" /\ Advance("prepared")
    /\ Keep /\ UNCHANGED <<goal, cont, asking, used, allowance, lost>>

\* The runner binds its provider and its update_goal tool to the goal, if the
\* goal is still held by this run.
Launch ==
    /\ turn.phase = "prepared"
    /\ turn' = [turn EXCEPT !.phase = "running",
                            !.bound = turn.goal # None /\ IsCurrent(turn.goal) /\ goal[turn.goal].run = turn.run]
    /\ Keep /\ UNCHANGED <<goal, cont, asking, used, allowance, lost>>

\* A write before the run, or the runner's task, raises, and abort_run releases
\* the run.
TurnFails ==
    /\ turn.phase \in {"prepared", "running"} /\ call["run"] = None
    /\ \E handler \in BOOLEAN :
        Raise(IF turn.goal = None THEN goal ELSE [goal EXCEPT ![turn.goal] = Aborted(@, turn.run)], handler)
    /\ Keep /\ UNCHANGED <<used, allowance, lost>>

\* abort_run cannot write, which is logged; or finish_run cannot, or something
\* raises before it: the messages of extensions that the finally appends, or a
\* second cancellation while the first waits for the runner.
ReleaseFails == turn.phase \in {"prepared", "running", "cancelled"} /\ call["run"] = None /\ Lose

\* _finish_goal_run: the result, and for an automatic goal the decision, which
\* is what continue says unless the run was cancelled.
FinishRun(succeeded, why, limit) ==
    LET g == turn.goal
        r == Finished(goal[g], succeeded, why)
        next == ContinueReason(r, limit)
    IN IF g = None THEN Advance("closing") /\ UNCHANGED goal
       ELSE /\ goal' = [goal EXCEPT ![g] = IF r.auto /\ r.status = "active" THEN Decided(r, next) ELSE r]
            /\ turn' = [turn EXCEPT !.phase = "closing",
                                    !.again = why # "cancelled" /\ next \in {"ready", "reserved"}]

\* How the run has ended.
Reasons == {"", "transient", "failed", "wall", "cancelled"}
Ends(succeeded, why) ==
    /\ call["run"] = None /\ (succeeded <=> why = "")
    /\ \/ turn.phase = "running" /\ turn.fate = "open" /\ why \in {"", "transient", "failed"}
       \/ turn.phase = "running" /\ turn.fate # "open" /\ why = turn.fate
       \/ turn.phase = "running" /\ turn.goal # None /\ goal[turn.goal].auto /\ why = "wall"
       \/ turn.phase = "cancelled" /\ why = "cancelled"

RunEnds ==
    /\ \E succeeded, limit \in BOOLEAN, why \in Reasons :
          Ends(succeeded, why) /\ FinishRun(succeeded, why, limit)
    /\ Keep /\ UNCHANGED <<cont, asking, used, allowance, lost>>

\* _schedule_goal_continuation, and the lock is released.  A continuation whose
\* turn this is counts as one that exists already.
Close ==
    /\ turn.phase = "closing" /\ turn' = NoTurn
    /\ cont' = IF turn.by = "auto" THEN NoCont
               ELSE IF turn.again THEN [NoCont EXCEPT !.phase = "waiting", !.goal = turn.goal] ELSE cont
    /\ Keep /\ UNCHANGED <<goal, asking, used, allowance, lost>>

\* Once the run is released, the decision or a later write or event raises:
\* nothing is scheduled.
CloseFails ==
    /\ \E handler \in BOOLEAN :
        \/ turn.phase = "closing" /\ Raise(goal, handler)
        \/ /\ turn.goal # None
           /\ \E succeeded \in BOOLEAN, why \in Reasons :
                /\ Ends(succeeded, why)
                /\ Raise([goal EXCEPT ![turn.goal] = Finished(@, succeeded, why)], handler)
    /\ Keep /\ UNCHANGED <<used, allowance, lost>>

-----------------------------------------------------------------------------
(* The continuation task *)

\* After its delay it reads the goal again; while tokens are reserved it waits.
PatienceEndless(waits) == TRUE
Patience(waits) == waits + 1 < MaxWaits
Continue ==
    /\ cont.phase = "waiting"
    /\ LET g == cont.goal
       IN IF goal[g].status # "active" THEN cont' = NoCont /\ UNCHANGED goal
          ELSE \E limit \in BOOLEAN :
               LET why == ContinueReason(goal[g], limit)
               IN CASE why = "ready" -> cont' = [cont EXCEPT !.phase = "asking"] /\ UNCHANGED goal
                    [] why = "reserved" /\ Patience(cont.waits) ->
                         cont' = [cont EXCEPT !.waits = IF @ < MaxWaits THEN @ + 1 ELSE @] /\ UNCHANGED goal
                    [] why = "reserved" /\ ~Patience(cont.waits) ->
                         cont' = NoCont /\ goal' = [goal EXCEPT ![g] = Block(@)]
                    [] OTHER -> cont' = NoCont /\ goal' = [goal EXCEPT ![g] = Decided(@, why)]
    /\ Keep /\ UNCHANGED <<turn, asking, used, allowance, lost>>

\* It asks for a turn: while it lives nobody else gets one.
ContinueTurn ==
    /\ cont.phase = "asking" /\ turn.phase = "none"
    /\ Reserve("auto", cont.goal) /\ CountRun /\ cont' = [cont EXCEPT !.phase = "turn"]
    /\ Keep /\ UNCHANGED <<goal, asking, allowance, lost>>

-----------------------------------------------------------------------------
(* Model calls: a run's, and those of workers, background agents and nodes of
   workflows, that outlive the turn they came from. *)

Fate(c, fate) == turn' = IF c = "run" THEN [turn EXCEPT !.fate = fate] ELSE turn
Still == UNCHANGED <<cont, asking, allowance, lost>>
Idle(c) == CASE c = "run" -> turn.phase = "running" /\ turn.bound /\ turn.fate = "open" /\ call["run"] = None
             [] c = "worker" -> call["worker"] = None

\* reserve_token_lease
Reservation(c, g) ==
    /\ Idle(c) /\ goal[g].status # "none"
    /\ IF c = "run" THEN g = turn.goal /\ UNCHANGED used
       ELSE used.outside < MaxOutside /\ used' = [used EXCEPT !.outside = @ + 1]
    /\ LET available == Available(goal[g])
           held == Reserved(goal[g]) > 0
       IN CASE goal[g].status # "active" -> Fate(c, "failed") /\ UNCHANGED <<goal, call>>
            [] goal[g].status = "active" /\ available >= Least ->
                 /\ goal' = [goal EXCEPT ![g].lease[c] = Min({available, Most})]
                 /\ call' = [call EXCEPT ![c] = g] /\ UNCHANGED turn
            [] OTHER -> /\ goal' = IF held THEN goal ELSE [goal EXCEPT ![g] = Pause(@)]
                        /\ Fate(c, IF held THEN "transient" ELSE "failed") /\ UNCHANGED call
    /\ Still /\ UNCHANGED <<spent, overspent, unsettled>>

\* settle_token_lease with what the provider reports, or with no usage.
Settle(c) ==
    /\ call[c] # None /\ call' = [call EXCEPT ![c] = None]
    /\ LET g == call[c]
           lease == goal[g].lease[c]
       IN \E tokens \in 0 .. lease + 1, known \in BOOLEAN :
          /\ known \/ tokens = lease
          /\ LET r == [goal[g] EXCEPT !.lease[c] = 0, !.used = @ + tokens]
                 stops == r.used >= Budget \/ tokens > lease \/ ~known
             IN /\ goal' = [goal EXCEPT ![g] = IF stops /\ r.status = "active" THEN Pause(r) ELSE r]
                /\ Fate(c, IF stops THEN "failed" ELSE turn.fate)
          /\ spent' = [spent EXCEPT ![g] = @ + tokens]
          /\ overspent' = IF tokens > lease THEN overspent \cup {g} ELSE overspent
    /\ Still /\ UNCHANGED <<used, unsettled>>

\* The settlement cannot be written.  After a failure of the provider that is
\* logged, and after an answer it is raised: the call is over, and its lease stays.
\* It may have spent all of it, or more.
SettleFails(c) ==
    /\ call[c] # None /\ call' = [call EXCEPT ![c] = None]
    /\ LET g == call[c]
           lease == goal[g].lease[c]
           left == [goal[g].lease EXCEPT ![c] = 0, !["gone"] = @ + lease]
       IN \E tokens \in {lease, lease + 1} :
          /\ goal' = [goal EXCEPT ![g].lease = left]
          /\ spent' = [spent EXCEPT ![g] = @ + tokens]
          /\ overspent' = IF tokens > lease THEN overspent \cup {g} ELSE overspent
          /\ unsettled' = unsettled \cup {g}
    /\ Still /\ UNCHANGED <<turn, used>>

-----------------------------------------------------------------------------
(* What the run does to its goal *)

Working == turn.phase = "running" /\ turn.fate = "open" /\ call["run"] = None
Agent == Keep /\ UNCHANGED <<turn, cont, asking, used, allowance, lost>>

\* A verification of the run passed: it is evidence for the criteria it names.
Verify ==
    /\ Working
    /\ \E g \in Goals, some \in SUBSET Criteria :
        /\ goal[g].run = turn.run /\ some \subseteq goal[g].criteria
        /\ goal' = [goal EXCEPT ![g].verified = @ \cup some \cup {Gate}]
    /\ Agent

\* update_goal: completed on evidence, or blocked, whatever the goal is.
CompleteByAgent ==
    /\ Working /\ turn.bound
    /\ LET r == goal[turn.goal]
       IN r.status \in Unfinished /\ r.criteria \cup {Gate} \subseteq r.verified
    /\ goal' = [goal EXCEPT ![turn.goal].status = "completed", ![turn.goal].confirm = FALSE]
    /\ Agent
BlockByAgent ==
    /\ Working /\ turn.bound
    /\ goal' = [goal EXCEPT ![turn.goal] = Block(@)]
    /\ Agent

-----------------------------------------------------------------------------
(* Clients *)

Client == Keep /\ UNCHANGED <<cont, lost>>
Act == used.acts < MaxActs /\ used' = [used EXCEPT !.acts = @ + 1]
Ask(k, g) == asking[k] = None /\ asking' = [asking EXCEPT ![k] = g]

\* cancel_run of the session's active run, if there is one.
Stopping == turn' = IF turn.phase \in {"prepared", "running"} THEN [turn EXCEPT !.phase = "cancelled"] ELSE turn

\* Creation, and where it is asked for the first turn.
Create ==
    /\ ~Busy /\ IsCurrent(None)
    /\ \E g \in Goals, auto \in BOOLEAN, criteria \in SUBSET Criteria, start \in BOOLEAN :
        /\ goal[g].status = "none" /\ \A h \in 1 .. g - 1 : goal[h].status # "none"
        /\ goal' = [goal EXCEPT ![g] = [NoGoal EXCEPT !.status = "active", !.auto = auto, !.criteria = criteria]]
        /\ IF start THEN Ask("create", g) ELSE UNCHANGED asking
        /\ allowance' = [allowance EXCEPT ![g] = MaxAutoTurns]
    /\ Client /\ UNCHANGED <<turn, used>>

\* The user pauses, clears or completes a goal, and the run is cancelled.
PauseGoal ==
    /\ Act /\ \E g \in Goals :
        /\ goal[g].status \in {"active", "blocked"}
        /\ goal' = [goal EXCEPT ![g].status = "paused", ![g].confirm = FALSE]
    /\ Stopping /\ Client /\ UNCHANGED <<asking, allowance>>
ClearGoal ==
    /\ Act /\ \E g \in Goals :
        /\ goal[g].status \in Unfinished
        /\ goal' = [goal EXCEPT ![g].status = "cleared", ![g].confirm = FALSE, ![g].run = None]
    /\ Stopping /\ Client /\ UNCHANGED <<asking, allowance>>
CompleteGoal ==
    /\ Act /\ \E g \in Goals :
        /\ goal[g].status \in Unfinished
        /\ goal' = [goal EXCEPT ![g].status = "completed", ![g].confirm = FALSE]
    /\ Stopping /\ Client /\ UNCHANGED <<asking, allowance>>

ResumeGoal ==
    /\ Act /\ ~Busy /\ \E g \in Goals :
        /\ goal[g].status \in {"paused", "blocked"}
        /\ goal' = [goal EXCEPT ![g].status = "active", ![g].confirm = FALSE,
                                ![g].turns = IF goal[g].auto THEN 0 ELSE @]
        /\ Ask("resume", g)
        /\ allowance' = [allowance EXCEPT ![g] = MaxAutoTurns]
    /\ Client /\ UNCHANGED turn

EditGoal ==
    /\ Act /\ \E g \in Goals, criteria \in SUBSET Criteria :
        /\ goal[g].status \in Unfinished
        /\ goal' = [goal EXCEPT ![g].criteria = criteria]
    /\ Client /\ UNCHANGED <<turn, asking, allowance>>

\* A client asks for the decision, which may pause the goal.
DecideGoal ==
    /\ Act /\ \E g \in Goals, limit \in BOOLEAN :
        /\ goal[g].status # "none"
        /\ goal' = [goal EXCEPT ![g] = Decided(@, ContinueReason(@, limit))]
    /\ Client /\ UNCHANGED <<turn, asking, allowance>>

CancelRun ==
    /\ Act /\ turn.phase \in {"prepared", "running"} /\ Stopping
    /\ Client /\ UNCHANGED <<goal, asking, allowance>>

\* A message of the user: a turn of the session, so of its active goal.
Send ==
    /\ ~Busy /\ Reserve("user", None)
    /\ used.acts < MaxActs /\ used' = [used EXCEPT !.acts = @ + 1, !.runs = @ + 1]
    /\ Client /\ UNCHANGED <<goal, asking, allowance>>

-----------------------------------------------------------------------------
\* The daemon dies and starts again: the tasks and calls are gone, and nobody
\* knows what the calls have spent of their leases.
Gone(r) == [r EXCEPT !.lease = [h \in Holders |-> IF h = "gone" THEN Reserved(r) ELSE 0]]
Restart ==
    /\ used.crashes < MaxCrashes /\ used' = [used EXCEPT !.crashes = @ + 1]
    /\ goal' = [g \in Goals |-> Recovered(Gone(goal[g]))]
    /\ spent' = [g \in Goals |-> spent[g] + InFlight(g)]
    /\ turn' = NoTurn /\ cont' = NoCont
    /\ asking' = [k \in Clients |-> None] /\ call' = [c \in Callers |-> None]
    /\ allowance' = [g \in Goals |-> 0]
    /\ unsettled' = {} /\ lost' = {}
    /\ UNCHANGED overspent

Step ==
    \/ \E k \in Clients : Preflight(k)
    \/ Candidate \/ StartRun \/ Prepare \/ Launch \/ RunEnds \/ Close
    \/ Continue \/ ContinueTurn
    \/ \E c \in Callers : Settle(c)

Next ==
    \/ Step \/ TurnRefused \/ SetupFails \/ TurnFails \/ ReleaseFails \/ CloseFails
    \/ \E c \in Callers, g \in Goals : Reservation(c, g)
    \/ \E c \in Callers : SettleFails(c)
    \/ Verify \/ CompleteByAgent \/ BlockByAgent
    \/ Create \/ PauseGoal \/ ClearGoal \/ CompleteGoal \/ ResumeGoal \/ EditGoal \/ DecideGoal
    \/ CancelRun \/ Send \/ Restart

\* The event loop runs a continuation that is due; nothing is assumed of users,
\* providers and workers.
Spec == Init /\ [][Next]_vars /\ WF_vars(Continue)

-----------------------------------------------------------------------------
(* Properties *)

\* The token budget is a hard limit for all calls of a goal together, in flight
\* or over, and through restarts that lose what a call had spent: only a
\* provider that spends more than its lease breaks it
\* (goal/service.py:870-994, 196-247).
BudgetHolds ==
    \A g \in Goals : g \in overspent \/ spent[g] + InFlight(g) <= Budget

\* Every lease of an automatic goal that goes on belongs to a call in flight, or to one
\* whose settlement failed since the daemon started: no restart, cancellation or failed
\* call keeps tokens from the calls to come otherwise.  What a failed settlement leaves
\* is held until the next restart charges it (goal/budget.py:160-196,
\* goal/service.py:216-223, manager.py:445-454).
LeasesAreLive ==
    \A g \in Goals : goal[g].auto /\ goal[g].status \in Unfinished =>
        \A h \in Holders : goal[g].lease[h] > 0 =>
            IF h \in Callers THEN call[h] = g ELSE g \in unsettled

\* The current run of a goal that goes on is the live turn's, or one that was lost since
\* the daemon started: finish_run, abort_run or the recovery releases the goal on every
\* path out of send_message but a failure of its set-up, of finish_run or abort_run
\* itself, or of the finally before it (goal/service.py:453-552, manager.py:1340-1694).
RunIsOwned ==
    \A g \in Goals : goal[g].status \in Unfinished => goal[g].run \in {None, turn.run} \cup lost

\* The daemon never starts more turns of an automatic goal than the user agreed
\* to by creating or resuming it, and none after a restart until the user
\* resumes it (goal/service.py:196-247, 359-450, 578-709).
Consented == \A g \in Goals : goal[g].auto => allowance[g] >= 0

\* A continuation that waits for reserved tokens does not wait for ever, even if
\* the call that holds them is never settled (manager.py:429-461).
ContinuationEnds == cont.phase = "waiting" ~> cont.phase # "waiting"

\* When a turn ends and the decision lets the goal continue, the next turn is
\* scheduled (docs/guides/USER_GUIDE.md:583-584).
AllowedTurnFollows ==
    [][Close /\ turn.again => cont'.phase = "waiting"]_vars
=============================================================================
