--------------------------- MODULE GoalLoopProofs ---------------------------
(***************************************************************************)
(* Proofs about GoalLoop, for any criteria, budgets, limits and bounds.    *)
(* Most steps are mild: they leave the tokens, the turns and the mode of   *)
(* every goal as they are.  The lemmas on mild records and mild steps do   *)
(* these; the rest of each proof is about the steps that start a turn,     *)
(* move tokens, hear the user's consent, or restart the daemon.            *)
(***************************************************************************)
EXTENDS GoalLoop, TLAPS

\* What is charged and reserved covers what may have been spent, and fits.
Accounts ==
    \A g \in Goals \ overspent :
        /\ spent[g] + InFlight(g) <= goal[g].used + Reserved(goal[g])
        /\ goal[g].used + Reserved(goal[g]) <= Budget

\* A caller's lease is of the goal it calls for.
LeasesOwned == \A g \in Goals, c \in Callers : call[c] # g => goal[g].lease[c] = 0

\* Nothing is spent for a goal before it exists.
Unspent == \A g \in Goals : goal[g].status = "none" => spent[g] = 0 /\ \A c \in Callers : call[c] # g

\* Leases are only given out of what is left.
Fits == \A g \in Goals : Reserved(goal[g]) <= Budget

Money == Accounts /\ LeasesOwned /\ Unspent /\ Fits

\* An active automatic goal has just the turns left that the user agreed to.
Consent ==
    \A g \in Goals :
        /\ ~goal[g].linked => goal[g].turns = 0
        /\ goal[g].auto /\ goal[g].status = "active" => allowance[g] = MaxAutoTurns - goal[g].turns
        /\ goal[g].auto => allowance[g] >= 0

\* The goals that may go on: a finished one comes back only by its turn's agent
\* or deadline, or by the failure of the creation that waits for its first turn.
Live(g) ==
    \/ goal[g].status \in Unfinished
    \/ turn.goal = g
    \/ turn.of = g /\ turn.by = "create"
    \/ asking["create"] = g

Held == {"linked", "prepared", "running", "cancelled"}
Runs ==
    \A g \in Goals :
        /\ Live(g) => goal[g].run \in {None, turn.run} \cup lost
        /\ goal[g].run # None /\ goal[g].run = turn.run => turn.goal = g /\ turn.phase \in Held
        /\ goal[g].run <= used.runs
Counted == turn.run <= used.runs

\* Only a failed settlement leaves a lease without its call to an automatic goal that
\* may go on.
Settled == \A g \in Goals : goal[g].auto /\ Live(g) => goal[g].lease["gone"] = 0 \/ g \in unsettled

\* Without a turn no goal and no run is left of the last one.
Quiet == turn.phase = "none" => turn.run = None /\ turn.goal = None /\ turn.of = None

Started == turn.phase # "none" => turn.run # None

IInv == TypeOK /\ Money /\ Consent /\ Runs /\ Counted /\ Settled /\ Quiet /\ Started

-----------------------------------------------------------------------------
(* Mild changes of a record *)

Mild(r, s) ==
    /\ s \in GoalRecord
    /\ s.used = r.used /\ s.lease = r.lease
    /\ s.auto = r.auto /\ s.turns = r.turns /\ s.linked = r.linked
    /\ s.run \in {r.run, None}
    /\ s.status = "none" => r.status = "none"
    /\ s.status = "active" => r.status = "active"

Stays(r, s) == s.status \in Unfinished => r.status \in Unfinished

LEMMA MildSame == ASSUME NEW r \in GoalRecord PROVE Mild(r, r) /\ Stays(r, r)
BY DEF Mild, Stays

LEMMA MildBlock ==
    ASSUME NEW r \in GoalRecord
    PROVE  /\ Mild(r, Block(r)) /\ Block(r).run = r.run
           /\ r.status \in Unfinished => Stays(r, Block(r))
BY DEF Mild, Stays, Block, GoalRecord, GoalStatus, Unfinished, Holders, Callers

LEMMA MildPause ==
    ASSUME NEW r \in GoalRecord
    PROVE  /\ Mild(r, Pause(r)) /\ Pause(r).run = r.run
           /\ r.status \in Unfinished => Stays(r, Pause(r))
BY DEF Mild, Stays, Pause, GoalRecord, GoalStatus, Unfinished, Holders, Callers

LEMMA MildDecided ==
    ASSUME NEW r \in GoalRecord, NEW why
    PROVE  /\ Mild(r, Decided(r, why)) /\ Decided(r, why).run = r.run
           /\ r.status \in Unfinished => Stays(r, Decided(r, why))
BY MildSame, MildPause DEF Decided

\* The decision pauses only a goal that is active.
LEMMA DecisionIsOfActive ==
    ASSUME NEW r \in GoalRecord, NEW limit \in BOOLEAN, ContinueReason(r, limit) \in PauseReasons
    PROVE  r.status = "active"
<1>1. CASE ~r.auto
  BY <1>1 DEF ContinueReason, PauseReasons
<1>2. CASE r.auto /\ r.status # "active"
  BY <1>2 DEF ContinueReason, PauseReasons
<1>. QED  BY <1>1, <1>2 DEF GoalRecord

LEMMA MildFinished ==
    ASSUME NEW r \in GoalRecord, NEW succeeded \in BOOLEAN, NEW why
    PROVE  Mild(r, Finished(r, succeeded, why)) /\ Finished(r, succeeded, why).run = None
<1>. DEFINE s == [r EXCEPT !.run = None]
<1>1. s \in GoalRecord /\ Mild(r, s) /\ s.run = None
  BY GoalAssumption DEF Mild, GoalRecord, None
<1>2. Mild(s, Pause(s)) /\ Pause(s).run = None /\ Mild(s, Block(s)) /\ Block(s).run = None
  BY <1>1, MildPause, MildBlock
<1>3. Mild(r, Pause(s)) /\ Mild(r, Block(s))
  BY <1>1, <1>2 DEF Mild
<1>4. Finished(r, succeeded, why) \in {s, Pause(s), Block(s)}
  BY DEF Finished
<1>. QED  BY <1>1, <1>2, <1>3, <1>4

LEMMA MildAborted ==
    ASSUME NEW r \in GoalRecord, NEW run
    PROVE  /\ Mild(r, Aborted(r, run)) /\ Stays(r, Aborted(r, run))
           /\ Aborted(r, run).run = IF r.run = run THEN None ELSE r.run
<1>. DEFINE s == [r EXCEPT !.run = None]
<1>1. s \in GoalRecord /\ Mild(r, s) /\ s.run = None /\ s.status = r.status /\ Stays(r, s)
  BY GoalAssumption DEF Mild, Stays, GoalRecord, None
<1>2. Mild(s, Block(s)) /\ Block(s).run = None
  BY <1>1, MildBlock
<1>3. Mild(r, Block(s))
  BY <1>1, <1>2 DEF Mild
<1>4. r.status = "active" => Stays(r, Block(s))
  BY <1>1 DEF Stays, Unfinished
<1>. QED  BY <1>1, <1>2, <1>3, <1>4, MildSame DEF Aborted

LEMMA TypesOfGoals == ASSUME IInv PROVE goal \in [Goals -> GoalRecord]
BY DEF IInv, TypeOK

LEMMA NoneTyped == NoTurn \in TurnRecord /\ NoCont \in ContRecord
BY GoalAssumption DEF NoTurn, NoCont, TurnRecord, ContRecord, TurnPhases, None

LEMMA MildTwice ==
    ASSUME NEW r \in GoalRecord, NEW s, NEW t, Mild(r, s), Mild(s, t) PROVE Mild(r, t)
BY DEF Mild

\* A failed send_message blocks its goal, if anything.
LEMMA FailureIsMild ==
    ASSUME NEW gs \in [Goals -> GoalRecord], NEW by, NEW g \in Goals \cup {None}, NEW handler \in BOOLEAN
    PROVE  /\ AfterFailure(gs, by, g, handler) \in [Goals -> GoalRecord]
           /\ \A h \in Goals :
               LET s == AfterFailure(gs, by, g, handler)[h]
               IN /\ Mild(gs[h], s) /\ s.run = gs[h].run
                  /\ (Stays(gs[h], s) \/ (by = "create" /\ h = g))
<1>. DEFINE fs == [gs EXCEPT ![g] = Block(@)]
<1>1. \A h \in Goals : Block(gs[h]) \in GoalRecord
  BY MildBlock DEF Mild
<1>2. fs \in [Goals -> GoalRecord] /\ \A h \in Goals : fs[h] = IF h = g THEN Block(gs[h]) ELSE gs[h]
  BY <1>1
<1>3. \A h \in Goals : Mild(gs[h], fs[h]) /\ fs[h].run = gs[h].run
  BY <1>2, MildBlock, MildSame
<1>4. \A h \in Goals : h # g \/ gs[h].status = "active" => Stays(gs[h], fs[h])
  BY <1>2, MildBlock, MildSame DEF Unfinished
<1>5. \A h \in Goals : Mild(gs[h], gs[h]) /\ Stays(gs[h], gs[h])
  BY MildSame
<1>. QED  BY <1>2, <1>3, <1>4, <1>5 DEF AfterFailure

-----------------------------------------------------------------------------
(* Mild steps *)

MildChange ==
    /\ goal' \in [Goals -> GoalRecord]
    /\ \A g \in Goals : Mild(goal[g], goal'[g]) /\ (Live(g)' => Live(g))

LEMMA MoneyStays ==
    ASSUME IInv, UNCHANGED <<call, spent, overspent, unsettled>>,
           \A g \in Goals : /\ goal'[g].used = goal[g].used /\ goal'[g].lease = goal[g].lease
                            /\ goal'[g].status = "none" => goal[g].status = "none"
    PROVE  Money'
<1>1. \A g \in Goals : InFlight(g)' = InFlight(g) /\ Reserved(goal[g])' = Reserved(goal[g])
  BY DEF InFlight, Reserved
<1>2. Accounts'
  BY <1>1 DEF IInv, Money, Accounts
<1>3. LeasesOwned'
  BY DEF IInv, Money, LeasesOwned
<1>4. Unspent'
  BY DEF IInv, Money, Unspent
<1>5. Fits'
  BY <1>1 DEF IInv, Money, Fits
<1>. QED  BY <1>2, <1>3, <1>4, <1>5 DEF Money

LEMMA MildStep ==
    ASSUME IInv, MildChange, UNCHANGED <<call, spent, overspent, unsettled, allowance>>
    PROVE  Money' /\ Consent' /\ Settled'
<1>1. \A g \in Goals : goal'[g].used = goal[g].used /\ goal'[g].lease = goal[g].lease
  BY DEF MildChange, Mild
<1>3. Money'
  BY MoneyStays DEF MildChange, Mild
<1>4. Consent'
  BY DEF IInv, Consent, MildChange, Mild
<1>5. Settled'
  BY <1>1 DEF IInv, Settled, MildChange, Mild
<1>. QED  BY <1>3, <1>4, <1>5

\* The turn stays, and so do the goals that its run holds.
LEMMA TurnGoesOn ==
    ASSUME IInv, MildChange, turn'.run = turn.run, lost' = lost, used'.runs = used.runs,
           \A g \in Goals : goal'[g].run # None /\ goal'[g].run = turn.run
                             => turn'.goal = g /\ turn'.phase \in Held
    PROVE  Runs' /\ Counted'
<1>1. \A g \in Goals : goal'[g].run \in {goal[g].run, None}
  BY DEF MildChange, Mild
<1>2. \A g \in Goals : goal'[g].run <= used'.runs
  BY <1>1 DEF IInv, Runs, TypeOK, None
<1>3. \A g \in Goals : Live(g)' => goal'[g].run \in {None, turn'.run} \cup lost'
  BY <1>1 DEF IInv, Runs, MildChange
<1>. QED  BY <1>2, <1>3 DEF IInv, Runs, Counted

\* The turn ends, and its run holds no goal, or is lost.
LEMMA TurnEnds ==
    ASSUME IInv, MildChange, turn' = NoTurn, lost \subseteq lost', used'.runs = used.runs,
           \A g \in Goals : goal'[g].run # None /\ goal'[g].run = turn.run => turn.run \in lost'
    PROVE  Runs' /\ Counted'
<1>1. \A g \in Goals : goal'[g].run \in {goal[g].run, None}
  BY DEF MildChange, Mild
<1>2. \A g \in Goals : goal'[g].run <= used'.runs
  BY <1>1 DEF IInv, Runs, TypeOK, None
<1>3. \A g \in Goals : Live(g)' => goal'[g].run \in {None} \cup lost'
  BY <1>1 DEF IInv, Runs, MildChange
<1>4. turn'.run = None
  BY DEF NoTurn
<1>5. Counted'
  BY <1>4 DEF Counted, IInv, TypeOK, None
<1>. QED  BY <1>2, <1>3, <1>4, <1>5 DEF Runs

\* A turn is reserved where there was none.
LEMMA TurnBegins ==
    ASSUME IInv, MildChange, NEW by \in Clients \cup {"user", "auto"}, NEW g \in Goals \cup {None},
           turn.phase = "none", Reserve(by, g), lost' = lost, used'.runs = used.runs + 1
    PROVE  Runs' /\ Counted' /\ Quiet' /\ Started'
<1>1. \A h \in Goals : goal'[h].run \in {goal[h].run, None}
  BY DEF MildChange, Mild
<1>2. turn.run = None
  BY DEF IInv, Quiet
<1>3. turn'.run = used.runs + 1 /\ turn'.phase = "reserved" /\ used.runs \in Nat
  BY GoalAssumption DEF Reserve, IInv, TypeOK, NoTurn
<1>4. \A h \in Goals : goal'[h].run \in Nat /\ goal'[h].run <= used.runs
  BY <1>1, <1>3 DEF IInv, Runs, TypeOK, None, GoalRecord
<1>5. \A h \in Goals : Live(h)' => goal'[h].run \in {None} \cup lost'
  BY <1>1, <1>2 DEF IInv, Runs, MildChange
<1>. QED  BY <1>3, <1>4, <1>5 DEF Runs, Counted, Quiet, Started, None

\* A turn is reserved, and nothing else happens but what asked for it.
LEMMA BeginStep ==
    ASSUME IInv, NEW by \in Clients \cup {"user", "auto"}, NEW g \in Goals \cup {None},
           turn.phase = "none", Reserve(by, g), UNCHANGED <<goal, call, spent, overspent, unsettled, allowance, lost>>,
           used'.runs = used.runs + 1, used' \in [runs : Nat, acts : Nat, outside : Nat, crashes : Nat],
           asking' \in [Clients -> Goals \cup {None}], asking'["create"] \in {asking["create"], None},
           by = "create" => asking["create"] = g, cont' \in ContRecord
    PROVE  IInv'
<1>1. turn' = [NoTurn EXCEPT !.phase = "reserved", !.by = by, !.of = g, !.run = used.runs + 1]
  BY DEF Reserve
<1>2. ASSUME NEW h \in Goals, Live(h)' PROVE Live(h)
  BY <1>1, <1>2 DEF Live, NoTurn, None, Goals
<1>3. MildChange
  BY <1>2, TypesOfGoals, MildSame DEF MildChange
<1>4. Money' /\ Consent' /\ Settled'
  BY <1>3, MildStep
<1>5. Runs' /\ Counted' /\ Quiet' /\ Started'
  BY <1>3, TurnBegins
<1>6. used.runs \in 0 .. MaxRuns /\ used.runs < MaxRuns
  BY DEF IInv, TypeOK, Reserve
<1>7. turn' \in TurnRecord
  <2>1. used.runs + 1 \in 0 .. MaxRuns
    BY <1>6, GoalAssumption
  <2>. QED  BY <1>1, <2>1, NoneTyped DEF TurnRecord, TurnPhases
<1>8. used' \in [runs : 0 .. MaxRuns, acts : Nat, outside : Nat, crashes : Nat]
  BY <1>6, GoalAssumption
<1>9. TypeOK'
  BY <1>7, <1>8 DEF IInv, TypeOK
<1>. QED  BY <1>4, <1>5, <1>9 DEF IInv

\* send_message raises.
LEMMA RaiseStep ==
    ASSUME IInv, NEW gs \in [Goals -> GoalRecord], NEW handler \in BOOLEAN, Raise(gs, handler),
           UNCHANGED <<call, spent, overspent, unsettled, allowance>>, used' = used,
           lost' \subseteq 1 .. MaxRuns, lost \subseteq lost',
           \A h \in Goals : /\ Mild(goal[h], gs[h]) /\ (Stays(goal[h], gs[h]) \/ h = turn.goal)
                            /\ gs[h].run # None /\ gs[h].run = turn.run => turn.run \in lost'
    PROVE  IInv'
<1>0. turn.of \in Goals \cup {None} /\ turn' = NoTurn /\ asking' = asking
  BY DEF IInv, TypeOK, Raise, Leave, TurnRecord
<1>1. /\ goal' \in [Goals -> GoalRecord]
      /\ \A h \in Goals : /\ Mild(gs[h], goal'[h]) /\ goal'[h].run = gs[h].run
                          /\ (Stays(gs[h], goal'[h]) \/ (turn.by = "create" /\ h = turn.of))
  BY <1>0, FailureIsMild DEF Raise
<1>2. \A h \in Goals : Mild(goal[h], goal'[h])
  BY <1>1, MildTwice, TypesOfGoals
<1>3. ASSUME NEW h \in Goals, Live(h)' PROVE Live(h)
  <2>1. turn'.goal = None /\ turn'.of = None /\ None \notin Goals
    BY <1>0 DEF NoTurn, None, Goals
  <2>. QED  BY <1>0, <1>1, <1>3, <2>1 DEF Live, Stays
<1>4. MildChange
  BY <1>1, <1>2, <1>3 DEF MildChange
<1>5. Money' /\ Consent' /\ Settled'
  BY <1>4, MildStep
<1>6. Runs' /\ Counted'
  <2>1. \A g \in Goals : goal'[g].run # None /\ goal'[g].run = turn.run => turn.run \in lost'
    BY <1>1
  <2>2. used'.runs = used.runs
    OBVIOUS
  <2>. QED  BY <1>0, <1>4, <2>1, <2>2, TurnEnds
<1>7. TypeOK'
  <2>1. cont' \in ContRecord
    BY NoneTyped DEF IInv, TypeOK, Raise, Leave
  <2>2. turn' \in TurnRecord
    BY <1>0, NoneTyped
  <2>. QED  BY <1>0, <1>1, <2>1, <2>2 DEF IInv, TypeOK
<1>8. Quiet' /\ Started'
  BY <1>0 DEF Quiet, Started, NoTurn
<1>. QED  BY <1>5, <1>6, <1>7, <1>8 DEF IInv

\* Any other step that leaves tokens and consent alone and starts no turn: the
\* turn goes on, and only a goal that is live may be unfinished after it.
LEMMA TurnStep ==
    ASSUME IInv, UNCHANGED <<call, spent, overspent, unsettled, allowance, lost>>,
           goal' \in [Goals -> GoalRecord], turn' \in TurnRecord, cont' \in ContRecord,
           asking' \in [Clients -> Goals \cup {None}], asking'["create"] \in {asking["create"], None},
           used' \in [runs : 0 .. MaxRuns, acts : Nat, outside : Nat, crashes : Nat], used'.runs = used.runs,
           turn'.run = turn.run, turn'.by = turn.by, turn'.of = turn.of,
           turn.phase = "none" \/ turn'.phase = "none" => turn'.phase = turn.phase /\ turn'.goal = turn.goal,
           turn'.goal = turn.goal \/ goal[turn'.goal].status \in Unfinished,
           \A g \in Goals :
               /\ Mild(goal[g], goal'[g])
               /\ goal'[g].status \in Unfinished => Live(g)
               /\ goal'[g].run # None /\ goal'[g].run = turn.run => turn'.goal = g /\ turn'.phase \in Held
    PROVE  IInv'
<1>1. ASSUME NEW g \in Goals, Live(g)' PROVE Live(g)
  <2>1. asking'["create"] = g => asking["create"] = g
    BY DEF None, Goals
  <2>. QED  BY <1>1, <2>1 DEF Live
<1>2. MildChange
  BY <1>1 DEF MildChange
<1>3. Money' /\ Consent' /\ Settled'
  BY <1>2, MildStep
<1>4. Runs' /\ Counted'
  BY <1>2, TurnGoesOn
<1>5. TypeOK'
  BY DEF IInv, TypeOK
<1>6. Quiet' /\ Started'
  BY DEF IInv, Quiet, Started
<1>. QED  BY <1>3, <1>4, <1>5, <1>6 DEF IInv

\* One goal changes.
LEMMA OneGoal ==
    ASSUME IInv, NEW g \in Goals, NEW s, Mild(goal[g], s), goal' = [goal EXCEPT ![g] = s],
           s.status \in Unfinished => Live(g)
    PROVE  /\ goal' \in [Goals -> GoalRecord]
           /\ \A h \in Goals : /\ goal'[h] = IF h = g THEN s ELSE goal[h]
                               /\ Mild(goal[h], goal'[h])
                               /\ goal'[h].status \in Unfinished => Live(h)
<1>1. s \in GoalRecord
  BY DEF Mild
<1>2. goal \in [Goals -> GoalRecord]
  BY TypesOfGoals
<1>3. \A h \in Goals : Mild(goal[h], goal[h]) /\ (goal[h].status \in Unfinished => Live(h))
  BY <1>2, MildSame DEF Live
<1>. QED  BY <1>1, <1>2, <1>3

\* No goal changes.
LEMMA NoGoalChanges ==
    ASSUME IInv, goal' = goal
    PROVE  /\ goal' \in [Goals -> GoalRecord]
           /\ \A g \in Goals : Mild(goal[g], goal'[g]) /\ (goal'[g].status \in Unfinished => Live(g))
BY TypesOfGoals, MildSame DEF Live

-----------------------------------------------------------------------------
(* The actions of turns *)

LEMMA CountedRun ==
    ASSUME IInv, CountRun
    PROVE  used'.runs = used.runs + 1 /\ used' \in [runs : Nat, acts : Nat, outside : Nat, crashes : Nat]
BY GoalAssumption DEF IInv, TypeOK, CountRun

LEMMA PreflightStep == ASSUME IInv, NEW k \in Clients, Preflight(k) PROVE IInv'
<1>. DEFINE g == asking[k]
<1>1. /\ g \in Goals \cup {None} /\ g # None /\ k \in Clients \cup {"user", "auto"}
      /\ asking' \in [Clients -> Goals \cup {None}] /\ asking'["create"] \in {asking["create"], None}
      /\ k = "create" => asking["create"] = g
      /\ turn \in TurnRecord /\ cont \in ContRecord
  BY DEF Preflight, IInv, TypeOK, Clients
<1>2. CASE Busy /\ goal' = AfterFailure(goal, k, g, TRUE) /\ UNCHANGED <<turn, used>>
  <2>1. /\ goal' \in [Goals -> GoalRecord]
        /\ \A h \in Goals : /\ Mild(goal[h], goal'[h]) /\ goal'[h].run = goal[h].run
                            /\ (Stays(goal[h], goal'[h]) \/ (k = "create" /\ h = g))
    BY <1>1, <1>2, TypesOfGoals, FailureIsMild
  <2>2. \A h \in Goals : goal'[h].status \in Unfinished => Live(h)
    BY <1>1, <2>1 DEF Live, Stays
  <2>3. \A h \in Goals : goal'[h].run # None /\ goal'[h].run = turn.run => turn'.goal = h /\ turn'.phase \in Held
    BY <1>2, <2>1 DEF IInv, Runs
  <2>4. used' \in [runs : 0 .. MaxRuns, acts : Nat, outside : Nat, crashes : Nat] /\ used' = used
    BY <1>2 DEF IInv, TypeOK
  <2>. QED  BY <1>1, <1>2, <2>1, <2>2, <2>3, <2>4, TurnStep DEF Preflight, Keep
<1>3. CASE ~Busy /\ Reserve(k, g) /\ CountRun /\ UNCHANGED goal
  <2>1. turn.phase = "none"
    BY <1>3 DEF Busy
  <2>2. used'.runs = used.runs + 1 /\ used' \in [runs : Nat, acts : Nat, outside : Nat, crashes : Nat]
    BY <1>3, CountedRun
  <2>. QED  BY <1>1, <1>3, <2>1, <2>2, BeginStep DEF Preflight, Keep
<1>. QED  BY <1>2, <1>3 DEF Preflight

\* Before a run holds its goal no goal has the turn's run.
LEMMA NotHeld ==
    ASSUME IInv, turn.phase \notin Held
    PROVE  \A h \in Goals : ~(goal[h].run # None /\ goal[h].run = turn.run)
BY DEF IInv, Runs

\* Such a turn fails, with a decision about one goal or none.
LEMMA RaiseEarly ==
    ASSUME IInv, turn.phase \notin Held, NEW gs, NEW handler \in BOOLEAN, Raise(gs, handler),
           Keep, UNCHANGED <<used, allowance, lost>>,
           \/ gs = goal
           \/ \E g \in Goals : \E why : goal[g].status = "active" /\ gs = [goal EXCEPT ![g] = Decided(@, why)]
    PROVE  IInv'
<1>1. gs \in [Goals -> GoalRecord] /\ \A h \in Goals : Mild(goal[h], gs[h]) /\ Stays(goal[h], gs[h])
                                                     /\ gs[h].run = goal[h].run
  <2>1. CASE gs = goal
    BY <2>1, TypesOfGoals, MildSame
  <2>2. ASSUME NEW g \in Goals, NEW why, goal[g].status = "active", gs = [goal EXCEPT ![g] = Decided(@, why)]
        PROVE  gs \in [Goals -> GoalRecord] /\ \A h \in Goals : Mild(goal[h], gs[h]) /\ Stays(goal[h], gs[h])
                                                              /\ gs[h].run = goal[h].run
    <3>1. Mild(goal[g], Decided(goal[g], why)) /\ Stays(goal[g], Decided(goal[g], why))
          /\ Decided(goal[g], why).run = goal[g].run
      BY <2>2, TypesOfGoals, MildDecided DEF Unfinished
    <3>2. Decided(goal[g], why) \in GoalRecord
      BY <3>1 DEF Mild
    <3>. QED  BY <2>2, <3>1, <3>2, TypesOfGoals, MildSame
  <2>. QED  BY <2>1, <2>2
<1>2. lost' \subseteq 1 .. MaxRuns /\ lost \subseteq lost'
  BY DEF IInv, TypeOK
<1>3. \A h \in Goals : gs[h].run # None /\ gs[h].run = turn.run => turn.run \in lost'
  BY <1>1, NotHeld
<1>. QED  BY <1>1, <1>2, <1>3, RaiseStep DEF Keep

\* Only the turn advances.
LEMMA AdvanceStep ==
    ASSUME IInv, Keep, UNCHANGED <<goal, cont, asking, used, allowance, lost>>,
           turn' \in TurnRecord, turn'.run = turn.run, turn'.by = turn.by, turn'.of = turn.of,
           turn.phase # "none", turn'.phase # "none",
           \/ turn.phase \notin Held /\ (turn'.goal = turn.goal \/ goal[turn'.goal].status \in Unfinished)
           \/ turn'.goal = turn.goal /\ turn'.phase \in Held
    PROVE  IInv'
<1>1. \A h \in Goals : goal'[h].run # None /\ goal'[h].run = turn.run => turn'.goal = h /\ turn'.phase \in Held
  BY NotHeld DEF IInv, Runs
<1>2. /\ cont' \in ContRecord /\ asking' \in [Clients -> Goals \cup {None}]
      /\ used' \in [runs : 0 .. MaxRuns, acts : Nat, outside : Nat, crashes : Nat] /\ used'.runs = used.runs
      /\ asking'["create"] \in {asking["create"], None}
  BY DEF IInv, TypeOK
<1>. QED  BY <1>1, <1>2, NoGoalChanges, TurnStep DEF Keep

LEMMA TurnTyped ==
    ASSUME IInv
    PROVE  /\ turn \in TurnRecord /\ turn.goal \in Goals \cup {None} /\ turn.of \in Goals \cup {None}
           /\ turn.run \in 0 .. MaxRuns
           /\ \A phase \in TurnPhases : [turn EXCEPT !.phase = phase] \in TurnRecord
BY DEF IInv, TypeOK, TurnRecord

LEMMA Advanced ==
    ASSUME IInv, NEW phase \in TurnPhases, turn' = [turn EXCEPT !.phase = phase]
    PROVE  /\ turn' \in TurnRecord /\ turn'.phase = phase
           /\ turn'.run = turn.run /\ turn'.by = turn.by /\ turn'.of = turn.of /\ turn'.goal = turn.goal
BY TurnTyped DEF TurnRecord

LEMMA CandidateStep == ASSUME IInv, Candidate PROVE IInv'
<1>1. turn.phase = "reserved" /\ turn.phase \notin Held /\ turn.phase # "none"
  BY DEF Candidate, Held
<1>2. PICK g \in Goals \cup {None} :
        IF g = None \/ goal[g].status # "active"
        THEN Advance("candidate") /\ UNCHANGED <<goal, cont, asking>>
        ELSE \E limit \in BOOLEAN :
             IF goal[g].auto /\ goal[g].linked /\ ContinueReason(goal[g], limit) # "ready"
             THEN Raise([goal EXCEPT ![g] = Decided(@, ContinueReason(goal[g], limit))], TRUE)
             ELSE /\ turn' = [turn EXCEPT !.phase = "candidate", !.goal = g]
                  /\ UNCHANGED <<goal, cont, asking>>
  BY DEF Candidate
<1>3. Keep /\ UNCHANGED <<used, allowance, lost>>
  BY DEF Candidate
<1>4. CASE g = None \/ goal[g].status # "active"
  <2>1. turn' = [turn EXCEPT !.phase = "candidate"] /\ UNCHANGED <<goal, cont, asking>>
    BY <1>2, <1>4 DEF Advance
  <2>2. turn' \in TurnRecord /\ turn'.run = turn.run /\ turn'.by = turn.by /\ turn'.of = turn.of
        /\ turn'.phase = "candidate" /\ turn'.goal = turn.goal
    BY <2>1, Advanced DEF TurnPhases
  <2>. QED  BY <1>1, <1>3, <2>1, <2>2, AdvanceStep
<1>5. CASE g \in Goals /\ goal[g].status = "active"
  <2>1. PICK limit \in BOOLEAN :
          IF goal[g].auto /\ goal[g].linked /\ ContinueReason(goal[g], limit) # "ready"
          THEN Raise([goal EXCEPT ![g] = Decided(@, ContinueReason(goal[g], limit))], TRUE)
          ELSE /\ turn' = [turn EXCEPT !.phase = "candidate", !.goal = g]
               /\ UNCHANGED <<goal, cont, asking>>
    <3>1. ~(g = None \/ goal[g].status # "active")
      BY <1>5 DEF None, Goals
    <3>. QED  BY <1>2, <3>1, Zenon
  <2>2. CASE Raise([goal EXCEPT ![g] = Decided(@, ContinueReason(goal[g], limit))], TRUE)
    BY <1>1, <1>3, <1>5, <2>2, RaiseEarly
  <2>3. CASE turn' = [turn EXCEPT !.phase = "candidate", !.goal = g] /\ UNCHANGED <<goal, cont, asking>>
    <3>1. turn' \in TurnRecord
      <4>1. [turn EXCEPT !.phase = "candidate"] \in TurnRecord
        BY TurnTyped DEF TurnPhases
      <4>2. turn' = [[turn EXCEPT !.phase = "candidate"] EXCEPT !.goal = g]
        BY <2>3
      <4>. QED  BY <4>1, <4>2 DEF TurnRecord
    <3>2. turn'.run = turn.run /\ turn'.by = turn.by /\ turn'.of = turn.of /\ turn'.phase # "none" /\ turn'.goal = g
      BY <2>3, TurnTyped DEF TurnRecord
    <3>. QED  BY <1>1, <1>3, <1>5, <2>3, <3>1, <3>2, AdvanceStep DEF Unfinished
  <2>. QED  BY <2>1, <2>2, <2>3
<1>. QED  BY <1>4, <1>5

LEMMA TurnRefusedStep == ASSUME IInv, TurnRefused PROVE IInv'
BY RaiseEarly DEF TurnRefused, Held

LEMMA PrepareStep == ASSUME IInv, Prepare PROVE IInv'
<1>1. turn' \in TurnRecord /\ turn'.goal = turn.goal /\ turn'.phase = "prepared"
      /\ turn'.run = turn.run /\ turn'.by = turn.by /\ turn'.of = turn.of
  BY Advanced DEF Prepare, Advance, TurnPhases
<1>. QED  BY <1>1, AdvanceStep DEF Prepare, Held

LEMMA LaunchStep == ASSUME IInv, Launch PROVE IInv'
<1>1. turn' \in TurnRecord /\ turn'.goal = turn.goal /\ turn'.phase = "running"
      /\ turn'.run = turn.run /\ turn'.by = turn.by /\ turn'.of = turn.of
  <2>1. PICK b \in BOOLEAN : turn' = [turn EXCEPT !.phase = "running", !.bound = b]
    BY DEF Launch
  <2>2. turn \in TurnRecord
    BY TurnTyped
  <2>. QED  BY <2>1, <2>2 DEF TurnRecord, TurnPhases
<1>. QED  BY <1>1, AdvanceStep DEF Launch, Held

\* The turn fails, and its run is lost if a goal still has it.
LEMMA LoseStep == ASSUME IInv, Lose, turn.phase # "none" PROVE IInv'
<1>1. PICK handler \in BOOLEAN : Raise(goal, handler)
  BY DEF Lose
<1>2. goal \in [Goals -> GoalRecord] /\ \A h \in Goals : Mild(goal[h], goal[h]) /\ Stays(goal[h], goal[h])
  BY TypesOfGoals, MildSame
<1>3. /\ lost' = lost \cup ({turn.run} \cap {goal[g].run : g \in Goals})
      /\ turn.run \in 0 .. MaxRuns /\ lost \subseteq 1 .. MaxRuns
  BY TurnTyped DEF Lose, IInv, TypeOK
<1>4. turn.run # None
  BY DEF IInv, Started
<1>5. turn.run \in 1 .. MaxRuns
  BY <1>3, <1>4, GoalAssumption DEF None
<1>6. lost' \subseteq 1 .. MaxRuns /\ lost \subseteq lost'
  BY <1>3, <1>5
<1>7. \A h \in Goals : goal[h].run = turn.run => turn.run \in lost'
  BY <1>3
<1>. QED  BY <1>1, <1>2, <1>6, <1>7, RaiseStep DEF Lose, Keep

LEMMA SetupFailsStep == ASSUME IInv, SetupFails PROVE IInv'
BY LoseStep DEF SetupFails

LEMMA ReleaseFailsStep == ASSUME IInv, ReleaseFails PROVE IInv'
BY LoseStep DEF ReleaseFails

\* A goal that is ready has a turn left.
LEMMA ReadyHasTurns ==
    ASSUME NEW r \in GoalRecord, NEW limit \in BOOLEAN, r.auto, ContinueReason(r, limit) = "ready"
    PROVE  r.turns < MaxAutoTurns
<1>1. CASE r.status # "active"
  BY <1>1 DEF ContinueReason
<1>2. CASE r.status = "active"
  BY <1>2, GoalAssumption DEF ContinueReason, TurnsLeft, GoalRecord
<1>. QED  BY <1>1, <1>2

LEMMA StartRunStep == ASSUME IInv, StartRun PROVE IInv'
<1>. DEFINE g == turn.goal
            why(limit) == IF goal[g].auto THEN StartReason(goal[g], limit) ELSE "ready"
            run == [goal EXCEPT ![g].run = turn.run, ![g].linked = TRUE,
                                ![g].turns = IF goal[g].auto THEN @ + 1 ELSE @]
<1>1. turn.phase = "candidate" /\ turn.phase \notin Held /\ turn.phase # "none"
  BY DEF StartRun, Held
<1>2. Keep /\ UNCHANGED <<used, lost>>
  BY DEF StartRun
<1>3. CASE g = None
  <2>1. turn' = [turn EXCEPT !.phase = "linked"] /\ UNCHANGED <<goal, cont, asking, allowance>>
    BY <1>3 DEF StartRun, Advance
  <2>2. turn' \in TurnRecord /\ turn'.run = turn.run /\ turn'.by = turn.by /\ turn'.of = turn.of
        /\ turn'.phase = "linked" /\ turn'.goal = turn.goal
    BY <2>1, Advanced DEF TurnPhases
  <2>. QED  BY <1>1, <1>2, <2>1, <2>2, AdvanceStep
<1>4. CASE g \in Goals
  <2>1. PICK limit \in BOOLEAN :
          IF goal[g].status # "active" \/ goal[g].run # None
          THEN Raise(goal, FALSE) /\ UNCHANGED allowance
          ELSE IF why(limit) # "ready"
          THEN Raise([goal EXCEPT ![g] = Decided(@, why(limit))], FALSE) /\ UNCHANGED allowance
          ELSE /\ goal' = run
               /\ allowance' = [allowance EXCEPT ![g] = @ - 1]
               /\ Advance("linked") /\ UNCHANGED <<cont, asking>>
    <3>1. g # None
      BY <1>4 DEF None, Goals
    <3>. QED  BY <3>1, Zenon DEF StartRun
  <2>2. CASE Raise(goal, FALSE) /\ UNCHANGED allowance
    BY <1>1, <1>2, <2>2, RaiseEarly
  <2>3. CASE goal[g].status = "active" /\ Raise([goal EXCEPT ![g] = Decided(@, why(limit))], FALSE)
             /\ UNCHANGED allowance
    BY <1>1, <1>2, <1>4, <2>3, RaiseEarly
  <2>4. CASE /\ goal[g].status = "active" /\ goal[g].run = None /\ why(limit) = "ready"
             /\ goal' = run /\ allowance' = [allowance EXCEPT ![g] = @ - 1]
             /\ Advance("linked") /\ UNCHANGED <<cont, asking>>
    <3>1. /\ goal \in [Goals -> GoalRecord] /\ goal[g] \in GoalRecord
          /\ turn.run \in 0 .. MaxRuns /\ allowance \in [Goals -> Int] /\ None \notin Goals
      <4>1. None \notin Goals
        BY DEF None, Goals
      <4>2. allowance \in [Goals -> Int]
        BY DEF IInv, TypeOK
      <4>. QED  BY <1>4, <4>1, <4>2, TurnTyped, TypesOfGoals
    <3>2. /\ turn' \in TurnRecord /\ turn'.run = turn.run /\ turn'.by = turn.by /\ turn'.of = turn.of
          /\ turn'.phase = "linked" /\ turn'.goal = turn.goal
      BY <2>4, Advanced DEF Advance, TurnPhases
    <3>3. goal[g].auto => goal[g].turns \in Nat /\ goal[g].turns < MaxAutoTurns
      <4>0. goal[g].turns \in Nat
        BY <3>1, GoalAssumption DEF GoalRecord
      <4>1. CASE goal[g].auto /\ goal[g].linked
        <5>1. ContinueReason(goal[g], limit) = "ready"
          BY <2>4, <4>1 DEF StartReason
        <5>2. goal[g].turns < MaxAutoTurns
          BY <3>1, <4>1, <5>1, ReadyHasTurns
        <5>. QED  BY <4>0, <5>2
      <4>2. CASE goal[g].auto /\ ~goal[g].linked
        BY <1>4, <4>2, GoalAssumption DEF IInv, Consent
      <4>. QED  BY <4>0, <4>1, <4>2
    <3>4. /\ \A h \in Goals : h # g => goal'[h] = goal[h]
          /\ goal'[g] \in GoalRecord /\ goal'[g].run = turn.run /\ goal'[g].linked
          /\ goal'[g].turns = IF goal[g].auto THEN goal[g].turns + 1 ELSE goal[g].turns
          /\ goal'[g].used = goal[g].used /\ goal'[g].lease = goal[g].lease
          /\ goal'[g].auto = goal[g].auto /\ goal'[g].status = goal[g].status
          /\ goal' \in [Goals -> GoalRecord]
      <4>. DEFINE r == [goal[g] EXCEPT !.run = turn.run, !.linked = TRUE,
                                       !.turns = IF goal[g].auto THEN @ + 1 ELSE @]
      <4>1. (IF goal[g].auto THEN goal[g].turns + 1 ELSE goal[g].turns) \in 0 .. MaxAutoTurns
        BY <3>1, <3>3, GoalAssumption DEF GoalRecord
      <4>2. r \in GoalRecord
        BY <3>1, <4>1 DEF GoalRecord
      <4>3. goal' = [goal EXCEPT ![g] = r]
        BY <2>4
      <4>4. r.run = turn.run /\ r.linked /\ r.used = goal[g].used /\ r.lease = goal[g].lease
            /\ r.turns = (IF goal[g].auto THEN goal[g].turns + 1 ELSE goal[g].turns)
            /\ r.auto = goal[g].auto /\ r.status = goal[g].status
        BY <3>1 DEF GoalRecord
      <4>. QED  BY <1>4, <3>1, <4>2, <4>3, <4>4
    <3>5. Money'
      BY <1>2, <3>4, MoneyStays DEF Keep
    <3>6. Consent'
      <4>1. \A h \in Goals : h # g => goal'[h] = goal[h] /\ allowance'[h] = allowance[h]
        BY <2>4, <3>1, <3>4
      <4>2. allowance'[g] = allowance[g] - 1 /\ allowance[g] \in Int
        BY <1>4, <2>4, <3>1
      <4>3. goal[g].auto => allowance'[g] = MaxAutoTurns - goal'[g].turns /\ allowance'[g] >= 0
        BY <1>4, <2>4, <3>3, <3>4, <4>2, GoalAssumption DEF IInv, Consent
      <4>. QED  BY <1>4, <3>4, <4>1, <4>3 DEF IInv, Consent
    <3>7. \A h \in Goals : Live(h)' => Live(h)
      BY <2>4, <3>2, <3>4 DEF Live
    <3>8. Runs' /\ Counted'
      <4>1. \A h \in Goals : Live(h)' => goal'[h].run \in {None, turn'.run} \cup lost'
        BY <1>2, <3>2, <3>4, <3>7 DEF IInv, Runs
      <4>2. \A h \in Goals : goal'[h].run # None /\ goal'[h].run = turn'.run => turn'.goal = h /\ turn'.phase \in Held
        BY <1>1, <3>2, <3>4, NotHeld DEF Held
      <4>3. \A h \in Goals : goal'[h].run <= used'.runs
        BY <1>2, <3>4 DEF IInv, Runs, Counted
      <4>. QED  BY <1>2, <3>2, <4>1, <4>2, <4>3 DEF IInv, Runs, Counted
    <3>9. Settled'
      BY <1>2, <3>4, <3>7 DEF IInv, Settled, Keep
    <3>10. TypeOK'
      BY <1>2, <2>4, <3>1, <3>2, <3>4 DEF IInv, TypeOK, Keep
    <3>11. Quiet' /\ Started'
      BY <1>1, <3>2 DEF IInv, Quiet, Started
    <3>. QED  BY <3>5, <3>6, <3>8, <3>9, <3>10, <3>11 DEF IInv
  <2>. QED  BY <2>1, <2>2, <2>3, <2>4
<1>. QED  BY <1>3, <1>4, TurnTyped

LEMMA TurnFailsStep == ASSUME IInv, TurnFails PROVE IInv'
<1>. DEFINE gs == IF turn.goal = None THEN goal ELSE [goal EXCEPT ![turn.goal] = Aborted(@, turn.run)]
<1>1. PICK handler \in BOOLEAN : Raise(gs, handler)
  BY DEF TurnFails
<1>2. \A h \in Goals : /\ gs[h] = IF h = turn.goal THEN Aborted(goal[h], turn.run) ELSE goal[h]
                       /\ Mild(goal[h], gs[h]) /\ Stays(goal[h], gs[h])
  BY TypesOfGoals, MildSame, MildAborted DEF None, Goals
<1>3. gs \in [Goals -> GoalRecord]
  <2>1. \A h \in Goals : Aborted(goal[h], turn.run) \in GoalRecord
    BY TypesOfGoals, MildAborted DEF Mild
  <2>. QED  BY <2>1, TypesOfGoals
<1>4. \A h \in Goals : ~(gs[h].run # None /\ gs[h].run = turn.run)
  BY <1>2, TypesOfGoals, MildAborted DEF IInv, Runs
<1>5. lost' \subseteq 1 .. MaxRuns /\ lost \subseteq lost'
  BY DEF TurnFails, IInv, TypeOK
<1>. QED  BY <1>1, <1>2, <1>3, <1>4, <1>5, RaiseStep DEF TurnFails, Keep

LEMMA FinishStep ==
    ASSUME IInv, NEW succeeded \in BOOLEAN, NEW why, NEW limit \in BOOLEAN,
           FinishRun(succeeded, why, limit), turn.phase # "none",
           Keep, UNCHANGED <<cont, asking, used, allowance, lost>>
    PROVE  IInv'
<1>. DEFINE g == turn.goal
            r == Finished(goal[g], succeeded, why)
            s == IF r.auto /\ r.status = "active" THEN Decided(r, ContinueReason(r, limit)) ELSE r
<1>1. /\ cont' \in ContRecord /\ asking' \in [Clients -> Goals \cup {None}]
      /\ used' \in [runs : 0 .. MaxRuns, acts : Nat, outside : Nat, crashes : Nat] /\ used'.runs = used.runs
      /\ asking'["create"] \in {asking["create"], None}
  BY DEF IInv, TypeOK
<1>2. CASE g = None
  <2>1. turn' = [turn EXCEPT !.phase = "closing"] /\ goal' = goal
    BY <1>2 DEF FinishRun, Advance
  <2>2. turn' \in TurnRecord /\ turn'.run = turn.run /\ turn'.by = turn.by /\ turn'.of = turn.of
        /\ turn'.phase = "closing" /\ turn'.goal = turn.goal
    BY <2>1, Advanced DEF TurnPhases
  <2>3. \A h \in Goals : ~(goal'[h].run # None /\ goal'[h].run = turn.run)
    BY <1>2, <2>1 DEF IInv, Runs, None, Goals
  <2>. QED  BY <1>1, <2>1, <2>2, <2>3, NoGoalChanges, TurnStep DEF Keep
<1>3. CASE g \in Goals
  <2>1. goal' = [goal EXCEPT ![g] = s]
    BY <1>3 DEF FinishRun, None, Goals
  <2>2. PICK b \in BOOLEAN : turn' = [turn EXCEPT !.phase = "closing", !.again = b]
    <3>1. g # None
      BY <1>3 DEF None, Goals
    <3>2. turn' = [turn EXCEPT !.phase = "closing",
                               !.again = why # "cancelled" /\ ContinueReason(r, limit) \in {"ready", "reserved"}]
      BY <3>1, Zenon DEF FinishRun
    <3>. QED  BY <3>2, Zenon
  <2>3. turn' \in TurnRecord /\ turn'.run = turn.run /\ turn'.by = turn.by /\ turn'.of = turn.of
        /\ turn'.phase = "closing" /\ turn'.goal = turn.goal
    <3>1. turn \in TurnRecord
      BY TurnTyped
    <3>. QED  BY <2>2, <3>1 DEF TurnRecord, TurnPhases
  <2>4. Mild(goal[g], r) /\ r.run = None /\ r \in GoalRecord
    BY <1>3, TypesOfGoals, MildFinished DEF Mild
  <2>5. Mild(goal[g], s) /\ s.run = None
    <3>1. Mild(r, Decided(r, ContinueReason(r, limit))) /\ Decided(r, ContinueReason(r, limit)).run = r.run
      BY <2>4, MildDecided
    <3>2. Mild(goal[g], Decided(r, ContinueReason(r, limit)))
      BY <1>3, <2>4, <3>1, MildTwice, TypesOfGoals
    <3>. QED  BY <2>4, <3>1, <3>2
  <2>6. /\ goal' \in [Goals -> GoalRecord]
        /\ \A h \in Goals : /\ goal'[h] = IF h = g THEN s ELSE goal[h]
                            /\ Mild(goal[h], goal'[h])
                            /\ goal'[h].status \in Unfinished => Live(h)
    BY <1>3, <2>1, <2>5, OneGoal DEF Live
  <2>7. \A h \in Goals : ~(goal'[h].run # None /\ goal'[h].run = turn.run)
    BY <2>5, <2>6 DEF IInv, Runs
  <2>. QED  BY <1>1, <2>3, <2>6, <2>7, TurnStep DEF Keep
<1>. QED  BY <1>2, <1>3, TurnTyped

LEMMA RunEndsStep == ASSUME IInv, RunEnds PROVE IInv'
BY FinishStep DEF RunEnds, Ends

LEMMA CloseFailsStep == ASSUME IInv, CloseFails PROVE IInv'
<1>1. PICK handler \in BOOLEAN :
        \/ turn.phase = "closing" /\ Raise(goal, handler)
        \/ /\ turn.goal # None
           /\ \E succeeded \in BOOLEAN, why \in Reasons :
                /\ Ends(succeeded, why)
                /\ Raise([goal EXCEPT ![turn.goal] = Finished(@, succeeded, why)], handler)
  BY DEF CloseFails
<1>2. Keep /\ UNCHANGED <<used, allowance, lost>>
  BY DEF CloseFails
<1>3. CASE turn.phase = "closing" /\ Raise(goal, handler)
  BY <1>2, <1>3, RaiseEarly DEF Held
<1>4. ASSUME turn.goal # None, NEW succeeded \in BOOLEAN, NEW why \in Reasons,
             Raise([goal EXCEPT ![turn.goal] = Finished(@, succeeded, why)], handler)
      PROVE  IInv'
  <2>. DEFINE g == turn.goal
              r == Finished(goal[g], succeeded, why)
              gs == [goal EXCEPT ![g] = r]
  <2>1. g \in Goals /\ goal[g] \in GoalRecord
    BY <1>4, TurnTyped, TypesOfGoals
  <2>2. Mild(goal[g], r) /\ r.run = None /\ r \in GoalRecord
    BY <2>1, MildFinished DEF Mild
  <2>. HIDE DEF r
  <2>3. /\ gs \in [Goals -> GoalRecord]
        /\ \A h \in Goals : /\ gs[h] = IF h = g THEN r ELSE goal[h]
                            /\ Mild(goal[h], gs[h]) /\ (Stays(goal[h], gs[h]) \/ h = g)
    BY <2>1, <2>2, TypesOfGoals, MildSame
  <2>4. \A h \in Goals : ~(gs[h].run # None /\ gs[h].run = turn.run)
    BY <2>2, <2>3 DEF IInv, Runs
  <2>5. lost' \subseteq 1 .. MaxRuns /\ lost \subseteq lost'
    BY <1>2 DEF IInv, TypeOK
  <2>6. Raise(gs, handler)
    BY <1>4 DEF r
  <2>. HIDE DEF gs
  <2>. QED  BY <1>2, <2>3, <2>4, <2>5, <2>6, RaiseStep DEF Keep
<1>. QED  BY <1>1, <1>3, <1>4

LEMMA CloseStep == ASSUME IInv, Close PROVE IInv'
<1>1. turn' = NoTurn /\ goal' = goal /\ asking' = asking /\ used' = used /\ lost' = lost
  BY DEF Close
<1>2. MildChange
  <2>1. \A g \in Goals : Live(g)' => Live(g)
    BY <1>1 DEF Live, NoTurn, None, Goals
  <2>. QED  BY <1>1, <2>1, NoGoalChanges DEF MildChange
<1>3. Money' /\ Consent' /\ Settled'
  BY <1>2, MildStep DEF Close, Keep
<1>4. Runs' /\ Counted'
  <2>1. \A h \in Goals : ~(goal'[h].run # None /\ goal'[h].run = turn.run)
    BY <1>1, NotHeld DEF Close, Held
  <2>. QED  BY <1>1, <1>2, <2>1, TurnEnds
<1>5. cont' \in ContRecord
  <2>1. cont \in ContRecord /\ turn.goal \in Goals \cup {None}
    BY TurnTyped DEF IInv, TypeOK
  <2>2. [NoCont EXCEPT !.phase = "waiting", !.goal = turn.goal] \in ContRecord
    BY <2>1, NoneTyped DEF ContRecord
  <2>. QED  BY <2>1, <2>2, NoneTyped DEF Close
<1>6. TypeOK'
  BY <1>1, <1>5, NoneTyped DEF IInv, TypeOK, Close, Keep
<1>7. Quiet' /\ Started'
  BY <1>1 DEF Quiet, Started, NoTurn
<1>. QED  BY <1>3, <1>4, <1>6, <1>7 DEF IInv

-----------------------------------------------------------------------------
(* Changes of one goal beside the turn: of the continuation, the agent and *)
(* clients                                                                 *)

LEMMA Stopped ==
    ASSUME IInv, turn' = turn \/ Stopping
    PROVE  /\ turn' \in TurnRecord /\ turn'.run = turn.run /\ turn'.by = turn.by /\ turn'.of = turn.of
           /\ turn'.goal = turn.goal
           /\ turn.phase = "none" \/ turn'.phase = "none" => turn'.phase = turn.phase
           /\ turn.phase \in Held => turn'.phase \in Held
<1>1. CASE turn' = turn
  BY <1>1, TurnTyped
<1>2. CASE turn.phase \in {"prepared", "running"} /\ turn' = [turn EXCEPT !.phase = "cancelled"]
  BY <1>2, Advanced DEF TurnPhases, Held
<1>. QED  BY <1>1, <1>2 DEF Stopping

LEMMA BesideStep ==
    ASSUME IInv, NEW g \in Goals, NEW s, goal' = [goal EXCEPT ![g] = s], Mild(goal[g], s),
           s.status \in Unfinished => Live(g),
           turn' = turn \/ Stopping, cont' \in ContRecord, Keep, UNCHANGED <<asking, allowance, lost>>,
           used' \in [runs : 0 .. MaxRuns, acts : Nat, outside : Nat, crashes : Nat], used'.runs = used.runs
    PROVE  IInv'
<1>1. /\ goal' \in [Goals -> GoalRecord]
      /\ \A h \in Goals : /\ goal'[h] = IF h = g THEN s ELSE goal[h]
                          /\ Mild(goal[h], goal'[h])
                          /\ goal'[h].status \in Unfinished => Live(h)
  BY OneGoal
<1>2. \A h \in Goals : goal'[h].run # None /\ goal'[h].run = turn.run => turn'.goal = h /\ turn'.phase \in Held
  BY <1>1, Stopped DEF IInv, Runs, Mild
<1>3. asking' \in [Clients -> Goals \cup {None}] /\ asking'["create"] \in {asking["create"], None}
  BY DEF IInv, TypeOK
<1>. QED  BY <1>1, <1>2, <1>3, Stopped, TurnStep DEF Keep

LEMMA UsedTyped ==
    ASSUME IInv
    PROVE  /\ used \in [runs : 0 .. MaxRuns, acts : Nat, outside : Nat, crashes : Nat]
           /\ Act => /\ used' \in [runs : 0 .. MaxRuns, acts : Nat, outside : Nat, crashes : Nat]
                     /\ used'.runs = used.runs
BY DEF IInv, TypeOK, Act

LEMMA ContTyped ==
    ASSUME IInv
    PROVE  cont \in ContRecord /\ NoCont \in ContRecord /\ cont.goal \in Goals \cup {None}
BY NoneTyped DEF IInv, TypeOK, ContRecord

\* Nothing but the continuation changes.
LEMMA ContStep ==
    ASSUME IInv, cont' \in ContRecord, UNCHANGED <<goal, turn, asking, call, used, spent, overspent, unsettled, allowance, lost>>
    PROVE  IInv'
<1>1. \A h \in Goals : goal'[h].run # None /\ goal'[h].run = turn.run => turn'.goal = h /\ turn'.phase \in Held
  BY DEF IInv, Runs
<1>2. asking' \in [Clients -> Goals \cup {None}] /\ asking'["create"] \in {asking["create"], None}
  BY DEF IInv, TypeOK
<1>. QED  BY <1>1, <1>2, Stopped, UsedTyped, NoGoalChanges, TurnStep

LEMMA ContinueStep == ASSUME IInv, Continue PROVE IInv'
<1>. DEFINE g == cont.goal
<1>1. Keep /\ UNCHANGED <<turn, asking, used, allowance, lost>>
  BY DEF Continue
<1>2. CASE goal[g].status # "active"
  <2>1. cont' = NoCont /\ goal' = goal
    BY <1>2 DEF Continue
  <2>. QED  BY <1>1, <2>1, ContTyped, ContStep DEF Keep
<1>3. CASE goal[g].status = "active"
  <2>1. PICK limit \in BOOLEAN :
          LET why == ContinueReason(goal[g], limit)
          IN CASE why = "ready" -> cont' = [cont EXCEPT !.phase = "asking"] /\ UNCHANGED goal
               [] why = "reserved" /\ Patience(cont.waits) ->
                    cont' = [cont EXCEPT !.waits = IF @ < MaxWaits THEN @ + 1 ELSE @] /\ UNCHANGED goal
               [] why = "reserved" /\ ~Patience(cont.waits) ->
                    cont' = NoCont /\ goal' = [goal EXCEPT ![g] = Block(@)]
               [] OTHER -> cont' = NoCont /\ goal' = [goal EXCEPT ![g] = Decided(@, why)]
    BY <1>3 DEF Continue
  <2>. DEFINE why == ContinueReason(goal[g], limit)
  <2>2. \/ cont' = [cont EXCEPT !.phase = "asking"] /\ UNCHANGED goal
        \/ cont' = [cont EXCEPT !.waits = IF @ < MaxWaits THEN @ + 1 ELSE @] /\ UNCHANGED goal
        \/ cont' = NoCont /\ goal' = [goal EXCEPT ![g] = Block(@)]
        \/ cont' = NoCont /\ goal' = [goal EXCEPT ![g] = Decided(@, why)]
    BY <2>1
  <2>3. CASE cont' = [cont EXCEPT !.phase = "asking"] /\ UNCHANGED goal
    <3>1. cont' \in ContRecord
      BY <2>3, ContTyped DEF ContRecord
    <3>. QED  BY <1>1, <2>3, <3>1, ContStep DEF Keep
  <2>4. CASE cont' = [cont EXCEPT !.waits = IF @ < MaxWaits THEN @ + 1 ELSE @] /\ UNCHANGED goal
    <3>1. cont' \in ContRecord
      BY <2>4, ContTyped, GoalAssumption DEF ContRecord
    <3>. QED  BY <1>1, <2>4, <3>1, ContStep DEF Keep
  <2>5. CASE cont' = NoCont /\ goal' = [goal EXCEPT ![g] = Block(@)]
    <3>1. CASE g \in Goals
      <4>1. Mild(goal[g], Block(goal[g])) /\ Live(g)
        BY <1>3, <3>1, TypesOfGoals, MildBlock DEF Live, Unfinished
      <4>. QED  BY <1>1, <2>5, <3>1, <4>1, ContTyped, UsedTyped, BesideStep
    <3>2. CASE g = None
      <4>1. goal' = goal
        BY <2>5, <3>2, TypesOfGoals DEF None, Goals
      <4>. QED  BY <1>1, <2>5, <4>1, ContTyped, ContStep DEF Keep
    <3>. QED  BY <3>1, <3>2, ContTyped
  <2>6. CASE cont' = NoCont /\ goal' = [goal EXCEPT ![g] = Decided(@, why)]
    <3>1. CASE g \in Goals
      <4>1. Mild(goal[g], Decided(goal[g], why)) /\ Live(g)
        BY <1>3, <3>1, TypesOfGoals, MildDecided DEF Live, Unfinished
      <4>. QED  BY <1>1, <2>6, <3>1, <4>1, ContTyped, UsedTyped, BesideStep
    <3>2. CASE g = None
      <4>1. goal' = goal
        BY <2>6, <3>2, TypesOfGoals DEF None, Goals
      <4>. QED  BY <1>1, <2>6, <4>1, ContTyped, ContStep DEF Keep
    <3>. QED  BY <3>1, <3>2, ContTyped
  <2>. QED  BY <2>2, <2>3, <2>4, <2>5, <2>6
<1>. QED  BY <1>2, <1>3

LEMMA ContinueTurnStep == ASSUME IInv, ContinueTurn PROVE IInv'
<1>1. cont' \in ContRecord /\ cont.goal \in Goals \cup {None}
  BY ContTyped DEF ContinueTurn, ContRecord
<1>2. used'.runs = used.runs + 1 /\ used' \in [runs : Nat, acts : Nat, outside : Nat, crashes : Nat]
  BY CountedRun DEF ContinueTurn
<1>3. asking' \in [Clients -> Goals \cup {None}] /\ asking'["create"] \in {asking["create"], None}
  BY DEF ContinueTurn, IInv, TypeOK
<1>. QED  BY <1>1, <1>2, <1>3, BeginStep DEF ContinueTurn, Keep

LEMMA SendStep == ASSUME IInv, Send PROVE IInv'
<1>1. used'.runs = used.runs + 1 /\ used' \in [runs : Nat, acts : Nat, outside : Nat, crashes : Nat]
  <2>1. used' = [used EXCEPT !.acts = @ + 1, !.runs = @ + 1]
    BY DEF Send
  <2>2. used \in [runs : Nat, acts : Nat, outside : Nat, crashes : Nat]
    BY UsedTyped, GoalAssumption
  <2>3. used.runs \in Nat /\ used.acts \in Nat
    BY <2>2
  <2>. DEFINE u == [used EXCEPT !.acts = used.acts + 1]
  <2>4. u \in [runs : Nat, acts : Nat, outside : Nat, crashes : Nat]
    BY <2>2, <2>3
  <2>5. used' = [u EXCEPT !.runs = used.runs + 1]
    BY <2>1, <2>2
  <2>. HIDE DEF u
  <2>. QED  BY <2>3, <2>4, <2>5
<1>2. asking' \in [Clients -> Goals \cup {None}] /\ asking'["create"] \in {asking["create"], None}
  BY DEF Send, IInv, TypeOK
<1>3. turn.phase = "none" /\ cont' \in ContRecord
  BY ContTyped DEF Send, Client, Busy
<1>. QED  BY <1>1, <1>2, <1>3, BeginStep DEF Send, Client, Keep

\* What the agent may do is done to the goal of the turn.
LEMMA AgentStep ==
    ASSUME IInv, NEW g \in Goals, NEW s, goal' = [goal EXCEPT ![g] = s], Mild(goal[g], s), Agent,
           s.status \in Unfinished => Live(g)
    PROVE  IInv'
BY ContTyped, UsedTyped, BesideStep DEF Agent

LEMMA NothingStep == ASSUME IInv, UNCHANGED vars PROVE IInv'
BY ContTyped, ContStep DEF vars

LEMMA VerifyStep == ASSUME IInv, Verify PROVE IInv'
<1>1. PICK g \in Goals, some \in SUBSET Criteria :
        /\ some \subseteq goal[g].criteria
        /\ goal' = [goal EXCEPT ![g].verified = @ \cup some \cup {Gate}]
  BY DEF Verify
<1>. DEFINE s == [goal[g] EXCEPT !.verified = @ \cup some \cup {Gate}]
<1>2. goal[g] \in GoalRecord
  BY TypesOfGoals
<1>3. Mild(goal[g], s) /\ s.status = goal[g].status
  BY <1>2 DEF Mild, GoalRecord
<1>. QED  BY <1>1, <1>3, AgentStep DEF Verify, Live

LEMMA CompleteByAgentStep == ASSUME IInv, CompleteByAgent PROVE IInv'
<1>. DEFINE g == turn.goal
            s == [goal[g] EXCEPT !.status = "completed", !.confirm = FALSE]
<1>1. goal' = [goal EXCEPT ![g] = s]
  BY DEF CompleteByAgent
<1>2. CASE g \in Goals
  <2>1. Mild(goal[g], s) /\ s.status \notin Unfinished
    <3>1. goal[g] \in GoalRecord
      BY <1>2, TypesOfGoals
    <3>. QED  BY <3>1 DEF Mild, GoalRecord, GoalStatus, Unfinished
  <2>. QED  BY <1>1, <1>2, <2>1, AgentStep DEF CompleteByAgent
<1>3. CASE g = None
  BY <1>1, <1>3, TypesOfGoals, NothingStep DEF CompleteByAgent, Agent, Keep, vars, None, Goals
<1>. QED  BY <1>2, <1>3, TurnTyped

LEMMA BlockByAgentStep == ASSUME IInv, BlockByAgent PROVE IInv'
<1>. DEFINE g == turn.goal
<1>1. goal' = [goal EXCEPT ![g] = Block(@)]
  BY DEF BlockByAgent
<1>2. CASE g \in Goals
  BY <1>1, <1>2, TypesOfGoals, MildBlock, AgentStep DEF BlockByAgent, Live
<1>3. CASE g = None
  BY <1>1, <1>3, TypesOfGoals, NothingStep DEF BlockByAgent, Agent, Keep, vars, None, Goals
<1>. QED  BY <1>2, <1>3, TurnTyped

\* What a client does to a goal it could see.
LEMMA ClientStep ==
    ASSUME IInv, NEW g \in Goals, NEW s, goal' = [goal EXCEPT ![g] = s], Mild(goal[g], s),
           s.status \in Unfinished => goal[g].status \in Unfinished,
           Act, turn' = turn \/ Stopping, Client, UNCHANGED <<asking, allowance>>
    PROVE  IInv'
BY ContTyped, UsedTyped, BesideStep DEF Client, Live

LEMMA PauseGoalStep == ASSUME IInv, PauseGoal PROVE IInv'
<1>1. PICK g \in Goals : /\ goal[g].status \in {"active", "blocked"}
                         /\ goal' = [goal EXCEPT ![g].status = "paused", ![g].confirm = FALSE]
  BY DEF PauseGoal
<1>. DEFINE s == [goal[g] EXCEPT !.status = "paused", !.confirm = FALSE]
<1>2. Mild(goal[g], s)
  <2>1. goal[g] \in GoalRecord
    BY TypesOfGoals
  <2>. QED  BY <1>1, <2>1 DEF Mild, GoalRecord, GoalStatus, Unfinished
<1>3. goal' = [goal EXCEPT ![g] = s] /\ goal[g].status \in Unfinished
  BY <1>1 DEF Unfinished
<1>. QED  BY <1>2, <1>3, ClientStep DEF PauseGoal

LEMMA ClearGoalStep == ASSUME IInv, ClearGoal PROVE IInv'
<1>1. PICK g \in Goals :
        /\ goal[g].status \in Unfinished
        /\ goal' = [goal EXCEPT ![g].status = "cleared", ![g].confirm = FALSE, ![g].run = None]
  BY DEF ClearGoal
<1>. DEFINE s == [goal[g] EXCEPT !.status = "cleared", !.confirm = FALSE, !.run = None]
<1>2. Mild(goal[g], s)
  <2>1. goal[g] \in GoalRecord
    BY TypesOfGoals
  <2>2. None \in 0 .. MaxRuns
    BY GoalAssumption DEF None
  <2>3. s = [[goal[g] EXCEPT !.status = "cleared", !.confirm = FALSE] EXCEPT !.run = None]
    BY <2>1
  <2>. QED  BY <2>1, <2>2, <2>3 DEF Mild, GoalRecord, GoalStatus, Unfinished
<1>3. goal' = [goal EXCEPT ![g] = s] /\ goal[g].status \in Unfinished
  BY <1>1
<1>. QED  BY <1>2, <1>3, ClientStep DEF ClearGoal

LEMMA CompleteGoalStep == ASSUME IInv, CompleteGoal PROVE IInv'
<1>1. PICK g \in Goals : /\ goal[g].status \in Unfinished
                         /\ goal' = [goal EXCEPT ![g].status = "completed", ![g].confirm = FALSE]
  BY DEF CompleteGoal
<1>. DEFINE s == [goal[g] EXCEPT !.status = "completed", !.confirm = FALSE]
<1>2. Mild(goal[g], s)
  <2>1. goal[g] \in GoalRecord
    BY TypesOfGoals
  <2>. QED  BY <1>1, <2>1 DEF Mild, GoalRecord, GoalStatus, Unfinished
<1>3. goal' = [goal EXCEPT ![g] = s] /\ goal[g].status \in Unfinished
  BY <1>1
<1>. QED  BY <1>2, <1>3, ClientStep DEF CompleteGoal

LEMMA EditGoalStep == ASSUME IInv, EditGoal PROVE IInv'
<1>1. PICK g \in Goals, criteria \in SUBSET Criteria :
        goal[g].status \in Unfinished /\ goal' = [goal EXCEPT ![g].criteria = criteria]
  BY DEF EditGoal
<1>. DEFINE s == [goal[g] EXCEPT !.criteria = criteria]
<1>2. Mild(goal[g], s)
  <2>1. goal[g] \in GoalRecord
    BY TypesOfGoals
  <2>. QED  BY <2>1 DEF Mild, GoalRecord
<1>. QED  BY <1>1, <1>2, ClientStep DEF EditGoal

LEMMA DecideGoalStep == ASSUME IInv, DecideGoal PROVE IInv'
<1>1. PICK g \in Goals, limit \in BOOLEAN : goal' = [goal EXCEPT ![g] = Decided(@, ContinueReason(@, limit))]
  BY DEF DecideGoal
<1>. DEFINE s == Decided(goal[g], ContinueReason(goal[g], limit))
<1>2. goal[g] \in GoalRecord
  BY TypesOfGoals
<1>3. Mild(goal[g], s)
  BY <1>2, MildDecided
<1>4. s.status \in Unfinished => goal[g].status \in Unfinished
  BY <1>2, DecisionIsOfActive DEF Decided, Unfinished
<1>5. goal' = [goal EXCEPT ![g] = s]
  BY <1>1
<1>. QED  BY <1>3, <1>4, <1>5, ClientStep DEF DecideGoal

LEMMA CancelRunStep == ASSUME IInv, CancelRun PROVE IInv'
<1>1. \A h \in Goals : goal'[h].run # None /\ goal'[h].run = turn.run => turn'.goal = h /\ turn'.phase \in Held
  BY Stopped DEF CancelRun, IInv, Runs
<1>2. asking' \in [Clients -> Goals \cup {None}] /\ asking'["create"] \in {asking["create"], None}
  BY DEF CancelRun, IInv, TypeOK
<1>3. cont' \in ContRecord
  BY ContTyped DEF CancelRun, Client
<1>. QED  BY <1>1, <1>2, <1>3, Stopped, UsedTyped, NoGoalChanges, TurnStep DEF CancelRun, Client, Keep

-----------------------------------------------------------------------------
(* Tokens *)

LEMMA MinOfTwo ==
    ASSUME NEW a \in Int, NEW b \in Int
    PROVE  Min({a, b}) = IF a <= b THEN a ELSE b
<1>. DEFINE m == IF a <= b THEN a ELSE b
<1>1. m \in {a, b} /\ \A y \in {a, b} : m <= y
  OBVIOUS
<1>2. \A x \in {a, b} : (\A y \in {a, b} : x <= y) => x = m
  OBVIOUS
<1>. QED  BY <1>1, <1>2, Zenon DEF Min

LEMMA TokensTyped ==
    ASSUME IInv, NEW g \in Goals
    PROVE  /\ goal[g] \in GoalRecord /\ goal[g].used \in Nat /\ spent[g] \in Nat
           /\ goal[g].lease \in [Holders -> 0 .. Budget] /\ Budget \in Nat
           /\ goal[g].lease["run"] \in Nat /\ goal[g].lease["worker"] \in Nat /\ goal[g].lease["gone"] \in Nat
           /\ Reserved(goal[g]) \in Nat
           /\ InFlight(g) = goal[g].lease["run"] + goal[g].lease["worker"]
           /\ Reserved(goal[g]) <= Budget
<1>1. goal[g] \in GoalRecord /\ spent[g] \in Nat
  BY DEF IInv, TypeOK
<1>2. goal[g].used \in Nat /\ goal[g].lease \in [Holders -> 0 .. Budget] /\ Budget \in Nat
  BY <1>1, GoalAssumption DEF GoalRecord
<1>3. goal[g].lease["run"] \in Nat /\ goal[g].lease["worker"] \in Nat /\ goal[g].lease["gone"] \in Nat
  BY <1>2 DEF Holders, Callers
<1>4. \A c \in Callers : (IF call[c] = g THEN goal[g].lease[c] ELSE 0) = goal[g].lease[c]
  BY DEF IInv, Money, LeasesOwned
<1>5. InFlight(g) = goal[g].lease["run"] + goal[g].lease["worker"]
  BY <1>4 DEF InFlight, Callers
<1>6. Reserved(goal[g]) \in Nat
  BY <1>3 DEF Reserved
<1>. QED  BY <1>1, <1>2, <1>3, <1>5, <1>6 DEF IInv, Money, Fits

\* A caller's lease of one goal becomes another one, and tokens are spent.
Leased(g, c, s, lease, tokens) ==
    /\ s \in GoalRecord /\ lease \in 0 .. Budget /\ tokens \in Nat
    /\ goal' = [goal EXCEPT ![g] = s] /\ spent' = [spent EXCEPT ![g] = @ + tokens]
    /\ s.lease = [goal[g].lease EXCEPT ![c] = lease] /\ s.used = goal[g].used + tokens
    /\ call' \in [Callers -> Goals \cup {None}] /\ \A d \in Callers : d # c => call'[d] = call[d]
    /\ \A h \in Goals : h # g => call[c] # h /\ call'[c] # h
    /\ call'[c] # g => lease = 0
    /\ overspent \subseteq overspent'
    /\ g \notin overspent' => goal[g].used + Reserved(goal[g]) + tokens + lease - goal[g].lease[c] <= Budget
    /\ Reserved(goal[g]) + lease - goal[g].lease[c] <= Budget
    /\ goal[g].status # "none" /\ s.status # "none"

LEMMA LeaseStep ==
    ASSUME IInv, NEW g \in Goals, NEW c \in Callers, NEW s, NEW lease, NEW tokens, Leased(g, c, s, lease, tokens)
    PROVE  Money'
<1>. USE DEF Leased
<1>1. /\ goal' \in [Goals -> GoalRecord] /\ goal'[g] = s
      /\ \A h \in Goals : h # g => goal'[h] = goal[h] /\ spent'[h] = spent[h]
      /\ spent'[g] = spent[g] + tokens
  BY TypesOfGoals DEF IInv, TypeOK
<1>2. /\ s.lease[c] = lease /\ \A d \in Holders : d # c => s.lease[d] = goal[g].lease[d]
      /\ c \in {"run", "worker"}
  BY TokensTyped DEF Holders, Callers
<1>3. LeasesOwned'
  <2>1. ASSUME NEW h \in Goals, NEW d \in Callers, call'[d] # h PROVE goal'[h].lease[d] = 0
    <3>1. CASE h = g /\ d = c
      BY <1>1, <1>2, <2>1, <3>1
    <3>2. CASE h = g /\ d # c
      BY <1>1, <1>2, <2>1, <3>2 DEF IInv, Money, LeasesOwned, Holders
    <3>3. CASE h # g
      BY <1>1, <2>1, <3>3 DEF IInv, Money, LeasesOwned
    <3>. QED  BY <3>1, <3>2, <3>3
  <2>. QED  BY <2>1 DEF LeasesOwned
<1>4. \A h \in Goals : InFlight(h)' = goal'[h].lease["run"] + goal'[h].lease["worker"]
  <2>1. \A h \in Goals : \A d \in Callers : (IF call'[d] = h THEN goal'[h].lease[d] ELSE 0) = goal'[h].lease[d]
    BY <1>3 DEF LeasesOwned
  <2>. QED  BY <2>1 DEF InFlight, Callers
<1>5. /\ Reserved(s) = Reserved(goal[g]) + lease - goal[g].lease[c]
      /\ s.lease["run"] + s.lease["worker"] = InFlight(g) + lease - goal[g].lease[c]
      /\ goal[g].lease[c] \in Nat
  <2>1. CASE c = "run"
    BY <1>2, <2>1, TokensTyped DEF Reserved, Holders, Callers
  <2>2. CASE c = "worker"
    BY <1>2, <2>2, TokensTyped DEF Reserved, Holders, Callers
  <2>. QED  BY <1>2, <2>1, <2>2
<1>6. Accounts'
  <2>1. ASSUME NEW h \in Goals, h \notin overspent', h # g
        PROVE  /\ spent'[h] + InFlight(h)' <= goal'[h].used + Reserved(goal'[h])
               /\ goal'[h].used + Reserved(goal'[h]) <= Budget
    <3>1. InFlight(h)' = InFlight(h)
      BY <1>1, <1>4, <2>1, TokensTyped
    <3>. QED  BY <1>1, <2>1, <3>1 DEF IInv, Money, Accounts
  <2>2. ASSUME g \notin overspent'
        PROVE  /\ spent'[g] + InFlight(g)' <= goal'[g].used + Reserved(goal'[g])
               /\ goal'[g].used + Reserved(goal'[g]) <= Budget
    <3>1. /\ spent[g] + InFlight(g) <= goal[g].used + Reserved(goal[g])
          /\ goal[g].used \in Nat /\ spent[g] \in Nat /\ Reserved(goal[g]) \in Nat /\ InFlight(g) \in Nat
      BY <2>2, TokensTyped DEF IInv, Money, Accounts
    <3>2. InFlight(g)' = InFlight(g) + lease - goal[g].lease[c]
      BY <1>1, <1>4, <1>5
    <3>. QED  BY <1>1, <1>5, <2>2, <3>1, <3>2, TokensTyped
  <2>. QED  BY <2>1, <2>2 DEF Accounts
<1>7. Unspent'
  BY <1>1 DEF IInv, Money, Unspent
<1>8. Fits'
  BY <1>1, <1>5 DEF IInv, Money, Fits
<1>. QED  BY <1>3, <1>6, <1>7, <1>8 DEF Money

\* What tokens are not: the goals keep their turns, and only the fate of the
\* turn may change.
LEMMA SpendStep ==
    ASSUME IInv, Money', NEW g \in Goals, NEW s \in GoalRecord, goal' = [goal EXCEPT ![g] = s],
           s.auto = goal[g].auto, s.turns = goal[g].turns, s.linked = goal[g].linked, s.run = goal[g].run,
           s.status = "active" => goal[g].status = "active",
           s.status \in Unfinished => goal[g].status \in Unfinished,
           s.lease["gone"] = goal[g].lease["gone"] \/ g \in unsettled',
           unsettled \subseteq unsettled', unsettled' \subseteq Goals,
           NEW fate \in {"open", "transient", "failed"}, turn' \in {turn, [turn EXCEPT !.fate = fate]},
           call' \in [Callers -> Goals \cup {None}],
           used' \in [runs : 0 .. MaxRuns, acts : Nat, outside : Nat, crashes : Nat], used'.runs = used.runs,
           spent' \in [Goals -> Nat], overspent' \subseteq Goals, Still
    PROVE  IInv'
<1>1. goal' \in [Goals -> GoalRecord] /\ goal'[g] = s /\ \A h \in Goals : h # g => goal'[h] = goal[h]
  BY TypesOfGoals
<1>2. /\ turn' \in TurnRecord /\ turn'.run = turn.run /\ turn'.by = turn.by /\ turn'.of = turn.of
      /\ turn'.goal = turn.goal /\ turn'.phase = turn.phase
  <2>1. turn \in TurnRecord
    BY TurnTyped
  <2>. QED  BY <2>1 DEF TurnRecord
<1>3. TypeOK'
  BY <1>1, <1>2 DEF IInv, TypeOK, Still
<1>4. \A h \in Goals : Live(h)' => Live(h)
  BY <1>1, <1>2 DEF Live, Still
<1>5. Consent'
  BY <1>1 DEF IInv, Consent, Still
<1>6. Runs' /\ Counted'
  BY <1>1, <1>2, <1>4 DEF IInv, Runs, Counted, Still
<1>7. Settled'
  BY <1>1, <1>4 DEF IInv, Settled
<1>8. Quiet' /\ Started'
  BY <1>2 DEF IInv, Quiet, Started
<1>. QED  BY <1>3, <1>5, <1>6, <1>7, <1>8 DEF IInv

LEMMA Fates ==
    ASSUME NEW c, NEW fate, Fate(c, fate) PROVE turn' \in {turn, [turn EXCEPT !.fate = fate]}
BY DEF Fate

LEMMA ReservationStep == ASSUME IInv, NEW c \in Callers, NEW g \in Goals, Reservation(c, g) PROVE IInv'
<1>. DEFINE available == Available(goal[g])
            held == Reserved(goal[g]) > 0
            lease == Min({available, Most})
<1>1. Still /\ UNCHANGED <<spent, overspent, unsettled>> /\ call[c] = None /\ goal[g].status # "none"
  BY DEF Reservation, Idle, Callers
<1>2. used' \in [runs : 0 .. MaxRuns, acts : Nat, outside : Nat, crashes : Nat] /\ used'.runs = used.runs
  <2>1. used' = used \/ used' = [used EXCEPT !.outside = @ + 1]
    BY DEF Reservation
  <2>. QED  BY <2>1, UsedTyped
<1>3. /\ spent' \in [Goals -> Nat] /\ overspent' \subseteq Goals /\ unsettled' \subseteq Goals
      /\ unsettled \subseteq unsettled' /\ call \in [Callers -> Goals \cup {None}]
      /\ turn.fate \in {"open", "transient", "failed"}
  BY <1>1, TurnTyped DEF IInv, TypeOK, TurnRecord
<1>4. goal[g] \in GoalRecord /\ \A h \in Goals : [goal EXCEPT ![h] = goal[h]] = goal
  BY TypesOfGoals
<1>5. \/ goal' = goal /\ call' = call /\ (Fate(c, "failed") \/ Fate(c, "transient"))
      \/ /\ goal[g].status = "active" /\ available >= Least
         /\ goal' = [goal EXCEPT ![g].lease[c] = lease] /\ call' = [call EXCEPT ![c] = g] /\ turn' = turn
      \/ goal' = [goal EXCEPT ![g] = Pause(@)] /\ goal[g].status = "active" /\ call' = call /\ Fate(c, "failed")
  BY DEF Reservation
<1>6. CASE goal' = goal /\ call' = call /\ (Fate(c, "failed") \/ Fate(c, "transient"))
  <2>1. goal' = [goal EXCEPT ![g] = goal[g]]
    BY <1>4, <1>6
  <2>2. Money'
    BY <1>1, <1>6, MoneyStays
  <2>3. PICK fate \in {"open", "transient", "failed"} : turn' \in {turn, [turn EXCEPT !.fate = fate]}
    BY <1>6, Fates
  <2>. QED  BY <1>1, <1>2, <1>3, <1>4, <1>6, <2>1, <2>2, <2>3, SpendStep
<1>7. CASE /\ goal[g].status = "active" /\ available >= Least
           /\ goal' = [goal EXCEPT ![g].lease[c] = lease] /\ call' = [call EXCEPT ![c] = g] /\ turn' = turn
  <2>. DEFINE s == [goal[g] EXCEPT !.lease[c] = lease]
  <2>1. /\ available = Budget - goal[g].used - Reserved(goal[g]) /\ available \in Int
        /\ Most \in Nat /\ Least \in Nat /\ Most >= Least /\ Least > 0
    BY TokensTyped, GoalAssumption DEF Available
  <2>2. lease \in Nat /\ lease <= available
    <3>1. available >= Least
      BY <1>7
    <3>. HIDE DEF available
    <3>2. lease = IF available <= Most THEN available ELSE Most
      BY <2>1, MinOfTwo
    <3>. HIDE DEF lease
    <3>. QED  BY <2>1, <3>1, <3>2
  <2>3. lease \in 0 .. Budget
    BY <2>1, <2>2, TokensTyped
  <2>4. /\ s \in GoalRecord /\ s.lease = [goal[g].lease EXCEPT ![c] = lease] /\ s.used = goal[g].used
        /\ s.auto = goal[g].auto /\ s.turns = goal[g].turns /\ s.linked = goal[g].linked /\ s.run = goal[g].run
        /\ s.status = goal[g].status
    BY <1>4, <2>3 DEF GoalRecord, Holders
  <2>5. goal' = [goal EXCEPT ![g] = s]
    BY <1>7
  <2>6. goal[g].lease[c] = 0
    BY <1>1 DEF IInv, Money, LeasesOwned, None, Goals
  <2>7. /\ call' \in [Callers -> Goals \cup {None}] /\ call'[c] = g
        /\ \A d \in Callers : d # c => call'[d] = call[d]
    BY <1>3, <1>7
  <2>8. s.lease["gone"] = goal[g].lease["gone"]
    BY <2>4, TokensTyped DEF Holders, Callers
  <2>9. Money'
    <3>1. spent' = [spent EXCEPT ![g] = @ + 0] /\ s.used = goal[g].used + 0
      BY <1>1, <2>4, TokensTyped DEF IInv, TypeOK
    <3>2. /\ goal[g].used + Reserved(goal[g]) + 0 + lease - goal[g].lease[c] <= Budget
          /\ Reserved(goal[g]) + lease - goal[g].lease[c] <= Budget
      BY <2>1, <2>2, <2>6, TokensTyped
    <3>3. \A h \in Goals : h # g => call[c] # h /\ call'[c] # h
      BY <1>1, <2>7 DEF None, Goals
    <3>4. s.status # "none" /\ goal[g].status # "none" /\ overspent \subseteq overspent' /\ 0 \in Nat
      BY <1>1, <2>4
    <3>5. call'[c] # g => lease = 0
      BY <2>7
    <3>6. g \notin overspent' => goal[g].used + Reserved(goal[g]) + 0 + lease - goal[g].lease[c] <= Budget
      BY <3>2
    <3>7. s \in GoalRecord /\ s.lease = [goal[g].lease EXCEPT ![c] = lease] /\ Reserved(goal[g]) + lease - goal[g].lease[c] <= Budget
      BY <2>4, <3>2
    <3>. HIDE DEF s, lease
    <3>8. Leased(g, c, s, lease, 0)
      BY <2>3, <2>5, <2>7, <3>1, <3>3, <3>4, <3>5, <3>6, <3>7 DEF Leased
    <3>. QED  BY <3>8, LeaseStep
  <2>. QED  BY <1>1, <1>2, <1>3, <1>7, <2>4, <2>5, <2>7, <2>8, <2>9, SpendStep
<1>8. CASE goal' = [goal EXCEPT ![g] = Pause(@)] /\ goal[g].status = "active" /\ call' = call /\ Fate(c, "failed")
  <2>. DEFINE s == Pause(goal[g])
  <2>1. Mild(goal[g], s) /\ s.run = goal[g].run /\ s \in GoalRecord
    BY <1>4, MildPause DEF Mild
  <2>2. goal' = [goal EXCEPT ![g] = s]
    BY <1>8
  <2>3. \A h \in Goals : goal'[h] = IF h = g THEN s ELSE goal[h]
    BY <2>2, TypesOfGoals
  <2>4. Money'
    BY <1>1, <1>8, <2>1, <2>3, MoneyStays DEF Mild
  <2>5. turn' \in {turn, [turn EXCEPT !.fate = "failed"]}
    BY <1>8, Fates
  <2>. QED  BY <1>1, <1>2, <1>3, <1>8, <2>1, <2>2, <2>4, <2>5, SpendStep DEF Mild, Unfinished
<1>. QED  BY <1>5, <1>6, <1>7, <1>8

LEMMA SettleStep == ASSUME IInv, NEW c \in Callers, Settle(c) PROVE IInv'
<1>. DEFINE g == call[c]
            lease == goal[g].lease[c]
<1>1. Still /\ UNCHANGED <<used, unsettled>> /\ g \in Goals /\ call' = [call EXCEPT ![c] = None]
  BY DEF Settle, IInv, TypeOK
<1>2. PICK tokens \in 0 .. lease + 1, known \in BOOLEAN :
        LET r == [goal[g] EXCEPT !.lease[c] = 0, !.used = @ + tokens]
            stops == r.used >= Budget \/ tokens > lease \/ ~known
        IN /\ goal' = [goal EXCEPT ![g] = IF stops /\ r.status = "active" THEN Pause(r) ELSE r]
           /\ Fate(c, IF stops THEN "failed" ELSE turn.fate)
           /\ spent' = [spent EXCEPT ![g] = @ + tokens]
           /\ overspent' = IF tokens > lease THEN overspent \cup {g} ELSE overspent
  BY DEF Settle
<1>. DEFINE r == [goal[g] EXCEPT !.lease[c] = 0, !.used = @ + tokens]
            stops == r.used >= Budget \/ tokens > lease \/ ~known
            s == IF stops /\ r.status = "active" THEN Pause(r) ELSE r
<1>3. goal[g] \in GoalRecord /\ lease \in 0 .. Budget /\ tokens \in Nat /\ lease \in Nat
  <2>1. lease \in 0 .. Budget
    BY <1>1, TokensTyped DEF Holders
  <2>. QED  BY <1>1, <2>1, TokensTyped, GoalAssumption
<1>4. /\ r \in GoalRecord /\ r.lease = [goal[g].lease EXCEPT ![c] = 0] /\ r.used = goal[g].used + tokens
      /\ r.auto = goal[g].auto /\ r.turns = goal[g].turns /\ r.linked = goal[g].linked /\ r.run = goal[g].run
      /\ r.status = goal[g].status
  <2>1. goal[g].used + tokens \in Nat /\ [goal[g].lease EXCEPT ![c] = 0] \in [Holders -> 0 .. Budget]
    <3>1. goal[g].used \in Nat /\ goal[g].lease \in [Holders -> 0 .. Budget] /\ 0 \in 0 .. Budget
      BY <1>1, TokensTyped
    <3>2. [goal[g].lease EXCEPT ![c] = 0] \in [Holders -> 0 .. Budget]
      BY <3>1
    <3>. QED  BY <1>3, <3>1, <3>2
  <2>2. r = [[goal[g] EXCEPT !.lease = [goal[g].lease EXCEPT ![c] = 0]] EXCEPT !.used = goal[g].used + tokens]
    BY <1>3 DEF GoalRecord
  <2>. QED  BY <1>3, <2>1, <2>2 DEF GoalRecord
<1>5. /\ s \in GoalRecord /\ s.lease = r.lease /\ s.used = r.used
      /\ s.auto = r.auto /\ s.turns = r.turns /\ s.linked = r.linked /\ s.run = r.run
      /\ s.status = "active" => r.status = "active"
      /\ s.status \in Unfinished => r.status \in Unfinished
      /\ s.status = "none" => r.status = "none"
  <2>1. CASE stops /\ r.status = "active"
    <3>1. s = Pause(r)
      BY <2>1
    <3>2. Mild(r, Pause(r)) /\ Pause(r).run = r.run
      BY <1>4, MildPause
    <3>3. r.status \in Unfinished
      BY <2>1 DEF Unfinished
    <3>. HIDE DEF r, s
    <3>. QED  BY <3>1, <3>2, <3>3 DEF Mild
  <2>2. CASE ~(stops /\ r.status = "active")
    BY <1>4, <2>2
  <2>. QED  BY <2>1, <2>2
<1>. HIDE DEF r, s, stops
<1>6. goal' = [goal EXCEPT ![g] = s]
  BY <1>2 DEF r, s, stops
<1>7. spent' = [spent EXCEPT ![g] = @ + tokens] /\ overspent' = IF tokens > lease THEN overspent \cup {g} ELSE overspent
  BY <1>2
<1>8. PICK fate \in {"open", "transient", "failed"} : turn' \in {turn, [turn EXCEPT !.fate = fate]}
  <2>1. Fate(c, IF stops THEN "failed" ELSE turn.fate)
    BY <1>2 DEF r, stops
  <2>2. turn.fate \in {"open", "transient", "failed"}
    BY TurnTyped DEF TurnRecord
  <2>. QED  BY <2>1, <2>2, Fates
<1>9. /\ call' \in [Callers -> Goals \cup {None}] /\ call'[c] = None
      /\ \A d \in Callers : d # c => call'[d] = call[d]
  BY <1>1 DEF IInv, TypeOK
<1>10. spent' \in [Goals -> Nat] /\ overspent' \subseteq Goals /\ overspent \subseteq overspent'
  <2>1. spent \in [Goals -> Nat] /\ overspent \subseteq Goals
    BY DEF IInv, TypeOK
  <2>. QED  BY <1>1, <1>3, <1>7, <2>1
<1>11. Money'
  <2>1. s.lease = [goal[g].lease EXCEPT ![c] = 0] /\ s.used = goal[g].used + tokens
    BY <1>4, <1>5
  <2>2. \A h \in Goals : h # g => call[c] # h /\ call'[c] # h
    BY <1>9 DEF None, Goals
  <2>3. goal[g].status # "none"
    BY <1>1 DEF IInv, Money, Unspent
  <2>4. g \notin overspent' => goal[g].used + Reserved(goal[g]) + tokens + 0 - goal[g].lease[c] <= Budget
    <3>1. ASSUME g \notin overspent' PROVE tokens <= lease /\ g \notin overspent
      BY <1>3, <1>7, <3>1
    <3>2. g \notin overspent => goal[g].used + Reserved(goal[g]) <= Budget
      BY <1>1 DEF IInv, Money, Accounts
    <3>. QED  BY <1>1, <1>3, <3>1, <3>2, TokensTyped
  <2>5. Reserved(goal[g]) + 0 - goal[g].lease[c] <= Budget
    BY <1>1, <1>3, TokensTyped
  <2>6. 0 \in 0 .. Budget /\ s.status # "none"
    BY <1>1, <1>4, <1>5, <2>3, TokensTyped
  <2>7. s \in GoalRecord /\ g \in Goals /\ tokens \in Nat /\ (call'[c] # g => 0 = 0)
        /\ call' \in [Callers -> Goals \cup {None}] /\ spent' = [spent EXCEPT ![g] = @ + tokens]
    BY <1>1, <1>3, <1>5, <1>7, <1>9
  <2>8. overspent \subseteq overspent' /\ \A d \in Callers : d # c => call'[d] = call[d]
    BY <1>9, <1>10
  <2>. HIDE DEF g, lease
  <2>9. Leased(g, c, s, 0, tokens)
    BY <1>6, <2>1, <2>2, <2>3, <2>4, <2>5, <2>6, <2>7, <2>8 DEF Leased
  <2>. QED  BY <2>7, <2>9, LeaseStep
<1>12. s.lease["gone"] = goal[g].lease["gone"] /\ unsettled \subseteq unsettled' /\ unsettled' \subseteq Goals
  BY <1>1, <1>4, <1>5, TokensTyped DEF Holders, Callers, IInv, TypeOK
<1>. QED  BY <1>1, <1>4, <1>5, <1>6, <1>8, <1>9, <1>10, <1>11, <1>12, UsedTyped, SpendStep

\* A lease that is not settled stays with the goal: it covers what was spent.
LEMMA SettleFailsStep == ASSUME IInv, NEW c \in Callers, SettleFails(c) PROVE IInv'
<1>0. PICK g \in Goals : g = call[c]
  BY DEF SettleFails, IInv, TypeOK
<1>a. PICK lease \in Nat : lease = goal[g].lease[c]
  BY <1>0, TokensTyped DEF Holders, Callers
<1>. DEFINE left == [goal[g].lease EXCEPT ![c] = 0, !["gone"] = @ + lease]
            s == [goal[g] EXCEPT !.lease = left]
<1>1. /\ Still /\ UNCHANGED <<turn, used>> /\ g \in Goals /\ call' = [call EXCEPT ![c] = None]
      /\ goal' = [goal EXCEPT ![g] = s] /\ unsettled' = unsettled \cup {g}
  <2>1. /\ call' = [call EXCEPT ![c] = None] /\ Still /\ UNCHANGED <<turn, used>>
        /\ goal' = [goal EXCEPT ![g].lease = left] /\ unsettled' = unsettled \cup {g}
    BY <1>0, <1>a DEF SettleFails
  <2>2. goal' = [goal EXCEPT ![g] = s]
    <3>. HIDE DEF left
    <3>. QED  BY <2>1
  <2>. HIDE DEF s
  <2>. QED  BY <1>0, <2>1, <2>2
<1>2. PICK tokens \in {lease, lease + 1} :
        /\ spent' = [spent EXCEPT ![g] = @ + tokens]
        /\ overspent' = IF tokens > lease THEN overspent \cup {g} ELSE overspent
  BY <1>0, <1>a DEF SettleFails
<1>3. /\ goal[g] \in GoalRecord /\ lease \in Nat /\ tokens \in Nat /\ Budget \in Nat
      /\ \A h \in Holders : goal[g].lease[h] \in Nat
      /\ Reserved(goal[g]) \in Nat /\ Reserved(goal[g]) <= Budget
      /\ goal[g].lease \in [Holders -> 0 .. Budget] /\ Holders = {"run", "worker", "gone"}
  <2>1. goal[g].lease \in [Holders -> 0 .. Budget] /\ Budget \in Nat
    BY <1>1, TokensTyped
  <2>2. lease \in Nat /\ \A h \in Holders : goal[g].lease[h] \in Nat
    BY <1>a, <2>1 DEF Holders
  <2>. QED  BY <1>1, <2>1, <2>2, TokensTyped DEF Holders, Callers
<1>4. /\ s.lease = left
      /\ s.used = goal[g].used /\ s.auto = goal[g].auto /\ s.turns = goal[g].turns
      /\ s.linked = goal[g].linked /\ s.run = goal[g].run /\ s.status = goal[g].status
  <2>. HIDE DEF left
  <2>. QED  BY <1>3 DEF GoalRecord
<1>5. /\ c \in {"run", "worker"} /\ s.lease[c] = 0 /\ s.lease["gone"] = goal[g].lease["gone"] + lease
      /\ \A d \in Callers : d # c => s.lease[d] = goal[g].lease[d]
  BY <1>a, <1>3, <1>4 DEF Callers
<1>6. /\ Reserved(s) = Reserved(goal[g]) /\ goal[g].lease["gone"] + lease <= Reserved(goal[g])
      /\ s.lease["run"] + s.lease["worker"] = goal[g].lease["run"] + goal[g].lease["worker"] - lease
  <2>1. CASE c = "run"
    BY <1>a, <1>3, <1>5, <2>1 DEF Reserved, Callers
  <2>2. CASE c = "worker"
    BY <1>a, <1>3, <1>5, <2>2 DEF Reserved, Callers
  <2>. QED  BY <1>5, <2>1, <2>2
<1>7. s \in GoalRecord
  <2>1. goal[g].lease["gone"] + lease \in 0 .. Budget /\ 0 \in 0 .. Budget
    BY <1>3, <1>6
  <2>2. s.lease \in [Holders -> 0 .. Budget]
    BY <1>3, <1>4, <2>1
  <2>3. s = [goal[g] EXCEPT !.lease = s.lease]
    BY <1>3, <1>4 DEF GoalRecord
  <2>. HIDE DEF s
  <2>. QED  BY <1>3, <2>2, <2>3 DEF GoalRecord
<1>. HIDE DEF s
<1>8. /\ goal' \in [Goals -> GoalRecord] /\ goal'[g] = s /\ \A h \in Goals : h # g => goal'[h] = goal[h]
      /\ spent' \in [Goals -> Nat] /\ spent'[g] = spent[g] + tokens
      /\ \A h \in Goals : h # g => spent'[h] = spent[h]
      /\ overspent' \subseteq Goals /\ overspent \subseteq overspent'
      /\ unsettled' \subseteq Goals /\ unsettled \subseteq unsettled' /\ g \in unsettled'
  BY <1>1, <1>2, <1>3, <1>7, TypesOfGoals DEF IInv, TypeOK
<1>9. /\ call' \in [Callers -> Goals \cup {None}] /\ call'[c] = None
      /\ \A d \in Callers : d # c => call'[d] = call[d]
  BY <1>1 DEF IInv, TypeOK
<1>10. LeasesOwned'
  <2>1. ASSUME NEW h \in Goals, NEW d \in Callers, call'[d] # h PROVE goal'[h].lease[d] = 0
    <3>1. CASE h = g /\ d = c  BY <1>5, <1>8, <3>1
    <3>2. CASE h = g /\ d # c  BY <1>5, <1>8, <1>9, <2>1, <3>2 DEF IInv, Money, LeasesOwned
    <3>3. CASE h # g /\ d # c  BY <1>8, <1>9, <2>1, <3>3 DEF IInv, Money, LeasesOwned
    <3>4. CASE h # g /\ d = c  BY <1>0, <1>8, <3>4 DEF IInv, Money, LeasesOwned
    <3>. QED  BY <3>1, <3>2, <3>3, <3>4
  <2>. QED  BY <2>1 DEF LeasesOwned
<1>11. \A h \in Goals : InFlight(h)' = goal'[h].lease["run"] + goal'[h].lease["worker"]
  <2>1. \A h \in Goals : \A d \in Callers : (IF call'[d] = h THEN goal'[h].lease[d] ELSE 0) = goal'[h].lease[d]
    BY <1>10 DEF LeasesOwned
  <2>. QED  BY <2>1 DEF InFlight, Callers
<1>12. Accounts'
  <2>1. ASSUME NEW h \in Goals, h \notin overspent', h # g
        PROVE  /\ spent'[h] + InFlight(h)' <= goal'[h].used + Reserved(goal'[h])
               /\ goal'[h].used + Reserved(goal'[h]) <= Budget
    <3>1. InFlight(h)' = InFlight(h)
      BY <1>8, <1>11, <2>1, TokensTyped
    <3>. QED  BY <1>8, <2>1, <3>1 DEF IInv, Money, Accounts
  <2>2. ASSUME g \notin overspent'
        PROVE  /\ spent'[g] + InFlight(g)' <= goal'[g].used + Reserved(goal'[g])
               /\ goal'[g].used + Reserved(goal'[g]) <= Budget
    <3>1. tokens = lease /\ g \notin overspent
      BY <1>2, <1>3, <2>2
    <3>2. /\ spent[g] + InFlight(g) <= goal[g].used + Reserved(goal[g])
          /\ goal[g].used + Reserved(goal[g]) <= Budget
      BY <1>1, <3>1 DEF IInv, Money, Accounts
    <3>3. InFlight(g)' = InFlight(g) - lease /\ InFlight(g) \in Nat /\ spent[g] \in Nat
      <4>1. InFlight(g)' = s.lease["run"] + s.lease["worker"]
        BY <1>1, <1>8, <1>11
      <4>2. InFlight(g) = goal[g].lease["run"] + goal[g].lease["worker"] /\ InFlight(g) \in Nat /\ spent[g] \in Nat
        BY <1>1, TokensTyped
      <4>. QED  BY <1>3, <1>6, <4>1, <4>2 DEF Holders
    <3>4. spent'[g] + InFlight(g)' = spent[g] + InFlight(g)
      BY <1>3, <1>8, <3>1, <3>3
    <3>. QED  BY <1>4, <1>6, <1>8, <3>2, <3>4
  <2>3. ASSUME NEW h \in Goals, h \notin overspent'
        PROVE  /\ spent'[h] + InFlight(h)' <= goal'[h].used + Reserved(goal'[h])
               /\ goal'[h].used + Reserved(goal'[h]) <= Budget
    <3>1. CASE h = g  BY <2>2, <2>3, <3>1
    <3>2. CASE h # g  BY <2>1, <2>3, <3>2
    <3>. QED  BY <3>1, <3>2
  <2>. QED  BY <2>3 DEF Accounts
<1>13. goal[g].status # "none"
  BY <1>0, <1>1 DEF IInv, Money, Unspent
<1>14. Unspent'
  <2>1. \A h \in Goals, d \in Callers : call'[d] = h => call[d] = h
    BY <1>9 DEF None, Goals
  <2>2. ASSUME NEW h \in Goals, goal'[h].status = "none" PROVE h # g /\ goal[h].status = "none"
    BY <1>4, <1>8, <1>13, <2>2
  <2>. QED  BY <1>8, <2>1, <2>2 DEF IInv, Money, Unspent
<1>15. Fits'
  BY <1>6, <1>8 DEF IInv, Money, Fits
<1>16. Money'
  BY <1>10, <1>12, <1>14, <1>15 DEF Money
<1>17. turn.fate \in {"open", "transient", "failed"}
  BY TurnTyped DEF TurnRecord
<1>. QED  BY <1>1, <1>4, <1>7, <1>8, <1>9, <1>16, <1>17, UsedTyped, SpendStep

-----------------------------------------------------------------------------
(* Consent, and the restart *)

LEMMA CreateStep == ASSUME IInv, Create PROVE IInv'
<1>1. PICK g \in Goals, auto \in BOOLEAN, criteria \in SUBSET Criteria, start \in BOOLEAN :
        /\ goal[g].status = "none"
        /\ goal' = [goal EXCEPT ![g] = [NoGoal EXCEPT !.status = "active", !.auto = auto, !.criteria = criteria]]
        /\ IF start THEN Ask("create", g) ELSE UNCHANGED asking
        /\ allowance' = [allowance EXCEPT ![g] = MaxAutoTurns]
  BY DEF Create
<1>. DEFINE s == [NoGoal EXCEPT !.status = "active", !.auto = auto, !.criteria = criteria]
<1>2. UNCHANGED <<turn, used, cont, lost, call, spent, overspent, unsettled>>
  BY DEF Create, Client, Keep
<1>3. /\ s \in GoalRecord /\ s.status = "active" /\ s.used = 0 /\ s.run = None /\ s.turns = 0
      /\ \A h \in Holders : s.lease[h] = 0
  <2>1. [h \in Holders |-> 0] \in [Holders -> 0 .. Budget] /\ 0 \in 0 .. MaxAutoTurns /\ None \in 0 .. MaxRuns
    BY GoalAssumption DEF None
  <2>2. NoGoal \in GoalRecord
    BY <2>1 DEF NoGoal, GoalRecord, GoalStatus
  <2>3. s \in GoalRecord
    BY <2>2 DEF GoalRecord, GoalStatus, Unfinished
  <2>. QED  BY <2>3 DEF NoGoal
<1>. HIDE DEF s
<1>4. goal' \in [Goals -> GoalRecord] /\ goal'[g] = s /\ \A h \in Goals : h # g => goal'[h] = goal[h]
  BY <1>1, <1>3, TypesOfGoals DEF s
<1>5. /\ asking' \in [Clients -> Goals \cup {None}]
      /\ asking'["create"] \in {asking["create"], g}
  BY <1>1 DEF Ask, IInv, TypeOK, Clients
<1>6. /\ allowance' \in [Goals -> Int] /\ allowance'[g] = MaxAutoTurns /\ MaxAutoTurns \in Nat
      /\ \A h \in Goals : h # g => allowance'[h] = allowance[h]
  BY <1>1, GoalAssumption DEF IInv, TypeOK
<1>7. Money'
  <2>1. /\ \A h \in Goals : h # g => InFlight(h)' = InFlight(h) /\ Reserved(goal[h])' = Reserved(goal[h])
        /\ InFlight(g)' = 0 /\ Reserved(goal[g])' = 0 /\ spent'[g] = 0
    <3>1. \A h \in Goals : h # g => InFlight(h)' = InFlight(h) /\ Reserved(goal[h])' = Reserved(goal[h])
      BY <1>2, <1>4 DEF InFlight, Reserved
    <3>2. \A c \in Callers : call'[c] # g
      BY <1>1, <1>2 DEF IInv, Money, Unspent
    <3>3. InFlight(g)' = 0
      BY <3>2 DEF InFlight, Callers
    <3>4. Reserved(goal[g])' = 0
      BY <1>3, <1>4 DEF Reserved, Holders, Callers
    <3>5. spent'[g] = 0
      BY <1>1, <1>2 DEF IInv, Money, Unspent
    <3>. QED  BY <3>1, <3>3, <3>4, <3>5
  <2>2. Accounts'
    <3>1. ASSUME NEW h \in Goals, h \notin overspent', h # g
          PROVE  /\ spent'[h] + InFlight(h)' <= goal'[h].used + Reserved(goal'[h])
                 /\ goal'[h].used + Reserved(goal'[h]) <= Budget
      BY <1>2, <1>4, <2>1, <3>1 DEF IInv, Money, Accounts
    <3>2. /\ spent'[g] + InFlight(g)' <= goal'[g].used + Reserved(goal'[g])
          /\ goal'[g].used + Reserved(goal'[g]) <= Budget
      BY <1>3, <1>4, <2>1, TokensTyped
    <3>. QED  BY <3>1, <3>2 DEF Accounts
  <2>3. LeasesOwned'
    BY <1>2, <1>3, <1>4 DEF IInv, Money, LeasesOwned, Holders
  <2>4. Unspent'
    BY <1>2, <1>3, <1>4 DEF IInv, Money, Unspent
  <2>5. Fits'
    BY <1>4, <2>1, TokensTyped DEF IInv, Money, Fits
  <2>. QED  BY <2>2, <2>3, <2>4, <2>5 DEF Money
<1>8. Consent'
  <2>1. s.auto => allowance'[g] = MaxAutoTurns - s.turns /\ allowance'[g] >= 0
    BY <1>3, <1>6
  <2>. QED  BY <1>3, <1>4, <1>6, <2>1 DEF IInv, Consent
<1>9. \A h \in Goals : h # g /\ Live(h)' => Live(h)
  BY <1>2, <1>4, <1>5 DEF Live
<1>10. Runs' /\ Counted'
  <2>1. \A h \in Goals : Live(h)' => goal'[h].run \in {None, turn'.run} \cup lost'
    BY <1>2, <1>3, <1>4, <1>9 DEF IInv, Runs
  <2>2. \A h \in Goals : goal'[h].run # None /\ goal'[h].run = turn'.run => turn'.goal = h /\ turn'.phase \in Held
    BY <1>2, <1>3, <1>4 DEF IInv, Runs
  <2>3. \A h \in Goals : goal'[h].run <= used'.runs
    BY <1>2, <1>3, <1>4, UsedTyped DEF IInv, Runs, None
  <2>. QED  BY <1>2, <2>1, <2>2, <2>3 DEF IInv, Runs, Counted
<1>11. Settled'
  BY <1>2, <1>3, <1>4, <1>9 DEF IInv, Settled, Holders
<1>12. TypeOK'
  BY <1>2, <1>4, <1>5, <1>6 DEF IInv, TypeOK
<1>13. Quiet' /\ Started'
  BY <1>2 DEF IInv, Quiet, Started
<1>. QED  BY <1>7, <1>8, <1>10, <1>11, <1>12, <1>13 DEF IInv

LEMMA ResumeGoalStep == ASSUME IInv, ResumeGoal PROVE IInv'
<1>1. PICK g \in Goals :
        /\ goal[g].status \in {"paused", "blocked"}
        /\ goal' = [goal EXCEPT ![g].status = "active", ![g].confirm = FALSE,
                                ![g].turns = IF goal[g].auto THEN 0 ELSE @]
        /\ asking' = [asking EXCEPT !["resume"] = g]
        /\ allowance' = [allowance EXCEPT ![g] = MaxAutoTurns]
  BY DEF ResumeGoal, Ask
<1>. DEFINE s == [goal[g] EXCEPT !.status = "active", !.confirm = FALSE, !.turns = IF goal[g].auto THEN 0 ELSE @]
<1>2. UNCHANGED <<turn, cont, lost, call, spent, overspent, unsettled>>
  BY DEF ResumeGoal, Client, Keep
<1>3. /\ s \in GoalRecord /\ s.status = "active" /\ s.used = goal[g].used /\ s.lease = goal[g].lease
      /\ s.run = goal[g].run /\ s.auto = goal[g].auto /\ s.linked = goal[g].linked
      /\ s.turns = IF goal[g].auto THEN 0 ELSE goal[g].turns
  <2>1. goal[g] \in GoalRecord
    BY TypesOfGoals
  <2>2. (IF goal[g].auto THEN 0 ELSE goal[g].turns) \in 0 .. MaxAutoTurns
    BY <2>1, GoalAssumption DEF GoalRecord
  <2>. QED  BY <2>1, <2>2 DEF GoalRecord, GoalStatus, Unfinished
<1>4. goal' \in [Goals -> GoalRecord] /\ goal'[g] = s /\ \A h \in Goals : h # g => goal'[h] = goal[h]
  <2>1. goal' = [goal EXCEPT ![g] = s]
    BY <1>1
  <2>. QED  BY <1>3, <2>1, TypesOfGoals
<1>. HIDE DEF s
<1>5. asking' \in [Clients -> Goals \cup {None}] /\ asking'["create"] = asking["create"]
  BY <1>1 DEF IInv, TypeOK, Clients
<1>6. /\ allowance' \in [Goals -> Int] /\ allowance'[g] = MaxAutoTurns /\ MaxAutoTurns \in Nat
      /\ \A h \in Goals : h # g => allowance'[h] = allowance[h]
  BY <1>1, GoalAssumption DEF IInv, TypeOK
<1>7. Money'
  BY <1>2, <1>3, <1>4, MoneyStays
<1>8. Consent'
  <2>1. s.auto => allowance'[g] = MaxAutoTurns - s.turns /\ allowance'[g] >= 0
    BY <1>3, <1>6
  <2>2. ~s.linked => s.turns = 0
    BY <1>3 DEF IInv, Consent
  <2>. QED  BY <1>4, <1>6, <2>1, <2>2 DEF IInv, Consent
<1>9. \A h \in Goals : Live(h)' => Live(h)
  BY <1>1, <1>2, <1>4, <1>5 DEF Live, Unfinished
<1>10. \A h \in Goals : goal'[h].run = goal[h].run /\ goal'[h].auto = goal[h].auto /\ goal'[h].lease = goal[h].lease
  BY <1>3, <1>4
<1>11. used' \in [runs : 0 .. MaxRuns, acts : Nat, outside : Nat, crashes : Nat] /\ used'.runs = used.runs
  BY UsedTyped DEF ResumeGoal
<1>12. Runs' /\ Counted'
  BY <1>2, <1>9, <1>10, <1>11 DEF IInv, Runs, Counted
<1>13. Settled'
  BY <1>2, <1>9, <1>10 DEF IInv, Settled
<1>14. TypeOK'
  BY <1>2, <1>4, <1>5, <1>6, <1>11 DEF IInv, TypeOK
<1>15. Quiet' /\ Started'
  BY <1>2 DEF IInv, Quiet, Started
<1>. QED  BY <1>7, <1>8, <1>12, <1>13, <1>14, <1>15 DEF IInv

\* What the recovery makes of a goal whose calls are gone.
LEMMA RecoveredGoal ==
    ASSUME IInv, NEW g \in Goals
    PROVE  LET s == Recovered(Gone(goal[g]))
           IN /\ s \in GoalRecord /\ s.used \in Nat
              /\ s.lease["run"] = 0 /\ s.lease["worker"] = 0 /\ s.lease["gone"] \in 0 .. Budget
              /\ s.auto = goal[g].auto /\ s.linked = goal[g].linked /\ s.turns = goal[g].turns
              /\ s.run \in {goal[g].run, None} /\ (s.status \in Unfinished => s.run = None)
              /\ s.auto => s.status # "active" /\ (s.status \in Unfinished => s.lease["gone"] = 0)
              /\ s.status = "none" => goal[g].status = "none"
              /\ g \notin overspent => s.used + s.lease["gone"] = goal[g].used + Reserved(goal[g])
<1>. DEFINE r == Gone(goal[g])
            u == Charged(r)
            s == [u EXCEPT !.run = None]
<1>1. /\ r \in GoalRecord /\ r.used = goal[g].used /\ r.auto = goal[g].auto /\ r.linked = goal[g].linked
      /\ r.turns = goal[g].turns /\ r.run = goal[g].run /\ r.status = goal[g].status
      /\ r.lease["run"] = 0 /\ r.lease["worker"] = 0 /\ r.lease["gone"] = Reserved(goal[g])
  <2>1. Reserved(goal[g]) \in 0 .. Budget /\ 0 \in 0 .. Budget /\ goal[g] \in GoalRecord
    BY TokensTyped
  <2>2. [h \in Holders |-> IF h = "gone" THEN Reserved(goal[g]) ELSE 0] \in [Holders -> 0 .. Budget]
    BY <2>1
  <2>3. r.lease = [h \in Holders |-> IF h = "gone" THEN Reserved(goal[g]) ELSE 0]
    BY <2>1 DEF Gone, GoalRecord
  <2>. QED  BY <2>1, <2>2, <2>3 DEF Gone, GoalRecord, Holders, Callers
<1>2. Reserved(r) = Reserved(goal[g]) /\ Reserved(r) \in 0 .. Budget /\ r.used \in Nat /\ Budget \in Nat
  BY <1>1, TokensTyped DEF Reserved
<1>. HIDE DEF r
<1>3. /\ u \in GoalRecord /\ u.auto = r.auto /\ u.linked = r.linked /\ u.turns = r.turns /\ u.status = r.status
      /\ \A h \in Holders : u.lease[h] = 0
      /\ u.used = IF Reserved(r) = 0 THEN r.used ELSE Min({r.used + Reserved(r), Budget})
  <2>1. [h \in Holders |-> 0] \in [Holders -> 0 .. Budget]
    BY <1>2
  <2>2. Min({r.used + Reserved(r), Budget}) \in Nat
    BY <1>2, MinOfTwo
  <2>. QED  BY <1>1, <1>2, <2>1, <2>2 DEF Charged, GoalRecord
<1>4. g \notin overspent => u.used = goal[g].used + Reserved(goal[g])
  <2>1. g \notin overspent => r.used + Reserved(r) <= Budget
    BY <1>1, <1>2 DEF IInv, Money, Accounts
  <2>2. r.used + Reserved(r) <= Budget => Min({r.used + Reserved(r), Budget}) = r.used + Reserved(r)
    BY <1>2, MinOfTwo
  <2>. QED  BY <1>1, <1>2, <1>3, <2>1, <2>2
<1>. HIDE DEF u
<1>5. /\ s \in GoalRecord /\ s.used = u.used /\ s.lease = u.lease /\ s.auto = r.auto /\ s.linked = r.linked
      /\ s.turns = r.turns /\ s.run = None /\ s.status = r.status
  BY <1>3, GoalAssumption DEF GoalRecord, None
<1>. HIDE DEF s
<1>6. CASE r.status \notin Unfinished \/ (~r.auto /\ r.run = None)
  <2>1. Recovered(r) = r
    BY <1>6 DEF Recovered
  <2>. QED  BY <1>1, <1>2, <1>6, <2>1 DEF r, Unfinished
<1>7. CASE ~(r.status \notin Unfinished \/ (~r.auto /\ r.run = None))
  <2>1. Recovered(r) = IF r.auto THEN Pause(s) ELSE Block(s)
    BY <1>7 DEF Recovered, s, u
  <2>2. /\ Pause(s) = [s EXCEPT !.status = "paused", !.confirm = TRUE]
        /\ Block(s) = [s EXCEPT !.status = "blocked", !.confirm = FALSE]
    BY DEF Pause, Block
  <2>3. Mild(s, Pause(s)) /\ Mild(s, Block(s)) /\ Pause(s).status = "paused" /\ Block(s).status = "blocked"
        /\ Pause(s).run = None /\ Block(s).run = None
    BY <1>5, <2>2, MildPause, MildBlock DEF GoalRecord
  <2>4. \A t \in {Pause(s), Block(s)} :
          /\ t \in GoalRecord /\ t.used = u.used /\ t.lease = u.lease /\ t.auto = r.auto /\ t.linked = r.linked
          /\ t.turns = r.turns /\ t.run = None /\ t.status \notin {"active", "none"}
    BY <1>5, <2>3 DEF Mild
  <2>5. Recovered(r) \in {Pause(s), Block(s)}
    BY <2>1
  <2>6. u.used \in Nat /\ u.lease["run"] = 0 /\ u.lease["worker"] = 0 /\ u.lease["gone"] = 0 /\ 0 \in 0 .. Budget
    BY <1>2, <1>3 DEF GoalRecord, Holders, Callers
  <2>. QED  BY <1>1, <1>4, <2>4, <2>5, <2>6 DEF r
<1>. QED  BY <1>6, <1>7

LEMMA RestartStep == ASSUME IInv, Restart PROVE IInv'
<1>1. /\ \A g \in Goals : /\ goal'[g] = Recovered(Gone(goal[g])) /\ spent'[g] = spent[g] + InFlight(g)
                          /\ allowance'[g] = 0
      /\ goal' \in [Goals -> GoalRecord]
  BY RecoveredGoal DEF Restart
<1>2. /\ turn' = NoTurn /\ cont' = NoCont /\ overspent' = overspent /\ lost' = {} /\ unsettled' = {}
      /\ \A k \in Clients : asking'[k] = None
      /\ \A c \in Callers : call'[c] = None
      /\ asking' \in [Clients -> Goals \cup {None}] /\ call' \in [Callers -> Goals \cup {None}]
  BY DEF Restart
<1>3. used' \in [runs : 0 .. MaxRuns, acts : Nat, outside : Nat, crashes : Nat] /\ used'.runs = used.runs
  BY UsedTyped DEF Restart
<1>4. spent' \in [Goals -> Nat] /\ allowance' \in [Goals -> Int]
  <2>1. \A g \in Goals : spent[g] + InFlight(g) \in Nat
    BY TokensTyped
  <2>. QED  BY <2>1 DEF Restart
<1>5. \A g \in Goals : Live(g)' => goal'[g].status \in Unfinished
  BY <1>2 DEF Live, NoTurn, None, Goals, Clients
<1>6. Money'
  <2>1. \A g \in Goals : InFlight(g)' = 0 /\ Reserved(goal'[g]) = goal'[g].lease["gone"]
    <3>1. \A g \in Goals : goal'[g].lease["run"] = 0 /\ goal'[g].lease["worker"] = 0 /\ goal'[g].lease["gone"] \in 0 .. Budget
      BY <1>1, RecoveredGoal
    <3>. QED  BY <1>2, <3>1 DEF InFlight, Reserved, None, Goals, Callers
  <2>2. Accounts'
    <3>1. ASSUME NEW g \in Goals, g \notin overspent
          PROVE  /\ spent'[g] + InFlight(g)' <= goal'[g].used + Reserved(goal'[g])
                 /\ goal'[g].used + Reserved(goal'[g]) <= Budget
      <4>1. goal'[g].used + goal'[g].lease["gone"] = goal[g].used + Reserved(goal[g])
        BY <1>1, <3>1, RecoveredGoal
      <4>2. /\ spent[g] + InFlight(g) <= goal[g].used + Reserved(goal[g])
            /\ goal[g].used + Reserved(goal[g]) <= Budget
        BY <3>1 DEF IInv, Money, Accounts
      <4>. QED  BY <1>1, <2>1, <4>1, <4>2, TokensTyped
    <3>. QED  BY <1>2, <3>1 DEF Accounts
  <2>3. LeasesOwned'
    BY <1>1, RecoveredGoal DEF LeasesOwned, Callers
  <2>4. Unspent'
    <3>1. ASSUME NEW g \in Goals, goal'[g].status = "none" PROVE spent'[g] = 0
      <4>1. goal[g].status = "none"
        BY <1>1, <3>1, RecoveredGoal
      <4>2. spent[g] = 0 /\ InFlight(g) = 0
        BY <4>1 DEF IInv, Money, Unspent, InFlight, Callers
      <4>. QED  BY <1>1, <4>2
    <3>. QED  BY <1>2, <3>1 DEF Unspent, None, Goals
  <2>5. Fits'
    BY <1>1, <2>1, RecoveredGoal, TokensTyped DEF Fits
  <2>. QED  BY <2>2, <2>3, <2>4, <2>5 DEF Money
<1>7. Consent'
  BY <1>1, RecoveredGoal DEF IInv, Consent
<1>8. Runs' /\ Counted'
  <2>1. \A g \in Goals : goal'[g].run <= used'.runs
    BY <1>1, <1>3, RecoveredGoal, UsedTyped DEF IInv, Runs, None
  <2>2. \A g \in Goals : Live(g)' => goal'[g].run = None
    BY <1>1, <1>5, RecoveredGoal
  <2>3. turn'.run = None
    BY <1>2 DEF NoTurn
  <2>. QED  BY <1>3, <2>1, <2>2, <2>3, UsedTyped DEF Runs, Counted, None
<1>9. Settled'
  BY <1>1, <1>5, RecoveredGoal DEF Settled
<1>10. TypeOK'
  BY <1>1, <1>2, <1>3, <1>4, NoneTyped DEF IInv, TypeOK
<1>11. Quiet' /\ Started'
  BY <1>2 DEF Quiet, Started, NoTurn
<1>. QED  BY <1>6, <1>7, <1>8, <1>9, <1>10, <1>11 DEF IInv

-----------------------------------------------------------------------------
(* The theorems *)

LEMMA InitIInv == ASSUME Init PROVE IInv
<1>1. NoGoal \in GoalRecord /\ Reserved(NoGoal) = 0
  <2>1. [h \in Holders |-> 0] \in [Holders -> 0 .. Budget] /\ 0 \in 0 .. MaxAutoTurns /\ None \in 0 .. MaxRuns
    BY GoalAssumption DEF None
  <2>2. NoGoal \in GoalRecord
    BY <2>1 DEF NoGoal, GoalRecord, GoalStatus
  <2>. QED  BY <2>2 DEF NoGoal, Reserved, Holders, Callers
<1>2. \A g \in Goals : goal[g] = NoGoal /\ spent[g] = 0 /\ allowance[g] = 0 /\ g # None
  BY DEF Init, None, Goals
<1>3. \A c \in Callers : call[c] = None
  BY DEF Init
<1>4. TypeOK
  BY <1>1, NoneTyped, GoalAssumption DEF Init, TypeOK
<1>5. Money
  <2>1. \A g \in Goals : InFlight(g) = 0 /\ Reserved(goal[g]) = 0
    BY <1>1, <1>2, <1>3 DEF InFlight, Callers
  <2>2. Accounts /\ Fits
    BY <1>2, <2>1, GoalAssumption DEF Accounts, Fits, NoGoal
  <2>3. LeasesOwned /\ Unspent
    BY <1>2, <1>3 DEF LeasesOwned, Unspent, NoGoal, Holders
  <2>. QED  BY <2>2, <2>3 DEF Money
<1>6. Consent
  BY <1>2 DEF Consent, NoGoal
<1>7. Runs /\ Counted
  BY <1>2 DEF Init, Runs, Counted, NoGoal, NoTurn, None
<1>8. Settled
  BY <1>2 DEF Settled, NoGoal, Holders
<1>9. Quiet /\ Started
  BY DEF Init, Quiet, Started, NoTurn
<1>. QED  BY <1>4, <1>5, <1>6, <1>7, <1>8, <1>9 DEF IInv

LEMMA StepIInv == ASSUME IInv, [Next]_vars PROVE IInv'
<1>1. CASE Step
  BY <1>1, PreflightStep, CandidateStep, StartRunStep, PrepareStep, LaunchStep, RunEndsStep, CloseStep,
     ContinueStep, ContinueTurnStep, SettleStep DEF Step
<1>2. CASE TurnRefused \/ SetupFails \/ TurnFails \/ ReleaseFails \/ CloseFails
  BY <1>2, TurnRefusedStep, SetupFailsStep, TurnFailsStep, ReleaseFailsStep, CloseFailsStep
<1>3. CASE (\E c \in Callers, g \in Goals : Reservation(c, g)) \/ (\E c \in Callers : SettleFails(c))
  BY <1>3, ReservationStep, SettleFailsStep
<1>4. CASE Verify \/ CompleteByAgent \/ BlockByAgent
  BY <1>4, VerifyStep, CompleteByAgentStep, BlockByAgentStep
<1>5. CASE Create \/ PauseGoal \/ ClearGoal \/ CompleteGoal \/ ResumeGoal \/ EditGoal \/ DecideGoal
  BY <1>5, CreateStep, PauseGoalStep, ClearGoalStep, CompleteGoalStep, ResumeGoalStep, EditGoalStep, DecideGoalStep
<1>6. CASE CancelRun \/ Send \/ Restart
  BY <1>6, CancelRunStep, SendStep, RestartStep
<1>7. CASE UNCHANGED vars
  BY <1>7, NothingStep
<1>. QED  BY <1>1, <1>2, <1>3, <1>4, <1>5, <1>6, <1>7 DEF Next

\* The inductive invariant holds in every state the goals can reach.
THEOREM GoalInvariant == Spec => []IInv
BY InitIInv, StepIInv, PTL DEF Spec

\* The goals, the turn and the continuation keep their types; an automatic
\* goal never counts more turns than it may have.
THEOREM GoalTypes == Spec => []TypeOK
<1>1. IInv => TypeOK
  BY DEF IInv
<1>. QED  BY <1>1, GoalInvariant, PTL

\* The token budget is a hard limit of all calls together, in flight and over,
\* through any number of restarts: what is charged and reserved covers what
\* may have been spent.
THEOREM GoalBudget == Spec => []BudgetHolds
<1>1. ASSUME IInv, NEW g \in Goals, g \notin overspent PROVE spent[g] + InFlight(g) <= Budget
  <2>1. /\ spent[g] + InFlight(g) <= goal[g].used + Reserved(goal[g])
        /\ goal[g].used + Reserved(goal[g]) <= Budget
    BY <1>1 DEF IInv, Money, Accounts
  <2>. QED  BY <1>1, <2>1, TokensTyped
<1>2. IInv => BudgetHolds
  BY <1>1 DEF BudgetHolds
<1>. QED  BY <1>2, GoalInvariant, PTL

\* No lease of an automatic goal that goes on is without a call that settles it, but
\* for those whose settlement has failed since the daemon started.
THEOREM GoalLeases == Spec => []LeasesAreLive
<1>1. ASSUME IInv, NEW g \in Goals, goal[g].auto, goal[g].status \in Unfinished,
             NEW h \in Holders, goal[g].lease[h] > 0
      PROVE  IF h \in Callers THEN call[h] = g ELSE g \in unsettled
  <2>1. CASE h \in Callers
    BY <1>1, <2>1 DEF IInv, Money, LeasesOwned
  <2>2. CASE h \notin Callers
    <3>1. h = "gone"
      BY <2>2 DEF Holders
    <3>. QED  BY <1>1, <2>2, <3>1 DEF IInv, Settled, Live
  <2>. QED  BY <2>1, <2>2
<1>2. IInv => LeasesAreLive
  BY <1>1 DEF LeasesAreLive
<1>. QED  BY <1>2, GoalInvariant, PTL

\* A goal that goes on is held by the turn that is alive, or by a run that was lost
\* since the daemon started: its set-up, or the write that releases it, failed.
THEOREM GoalRuns == Spec => []RunIsOwned
<1>1. IInv => RunIsOwned
  BY DEF IInv, Runs, RunIsOwned, Live
<1>. QED  BY <1>1, GoalInvariant, PTL

\* The daemon starts no turn of an automatic goal that the user did not agree to.
THEOREM GoalConsent == Spec => []Consented
<1>1. IInv => Consented
  BY DEF IInv, Consent, Consented
<1>. QED  BY <1>1, GoalInvariant, PTL
=============================================================================
