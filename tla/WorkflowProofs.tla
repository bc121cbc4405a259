--------------------------- MODULE WorkflowProofs ---------------------------
(***************************************************************************)
(* Theorems about Workflow: what the executor, its ledger and the fleet    *)
(* agree on at every append and every await.                               *)
(***************************************************************************)
EXTENDS Workflow, FoldLemmas, TLAPS

-----------------------------------------------------------------------------
(* What makes the properties inductive                                      *)

\* A call, and a process that was let go of, and the record they work on.
Executing == {"slot", "process", "stopping", "failing", "cleanup", "usage"}
CallsMatchRecords ==
    \A w \in Workers :
        /\ call[w] = "queued" => rec[w].status = "queued"
        /\ call[w] \in Executing => rec[w].status = "running"
        /\ w \in stray => rec[w].status = "interrupted" \/ rec[w].attempt > 1

\* A call is that of the frame that awaits it.
CallsHaveFrames == \A w \in Workers : call[w] # "idle" <=> pc[w] = "host"

FramesFitKinds ==
    \A n \in Nodes :
        /\ pc[n] \in {"semaphore", "host"} => n \in Workers
        /\ pc[n] \in {"run", "gather", "sleep"} => n \notin Workers
        /\ pc[n] = "gather" => Kind[n] \in Gathering
        /\ pc[n] = "sleep" => Kind[n] = "retry"

\* While the tree is executed, the frames that exist are those of a stack that
\* forks at the steps that gather.
Idle(n) == pc[n] = "none"
OnlyKid(p) == \A j, k \in KidSet(p) : Idle(j) \/ Idle(k) \/ j = k
NoKid(p) == \A k \in KidSet(p) : Idle(k)
Nests(p) ==
    /\ pc[p] \notin {"run", "gather"} => NoKid(p)
    /\ pc[p] = "run" => OnlyKid(p)
    /\ pc[p] = "run" /\ baton = p => NoKid(p)
    /\ pc[p] = "run" /\ Kind[p] \in Gathering =>
           NoKid(p) /\ \A k \in KidSet(p) : outcome[k] = "none"
    /\ outcome[p] # "none" => Idle(p)
FramesNest == \A p \in Nodes : Nests(p)

Starting == {"register", "start", "goal", "closing"}
InFlow == {"recover", "goal", "await", "closing", "cancelling", "giving_up"}
MainOwns ==
    /\ main \notin {"await", "cancelling"} => \A n \in Nodes : Idle(n)
    /\ baton \in Nodes => main = "await"
    /\ main = "await" /\ baton = Main => Idle(Root)
    /\ main \in InFlow => flow = "running"

\* What the ledger calls running has a frame that will say how it ends.
Begun == {"run", "gather", "sleep", "semaphore", "host"}
LedgerTellsFrames ==
    /\ flow # "running" \/ main \in Starting => RunningNodes = {}
    /\ main = "await" => \A n \in Nodes : node[n].status = "running" <=> pc[n] \in Begun
    /\ main = "cancelling" => \A n \in Nodes : pc[n] = "host" => node[n].status = "running"

WorkflowInv ==
    /\ TypeOK
    /\ CallsMatchRecords
    /\ CallsHaveFrames
    /\ FramesFitKinds
    /\ main = "await" => FramesNest
    /\ MainOwns
    /\ LedgerTellsFrames

-----------------------------------------------------------------------------
(* The tree                                                                 *)

LEMMA KidsAreNodes ==
    ASSUME NEW n \in Nodes
    PROVE  /\ KidSet(n) \subseteq Nodes
           /\ \A i \in DOMAIN Kids[n] : Kids[n][i] \in KidSet(n)
<1>1. Kids[n] \in Seq(Nodes)  BY WorkflowAssumption
<1>2. \A i \in DOMAIN Kids[n] : Kids[n][i] \in Nodes  BY <1>1
<1>. QED  BY <1>2 DEF KidSet, Range

LEMMA OneParent ==
    ASSUME NEW m \in Nodes, NEW n \in Nodes, NEW k \in KidSet(m), k \in KidSet(n)
    PROVE  m = n
<1>1. PICK i \in DOMAIN Kids[m] : k = Kids[m][i]  BY DEF KidSet, Range
<1>2. PICK j \in DOMAIN Kids[n] : k = Kids[n][j]  BY DEF KidSet, Range
<1>. QED  BY <1>1, <1>2, TreeAssumption DEF IsTree

\* Whatever holds of the root and goes from a step to its children holds of every step.
LEMMA ClosedIsAll ==
    ASSUME NEW S \in SUBSET Nodes, Root \in S, \A k \in S : KidSet(k) \subseteq S
    PROVE  S = Nodes
<1>1. Root \in Nodes /\ Below[Root] = Nodes  BY WorkflowAssumption, TreeAssumption DEF IsTree
<1>2. \A m \in Below[Root] : m \in S  BY <1>1 DEF Below
<1>. QED  BY <1>1, <1>2

LEMMA NotOwnKid ==
    ASSUME NEW n \in Nodes
    PROVE  n \notin KidSet(n)
<1>. SUFFICES ASSUME n \in KidSet(n) PROVE FALSE  OBVIOUS
<1>. DEFINE S == Nodes \ {n}
<1>1. Root \in S  BY WorkflowAssumption, TreeAssumption DEF IsTree
<1>2. ASSUME NEW k \in S PROVE KidSet(k) \subseteq S  BY KidsAreNodes, OneParent
<1>. HIDE DEF S
<1>3. S = Nodes  BY <1>1, <1>2, ClosedIsAll, S \subseteq Nodes DEF S
<1>. QED  BY <1>3 DEF S

LEMMA ParentOfKid ==
    ASSUME NEW p \in Nodes, NEW k \in KidSet(p)
    PROVE  Parent(k) = p
BY OneParent DEF Parent

LEMMA HasParent ==
    ASSUME NEW n \in Nodes, n # Root
    PROVE  Parent(n) \in Nodes /\ n \in KidSet(Parent(n))
<1>. DEFINE S == {Root} \cup {k \in Nodes : \E p \in Nodes : k \in KidSet(p)}
<1>1. S \subseteq Nodes /\ Root \in S  BY WorkflowAssumption
<1>2. \A k \in S : KidSet(k) \subseteq S  BY <1>1, KidsAreNodes
<1>3. S = Nodes  BY <1>1, <1>2, ClosedIsAll
<1>4. \E p \in Nodes : n \in KidSet(p)  BY <1>3
<1>. QED  BY <1>4 DEF Parent

LEMMA BelowIsNodes ==
    ASSUME NEW n \in Nodes
    PROVE  Below[n] \subseteq Nodes
BY DEF Below

LEMMA WorkersHaveNoKids ==
    ASSUME NEW w \in Workers
    PROVE  w \in Nodes /\ KidSet(w) = {}
<1>1. w \in Nodes /\ Kind[w] = "worker" /\ Kids[w] \in Seq(Nodes)  BY WorkflowAssumption
<1>2. Len(Kids[w]) \in {0}  BY <1>1, WorkflowAssumption DEF Arity
<1>3. DOMAIN Kids[w] = {}  BY <1>1, <1>2
<1>. QED  BY <1>1, <1>3 DEF KidSet, Range

\* The children an operator asks for by their place.
LEMMA PlacesOfKids ==
    ASSUME NEW n \in Nodes
    PROVE  /\ Kind[n] \in {"branch", "gate"} => {Kids[n][1], Kids[n][2]} \subseteq KidSet(n)
           /\ Kind[n] = "retry" => Kids[n][1] \in KidSet(n)
<1>1. Kids[n] \in Seq(Nodes) /\ Len(Kids[n]) \in Arity(Kind[n])  BY WorkflowAssumption
<1>2. CASE Kind[n] \in {"branch", "gate"}
  <2>1. Len(Kids[n]) \in {2}  BY <1>1, <1>2 DEF Arity
  <2>2. 1 \in DOMAIN Kids[n] /\ 2 \in DOMAIN Kids[n]  BY <1>1, <2>1
  <2>. QED  BY <1>2, <2>2, KidsAreNodes
<1>3. CASE Kind[n] = "retry"
  <2>1. Len(Kids[n]) \in {1}  BY <1>1, <1>3 DEF Arity
  <2>2. 1 \in DOMAIN Kids[n]  BY <1>1, <2>1
  <2>. QED  BY <1>3, <2>2, KidsAreNodes
<1>. QED  BY <1>2, <1>3

\* No frame below a step that has none.
LEMMA IdleBelow ==
    ASSUME FramesNest, NEW n \in Nodes, Idle(n), NEW m \in Below[n]
    PROVE  m \in Nodes /\ Idle(m)
<1>. DEFINE S == {k \in Nodes : Idle(k)}
<1>1. \A k \in S : KidSet(k) \subseteq S  BY KidsAreNodes DEF FramesNest, Nests, NoKid, Idle
<1>2. m \in S  BY <1>1 DEF Below
<1>. QED  BY <1>2

-----------------------------------------------------------------------------
(* The fleet                                                                *)

\* A step of one worker's call.
FleetStep(w) ==
    \/ Call(w) \/ Admit(w) \/ Start(w) \/ Process(w) \/ AddTokenUsage(w) \/ Record(w)
    \/ Cancel(w) \/ Interrupt(w) \/ Collect(w)
Records == [status : WorkerStatus, attempt : 1 .. WorkerAttempts, answer : BOOLEAN, usage : Nat]
FleetInv == FleetTypeOK /\ CallsMatchRecords
Accepted(w) == rec[w].status = "completed" => rec'[w] = rec[w]

\* A step changes the record of its own worker and leaves an accepted one alone;
\* only Call and Collect begin and end a call.
LEMMA FleetSteps ==
    ASSUME FleetInv, NEW w \in Workers, FleetStep(w)
    PROVE  /\ FleetInv'
           /\ \A v \in Workers : Accepted(v)
           /\ \A v \in Workers \ {w} : rec'[v] = rec[v] /\ call'[v] = call[v] /\ reply'[v] = reply[v]
           /\ ~Call(w) /\ ~Collect(w) => call[w] # "idle" /\ call'[w] # "idle"
<1>. DEFINE Others == \A v \in Workers \ {w} :
                 rec'[v] = rec[v] /\ call'[v] = call[v] /\ reply'[v] = reply[v]
           Own == /\ rec'[w] \in Records /\ reply'[w] \in Replies /\ call'[w] \in CallPhases
                  /\ call'[w] = "queued" => rec'[w].status = "queued"
                  /\ call'[w] \in Executing => rec'[w].status = "running"
                  /\ stray' \subseteq stray \cup {w}
                  /\ w \in stray' => rec'[w].status = "interrupted" \/ rec'[w].attempt > 1
                  /\ Accepted(w)
                  /\ ~Call(w) /\ ~Collect(w) => call[w] # "idle" /\ call'[w] # "idle"
           Maps == /\ rec' = [rec EXCEPT ![w] = rec'[w]]
                   /\ reply' = [reply EXCEPT ![w] = reply'[w]]
                   /\ call' = [call EXCEPT ![w] = call'[w]]
<1>a. rec \in [Workers -> Records] /\ reply \in [Workers -> Replies] /\ call \in [Workers -> CallPhases]
  BY DEF FleetInv, FleetTypeOK, Records
<1>b. /\ rec[w] \in Records /\ reply[w] \in Replies /\ stray \subseteq Workers
      /\ call[w] = "queued" => rec[w].status = "queued"
      /\ call[w] \in Executing => rec[w].status = "running"
      /\ w \in stray => rec[w].status = "interrupted" \/ rec[w].attempt > 1
  BY <1>a DEF FleetInv, FleetTypeOK, CallsMatchRecords
<1>c. Failure \in Replies  BY DEF Failure, Reply, Replies, Ended
<1>d. Answers[w] \subseteq BOOLEAN /\ Cost[w] \in Nat /\ WorkerAttempts \in Nat \ {0}  BY FleetAssumption
<1>1. ASSUME Call(w) PROVE Maps /\ Own
  <2>1. Maps  BY <1>1, <1>a DEF Call, Goto, Advance
  <2>2. Own
    BY <1>1, <1>a, <1>b, <1>c, <1>d DEF Call, Goto, Advance, Records, CallPhases, Executing, Accepted, Active, Ended, WorkerStatus
  <2>. QED  BY <2>1, <2>2
<1>2. ASSUME Restore(w) PROVE Maps /\ Own
  <2>1. Maps  BY <1>2, <1>a DEF Restore, Goto, Advance, Answer, Reply, Restorable, Replies, Ended
  <2>2. Own
    BY <1>2, <1>a, <1>b, <1>c, <1>d DEF Restore, Goto, Advance, Answer, Reply, Restorable, Replies, Ended, Records, CallPhases, Executing, Accepted, Active, Ended, WorkerStatus
  <2>. QED  BY <2>1, <2>2
<1>3. ASSUME Refuse(w) PROVE Maps /\ Own
  <2>1. Maps  BY <1>3, <1>a DEF Refuse, Goto, Advance, Answer, Restorable, Preparable
  <2>2. Own
    BY <1>3, <1>a, <1>b, <1>c, <1>d DEF Refuse, Goto, Advance, Answer, Restorable, Preparable, Records, CallPhases, Executing, Accepted, Active, Ended, WorkerStatus
  <2>. QED  BY <2>1, <2>2
<1>4. ASSUME Queue(w) PROVE Maps /\ Own
  <2>1. Maps  BY <1>4, <1>a DEF Queue, Goto, Advance, Prepare, Preparable, Status, Restorable
  <2>2. Own
    BY <1>4, <1>a, <1>b, <1>c, <1>d DEF Queue, Goto, Advance, Prepare, Preparable, Status, Restorable, Records, CallPhases, Executing, Accepted, Active, Ended, WorkerStatus
  <2>. QED  BY <2>1, <2>2
<1>5. ASSUME Start(w) PROVE Maps /\ Own
  <2>1. Maps  BY <1>5, <1>a DEF Start, Goto, Advance, Status
  <2>2. Own
    BY <1>5, <1>a, <1>b, <1>c, <1>d DEF Start, Goto, Advance, Status, Records, CallPhases, Executing, Accepted, Active, Ended, WorkerStatus
  <2>. QED  BY <2>1, <2>2
<1>6. ASSUME Spawn(w) PROVE Maps /\ Own
  <2>1. Maps  BY <1>6, <1>a DEF Spawn, Goto, Advance
  <2>2. Own
    BY <1>6, <1>a, <1>b, <1>c, <1>d DEF Spawn, Goto, Advance, Records, CallPhases, Executing, Accepted, Active, Ended, WorkerStatus
  <2>. QED  BY <2>1, <2>2
<1>7. ASSUME HostReturns(w) PROVE Maps /\ Own
  <2>1. Maps  BY <1>7, <1>a DEF HostReturns, Goto, Advance, Answer, Reply
  <2>2. Own
    <3>1. rec' = rec /\ call[w] = "process" /\ call'[w] = "cleanup" /\ stray' = stray
      BY <1>7, <1>a DEF HostReturns, Goto, Advance
    <3>2. /\ \A b \in BOOLEAN : Reply("completed", b, Cost[w]) \in Replies
          /\ Reply("budget_limited", FALSE, Cost[w]) \in Replies
      BY <1>d DEF Reply, Replies, Ended
    <3>3. \E r \in Replies : reply' = [reply EXCEPT ![w] = r]
      BY <1>7, <1>c, <1>d, <3>2 DEF HostReturns, Answer
    <3>. QED  BY <3>1, <3>3, <1>a, <1>b DEF CallPhases, Executing, Accepted
  <2>. QED  BY <2>1, <2>2
<1>8. ASSUME Stopped(w) PROVE Maps /\ Own
  <2>1. Maps  BY <1>8, <1>a DEF Stopped, Goto, Advance, Status
  <2>2. Own
    BY <1>8, <1>a, <1>b, <1>c, <1>d DEF Stopped, Goto, Advance, Status, Records, CallPhases, Executing, Accepted, Active, Ended, WorkerStatus
  <2>. QED  BY <2>1, <2>2
<1>9. ASSUME AddTokenUsage(w) PROVE Maps /\ Own
  <2>1. Maps  BY <1>9, <1>a DEF AddTokenUsage, Goto, Advance, Replies
  <2>2. Own
    BY <1>9, <1>a, <1>b, <1>c, <1>d DEF AddTokenUsage, Goto, Advance, Replies, Records, CallPhases, Executing, Accepted, Active, Ended, WorkerStatus
  <2>. QED  BY <2>1, <2>2
<1>10. ASSUME Record(w) PROVE Maps /\ Own
  <2>1. Maps  BY <1>10, <1>a DEF Record, Goto, Advance, Replies
  <2>2. Own
    BY <1>10, <1>a, <1>b, <1>c, <1>d DEF Record, Goto, Advance, Replies, Records, CallPhases, Executing, Accepted, Active, Ended, WorkerStatus
  <2>. QED  BY <2>1, <2>2
<1>11. ASSUME Cancel(w) PROVE Maps /\ Own
  <2>1. Maps  BY <1>11, <1>a DEF Cancel, Goto, Advance, Status
  <2>2. Own
    BY <1>11, <1>a, <1>b, <1>c, <1>d DEF Cancel, Goto, Advance, Status, Records, CallPhases, Executing, Accepted, Active, Ended, WorkerStatus
  <2>. QED  BY <2>1, <2>2
<1>12. ASSUME Collect(w) PROVE Maps /\ Own
  <2>1. Maps  BY <1>12, <1>a DEF Collect, Goto, Advance, Answer, Returned
  <2>2. Own
    BY <1>12, <1>a, <1>b, <1>c, <1>d DEF Collect, Goto, Advance, Answer, Returned, Records, CallPhases, Executing, Accepted, Active, Ended, WorkerStatus
  <2>. QED  BY <2>1, <2>2
<1>13. ASSUME HostRaises(w) PROVE Maps /\ Own
  <2>1. Maps  BY <1>13, <1>a DEF HostRaises, Goto, Advance
  <2>2. Own
    BY <1>13, <1>a, <1>b DEF HostRaises, Goto, Advance, CallPhases, Executing, Accepted
  <2>. QED  BY <2>1, <2>2
<1>14. ASSUME Failed(w) PROVE Maps /\ Own
  <2>1. Maps  BY <1>14, <1>a DEF Failed, Goto, Advance, Answer
  <2>2. Own
    BY <1>14, <1>a, <1>b, <1>c DEF Failed, Goto, Advance, Answer, CallPhases, Executing, Accepted
  <2>. QED  BY <2>1, <2>2
<1>15. ASSUME Interrupt(w) PROVE Maps /\ Own
  <2>1. Maps  BY <1>15, <1>a DEF Interrupt, Advance, Status
  <2>2. Own
    BY <1>15, <1>a, <1>b DEF Interrupt, Advance, Status, Records, CallPhases, Executing, Accepted, WorkerStatus
  <2>. QED  BY <2>1, <2>2
<1>20. Maps /\ Own
  BY <1>1, <1>2, <1>3, <1>4, <1>5, <1>6, <1>7, <1>8, <1>9, <1>10, <1>11, <1>12, <1>13, <1>14, <1>15
     DEF FleetStep, Admit, Process
<1>. HIDE DEF Own, Maps
<1>21. Others  BY <1>20, <1>a DEF Maps
<1>22. rec' \in [Workers -> Records] /\ reply' \in [Workers -> Replies] /\ call' \in [Workers -> CallPhases]
  BY <1>20, <1>a DEF Maps, Own
<1>23. FleetTypeOK'  BY <1>20, <1>22, <1>b DEF Own, FleetTypeOK, Records
<1>24. CallsMatchRecords'  BY <1>20, <1>21 DEF Own, CallsMatchRecords, FleetInv
<1>25. \A v \in Workers : Accepted(v)  BY <1>20, <1>21 DEF Own, Accepted
<1>. QED  BY <1>20, <1>21, <1>23, <1>24, <1>25 DEF Own, FleetInv

-----------------------------------------------------------------------------
(* What a step of a frame does                                              *)

Entries == [status : NodeStatus, attempt : Nat, answer : BOOLEAN, usage : Nat]
LedgerTypes == node \in [AllNodes -> Entries]
FrameTypes ==
    pc \in [Nodes -> Frames] /\ outcome \in [Nodes -> Outcomes] /\ baton \in Nodes \cup {Free, Main}

\* A step agrees with its kind, its call and its node in the ledger.
Fits(n) ==
    /\ pc[n] \in {"semaphore", "host"} => n \in Workers
    /\ pc[n] \in {"run", "gather", "sleep"} => n \notin Workers
    /\ pc[n] = "gather" => Kind[n] \in Gathering
    /\ pc[n] = "sleep" => Kind[n] = "retry"
    /\ n \in Workers => (call[n] # "idle" <=> pc[n] = "host")
    /\ node[n].status = "running" <=> pc[n] \in Begun

\* To the steps beside n, a step of n at most hands a turn.
Apart(n) ==
    /\ \A m \in Nodes \ {n} : pc'[m] = pc[m] \/ {pc[m], pc'[m]} \subseteq {"none", "ready", "call"}
    /\ \A m \in Nodes \ {n} : node'[m].status = "running" <=> node[m].status = "running"
    /\ \A w \in Workers \ {n} : call'[w] = call[w]

Returns(n) == ~Idle(n) /\ NoKid(n) /\ \E o \in Outcomes \ {"none"} : Return(n, o)
Calls(n) ==
    pc[n] = "run" /\ baton = n /\ Kind[n] \notin Gathering /\ \E c \in KidSet(n) : RunStep(c)
Goes(n) ==
    /\ ~Idle(n) /\ NoKid(n)
    /\ \E p \in {"call", "semaphore", "host"}, b \in {n, Free} : Enter(n, p, b)
Wakes(n) == pc[n] = "sleep" /\ Enter(n, "run", n)
Starts(n) ==
    /\ pc[n] = "call" /\ baton = n /\ UNCHANGED baton
    /\ pc' = [pc EXCEPT ![n] = "run"]
    /\ outcome' = [k \in Nodes |-> IF k \in KidSet(n) THEN "none" ELSE outcome[k]]
Forks(n) == pc[n] = "run" /\ baton = n /\ Kind[n] \in Gathering /\ Scatter(n)
Waits(n) ==
    /\ pc[n] = "run" /\ baton = n /\ Kind[n] = "retry" /\ baton' \in {n, Free}
    /\ \E p \in {"run", "sleep"} : pc' = [pc EXCEPT ![n] = p]
    /\ \E c \in KidSet(n) : outcome' = [outcome EXCEPT ![c] = "none"]
Stays(n) ==
    /\ UNCHANGED <<pc, outcome>> /\ baton' \in {n, Free}
    /\ baton' = n => baton = n \/ pc[n] = "host"
Shape(n) ==
    \/ Returns(n) \/ Calls(n) \/ Goes(n) \/ Wakes(n) \/ Starts(n) \/ Forks(n) \/ Waits(n) \/ Stays(n)

Moved(n) ==
    /\ main = "await" /\ UNCHANGED <<flow, main, runs>>
    /\ FleetInv' /\ \A w \in Workers : Accepted(w)
    /\ LedgerTypes' /\ FrameTypes'
    /\ Apart(n) /\ Fits(n)' /\ Shape(n)

LEMMA NodeFacts ==
    /\ Root \in Nodes /\ Goal \notin Nodes /\ Free \notin Nodes /\ Main \notin Nodes /\ Free # Main
    /\ Workers \subseteq Nodes /\ Nodes \subseteq AllNodes /\ Goal \in AllNodes
    /\ \A n \in Nodes : n \in Workers <=> Kind[n] = "worker"
BY WorkflowAssumption DEF AllNodes, Free, Main

LEMMA AwaitFacts ==
    ASSUME WorkflowInv, main = "await"
    PROVE  /\ FramesNest /\ flow = "running" /\ FleetInv /\ LedgerTypes /\ FrameTypes
           /\ \A n \in Nodes : Fits(n)
<1>1. FramesNest /\ flow = "running" /\ FleetInv /\ LedgerTypes /\ FrameTypes
  BY DEF WorkflowInv, MainOwns, InFlow, FleetInv, TypeOK, LedgerTypes, FrameTypes, Entries
<1>2. ASSUME NEW n \in Nodes PROVE Fits(n)
  BY NodeFacts DEF WorkflowInv, FramesFitKinds, CallsHaveFrames, LedgerTellsFrames, Fits
<1>. QED  BY <1>1, <1>2

LEMMA StillFleet ==
    ASSUME FleetInv, UNCHANGED fleetVars
    PROVE  FleetInv' /\ (\A w \in Workers : Accepted(w)) /\ UNCHANGED call
<1>1. UNCHANGED <<rec, call, reply, stray>>  BY DEF fleetVars
<1>. QED  BY <1>1 DEF FleetInv, FleetTypeOK, CallsMatchRecords, Accepted

LEMMA EventFacts ==
    ASSUME LedgerTypes, NEW n \in AllNodes, NEW s \in NodeStatus, Event(n, s)
    PROVE  /\ LedgerTypes' /\ node'[n].status = s
           /\ \A m \in AllNodes \ {n} : node'[m] = node[m]
<1>1. node[n] \in Entries /\ node \in [AllNodes -> Entries]  BY DEF LedgerTypes
<1>2. PICK e \in Entries : e.status = s /\ node' = [node EXCEPT ![n] = e]
  <2>. DEFINE a == IF s = "running" THEN node[n].attempt + 1 ELSE node[n].attempt
              e == [node[n] EXCEPT !.status = s, !.attempt = a]
  <2>0. node[n].attempt \in Nat /\ a \in Nat  BY <1>1 DEF Entries
  <2>. HIDE DEF a
  <2>1. e \in Entries /\ e.status = s  BY <1>1, <2>0 DEF Entries
  <2>. USE DEF a
  <2>2. node' = [node EXCEPT ![n] = e]  BY <1>1 DEF Event, Entries
  <2>. QED  BY <2>1, <2>2
<1>. QED  BY <1>1, <1>2 DEF LedgerTypes

LEMMA WorkerEventFacts ==
    ASSUME LedgerTypes, NEW n \in AllNodes, NEW s \in NodeStatus, NEW r \in Replies, WorkerEvent(n, s, r)
    PROVE  /\ LedgerTypes' /\ node'[n].status = s
           /\ \A m \in AllNodes \ {n} : node'[m] = node[m]
<1>1. node[n] \in Entries /\ node \in [AllNodes -> Entries]  BY DEF LedgerTypes
<1>2. PICK e \in Entries : e.status = s /\ node' = [node EXCEPT ![n] = e]
  <2>. DEFINE u == node[n].usage + r.tokens
              e == [node[n] EXCEPT !.status = s, !.answer = r.answer, !.usage = u]
  <2>0. u \in Nat /\ r.answer \in BOOLEAN  BY <1>1 DEF Entries, Replies
  <2>. HIDE DEF u
  <2>1. e \in Entries /\ e.status = s  BY <1>1, <2>0 DEF Entries
  <2>. USE DEF u
  <2>2. node' = [node EXCEPT ![n] = e]  BY <1>1 DEF WorkerEvent, Entries
  <2>. QED  BY <2>1, <2>2
<1>. QED  BY <1>1, <1>2 DEF LedgerTypes

LEMMA CallerFacts ==
    ASSUME NEW n \in Nodes
    PROVE  /\ CallerOf(n) \in Nodes \cup {Free, Main}
           /\ CallerOf(n) = Main => n = Root
           /\ CallerOf(n) \in Nodes => n \in KidSet(CallerOf(n)) /\ Kind[CallerOf(n)] \notin Gathering
BY HasParent, NodeFacts DEF CallerOf

LEMMA ReturnFacts ==
    ASSUME FrameTypes, NEW n \in Nodes, NEW o \in Outcomes, Return(n, o)
    PROVE  /\ FrameTypes' /\ pc'[n] = "none" /\ outcome'[n] = o
           /\ \A m \in Nodes \ {n} : pc'[m] = pc[m] /\ outcome'[m] = outcome[m]
BY CallerFacts DEF FrameTypes, Return, Frames

LEMMA EnterFacts ==
    ASSUME FrameTypes, NEW n \in Nodes, NEW p \in Frames, NEW b \in {n, Free}, Enter(n, p, b)
    PROVE  /\ FrameTypes' /\ pc'[n] = p /\ \A m \in Nodes \ {n} : pc'[m] = pc[m]
BY DEF FrameTypes, Enter

LEMMA RunStepFacts ==
    ASSUME FrameTypes, NEW c \in Nodes, RunStep(c)
    PROVE  /\ FrameTypes' /\ pc'[c] = "call" /\ outcome'[c] = "none" /\ baton' = c
           /\ \A m \in Nodes \ {c} : pc'[m] = pc[m] /\ outcome'[m] = outcome[m]
BY DEF FrameTypes, RunStep, Frames, Outcomes

\* The frame of n returns, to one that waits for it.
LEMMA Leaves ==
    ASSUME WorkflowInv, main = "await", NEW n \in Nodes, ~Idle(n), NoKid(n),
           NEW o \in Outcomes \ {"none"}, Return(n, o), UNCHANGED <<flow, main, runs>>,
           FleetInv', \A w \in Workers : Accepted(w),
           \A w \in Workers \ {n} : call'[w] = call[w], n \in Workers => call'[n] = "idle",
           LedgerTypes', node'[n].status # "running", \A m \in Nodes \ {n} : node'[m] = node[m]
    PROVE  Moved(n)
<1>1. FrameTypes /\ \A m \in Nodes : Fits(m)  BY AwaitFacts
<1>2. FrameTypes' /\ pc'[n] = "none" /\ \A m \in Nodes \ {n} : pc'[m] = pc[m]
  BY <1>1, ReturnFacts
<1>3. Apart(n)  BY <1>2, NodeFacts DEF Apart
<1>4. Fits(n)'  BY <1>2 DEF Fits, Begun
<1>5. Shape(n)  BY DEF Shape, Returns
<1>. QED  BY <1>2, <1>3, <1>4, <1>5 DEF Moved

LEMMA LeavesKeeping ==
    ASSUME WorkflowInv, main = "await", NEW n \in Nodes, pc[n] \in {"call", "run", "gather"}, NoKid(n),
           NEW o \in Outcomes \ {"none"}, Return(n, o), Keep,
           (KeepLedger /\ pc[n] = "call") \/ (\E s \in NodeStatus \ {"running"} : Event(n, s))
    PROVE  Moved(n)
<1>1. FleetInv /\ LedgerTypes /\ Fits(n)  BY AwaitFacts
<1>2. FleetInv' /\ (\A w \in Workers : Accepted(w)) /\ UNCHANGED call
  BY <1>1, StillFleet DEF Keep
<1>3. n \in Workers => call'[n] = "idle"  BY <1>1, <1>2 DEF Fits
<1>4. LedgerTypes' /\ node'[n].status # "running" /\ \A m \in Nodes \ {n} : node'[m] = node[m]
  <2>1. CASE KeepLedger /\ pc[n] = "call"
    BY <2>1, <1>1 DEF KeepLedger, LedgerTypes, Fits, Begun
  <2>2. CASE \E s \in NodeStatus \ {"running"} : Event(n, s)
    BY <2>2, <1>1, EventFacts, NodeFacts
  <2>. QED  BY <2>1, <2>2
<1>5. ~Idle(n) /\ UNCHANGED <<flow, main, runs>>  BY DEF Idle, Keep
<1>. QED  BY <1>2, <1>3, <1>4, <1>5, Leaves

LEMMA Finishes ==
    ASSUME WorkflowInv, main = "await", NEW n \in Nodes, pc[n] \in {"run", "gather"}, NoKid(n), Keep,
           NEW o \in {"ok", "approved"}, Fails(n) \/ Completes(n, o)
    PROVE  Moved(n)
<1>1. \E s \in {"failed", "completed"}, a \in Outcomes \ {"none"} : Event(n, s) /\ Return(n, a)
  BY DEF Fails, Completes, Outcomes
<1>2. {"failed", "completed"} \subseteq NodeStatus \ {"running"}  BY DEF NodeStatus
<1>. QED  BY <1>1, <1>2, LeavesKeeping

\* Steps that are marked have no frame.
LEMMA Marks ==
    ASSUME WorkflowInv, main = "await", NEW n \in Nodes, baton = n, pc[n] = "run", Keep, Stay,
           NEW trees, \A m \in trees : m \in Nodes /\ Idle(m),
           NEW s \in {"blocked", "skipped"}, Mark(trees, s)
    PROVE  Moved(n)
<1>1. FleetInv /\ LedgerTypes /\ FrameTypes /\ \A m \in Nodes : Fits(m)  BY AwaitFacts
<1>2. FleetInv' /\ (\A w \in Workers : Accepted(w)) /\ UNCHANGED call
  BY <1>1, StillFleet DEF Keep
<1>3. PICK m \in trees : Event(m, s)  BY DEF Mark, First, Unmarked
<1>4. m \in Nodes /\ Idle(m) /\ m # n /\ node[m].status # "running"
  BY <1>1, <1>3 DEF Idle, Fits, Begun
<1>5. s \in NodeStatus /\ s # "running"  BY DEF NodeStatus
<1>6. LedgerTypes' /\ node'[m].status = s /\ \A k \in AllNodes \ {m} : node'[k] = node[k]
  BY <1>1, <1>3, <1>4, <1>5, EventFacts, NodeFacts
<1>7. Apart(n)
  <2>1. \A k \in Nodes \ {n} : node'[k].status = "running" <=> node[k].status = "running"
    BY <1>4, <1>5, <1>6, NodeFacts
  <2>. QED  BY <2>1, <1>2 DEF Apart, Stay
<1>8. FrameTypes' /\ Fits(n)'
  BY <1>1, <1>2, <1>4, <1>6, NodeFacts DEF FrameTypes, Fits, Stay
<1>9. Shape(n)  BY DEF Shape, Stays, Stay
<1>. QED  BY <1>2, <1>6, <1>7, <1>8, <1>9 DEF Moved, Keep

LEMMA CallsKid ==
    ASSUME WorkflowInv, main = "await", NEW n \in Nodes, baton = n, pc[n] = "run",
           Kind[n] \notin Gathering, NEW c \in KidSet(n), RunStep(c), KeepLedger, Keep
    PROVE  Moved(n)
<1>1. FleetInv /\ LedgerTypes /\ FrameTypes /\ Fits(n) /\ FramesNest  BY AwaitFacts
<1>2. FleetInv' /\ (\A w \in Workers : Accepted(w)) /\ UNCHANGED call
  BY <1>1, StillFleet DEF Keep
<1>3. c \in Nodes /\ c # n /\ pc[c] = "none"
  BY <1>1, KidsAreNodes, NotOwnKid DEF FramesNest, Nests, NoKid, Idle
<1>4. FrameTypes' /\ pc'[c] = "call" /\ \A m \in Nodes \ {c} : pc'[m] = pc[m]
  BY <1>1, <1>3, RunStepFacts
<1>5. LedgerTypes'  BY <1>1 DEF LedgerTypes, KeepLedger
<1>6. Apart(n)  BY <1>2, <1>3, <1>4 DEF Apart, KeepLedger
<1>7. Fits(n)'  BY <1>1, <1>2, <1>3, <1>4 DEF Fits, KeepLedger
<1>8. Shape(n)  BY DEF Shape, Calls
<1>. QED  BY <1>2, <1>4, <1>5, <1>6, <1>7, <1>8 DEF Moved, Keep

\* A step whose frame runs has none below it.
LEMMA RunFacts ==
    ASSUME WorkflowInv, main = "await", NEW n \in Nodes, baton = n, pc[n] = "run"
    PROVE  NoKid(n) /\ \A k \in KidSet(n) : \A m \in Below[k] : m \in Nodes /\ Idle(m)
<1>1. FramesNest  BY AwaitFacts
<1>2. NoKid(n)  BY <1>1 DEF FramesNest, Nests
<1>. QED  BY <1>1, <1>2, IdleBelow, KidsAreNodes DEF NoKid

LEMMA MarksThenFails ==
    ASSUME WorkflowInv, main = "await", NEW n \in Nodes, baton = n, pc[n] = "run", Keep,
           NEW trees, \A m \in trees : m \in Nodes /\ Idle(m), MarkThenFail(n, trees)
    PROVE  Moved(n)
<1>1. CASE Mark(trees, "blocked") /\ Stay  BY <1>1, Marks
<1>2. CASE Fails(n)  BY <1>2, RunFacts, Finishes
<1>. QED  BY <1>1, <1>2 DEF MarkThenFail

LEMMA Sequences ==
    ASSUME WorkflowInv, main = "await", NEW n \in Nodes, baton = n, pc[n] = "run",
           Kind[n] \notin Gathering, Keep, Sequence(n)
    PROVE  Moved(n)
<1>1. CASE Completes(n, "ok")  BY <1>1, RunFacts, Finishes
<1>2. ASSUME NEW i \in DOMAIN Kids[n], MarkThenFail(n, LaterThan(n, i))
      PROVE  Moved(n)
  <2>1. Kids[n] \in Seq(Nodes)  BY WorkflowAssumption
  <2>2. ASSUME NEW m \in LaterThan(n, i) PROVE \E k \in KidSet(n) : m \in Below[k]
    <3>1. PICK j \in i + 1 .. Len(Kids[n]) : m \in Below[Kids[n][j]]  BY DEF LaterThan
    <3>2. j \in DOMAIN Kids[n]  BY <2>1, <3>1
    <3>. QED  BY <3>1, <3>2, KidsAreNodes
  <2>3. \A m \in LaterThan(n, i) : m \in Nodes /\ Idle(m)  BY <2>2, RunFacts
  <2>. QED  BY <1>2, <2>3, MarksThenFails
<1>3. ASSUME NEW i \in DOMAIN Kids[n], RunStep(Kids[n][i]), KeepLedger
      PROVE  Moved(n)
  BY <1>3, KidsAreNodes, CallsKid
<1>. QED  BY <1>1, <1>2, <1>3 DEF Sequence

LEMMA TwoSides ==
    ASSUME NEW n \in Nodes, Kind[n] = "branch"
    PROVE  Selected(n) \in KidSet(n) /\ Passed(n) \in KidSet(n)
BY PlacesOfKids DEF Selected, Passed

LEMMA BranchSteps ==
    ASSUME WorkflowInv, main = "await", NEW n \in Nodes, baton = n, pc[n] = "run",
           Kind[n] = "branch", Keep, Branch(n)
    PROVE  Moved(n)
<1>1. CASE Completes(n, "ok") \/ Fails(n)  BY <1>1, RunFacts, Finishes
<1>2. CASE Mark(Below[Passed(n)], "skipped") /\ Stay
  BY <1>2, TwoSides, RunFacts, Marks
<1>3. CASE RunStep(Selected(n)) /\ KeepLedger
  BY <1>3, TwoSides, CallsKid DEF Gathering
<1>. QED  BY <1>1, <1>2, <1>3 DEF Branch

LEMMA RetrySteps ==
    ASSUME WorkflowInv, main = "await", NEW n \in Nodes, baton = n, pc[n] = "run",
           Kind[n] = "retry", Keep, Retry(n)
    PROVE  Moved(n)
<1>. DEFINE c == Kids[n][1]
<1>0. c \in KidSet(n) /\ Kind[n] \notin Gathering  BY PlacesOfKids DEF Gathering
<1>1. CASE Completes(n, "ok") \/ Fails(n)  BY <1>1, RunFacts, Finishes
<1>2. CASE RunStep(c) /\ KeepLedger  BY <1>0, <1>2, CallsKid
<1>3. CASE /\ pc' = [pc EXCEPT ![n] = IF Backoff THEN "sleep" ELSE "run"]
           /\ baton' = (IF Backoff THEN Free ELSE n)
           /\ outcome' = [outcome EXCEPT ![c] = "none"]
           /\ KeepLedger
  <2>1. FleetInv /\ LedgerTypes /\ FrameTypes /\ Fits(n)  BY AwaitFacts
  <2>2. FleetInv' /\ (\A w \in Workers : Accepted(w)) /\ UNCHANGED call
    BY <2>1, StillFleet DEF Keep
  <2>3. PICK p \in {"run", "sleep"} : pc' = [pc EXCEPT ![n] = p]  BY <1>3
  <2>4. c \in Nodes /\ baton' \in {n, Free}  BY <1>0, <1>3, KidsAreNodes
  <2>5. FrameTypes'  BY <1>3, <2>1, <2>3, <2>4 DEF FrameTypes, Frames, Outcomes
  <2>6. pc'[n] = p /\ \A m \in Nodes \ {n} : pc'[m] = pc[m]  BY <2>1, <2>3 DEF FrameTypes
  <2>7. LedgerTypes' /\ node' = node  BY <1>3, <2>1 DEF LedgerTypes, KeepLedger
  <2>8. Apart(n)  BY <2>2, <2>6, <2>7 DEF Apart
  <2>9. Fits(n)'  BY <1>0, <2>1, <2>2, <2>6, <2>7 DEF Fits, Begun
  <2>10. Shape(n)  BY <1>0, <1>3, <2>3, <2>4 DEF Shape, Waits
  <2>. QED  BY <2>2, <2>5, <2>7, <2>8, <2>9, <2>10 DEF Moved, Keep
<1>. QED  BY <1>1, <1>2, <1>3 DEF Retry

LEMMA GateSteps ==
    ASSUME WorkflowInv, main = "await", NEW n \in Nodes, baton = n, pc[n] = "run",
           Kind[n] = "gate", Keep, Gate(n)
    PROVE  Moved(n)
<1>0. Kids[n][1] \in KidSet(n) /\ Kids[n][2] \in KidSet(n) /\ Kind[n] \notin Gathering
  BY PlacesOfKids DEF Gathering
<1>1. CASE Completes(n, "approved") \/ Fails(n)  BY <1>1, RunFacts, Finishes
<1>2. CASE \E c \in {Kids[n][1], Kids[n][2]} : RunStep(c) /\ KeepLedger
  BY <1>0, <1>2, CallsKid
<1>3. CASE MarkThenFail(n, {Kids[n][2]})
  <2>1. \A m \in {Kids[n][2]} : m \in Nodes /\ Idle(m)
    BY <1>0, RunFacts, KidsAreNodes DEF NoKid
  <2>. QED  BY <1>3, <2>1, MarksThenFails
<1>. QED  BY <1>1, <1>2, <1>3 DEF Gate

LEMMA Scatters ==
    ASSUME WorkflowInv, main = "await", NEW n \in Nodes, baton = n, pc[n] = "run",
           Kind[n] \in Gathering, Keep, Scatter(n)
    PROVE  Moved(n)
<1>1. FleetInv /\ LedgerTypes /\ FrameTypes /\ Fits(n) /\ NoKid(n)  BY AwaitFacts, RunFacts
<1>2. FleetInv' /\ (\A w \in Workers : Accepted(w)) /\ UNCHANGED call
  BY <1>1, StillFleet DEF Keep
<1>3. pc'[n] = "gather"  BY DEF Scatter
<1>4. \A m \in Nodes \ {n} : pc'[m] = pc[m] \/ (pc[m] = "none" /\ pc'[m] = "ready")
  BY <1>1 DEF Scatter, NoKid, Idle
<1>5. FrameTypes'  BY <1>1 DEF FrameTypes, Scatter, Frames
<1>6. LedgerTypes' /\ node' = node  BY <1>1 DEF LedgerTypes, KeepLedger, Scatter
<1>7. Apart(n)  BY <1>2, <1>4, <1>6 DEF Apart
<1>8. Fits(n)'  BY <1>1, <1>2, <1>3, <1>6 DEF Fits, Begun
<1>9. Shape(n)  BY DEF Shape, Forks
<1>. QED  BY <1>2, <1>5, <1>6, <1>7, <1>8, <1>9 DEF Moved, Keep

LEMMA StepsOf ==
    ASSUME WorkflowInv, main = "await", NEW n \in Nodes, StepOf(n)
    PROVE  Moved(n)
<1>1. baton = n /\ pc[n] = "run" /\ Keep  BY DEF StepOf
<1>2. Kind[n] \in Composite
  BY <1>1, AwaitFacts, NodeFacts, WorkflowAssumption DEF Fits
<1>3. CASE Kind[n] = "sequence"
  BY <1>1, <1>3, Sequences DEF StepOf, Gathering
<1>4. CASE Kind[n] = "branch"
  <2>1. Branch(n)  BY <1>4 DEF StepOf, Gathering
  <2>. QED  BY <1>1, <1>4, <2>1, BranchSteps
<1>5. CASE Kind[n] = "retry"
  <2>1. Retry(n)  BY <1>5 DEF StepOf, Gathering
  <2>. QED  BY <1>1, <1>5, <2>1, RetrySteps
<1>6. CASE Kind[n] = "gate"
  <2>1. Gate(n)  BY <1>6 DEF StepOf, Gathering
  <2>. QED  BY <1>1, <1>6, <2>1, GateSteps
<1>7. CASE Kind[n] \in Gathering
  <2>1. Kind[n] \notin {"sequence", "branch", "retry", "gate"}  BY <1>7 DEF Gathering
  <2>2. Scatter(n)  BY <1>7, <2>1 DEF StepOf
  <2>. QED  BY <1>1, <1>7, <2>2, Scatters
<1>. QED  BY <1>2, <1>3, <1>4, <1>5, <1>6, <1>7 DEF Composite, Gathering

LEMMA Composites ==
    ASSUME WorkflowInv, main = "await", NEW n \in Nodes, baton = n, StartComposite(n)
    PROVE  Moved(n)
<1>1. FleetInv /\ LedgerTypes /\ FrameTypes /\ Fits(n)  BY AwaitFacts
<1>2. FleetInv' /\ (\A w \in Workers : Accepted(w)) /\ UNCHANGED call
  BY <1>1, StillFleet DEF StartComposite, Keep
<1>3. n \notin Workers /\ pc[n] = "call"  BY NodeFacts DEF StartComposite
<1>4. LedgerTypes' /\ node'[n].status = "running" /\ \A m \in AllNodes \ {n} : node'[m] = node[m]
  BY <1>1, EventFacts, NodeFacts DEF StartComposite, NodeStatus
<1>5. pc'[n] = "run" /\ \A m \in Nodes \ {n} : pc'[m] = pc[m]
  BY <1>1 DEF StartComposite, FrameTypes
<1>6. FrameTypes'  BY <1>1 DEF StartComposite, FrameTypes, Frames, Outcomes
<1>7. Apart(n)  BY <1>2, <1>4, <1>5, NodeFacts DEF Apart
<1>8. Fits(n)'  BY <1>3, <1>4, <1>5 DEF Fits, Begun
<1>9. Shape(n)  BY DEF StartComposite, Shape, Starts
<1>. QED  BY <1>2, <1>4, <1>6, <1>7, <1>8, <1>9 DEF Moved, StartComposite, Keep

\* A frame that gets a turn, or wakes up, or asks for a place.
LEMMA Goings ==
    ASSUME WorkflowInv, main = "await", NEW n \in Nodes, UNCHANGED <<flow, main, runs>>,
           NEW p \in {"run", "call", "semaphore", "host"}, NEW b \in {n, Free}, Enter(n, p, b),
           pc[n] \in {"ready", "call", "semaphore", "sleep"}, p = "run" <=> pc[n] = "sleep", p = "run" => b = n,
           p \in {"semaphore", "host"} => n \in Workers,
           FleetInv', \A w \in Workers : Accepted(w),
           \A w \in Workers \ {n} : call'[w] = call[w],
           n \in Workers => (call'[n] # "idle" <=> p = "host"),
           LedgerTypes', node'[n].status = "running" <=> p \in Begun,
           \A m \in Nodes \ {n} : node'[m] = node[m]
    PROVE  Moved(n)
<1>1. FrameTypes /\ Fits(n) /\ FramesNest  BY AwaitFacts
<1>2. FrameTypes' /\ pc'[n] = p /\ \A m \in Nodes \ {n} : pc'[m] = pc[m]
  BY <1>1, EnterFacts DEF Frames
<1>3. Apart(n)  BY <1>2, NodeFacts DEF Apart
<1>4. p = "run" => n \notin Workers  BY <1>1 DEF Fits
<1>5. Fits(n)'  BY <1>2, <1>4 DEF Fits
<1>6. NoKid(n) /\ ~Idle(n)  BY <1>1 DEF FramesNest, Nests, Idle
<1>7. Shape(n)  BY <1>6 DEF Shape, Goes, Wakes
<1>. QED  BY <1>2, <1>3, <1>5, <1>7 DEF Moved

LEMMA TurnsAndStarts ==
    ASSUME WorkflowInv, main = "await", NEW n \in Nodes,
           TakeTurn(n) \/ WakeUp(n) \/ StartWorker(n)
    PROVE  Moved(n)
<1>1. FleetInv /\ LedgerTypes /\ FrameTypes /\ Fits(n)  BY AwaitFacts
<1>2. FleetInv' /\ (\A w \in Workers : Accepted(w)) /\ UNCHANGED call
  BY <1>1, StillFleet DEF Keep, TakeTurn, WakeUp, StartWorker
<1>3. UNCHANGED <<flow, main, runs>>  BY DEF Keep, TakeTurn, WakeUp, StartWorker
<1>4. pc[n] # "host" => (n \in Workers => call'[n] = "idle")  BY <1>1, <1>2 DEF Fits
<1>5. CASE TakeTurn(n)
  <2>1. LedgerTypes' /\ node' = node  BY <1>1, <1>5 DEF TakeTurn, KeepLedger, LedgerTypes
  <2>2. node'[n].status # "running" /\ "call" \notin Begun
    BY <1>1, <1>5, <2>1 DEF TakeTurn, Fits, Begun
  <2>3. pc[n] = "ready" /\ Enter(n, "call", n)  BY <1>5 DEF TakeTurn
  <2>. QED  BY <1>2, <1>3, <1>4, <2>1, <2>2, <2>3, Goings
<1>6. CASE WakeUp(n)
  <2>1. LedgerTypes' /\ node' = node  BY <1>1, <1>6 DEF WakeUp, KeepLedger, LedgerTypes
  <2>2. node'[n].status = "running" /\ "run" \in Begun
    BY <1>1, <1>6, <2>1 DEF WakeUp, Fits, Begun
  <2>3. pc[n] = "sleep" /\ Enter(n, "run", n)  BY <1>6 DEF WakeUp
  <2>. QED  BY <1>2, <1>3, <1>4, <2>1, <2>2, <2>3, Goings
<1>7. CASE StartWorker(n)
  <2>1. LedgerTypes' /\ node'[n].status = "running" /\ \A m \in AllNodes \ {n} : node'[m] = node[m]
    BY <1>1, <1>7, EventFacts, NodeFacts DEF StartWorker, NodeStatus
  <2>2. n \in Workers /\ "semaphore" \in Begun  BY <1>7, NodeFacts DEF StartWorker, Begun
  <2>3. pc[n] = "call" /\ Enter(n, "semaphore", Free)  BY <1>7 DEF StartWorker
  <2>4. \A m \in Nodes \ {n} : node'[m] = node[m]  BY <2>1, NodeFacts
  <2>. QED  BY <1>2, <1>3, <1>4, <2>1, <2>2, <2>3, <2>4, Goings
<1>. QED  BY <1>5, <1>6, <1>7

LEMMA Acquires ==
    ASSUME WorkflowInv, main = "await", NEW n \in Nodes, Acquire(n)
    PROVE  Moved(n)
<1>1. FleetInv /\ LedgerTypes /\ FrameTypes /\ Fits(n)  BY AwaitFacts
<1>2. n \in Workers /\ pc[n] = "semaphore" /\ Enter(n, "host", n) /\ Call(n)
  BY <1>1 DEF Acquire, Fits
<1>3. FleetInv' /\ (\A w \in Workers : Accepted(w)) /\ \A w \in Workers \ {n} : call'[w] = call[w]
  BY <1>1, <1>2, FleetSteps DEF FleetStep
<1>4. call'[n] # "idle"
  BY <1>1, <1>2 DEF Call, Goto, Advance, FleetInv, FleetTypeOK
<1>5. LedgerTypes' /\ node' = node /\ UNCHANGED <<flow, main, runs>>
  BY <1>1 DEF Acquire, KeepLedger, LedgerTypes
<1>6. node'[n].status = "running" /\ "host" \in Begun  BY <1>1, <1>2, <1>5 DEF Fits, Begun
<1>. QED  BY <1>2, <1>3, <1>4, <1>5, <1>6, Goings

LEMMA InCalls ==
    ASSUME WorkflowInv, main = "await", NEW n \in Workers, RunsCall(n) \/ ResumesCall(n) \/ TimeOut(n)
    PROVE  Moved(n)
<1>1. FleetInv /\ LedgerTypes /\ FrameTypes /\ n \in Nodes /\ Fits(n)  BY AwaitFacts, NodeFacts
<1>2. PICK b \in {n, Free} : InCall(n, b)  BY DEF RunsCall, ResumesCall, TimeOut
<1>3. FleetStep(n) /\ call[n] # "idle"
  BY <1>1, <1>2 DEF RunsCall, ResumesCall, TimeOut, FleetStep, InCall, Fits
<1>4. ~Call(n) /\ ~Collect(n)
  BY <1>1, <1>3 DEF RunsCall, ResumesCall, TimeOut, Call, Collect, Returned, Admit, Restore, Refuse, Queue,
       Start, Record, Process, Spawn, HostReturns, HostRaises, Failed, Stopped, AddTokenUsage, Cancel, Interrupt
<1>5. /\ FleetInv' /\ (\A w \in Workers : Accepted(w)) /\ \A w \in Workers \ {n} : call'[w] = call[w]
      /\ call'[n] # "idle"
  BY <1>1, <1>3, <1>4, FleetSteps
<1>6. pc[n] = "host" /\ baton' = b /\ UNCHANGED <<flow, node, main, pc, outcome, runs>>
  BY <1>2 DEF InCall
<1>7. LedgerTypes' /\ FrameTypes'  BY <1>1, <1>6, NodeFacts DEF LedgerTypes, FrameTypes
<1>8. Apart(n)  BY <1>5, <1>6 DEF Apart
<1>9. Fits(n)'  BY <1>1, <1>5, <1>6 DEF Fits
<1>10. Shape(n)  BY <1>6 DEF Shape, Stays
<1>. QED  BY <1>5, <1>6, <1>7, <1>8, <1>9, <1>10 DEF Moved

LEMMA Results ==
    ASSUME WorkflowInv, main = "await", NEW n \in Workers, RecordResult(n)
    PROVE  Moved(n)
<1>. DEFINE r == Result(n)
            s == IF Overspent(r) THEN "budget_limited" ELSE r.status
            o == IF s # "completed" THEN "bad"
                 ELSE IF n \in Reviewers /\ r.answer THEN "approved" ELSE "ok"
<1>1. FleetInv /\ LedgerTypes /\ FrameTypes /\ FramesNest /\ n \in Nodes  BY AwaitFacts, NodeFacts
<1>2. pc[n] = "host" /\ Collect(n) /\ WorkerEvent(n, s, r) /\ Return(n, o) /\ UNCHANGED <<flow, main, runs>>
  BY DEF RecordResult
<1>3. FleetInv' /\ (\A w \in Workers : Accepted(w)) /\ \A w \in Workers \ {n} : call'[w] = call[w]
  BY <1>1, <1>2, FleetSteps DEF FleetStep
<1>4. call'[n] = "idle"  BY <1>1, <1>2 DEF Collect, Goto, Advance, FleetInv, FleetTypeOK
<1>5. r \in Replies
  BY <1>1 DEF Result, FleetInv, FleetTypeOK, Failure, Reply, Replies, Ended
<1>6. s \in NodeStatus \ {"running"}  BY <1>5 DEF Replies, Ended, NodeStatus
<1>7. o \in Outcomes \ {"none"}  BY DEF Outcomes
<1>8. ~Idle(n) /\ NoKid(n)  BY <1>1, <1>2 DEF Idle, FramesNest, Nests
<1>. HIDE DEF r, s, o
<1>9. LedgerTypes' /\ node'[n].status # "running" /\ \A m \in AllNodes \ {n} : node'[m] = node[m]
  BY <1>1, <1>2, <1>5, <1>6, WorkerEventFacts, NodeFacts
<1>10. \A m \in Nodes \ {n} : node'[m] = node[m]  BY <1>9, NodeFacts
<1>. QED  BY <1>1, <1>2, <1>3, <1>4, <1>7, <1>8, <1>9, <1>10, Leaves

LEMMA Gathers ==
    ASSUME WorkflowInv, main = "await", NEW n \in Nodes, Gather(n)
    PROVE  Moved(n)
<1>1. FramesNest  BY AwaitFacts
<1>2. NoKid(n)  BY <1>1, KidsAreNodes DEF Gather, Gathered, FramesNest, Nests, NoKid
<1>3. pc[n] = "gather" /\ Keep /\ (Completes(n, "ok") \/ Fails(n))  BY DEF Gather
<1>. QED  BY <1>2, <1>3, Finishes

LEMMA ReturnsAtOnce ==
    ASSUME WorkflowInv, main = "await", NEW n \in Nodes, Reuse(n) \/ LimitTokens(n)
    PROVE  Moved(n)
<1>1. pc[n] = "call" /\ Keep  BY DEF Reuse, LimitTokens
<1>2. NoKid(n)  BY <1>1, AwaitFacts DEF FramesNest, Nests
<1>3. CASE Reuse(n)
  BY <1>1, <1>2, <1>3, LeavesKeeping DEF Reuse, RestoredOutcome, Outcomes
<1>4. CASE LimitTokens(n)
  BY <1>1, <1>2, <1>4, LeavesKeeping DEF LimitTokens, Outcomes, NodeStatus
<1>. QED  BY <1>3, <1>4

LEMMA FrameSteps ==
    ASSUME WorkflowInv, NEW n \in Nodes, Frame(n)
    PROVE  Moved(n)
<1>1. main = "await"  BY NodeFacts DEF Frame, Running, Resume, Deliver, WorkflowInv, MainOwns
<1>2. CASE Running(n)
  BY <1>1, <1>2, ReturnsAtOnce, Composites, StepsOf, TurnsAndStarts, InCalls DEF Running
<1>3. CASE Resume(n)
  BY <1>1, <1>3, TurnsAndStarts, Gathers, Acquires, InCalls DEF Resume
<1>4. CASE Deliver(n)  BY <1>1, <1>4, Results DEF Deliver
<1>. QED  BY <1>2, <1>3, <1>4 DEF Frame

\* The stack of frames stays one.
LEMMA NestReturns ==
    ASSUME WorkflowInv, main = "await", NEW n \in Nodes, FrameTypes', Returns(n)
    PROVE  FramesNest' /\ (baton' = Main => Idle(Root)')
<1>1. FrameTypes /\ n \notin KidSet(n) /\ \A p \in Nodes : Nests(p)
  BY AwaitFacts, NotOwnKid DEF FramesNest
<1>2. PICK o \in Outcomes \ {"none"} : Return(n, o)  BY DEF Returns
<1>3. /\ pc'[n] = "none" /\ outcome'[n] = o /\ pc[n] # "none" /\ NoKid(n)
      /\ \A m \in Nodes \ {n} : pc'[m] = pc[m] /\ outcome'[m] = outcome[m]
  BY <1>1, <1>2, ReturnFacts DEF Returns, Idle
<1>4. /\ baton' = Main => n = Root
      /\ baton' \in Nodes => n \in KidSet(baton')
  BY <1>2, CallerFacts DEF Return
<1>5. ASSUME NEW p \in Nodes PROVE Nests(p)'
  <2>1. /\ KidSet(p) \subseteq Nodes /\ p \notin KidSet(p) /\ Nests(p) /\ Nests(n)
        /\ \A k \in KidSet(p) : k \in KidSet(n) => p = n
    BY <1>1, KidsAreNodes, NotOwnKid, OneParent
  <2>2. pc'[p] \notin {"run", "gather"} => NoKid(p)'
    BY <2>1, <1>3, <1>4 DEF Nests, Idle, NoKid
  <2>3. pc'[p] = "run" => OnlyKid(p)'
    BY <2>1, <1>3, <1>4 DEF Nests, Idle, OnlyKid, NoKid
  <2>4. pc'[p] = "run" /\ baton' = p => NoKid(p)'
    BY <2>1, <1>3, <1>4 DEF Nests, Idle, OnlyKid, NoKid
  <2>5. pc'[p] = "run" /\ Kind[p] \in Gathering => NoKid(p)' /\ \A k \in KidSet(p) : outcome'[k] = "none"
    BY <2>1, <1>3, <1>4 DEF Nests, Idle, NoKid
  <2>6. outcome'[p] # "none" => Idle(p)'
    BY <2>1, <1>3, <1>4 DEF Nests, Idle, NoKid
  <2>. QED  BY <2>2, <2>3, <2>4, <2>5, <2>6 DEF Nests
<1>. QED  BY <1>3, <1>4, <1>5 DEF FramesNest, Idle

LEMMA NestCalls ==
    ASSUME WorkflowInv, main = "await", NEW n \in Nodes, FrameTypes', Calls(n)
    PROVE  FramesNest' /\ (baton' = Main => Idle(Root)')
<1>1. FrameTypes /\ n \notin KidSet(n) /\ \A p \in Nodes : Nests(p)
  BY AwaitFacts, NotOwnKid DEF FramesNest
<1>2. PICK c \in KidSet(n) : RunStep(c)  BY DEF Calls
<1>3. c \in Nodes /\ c # n /\ pc[c] = "none" /\ NoKid(n) /\ NoKid(c) /\ pc[n] = "run" /\ Kind[n] \notin Gathering
  BY <1>1, <1>2, KidsAreNodes DEF Calls, Nests, NoKid, Idle
<1>4. /\ pc'[c] = "call" /\ outcome'[c] = "none" /\ baton' = c /\ c \in KidSet(n)
      /\ \A m \in Nodes \ {c} : pc'[m] = pc[m] /\ outcome'[m] = outcome[m]
  BY <1>1, <1>2, <1>3, RunStepFacts
<1>5. ASSUME NEW p \in Nodes PROVE Nests(p)'
  <2>1. /\ KidSet(p) \subseteq Nodes /\ p \notin KidSet(p) /\ Nests(p) /\ Nests(n)
        /\ \A k \in KidSet(p) : k \in KidSet(n) => p = n
    BY <1>1, KidsAreNodes, NotOwnKid, OneParent
  <2>2. pc'[p] \notin {"run", "gather"} => NoKid(p)'
    BY <2>1, <1>3, <1>4 DEF Nests, Idle, NoKid
  <2>3. pc'[p] = "run" => OnlyKid(p)'
    BY <2>1, <1>3, <1>4 DEF Nests, Idle, OnlyKid, NoKid
  <2>4. pc'[p] = "run" /\ baton' = p => NoKid(p)'
    BY <2>1, <1>3, <1>4 DEF Nests, Idle, OnlyKid, NoKid
  <2>5. pc'[p] = "run" /\ Kind[p] \in Gathering => NoKid(p)' /\ \A k \in KidSet(p) : outcome'[k] = "none"
    BY <2>1, <1>3, <1>4 DEF Nests, Idle, NoKid
  <2>6. outcome'[p] # "none" => Idle(p)'
    BY <2>1, <1>3, <1>4 DEF Nests, Idle, NoKid
  <2>. QED  BY <2>2, <2>3, <2>4, <2>5, <2>6 DEF Nests
<1>. QED  BY <1>3, <1>4, <1>5, NodeFacts DEF FramesNest

LEMMA NestGoes ==
    ASSUME WorkflowInv, main = "await", NEW n \in Nodes, FrameTypes', Goes(n)
    PROVE  FramesNest' /\ (baton' = Main => Idle(Root)')
<1>1. FrameTypes /\ n \notin KidSet(n) /\ \A p \in Nodes : Nests(p)
  BY AwaitFacts, NotOwnKid DEF FramesNest
<1>2. PICK q \in {"call", "semaphore", "host"}, b \in {n, Free} : Enter(n, q, b)  BY DEF Goes
<1>3. pc[n] # "none" /\ NoKid(n)  BY DEF Goes, Idle
<1>4. /\ pc'[n] = q /\ outcome' = outcome /\ baton' = b /\ Free \notin Nodes
      /\ \A m \in Nodes \ {n} : pc'[m] = pc[m]
  BY <1>1, <1>2, EnterFacts, NodeFacts DEF Frames, Enter
<1>5. ASSUME NEW p \in Nodes PROVE Nests(p)'
  <2>1. /\ KidSet(p) \subseteq Nodes /\ p \notin KidSet(p) /\ Nests(p) /\ Nests(n)
        /\ \A k \in KidSet(p) : k \in KidSet(n) => p = n
    BY <1>1, KidsAreNodes, NotOwnKid, OneParent
  <2>2. pc'[p] \notin {"run", "gather"} => NoKid(p)'
    BY <2>1, <1>3, <1>4 DEF Nests, Idle, NoKid
  <2>3. pc'[p] = "run" => OnlyKid(p)'
    BY <2>1, <1>3, <1>4 DEF Nests, Idle, OnlyKid, NoKid
  <2>4. pc'[p] = "run" /\ baton' = p => NoKid(p)'
    BY <2>1, <1>3, <1>4 DEF Nests, Idle, OnlyKid, NoKid
  <2>5. pc'[p] = "run" /\ Kind[p] \in Gathering => NoKid(p)' /\ \A k \in KidSet(p) : outcome'[k] = "none"
    BY <2>1, <1>3, <1>4 DEF Nests, Idle, NoKid
  <2>6. outcome'[p] # "none" => Idle(p)'
    BY <2>1, <1>3, <1>4 DEF Nests, Idle, NoKid
  <2>. QED  BY <2>2, <2>3, <2>4, <2>5, <2>6 DEF Nests
<1>. QED  BY <1>4, <1>5, NodeFacts DEF FramesNest

LEMMA NestWakes ==
    ASSUME WorkflowInv, main = "await", NEW n \in Nodes, FrameTypes', Wakes(n)
    PROVE  FramesNest' /\ (baton' = Main => Idle(Root)')
<1>1. FrameTypes /\ n \notin KidSet(n) /\ \A p \in Nodes : Nests(p)
  BY AwaitFacts, NotOwnKid DEF FramesNest
<1>2. pc[n] = "sleep" /\ Kind[n] \notin Gathering /\ NoKid(n)
  BY <1>1, AwaitFacts DEF Wakes, Fits, Nests, Gathering
<1>4. /\ pc'[n] = "run" /\ outcome' = outcome /\ baton' = n
      /\ \A m \in Nodes \ {n} : pc'[m] = pc[m]
  BY <1>1, EnterFacts DEF Wakes, Frames, Enter
<1>5. ASSUME NEW p \in Nodes PROVE Nests(p)'
  <2>1. /\ KidSet(p) \subseteq Nodes /\ p \notin KidSet(p) /\ Nests(p) /\ Nests(n)
        /\ \A k \in KidSet(p) : k \in KidSet(n) => p = n
    BY <1>1, KidsAreNodes, NotOwnKid, OneParent
  <2>2. pc'[p] \notin {"run", "gather"} => NoKid(p)'
    BY <2>1, <1>2, <1>4 DEF Nests, Idle, NoKid
  <2>3. pc'[p] = "run" => OnlyKid(p)'
    BY <2>1, <1>2, <1>4 DEF Nests, Idle, OnlyKid, NoKid
  <2>4. pc'[p] = "run" /\ baton' = p => NoKid(p)'
    BY <2>1, <1>2, <1>4 DEF Nests, Idle, OnlyKid, NoKid
  <2>5. pc'[p] = "run" /\ Kind[p] \in Gathering => NoKid(p)' /\ \A k \in KidSet(p) : outcome'[k] = "none"
    BY <2>1, <1>2, <1>4 DEF Nests, Idle, NoKid
  <2>6. outcome'[p] # "none" => Idle(p)'
    BY <2>1, <1>2, <1>4 DEF Nests, Idle, NoKid
  <2>. QED  BY <2>2, <2>3, <2>4, <2>5, <2>6 DEF Nests
<1>. QED  BY <1>4, <1>5, NodeFacts DEF FramesNest

LEMMA NestStarts ==
    ASSUME WorkflowInv, main = "await", NEW n \in Nodes, FrameTypes', Starts(n)
    PROVE  FramesNest' /\ (baton' = Main => Idle(Root)')
<1>1. FrameTypes /\ n \notin KidSet(n) /\ \A p \in Nodes : Nests(p)
  BY AwaitFacts, NotOwnKid DEF FramesNest
<1>2. pc[n] = "call" /\ NoKid(n) /\ baton' = n
  BY <1>1 DEF Starts, Nests
<1>4. /\ pc'[n] = "run" /\ \A m \in Nodes \ {n} : pc'[m] = pc[m]
      /\ \A m \in Nodes : outcome'[m] \in {"none", outcome[m]}
      /\ \A k \in Nodes : k \in KidSet(n) => outcome'[k] = "none"
  BY <1>1 DEF Starts, FrameTypes
<1>5. ASSUME NEW p \in Nodes PROVE Nests(p)'
  <2>1. /\ KidSet(p) \subseteq Nodes /\ p \notin KidSet(p) /\ Nests(p) /\ Nests(n)
        /\ \A k \in KidSet(p) : k \in KidSet(n) => p = n
    BY <1>1, KidsAreNodes, NotOwnKid, OneParent
  <2>2. pc'[p] \notin {"run", "gather"} => NoKid(p)'
    BY <2>1, <1>2, <1>4 DEF Nests, Idle, NoKid
  <2>3. pc'[p] = "run" => OnlyKid(p)'
    BY <2>1, <1>2, <1>4 DEF Nests, Idle, OnlyKid, NoKid
  <2>4. pc'[p] = "run" /\ baton' = p => NoKid(p)'
    BY <2>1, <1>2, <1>4 DEF Nests, Idle, OnlyKid, NoKid
  <2>5. pc'[p] = "run" /\ Kind[p] \in Gathering => NoKid(p)' /\ \A k \in KidSet(p) : outcome'[k] = "none"
    BY <2>1, <1>2, <1>4 DEF Nests, Idle, NoKid
  <2>6. outcome'[p] # "none" => Idle(p)'
    BY <2>1, <1>2, <1>4 DEF Nests, Idle, NoKid
  <2>. QED  BY <2>2, <2>3, <2>4, <2>5, <2>6 DEF Nests
<1>. QED  BY <1>2, <1>5, NodeFacts DEF FramesNest

LEMMA NestForks ==
    ASSUME WorkflowInv, main = "await", NEW n \in Nodes, FrameTypes', Forks(n)
    PROVE  FramesNest' /\ (baton' = Main => Idle(Root)')
<1>1. FrameTypes /\ n \notin KidSet(n) /\ \A p \in Nodes : Nests(p)
  BY AwaitFacts, NotOwnKid DEF FramesNest
<1>2. pc[n] = "run" /\ NoKid(n) /\ baton' = Free /\ outcome' = outcome /\ Free \notin Nodes
      /\ \A k \in KidSet(n) : outcome[k] = "none"
  BY <1>1, NodeFacts DEF Forks, Scatter, Nests
<1>4. /\ pc'[n] = "gather"
      /\ \A m \in Nodes \ {n} : m \notin KidSet(n) => pc'[m] = pc[m]
      /\ \A m \in KidSet(n) : pc[m] = "none" /\ pc'[m] = "ready"
  BY <1>1, <1>2, KidsAreNodes DEF Forks, Scatter, FrameTypes, NoKid, Idle
<1>5. ASSUME NEW p \in Nodes PROVE Nests(p)'
  <2>1. /\ KidSet(p) \subseteq Nodes /\ p \notin KidSet(p) /\ Nests(p) /\ Nests(n)
        /\ \A k \in KidSet(p) : k \in KidSet(n) => p = n
    BY <1>1, KidsAreNodes, NotOwnKid, OneParent
  <2>2. pc'[p] \notin {"run", "gather"} => NoKid(p)'
    BY <2>1, <1>2, <1>4 DEF Nests, Idle, NoKid
  <2>3. pc'[p] = "run" => OnlyKid(p)'
    BY <2>1, <1>2, <1>4 DEF Nests, Idle, OnlyKid, NoKid
  <2>4. pc'[p] = "run" /\ baton' = p => NoKid(p)'
    BY <2>1, <1>2, <1>4 DEF Nests, Idle, OnlyKid, NoKid
  <2>5. pc'[p] = "run" /\ Kind[p] \in Gathering => NoKid(p)' /\ \A k \in KidSet(p) : outcome'[k] = "none"
    BY <2>1, <1>2, <1>4 DEF Nests, Idle, NoKid
  <2>6. outcome'[p] # "none" => Idle(p)'
    BY <2>1, <1>2, <1>4 DEF Nests, Idle, NoKid
  <2>. QED  BY <2>2, <2>3, <2>4, <2>5, <2>6 DEF Nests
<1>. QED  BY <1>2, <1>5, NodeFacts DEF FramesNest

LEMMA NestWaits ==
    ASSUME WorkflowInv, main = "await", NEW n \in Nodes, FrameTypes', Waits(n)
    PROVE  FramesNest' /\ (baton' = Main => Idle(Root)')
<1>1. FrameTypes /\ n \notin KidSet(n) /\ \A p \in Nodes : Nests(p)
  BY AwaitFacts, NotOwnKid DEF FramesNest
<1>2. PICK q \in {"run", "sleep"} : pc' = [pc EXCEPT ![n] = q]  BY DEF Waits
<1>3. pc[n] = "run" /\ NoKid(n) /\ Kind[n] \notin Gathering /\ baton' \in {n, Free} /\ Free \notin Nodes
  BY <1>1, NodeFacts DEF Waits, Nests, Gathering
<1>4. /\ pc'[n] = q /\ \A m \in Nodes \ {n} : pc'[m] = pc[m]
      /\ \A m \in Nodes : outcome'[m] \in {"none", outcome[m]}
  BY <1>1, <1>2, KidsAreNodes DEF Waits, FrameTypes
<1>5. ASSUME NEW p \in Nodes PROVE Nests(p)'
  <2>1. /\ KidSet(p) \subseteq Nodes /\ p \notin KidSet(p) /\ Nests(p) /\ Nests(n)
        /\ \A k \in KidSet(p) : k \in KidSet(n) => p = n
    BY <1>1, KidsAreNodes, NotOwnKid, OneParent
  <2>2. pc'[p] \notin {"run", "gather"} => NoKid(p)'
    BY <2>1, <1>3, <1>4 DEF Nests, Idle, NoKid
  <2>3. pc'[p] = "run" => OnlyKid(p)'
    BY <2>1, <1>3, <1>4 DEF Nests, Idle, OnlyKid, NoKid
  <2>4. pc'[p] = "run" /\ baton' = p => NoKid(p)'
    BY <2>1, <1>3, <1>4 DEF Nests, Idle, OnlyKid, NoKid
  <2>5. pc'[p] = "run" /\ Kind[p] \in Gathering => NoKid(p)' /\ \A k \in KidSet(p) : outcome'[k] = "none"
    BY <2>1, <1>3, <1>4 DEF Nests, Idle, NoKid
  <2>6. outcome'[p] # "none" => Idle(p)'
    BY <2>1, <1>3, <1>4 DEF Nests, Idle, NoKid
  <2>. QED  BY <2>2, <2>3, <2>4, <2>5, <2>6 DEF Nests
<1>. QED  BY <1>3, <1>5, NodeFacts DEF FramesNest

LEMMA NestStays ==
    ASSUME WorkflowInv, main = "await", NEW n \in Nodes, FrameTypes', Stays(n)
    PROVE  FramesNest' /\ (baton' = Main => Idle(Root)')
<1>1. FrameTypes /\ n \notin KidSet(n) /\ \A p \in Nodes : Nests(p)
  BY AwaitFacts, NotOwnKid DEF FramesNest
<1>2. pc' = pc /\ outcome' = outcome /\ baton' \in {n, Free} /\ Free \notin Nodes
      /\ (baton' = n => baton = n \/ pc[n] = "host")
  BY NodeFacts DEF Stays
<1>5. ASSUME NEW p \in Nodes PROVE Nests(p)'
  <2>1. /\ KidSet(p) \subseteq Nodes /\ p \notin KidSet(p) /\ Nests(p) /\ Nests(n)
        /\ \A k \in KidSet(p) : k \in KidSet(n) => p = n
    BY <1>1, KidsAreNodes, NotOwnKid, OneParent
  <2>2. pc'[p] \notin {"run", "gather"} => NoKid(p)'
    BY <2>1, <1>2 DEF Nests, Idle, NoKid
  <2>3. pc'[p] = "run" => OnlyKid(p)'
    BY <2>1, <1>2 DEF Nests, Idle, OnlyKid, NoKid
  <2>4. pc'[p] = "run" /\ baton' = p => NoKid(p)'
    BY <2>1, <1>2 DEF Nests, Idle, OnlyKid, NoKid
  <2>5. pc'[p] = "run" /\ Kind[p] \in Gathering => NoKid(p)' /\ \A k \in KidSet(p) : outcome'[k] = "none"
    BY <2>1, <1>2 DEF Nests, Idle, NoKid
  <2>6. outcome'[p] # "none" => Idle(p)'
    BY <2>1, <1>2 DEF Nests, Idle, NoKid
  <2>. QED  BY <2>2, <2>3, <2>4, <2>5, <2>6 DEF Nests
<1>. QED  BY <1>2, <1>5, NodeFacts DEF FramesNest

LEMMA NestMoves ==
    ASSUME WorkflowInv, NEW n \in Nodes, Moved(n)
    PROVE  FramesNest' /\ (baton' = Main => Idle(Root)')
BY NestReturns, NestCalls, NestGoes, NestWakes, NestStarts, NestForks, NestWaits, NestStays
   DEF Moved, Shape

-----------------------------------------------------------------------------
(* Every step keeps the invariant                                           *)

Kept == WorkflowInv' /\ \A w \in Workers : Accepted(w)

LEMMA MovesKeep ==
    ASSUME WorkflowInv, NEW n \in Nodes, Moved(n)
    PROVE  Kept
<1>1. /\ main' = "await" /\ flow' = "running" /\ runs' = runs
      /\ FleetInv' /\ (\A w \in Workers : Accepted(w)) /\ LedgerTypes' /\ FrameTypes'
      /\ Apart(n) /\ Fits(n)'
  BY AwaitFacts DEF Moved
<1>2. FramesNest' /\ (baton' = Main => Idle(Root)')  BY NestMoves
<1>3. ASSUME NEW m \in Nodes PROVE Fits(m)'
  <2>1. CASE m = n  BY <2>1, <1>1
  <2>2. CASE m # n
    <3>1. Fits(m)  BY AwaitFacts DEF Moved
    <3>. QED  BY <1>1, <2>2, <3>1 DEF Apart, Fits, Begun
  <2>. QED  BY <2>1, <2>2
<1>4. TypeOK'
  <2>1. runs \in 0 .. MaxRuns  BY DEF WorkflowInv, TypeOK
  <2>. QED  BY <1>1, <2>1 DEF TypeOK, FleetInv, FlowStatus, MainPhases, LedgerTypes, Entries, FrameTypes
<1>5. CallsMatchRecords'  BY <1>1 DEF FleetInv
<1>6. CallsHaveFrames' /\ FramesFitKinds'
  BY <1>3, NodeFacts DEF CallsHaveFrames, FramesFitKinds, Fits
<1>7. MainOwns'  BY <1>1, <1>2 DEF MainOwns
<1>8. LedgerTellsFrames'  BY <1>1, <1>3 DEF LedgerTellsFrames, Fits, Starting
<1>. QED  BY <1>1, <1>2, <1>4, <1>5, <1>6, <1>7, <1>8 DEF Kept, WorkflowInv

\* Before the tree is executed, and when it is over.
LEMMA Quiet ==
    ASSUME FleetInv', \A w \in Workers : call'[w] = "idle", FrameTypes', \A n \in Nodes : pc'[n] = "none",
           LedgerTypes', flow' \in FlowStatus, main' \in MainPhases \ {"await", "cancelling"},
           runs' \in 0 .. MaxRuns, baton' \in {Free, Main}, main' \in InFlow => flow' = "running",
           flow' # "running" \/ main' \in Starting => RunningNodes' = {}
    PROVE  WorkflowInv'
<1>1. TypeOK'  BY DEF TypeOK, FleetInv, LedgerTypes, Entries, FrameTypes
<1>2. CallsMatchRecords'  BY DEF FleetInv
<1>3. CallsHaveFrames' /\ FramesFitKinds'  BY NodeFacts DEF CallsHaveFrames, FramesFitKinds
<1>4. MainOwns'  BY NodeFacts DEF MainOwns, Idle
<1>5. LedgerTellsFrames'  BY DEF LedgerTellsFrames
<1>. QED  BY <1>1, <1>2, <1>3, <1>4, <1>5 DEF WorkflowInv

LEMMA QuietSteps ==
    ASSUME WorkflowInv, \A n \in Nodes : Idle(n), UNCHANGED <<fleetVars, runs, pc, outcome>>,
           LedgerTypes', flow' \in FlowStatus, main' \in MainPhases \ {"await", "cancelling"},
           baton' \in {Free, Main}, main' \in InFlow => flow' = "running",
           flow' # "running" \/ main' \in Starting => RunningNodes' = {}
    PROVE  Kept
<1>1. FleetInv /\ FrameTypes /\ runs \in 0 .. MaxRuns
  BY DEF WorkflowInv, FleetInv, TypeOK, FrameTypes
<1>2. FleetInv' /\ (\A w \in Workers : Accepted(w)) /\ UNCHANGED call
  BY <1>1, StillFleet
<1>3. \A w \in Workers : call'[w] = "idle"
  BY <1>2, NodeFacts DEF WorkflowInv, CallsHaveFrames, Idle
<1>4. FrameTypes'  BY <1>1, NodeFacts DEF FrameTypes
<1>5. \A n \in Nodes : pc'[n] = "none"  BY DEF Idle
<1>. QED  BY <1>1, <1>2, <1>3, <1>4, <1>5, Quiet DEF Kept

LEMMA RunSteps ==
    ASSUME WorkflowInv,
           \/ Begin \/ RecoverNode \/ RecoverFlow \/ Register \/ StartFlow
           \/ CloseFlow \/ GiveUpNode \/ GiveUp
    PROVE  Kept
<1>. DEFINE Still == UNCHANGED <<fleetVars, runs, pc, outcome>>
            Right == /\ LedgerTypes' /\ flow' \in FlowStatus
                     /\ main' \in MainPhases \ {"await", "cancelling"} /\ baton' \in {Free, Main}
                     /\ main' \in InFlow => flow' = "running"
                     /\ flow' # "running" \/ main' \in Starting => RunningNodes' = {}
<1>0. LedgerTypes /\ flow \in FlowStatus
  BY DEF WorkflowInv, TypeOK, LedgerTypes, Entries
<1>1. ASSUME main \notin {"await", "cancelling"}, Still, Right PROVE Kept
  <2>1. \A n \in Nodes : Idle(n)  BY <1>1 DEF WorkflowInv, MainOwns
  <2>. QED  BY <1>1, <2>1, QuietSteps
<1>2. flow # "running" \/ main \in Starting => RunningNodes = {}
  BY DEF WorkflowInv, LedgerTellsFrames
<1>3. main \in InFlow => flow = "running"  BY DEF WorkflowInv, MainOwns
<1>4. node' = node => LedgerTypes' /\ RunningNodes' = RunningNodes
  BY <1>0 DEF LedgerTypes, RunningNodes
<1>5. CASE Begin
  <2>1. main = "begin" /\ Still /\ node' = node /\ flow' = flow /\ baton = Main
    BY <1>5 DEF Begin, At, KeepRest, KeepFrames
  <2>2. Right
    BY <1>0, <1>2, <1>4, <1>5, <2>1 DEF Begin, Exit, Proceed, MainPhases, InFlow, Starting
  <2>. QED  BY <1>1, <2>1, <2>2
<1>6. CASE RecoverNode \/ GiveUpNode
  <2>1. /\ main \in {"recover", "giving_up"} /\ Still /\ UNCHANGED <<flow, main, baton>> /\ baton = Main
        /\ \E n \in RunningNodes : Event(n, "interrupted")
    BY <1>6 DEF RecoverNode, GiveUpNode, First, At, KeepRest, KeepFrames
  <2>2. LedgerTypes'
    BY <1>0, <2>1, EventFacts DEF RunningNodes, NodeStatus
  <2>3. Right  BY <1>0, <1>3, <2>1, <2>2 DEF MainPhases, InFlow, Starting
  <2>. QED  BY <1>1, <2>1, <2>3
<1>7. CASE RecoverFlow \/ GiveUp
  <2>1. /\ main \in {"recover", "giving_up"} /\ Still /\ node' = node /\ RunningNodes = {}
        /\ flow' \in {"interrupted", "failed"} /\ main' \in {"register", "off"}
        /\ baton' \in {Free, Main}
    BY <1>7 DEF RecoverFlow, GiveUp, At, KeepRest, KeepFrames, Flow, Exit, Proceed
  <2>2. Right  BY <1>4, <2>1 DEF MainPhases, InFlow, FlowStatus
  <2>. QED  BY <1>1, <2>1, <2>2
<1>8. CASE Register
  <2>1. main = "register" /\ main' = "start" /\ Still /\ flow' = flow /\ baton' = Main
    BY <1>8 DEF Register, At, KeepRest, KeepFrames, Proceed
  <2>2. RunningNodes = {}  BY <1>2, <2>1 DEF Starting
  <2>3. ASSUME NEW n \in AllNodes PROVE node'[n] \in Entries /\ node'[n].status # "running"
    <3>1. node[n] \in Entries /\ node[n].status # "running"
      BY <1>0, <2>2 DEF LedgerTypes, RunningNodes
    <3>2. node'[n] = node[n] \/ node'[n] = [node[n] EXCEPT !.status = "pending"]
      BY <1>8 DEF Register
    <3>. QED  BY <3>1, <3>2 DEF Entries, NodeStatus
  <2>4. LedgerTypes' /\ RunningNodes' = {}
    BY <1>8, <2>3 DEF Register, LedgerTypes, RunningNodes
  <2>5. Right  BY <1>0, <2>1, <2>4 DEF MainPhases, InFlow
  <2>. QED  BY <1>1, <2>1, <2>5
<1>9. CASE StartFlow
  <2>1. main = "start" /\ main' = "goal" /\ Still /\ flow' = "running" /\ node' = node /\ baton' = Main
    BY <1>9 DEF StartFlow, At, KeepRest, KeepFrames, Flow, Proceed
  <2>2. Right  BY <1>2, <1>4, <2>1 DEF MainPhases, InFlow, FlowStatus, Starting
  <2>. QED  BY <1>1, <2>1, <2>2
<1>10. CASE CloseFlow
  <2>1. /\ main = "closing" /\ main' = "off" /\ Still /\ flow' \in {"completed", "failed"}
        /\ node' = node /\ baton' = Free
    BY <1>10 DEF CloseFlow, At, KeepRest, KeepFrames, Flow, Exit
  <2>2. Right  BY <1>2, <1>4, <2>1 DEF MainPhases, InFlow, FlowStatus, Starting
  <2>. QED  BY <1>1, <2>1, <2>2
<1>. QED  BY <1>5, <1>6, <1>7, <1>8, <1>9, <1>10

LEMMA StartGoals ==
    ASSUME WorkflowInv, StartGoal
    PROVE  Kept
<1>1. FleetInv /\ LedgerTypes /\ FrameTypes /\ runs \in 0 .. MaxRuns
  BY DEF WorkflowInv, TypeOK, FleetInv, LedgerTypes, Entries, FrameTypes
<1>2. FleetInv' /\ (\A w \in Workers : Accepted(w)) /\ UNCHANGED call
  BY <1>1, StillFleet DEF StartGoal
<1>3. /\ main = "goal" /\ main' = "await" /\ flow' = flow /\ runs' = runs /\ RunStep(Root)
      /\ node' = node \/ Event(Goal, "running")
  BY DEF StartGoal, At, KeepLedger
<1>4. flow' = "running" /\ \A n \in Nodes : pc[n] = "none" /\ node[n].status # "running"
  BY <1>3, NodeFacts DEF WorkflowInv, MainOwns, InFlow, LedgerTellsFrames, Starting, RunningNodes, Idle
<1>5. LedgerTypes' /\ \A n \in Nodes : node'[n] = node[n]
  BY <1>1, <1>3, EventFacts, NodeFacts DEF NodeStatus, LedgerTypes
<1>6. /\ FrameTypes' /\ pc'[Root] = "call" /\ outcome'[Root] = "none" /\ baton' = Root
      /\ \A m \in Nodes \ {Root} : pc'[m] = "none"
  BY <1>1, <1>3, <1>4, RunStepFacts, NodeFacts
<1>7. \A w \in Workers : call'[w] = "idle"
  BY <1>2, <1>4, NodeFacts DEF WorkflowInv, CallsHaveFrames
<1>8. TypeOK'
  BY <1>1, <1>2, <1>3, <1>4, <1>5, <1>6
     DEF TypeOK, FleetInv, FlowStatus, MainPhases, LedgerTypes, Entries, FrameTypes
<1>9. CallsHaveFrames' /\ FramesFitKinds'
  BY <1>6, <1>7, NodeFacts DEF CallsHaveFrames, FramesFitKinds
<1>10. MainOwns'  BY <1>3, <1>4, <1>6, NodeFacts DEF MainOwns
<1>11. LedgerTellsFrames'
  BY <1>3, <1>4, <1>5, <1>6 DEF LedgerTellsFrames, Starting, Begun
<1>12. FramesNest'
  <2>1. ASSUME NEW p \in Nodes, NEW k \in KidSet(p) PROVE pc'[k] = "none"
    BY <1>6, KidsAreNodes, TreeAssumption DEF IsTree
  <2>. QED  BY <1>6, <2>1 DEF FramesNest, Nests, NoKid, OnlyKid, Idle
<1>. QED  BY <1>2, <1>8, <1>9, <1>10, <1>11, <1>12 DEF Kept, WorkflowInv, FleetInv

\* The root has returned: so has every frame, and nothing but the goal is running.
LEMMA CloseGoals ==
    ASSUME WorkflowInv, CloseGoal
    PROVE  Kept
<1>1. main = "await" /\ baton = Main /\ main' = "closing" /\ baton' = Main /\ UNCHANGED <<flow, fleetVars, runs, pc, outcome>>
  BY DEF CloseGoal, At, Proceed, KeepRest, KeepFrames
<1>2. FramesNest /\ Idle(Root) /\ flow = "running" /\ LedgerTypes /\ \A n \in Nodes : Fits(n)
  BY <1>1, AwaitFacts DEF WorkflowInv, MainOwns
<1>3. \A n \in Nodes : Idle(n)
  BY <1>2, IdleBelow, NodeFacts, TreeAssumption DEF IsTree
<1>4. PICK s \in {"completed", "failed"} : Event(Goal, s)  BY DEF CloseGoal
<1>5. /\ LedgerTypes' /\ node'[Goal].status = s
      /\ \A n \in AllNodes \ {Goal} : node'[n] = node[n]
  BY <1>2, <1>4, EventFacts, NodeFacts DEF NodeStatus
<1>6. \A n \in Nodes : node[n].status # "running"  BY <1>2, <1>3 DEF Fits, Idle, Begun
<1>7. RunningNodes' = {}
  <2>1. \A n \in AllNodes : node'[n].status # "running"  BY <1>5, <1>6 DEF AllNodes
  <2>. QED  BY <2>1 DEF RunningNodes
<1>. QED
  BY <1>1, <1>2, <1>3, <1>5, <1>7, QuietSteps DEF MainPhases, FlowStatus

LEMMA Submits ==
    ASSUME WorkflowInv, Submit
    PROVE  Kept
<1>1. FleetInv /\ LedgerTypes /\ FrameTypes /\ runs \in 0 .. MaxRuns /\ flow \in FlowStatus
  BY DEF WorkflowInv, TypeOK, FleetInv, LedgerTypes, Entries, FrameTypes
<1>2. FleetInv' /\ (\A w \in Workers : Accepted(w)) /\ UNCHANGED call
  BY <1>1, StillFleet DEF Submit
<1>3. /\ main = "off" /\ main' = "begin" /\ baton' = Main /\ UNCHANGED <<node, pc, outcome>>
      /\ flow' \in {"pending", flow} /\ (flow' # "running" => flow # "running")
  BY DEF Submit, KeepFrames
<1>4. runs' \in 0 .. MaxRuns
  <2>1. MaxRuns \in Nat  BY WorkflowAssumption
  <2>. QED  BY <1>1, <2>1 DEF Submit
<1>5. \A n \in Nodes : pc'[n] = "none"  BY <1>3 DEF WorkflowInv, MainOwns, Idle
<1>6. \A w \in Workers : call'[w] = "idle"
  BY <1>2, <1>3, <1>5, NodeFacts DEF WorkflowInv, CallsHaveFrames
<1>7. flow' # "running" => RunningNodes' = {}
  BY <1>3 DEF WorkflowInv, LedgerTellsFrames, RunningNodes
<1>8. LedgerTypes' /\ FrameTypes'
  BY <1>1, <1>3, NodeFacts DEF LedgerTypes, FrameTypes
<1>9. flow' \in FlowStatus /\ main' \in MainPhases \ {"await", "cancelling"} /\ main' \notin InFlow \cup Starting
  BY <1>1, <1>3 DEF FlowStatus, MainPhases, InFlow, Starting
<1>. QED  BY <1>2, <1>3, <1>4, <1>5, <1>6, <1>7, <1>8, <1>9, Quiet DEF Kept

LEMMA Restarts ==
    ASSUME WorkflowInv, Restart
    PROVE  Kept
<1>1. FleetInv /\ LedgerTypes /\ runs \in 0 .. MaxRuns /\ flow \in FlowStatus
  BY DEF WorkflowInv, TypeOK, FleetInv, LedgerTypes, Entries
<1>2. rec \in [Workers -> Records] /\ reply \in [Workers -> Replies]
  BY <1>1 DEF FleetInv, FleetTypeOK, Records
<1>3. ASSUME NEW w \in Workers PROVE rec'[w] \in Records /\ Accepted(w) /\ call'[w] = "idle"
  <2>1. rec[w] \in Records  BY <1>2
  <2>2. [rec[w] EXCEPT !.status = "interrupted"] \in Records  BY <2>1 DEF Records, WorkerStatus
  <2>. QED  BY <2>1, <2>2 DEF Restart, FleetRestart, RecoverStale, Active, Accepted
<1>4. FleetInv'
  <2>1. Failure \in Replies  BY DEF Failure, Reply, Replies, Ended
  <2>2. rec' \in [Workers -> Records]  BY <1>3 DEF Restart, FleetRestart, RecoverStale
  <2>3. reply' \in [Workers -> Replies] /\ call' \in [Workers -> CallPhases]
    BY <2>1 DEF Restart, FleetRestart, CallPhases
  <2>4. /\ stray' = stray \cup Processes /\ Processes \subseteq Workers /\ stray \subseteq Workers
        /\ \A w \in stray : rec[w].status = "interrupted" \/ rec[w].attempt > 1
        /\ \A w \in Processes : rec[w].status = "running"
    BY <1>1 DEF Restart, FleetRestart, Processes, FleetInv, FleetTypeOK, CallsMatchRecords, Executing
  <2>5. \A w \in Workers : rec'[w] = IF rec[w].status \in Active
                                     THEN [rec[w] EXCEPT !.status = "interrupted"] ELSE rec[w]
    BY <1>2 DEF Restart, FleetRestart, RecoverStale
  <2>6. ASSUME NEW w \in stray' PROVE rec'[w].status = "interrupted" \/ rec'[w].attempt > 1
    <3>1. w \in Workers /\ rec[w] \in Records  BY <2>4, <1>2
    <3>2. rec[w].status \in {"running", "interrupted"} \/ rec[w].attempt > 1  BY <2>4
    <3>. QED  BY <2>5, <3>1, <3>2 DEF Active, Records
  <2>. QED
    BY <1>3, <2>2, <2>3, <2>4, <2>6 DEF FleetInv, FleetTypeOK, Records, CallsMatchRecords, Executing
<1>5. /\ FrameTypes' /\ (\A n \in Nodes : pc'[n] = "none") /\ UNCHANGED <<flow, node>>
      /\ main' \in {"begin", "off"} /\ baton' \in {Free, Main}
  BY DEF Restart, FrameTypes, Frames, Outcomes
<1>6. runs' \in 0 .. MaxRuns
  <2>1. MaxRuns \in Nat  BY WorkflowAssumption
  <2>. QED  BY <1>1, <2>1 DEF Restart
<1>7. LedgerTypes' /\ (flow' # "running" => RunningNodes' = {})
  BY <1>1, <1>5 DEF LedgerTypes, WorkflowInv, LedgerTellsFrames, RunningNodes
<1>8. main' \in MainPhases \ {"await", "cancelling"} /\ main' \notin InFlow \cup Starting
  BY <1>5 DEF MainPhases, InFlow, Starting
<1>. QED  BY <1>1, <1>3, <1>4, <1>5, <1>6, <1>7, <1>8, Quiet DEF Kept

\* While run() cancels what it awaits, frames only go.
LEMMA CancellingKeeps ==
    ASSUME WorkflowInv, main \in {"await", "cancelling"}, main' = "cancelling",
           UNCHANGED <<flow, node, outcome, runs>>, baton' \in {Free, Main},
           FleetInv', pc' \in [Nodes -> Frames], \A n \in Nodes : pc'[n] \in {"none", pc[n]},
           \A w \in Workers : call'[w] # "idle" <=> pc'[w] = "host"
    PROVE  WorkflowInv'
<1>1. /\ LedgerTypes /\ outcome \in [Nodes -> Outcomes] /\ runs \in 0 .. MaxRuns
      /\ flow = "running" /\ FramesFitKinds
  BY DEF WorkflowInv, TypeOK, LedgerTypes, Entries, MainOwns, InFlow
<1>2. TypeOK'
  BY <1>1 DEF TypeOK, FleetInv, FlowStatus, MainPhases, LedgerTypes, Entries
<1>3. FramesFitKinds'  BY <1>1 DEF FramesFitKinds
<1>4. MainOwns'  BY <1>1, NodeFacts DEF MainOwns
<1>5. \A n \in Nodes : pc[n] = "host" => node[n].status = "running"
  BY DEF WorkflowInv, LedgerTellsFrames, Begun
<1>6. LedgerTellsFrames'  BY <1>1, <1>5 DEF LedgerTellsFrames, Starting
<1>. QED  BY <1>2, <1>3, <1>4, <1>6 DEF WorkflowInv, FleetInv, CallsHaveFrames

LEMMA WallTimes ==
    ASSUME WorkflowInv, WallTime
    PROVE  Kept
<1>1. FleetInv /\ CallsHaveFrames  BY DEF WorkflowInv, TypeOK, FleetInv
<1>2. FleetInv' /\ (\A w \in Workers : Accepted(w)) /\ UNCHANGED call
  BY <1>1, StillFleet DEF WallTime
<1>3. /\ main = "await" /\ main' = "cancelling" /\ baton' = Free
      /\ UNCHANGED <<flow, node, outcome, runs>>
      /\ pc' = [n \in Nodes |-> IF n \in Workers /\ call[n] # "idle" THEN "host" ELSE "none"]
  BY DEF WallTime
<1>4. \A n \in Nodes : pc'[n] \in {"none", pc[n]}
  BY <1>1, <1>3 DEF CallsHaveFrames
<1>5. \A w \in Workers : call'[w] # "idle" <=> pc'[w] = "host"
  BY <1>2, <1>3, NodeFacts
<1>6. pc' \in [Nodes -> Frames]  BY <1>3 DEF Frames
<1>. QED  BY <1>2, <1>3, <1>4, <1>5, <1>6, CancellingKeeps DEF Kept

LEMMA Cancellings ==
    ASSUME WorkflowInv, NEW n \in Workers, Cancelling(n)
    PROVE  Kept
<1>1. /\ FleetInv /\ CallsHaveFrames /\ main = "cancelling" /\ n \in Nodes
      /\ pc \in [Nodes -> Frames] /\ baton \in {Free, Main}
  BY NodeFacts DEF WorkflowInv, TypeOK, FleetInv, Cancelling, CancelCall, DropCall, MainOwns
<1>2. main' = main /\ UNCHANGED <<flow, node, outcome, runs>> /\ baton' \in {Free, Main}
  BY <1>1 DEF Cancelling, CancelCall, DropCall, KeepFlow, flowVars, InCall
<1>3. FleetStep(n)
  BY DEF Cancelling, CancelCall, DropCall, FleetStep, Process
<1>4. /\ FleetInv' /\ (\A w \in Workers : Accepted(w)) /\ \A w \in Workers \ {n} : call'[w] = call[w]
      /\ ~Call(n) /\ ~Collect(n) => call[n] # "idle" /\ call'[n] # "idle"
  BY <1>1, <1>3, FleetSteps
<1>5. CASE DropCall(n)
  <2>1. pc' = [pc EXCEPT ![n] = "none"] /\ Collect(n)  BY <1>5 DEF DropCall
  <2>2. call'[n] = "idle"  BY <1>1, <2>1 DEF Collect, Goto, Advance, FleetInv, FleetTypeOK
  <2>3. /\ pc' \in [Nodes -> Frames] /\ \A m \in Nodes : pc'[m] \in {"none", pc[m]}
        /\ pc'[n] = "none" /\ \A m \in Nodes \ {n} : pc'[m] = pc[m]
    BY <1>1, <2>1 DEF Frames
  <2>4. \A w \in Workers : call'[w] # "idle" <=> pc'[w] = "host"
    BY <1>1, <1>4, <2>2, <2>3, NodeFacts DEF CallsHaveFrames
  <2>. QED  BY <1>1, <1>2, <1>4, <2>3, <2>4, CancellingKeeps DEF Kept
<1>6. CASE CancelCall(n) \/ (Stopped(n) /\ InCall(n, Free))
  <2>1. pc' = pc /\ (Cancel(n) \/ Interrupt(n) \/ Stopped(n))
    BY <1>6 DEF CancelCall, InCall, KeepFlow, flowVars
  <2>2. ~Call(n) /\ ~Collect(n)
    BY <1>1, <2>1 DEF Cancel, Interrupt, Stopped, Call, Collect, Returned
  <2>3. \A w \in Workers : call'[w] # "idle" <=> pc'[w] = "host"
    BY <1>1, <1>4, <2>1, <2>2 DEF CallsHaveFrames
  <2>. QED  BY <1>1, <1>2, <1>4, <2>1, <2>3, CancellingKeeps DEF Kept
<1>. QED  BY <1>5, <1>6 DEF Cancelling

LEMMA CancelledKeeps ==
    ASSUME WorkflowInv, Cancelled
    PROVE  Kept
<1>1. /\ main = "cancelling" /\ (\A n \in Nodes : Idle(n)) /\ main' = "giving_up" /\ baton' = Main
      /\ UNCHANGED <<fleetVars, flow, node, runs, pc, outcome>>
  BY DEF Cancelled, KeepRest, KeepFrames, Idle
<1>2. LedgerTypes /\ flow = "running"
  BY <1>1 DEF WorkflowInv, TypeOK, LedgerTypes, Entries, MainOwns, InFlow
<1>3. LedgerTypes'  BY <1>1, <1>2 DEF LedgerTypes
<1>. QED
  BY <1>1, <1>2, <1>3, QuietSteps DEF MainPhases, FlowStatus, Starting

LEMMA NextKeeps ==
    ASSUME WorkflowInv, [Next]_vars
    PROVE  Kept
<1>1. CASE UNCHANGED vars
  <2>1. UNCHANGED <<rec, call, reply, stray, flow, node, main, pc, outcome, baton, runs>>
    BY <1>1 DEF vars, fleetVars, flowVars
  <2>2. TypeOK' /\ CallsMatchRecords' /\ CallsHaveFrames' /\ FramesFitKinds'
    BY <2>1 DEF WorkflowInv, TypeOK, FleetTypeOK, CallsMatchRecords, CallsHaveFrames, FramesFitKinds
  <2>3. (main = "await" => FramesNest)' /\ MainOwns' /\ LedgerTellsFrames'
    BY <2>1 DEF WorkflowInv, FramesNest, Nests, NoKid, OnlyKid, Idle, MainOwns, LedgerTellsFrames, RunningNodes
  <2>. QED  BY <2>1, <2>2, <2>3 DEF Kept, WorkflowInv, Accepted
<1>2. ASSUME NEW n \in Nodes, Frame(n) PROVE Kept  BY <1>2, FrameSteps, MovesKeep
<1>3. CASE Run  BY <1>3, RunSteps, StartGoals, CloseGoals, CancelledKeeps DEF Run
<1>4. ASSUME NEW n \in Workers, Cancelling(n) PROVE Kept  BY <1>4, Cancellings
<1>5. CASE Submit  BY <1>5, Submits
<1>6. CASE Restart  BY <1>6, Restarts
<1>7. CASE WallTime  BY <1>7, WallTimes
<1>8. ASSUME NEW n \in Workers, TimeOut(n) PROVE Kept
  <2>1. main = "await"  BY <1>8 DEF TimeOut
  <2>. QED  BY <1>8, <2>1, InCalls, MovesKeep, NodeFacts
<1>. QED  BY <1>1, <1>2, <1>3, <1>4, <1>5, <1>6, <1>7, <1>8 DEF Next, Work

LEMMA InitHolds ==
    ASSUME Init
    PROVE  WorkflowInv
<1>1. /\ rec = [w \in Workers |-> [status |-> "none", attempt |-> 1, answer |-> FALSE, usage |-> 0]]
      /\ call = [w \in Workers |-> "idle"] /\ reply = [w \in Workers |-> Failure] /\ stray = {}
      /\ flow = "none" /\ main = "off" /\ baton = Free /\ runs = 0
      /\ node = [n \in AllNodes |-> [status |-> "absent", attempt |-> 0, answer |-> FALSE, usage |-> 0]]
      /\ pc = [n \in Nodes |-> "none"] /\ outcome = [n \in Nodes |-> "none"]
  BY DEF Init, FleetInit
<1>2. FleetTypeOK
  <2>1. Failure \in Replies  BY DEF Failure, Reply, Replies, Ended
  <2>2. 1 \in 1 .. WorkerAttempts  BY FleetAssumption
  <2>. QED  BY <1>1, <2>1, <2>2 DEF FleetTypeOK, WorkerStatus, CallPhases
<1>3. runs \in 0 .. MaxRuns
  <2>1. MaxRuns \in Nat  BY WorkflowAssumption
  <2>. QED  BY <1>1, <2>1
<1>4. TypeOK
  BY <1>1, <1>2, <1>3 DEF TypeOK, FlowStatus, NodeStatus, MainPhases, Frames, Outcomes
<1>5. CallsMatchRecords /\ CallsHaveFrames /\ FramesFitKinds
  BY <1>1, NodeFacts DEF CallsMatchRecords, CallsHaveFrames, FramesFitKinds, Executing
<1>6. MainOwns /\ LedgerTellsFrames
  BY <1>1, NodeFacts DEF MainOwns, LedgerTellsFrames, RunningNodes, Idle, InFlow, Starting
<1>. QED  BY <1>1, <1>4, <1>5, <1>6 DEF WorkflowInv

-----------------------------------------------------------------------------
(* Theorems                                                                 *)

\* The executor, the ledger and the fleet agree at every append and every await
\* (executor.py 214-268 and 316-341, scheduler.py 120-228).
THEOREM WorkflowInvariant == Spec => []WorkflowInv
<1>1. Init => WorkflowInv  BY InitHolds
<1>2. WorkflowInv /\ [Next]_vars => WorkflowInv'  BY NextKeeps DEF Kept
<1>. QED  BY <1>1, <1>2, PTL DEF Spec

\* Every record, frame and event has a legal value; a record is not attempted more
\* often than its limit (registry.py 602-618).
THEOREM WorkflowTypesHold == Spec => []TypeOK
<1>1. WorkflowInv => TypeOK  BY DEF WorkflowInv
<1>. QED  BY <1>1, WorkflowInvariant, PTL

\* Every process the daemon holds belongs to a run whose ledger says so, and none is
\* held when the workflow is over.  One that was let go of may outlive it, but what it
\* was started for is on record as interrupted until a new attempt ends it
\* (executor.py 300-310 and 665-680, scheduler.py 185-198, processes.py 309-339).
THEOREM HeldProcessesBelong == Spec => []ProcessesBelong
<1>1. ASSUME WorkflowInv PROVE ProcessesBelong
  <2>1. ASSUME NEW w \in Processes
        PROVE  rec[w].status = "running" /\ node[w].status = "running" /\ flow = "running"
    <3>1. w \in Workers /\ w \in Nodes /\ call[w] \in {"process", "stopping", "failing"}
      BY NodeFacts DEF Processes
    <3>2. rec[w].status = "running" /\ pc[w] = "host"
      BY <1>1, <3>1 DEF WorkflowInv, CallsMatchRecords, CallsHaveFrames, Executing
    <3>3. main \in {"await", "cancelling"}
      BY <1>1, <3>1, <3>2 DEF WorkflowInv, MainOwns, Idle
    <3>. QED
      BY <1>1, <3>1, <3>2, <3>3 DEF WorkflowInv, MainOwns, InFlow, LedgerTellsFrames, Begun
  <2>2. ASSUME main = "off", flow \in {"completed", "failed"}
        PROVE  Processes = {} /\ RunningNodes = {}
    BY <1>1, <2>1, <2>2 DEF WorkflowInv, LedgerTellsFrames
  <2>3. \A w \in stray : rec[w].status = "interrupted" \/ rec[w].attempt > 1
    BY <1>1 DEF WorkflowInv, TypeOK, FleetTypeOK, CallsMatchRecords
  <2>. QED  BY <2>1, <2>2, <2>3 DEF ProcessesBelong
<1>. QED  BY <1>1, WorkflowInvariant, PTL

\* What the fleet has accepted is not worked for again, whatever is cancelled, resumed
\* or restarted (scheduler.py 139-163, registry.py 598-638 and 803-821).
THEOREM AcceptedResultsAreKept == Spec => AcceptedResultsStand
<1>1. ASSUME WorkflowInv, [Next]_vars
      PROVE  [\A w \in Workers : rec[w].status = "completed" => rec'[w] = rec[w]]_vars
  BY <1>1, NextKeeps DEF Kept, Accepted
<1>. QED  BY <1>1, WorkflowInvariant, PTL DEF Spec, AcceptedResultsStand

-----------------------------------------------------------------------------
(* The token budget                                                         *)

\* The tokens of each worker; the workers whose result is within the budget.
Usage == [w \in Workers |-> node[w].usage]
Within == {w \in Workers : node[w].status = "completed"}
WithinBudget == Sum(Within, Usage) <= TokenBudget

LEMMA BudgetFacts ==
    /\ IsFiniteSet(Workers) /\ TokenBudget \in Nat
    /\ LedgerTypes => Usage \in [Workers -> Nat]
<1>1. IsFiniteSet(Workers)  BY FS_Subset, WorkflowAssumption
<1>2. TokenBudget \in Nat  BY WorkflowAssumption
<1>3. LedgerTypes => Usage \in [Workers -> Nat]  BY NodeFacts DEF LedgerTypes, Entries, Usage
<1>. QED  BY <1>1, <1>2, <1>3

\* The sums of the model, by any order of the workers.
LEMMA UsageIsSummed ==
    ASSUME NEW S \in SUBSET Workers
    PROVE  FoldSet(LAMBDA w, sum : sum + node[w].usage, 0, S) = Sum(S, Usage)
<1>. DEFINE F(g) == [s \in SUBSET S |->
                IF s = {} THEN 0 ELSE g[s \ {Some(s)}] + node[Some(s)].usage]
            G(g) == [s \in SUBSET S |-> IF s = {} THEN 0 ELSE g[s \ {Some(s)}] + Usage[Some(s)]]
<1>1. \A s \in SUBSET S : s # {} => Usage[Some(s)] = node[Some(s)].usage
  BY SomeIsIn DEF Usage
<1>2. \A g : F(g) = G(g)
  <2>. SUFFICES ASSUME NEW g, NEW s \in SUBSET S, s # {}
                PROVE  g[s \ {Some(s)}] + node[Some(s)].usage = g[s \ {Some(s)}] + Usage[Some(s)]
    OBVIOUS
  <2>. QED  BY <1>1
<1>3. FoldSet(LAMBDA w, sum : sum + node[w].usage, 0, S) = (CHOOSE g : g = F(g))[S]
  BY DEF FoldSet, MapThenFoldSet, Some
<1>4. Sum(S, Usage) = (CHOOSE g : g = G(g))[S]
  BY DEF Sum, Sums
<1>. HIDE DEF F, G
<1>. QED  BY <1>2, <1>3, <1>4

\* A step that completes no worker and counts no tokens.
Frugal ==
    \A w \in Workers : /\ node'[w].usage = node[w].usage
                       /\ node'[w].status = "completed" => node[w].status = "completed"

LEMMA FrugalEvents ==
    ASSUME LedgerTypes, NEW n, NEW s, Event(n, s), n \notin Workers \/ s # "completed"
    PROVE  Frugal
<1>. SUFFICES ASSUME NEW w \in Workers
              PROVE  /\ node'[w].usage = node[w].usage
                     /\ node'[w].status = "completed" => node[w].status = "completed"
  BY DEF Frugal
<1>1. w \in AllNodes /\ node \in [AllNodes -> Entries]  BY NodeFacts DEF LedgerTypes
<1>2. CASE n # w
  <2>1. node'[w] = node[w]  BY <1>1, <1>2 DEF Event
  <2>. QED  BY <2>1
<1>3. CASE n = w
  <2>. DEFINE a == IF s = "running" THEN node[w].attempt + 1 ELSE node[w].attempt
              e == [node[w] EXCEPT !.status = s, !.attempt = a]
  <2>1. node' = [node EXCEPT ![w] = e]  BY <1>1, <1>3 DEF Event, Entries
  <2>2. node'[w].status = s /\ node'[w].usage = node[w].usage
    <3>1. e.status = s /\ e.usage = node[w].usage  BY <1>1 DEF Entries
    <3>. HIDE DEF e
    <3>. QED  BY <1>1, <2>1, <3>1
  <2>. QED  BY <1>3, <2>2
<1>. QED  BY <1>2, <1>3

\* Such a step leaves no more to pay for: it may only forget a result.
LEMMA FrugalKeeps ==
    ASSUME LedgerTypes, LedgerTypes', Frugal, WithinBudget
    PROVE  WithinBudget'
<1>1. Usage \in [Workers -> Nat] /\ Usage' \in [Workers -> Nat]
  BY NodeFacts DEF LedgerTypes, Entries, Usage
<1>2. Within \in SUBSET Workers /\ Within' \in SUBSET Within  BY DEF Within, Frugal
<1>3. \A w \in Within' : Usage'[w] <= Usage[w]
  <2>1. \A w \in Workers : Usage'[w] = Usage[w]  BY DEF Frugal, Usage
  <2>. QED  BY <1>1, <1>2, <2>1
<1>4. /\ Sum(Within', Usage') \in Nat /\ Sum(Within, Usage) \in Nat
      /\ Sum(Within', Usage') <= Sum(Within, Usage)
  BY <1>1, <1>2, <1>3, BudgetFacts, SumMonotone
<1>. QED  BY <1>4, BudgetFacts DEF WithinBudget

\* A result counts its tokens, and completes its worker only if they fit.
LEMMA ResultsFit ==
    ASSUME WorkflowInv, NEW n \in Workers, RecordResult(n), WithinBudget
    PROVE  WithinBudget'
<1>. DEFINE r == Result(n)
            s == IF Overspent(r) THEN "budget_limited" ELSE r.status
<1>1. FleetTypeOK /\ node \in [AllNodes -> Entries] /\ n \in AllNodes /\ Workers \subseteq AllNodes
  BY NodeFacts DEF WorkflowInv, TypeOK, Entries
<1>2. r \in Replies
  BY <1>1 DEF Result, FleetTypeOK, Failure, Reply, Replies, Ended
<1>3. WorkerEvent(n, s, r)  BY DEF RecordResult
<1>4. r.tokens \in Nat  BY <1>2 DEF Replies
<1>5. /\ node'[n].status = s /\ node'[n].usage = node[n].usage + r.tokens
      /\ \A w \in Workers \ {n} : node'[w] = node[w]
  <2>. DEFINE u == node[n].usage + r.tokens
              e == [node[n] EXCEPT !.status = s, !.answer = r.answer, !.usage = u]
  <2>. HIDE DEF r, s
  <2>1. node' = [node EXCEPT ![n] = e]  BY <1>1, <1>3 DEF WorkerEvent, Entries
  <2>2. e.status = s /\ e.usage = u  BY <1>1 DEF Entries
  <2>. HIDE DEF e
  <2>. QED  BY <1>1, <2>1, <2>2
<1>6. Usage \in [Workers -> Nat]  BY <1>1 DEF Entries, Usage
<1>7. /\ Usage'[n] = Usage[n] + r.tokens
      /\ \A w \in Workers \ {n} : Usage'[w] = Usage[w]
  <2>. HIDE DEF r, s
  <2>. QED  BY <1>5 DEF Usage
<1>8. Usage' \in [Workers -> Nat]
  <2>1. \A w \in Workers : Usage'[w] \in Nat  BY <1>4, <1>6, <1>7
  <2>2. Usage' = [w \in Workers |-> Usage'[w]]  BY DEF Usage
  <2>. QED  BY <2>1, <2>2
<1>9. CASE s = "completed"
  <2>. DEFINE others == Workers \ {n}
  <2>1. Sum(Workers, Usage) + r.tokens <= TokenBudget
    <3>1. ~Overspent(r)  BY <1>9
    <3>2. TokensUsed = Sum(Workers, Usage)  BY UsageIsSummed DEF TokensUsed
    <3>3. TokensUsed \in Nat  BY <1>6, <3>2, BudgetFacts, SumMonotone
    <3>. HIDE DEF r
    <3>. QED  BY <1>4, <3>1, <3>2, <3>3, BudgetFacts DEF Overspent
  <2>2. /\ Sum(Workers, Usage) = Sum(others, Usage) + Usage[n]
        /\ Sum(Workers, Usage') = Sum(others, Usage') + Usage'[n]
    BY <1>6, <1>8, BudgetFacts, SumTakeOut
  <2>3. /\ Sum(others, Usage') \in Nat /\ Sum(others, Usage) \in Nat
        /\ Sum(others, Usage') <= Sum(others, Usage)
    <3>1. \A w \in others : Usage'[w] <= Usage[w]  BY <1>6, <1>7
    <3>. QED  BY <1>6, <1>8, <3>1, BudgetFacts, SumMonotone
  <2>4. /\ Sum(Within', Usage') \in Nat
        /\ Sum(Within', Usage') <= Sum(Workers, Usage')
    <3>1. Within' \in SUBSET Workers  BY DEF Within
    <3>2. \A w \in Within' : Usage'[w] <= Usage'[w]  BY <1>8, <3>1
    <3>. QED  BY <1>8, <3>1, <3>2, BudgetFacts, SumMonotone
  <2>5. Usage[n] \in Nat  BY <1>6
  <2>. HIDE DEF r, s, others
  <2>. QED  BY <1>4, <1>7, <2>1, <2>2, <2>3, <2>4, <2>5, BudgetFacts DEF WithinBudget
<1>10. CASE s # "completed"
  <2>1. Within \in SUBSET Workers /\ Within' \in SUBSET Within /\ n \notin Within'
    BY <1>5, <1>10 DEF Within
  <2>2. \A w \in Within' : Usage'[w] <= Usage[w]  BY <1>6, <1>7, <2>1
  <2>3. /\ Sum(Within', Usage') \in Nat /\ Sum(Within, Usage) \in Nat
        /\ Sum(Within', Usage') <= Sum(Within, Usage)
    BY <1>6, <1>8, <2>1, <2>2, BudgetFacts, SumMonotone
  <2>. QED  BY <2>3, BudgetFacts DEF WithinBudget
<1>. QED  BY <1>9, <1>10

\* A composite step, unlike a worker, may complete at any time.
LEMMA StepsAreFrugal ==
    ASSUME WorkflowInv, Next, ~(\E n \in Workers : Deliver(n))
    PROVE  Frugal
<1>1. LedgerTypes  BY DEF WorkflowInv, TypeOK, LedgerTypes, Entries
<1>2. ASSUME node' = node PROVE Frugal  BY <1>2 DEF Frugal
<1>3. \A n, s : Event(n, s) /\ (n \notin Workers \/ s # "completed") => Frugal
  BY <1>1, FrugalEvents
<1>4. \A trees, s : Mark(trees, s) /\ s # "completed" => Frugal
  BY <1>3 DEF Mark
<1>5. ASSUME NEW n \in Nodes, n \notin Workers, StepOf(n) PROVE Frugal
  <2>1. CASE Kind[n] = "sequence"
    <3>1. Sequence(n)  BY <1>5, <2>1 DEF StepOf, Gathering
    <3>2. Completes(n, "ok") \/ Completes(n, "approved") \/ Fails(n) => Frugal
      BY <1>3, <1>5 DEF Completes, Fails
    <3>. QED  BY <1>2, <1>4, <3>1, <3>2 DEF Sequence, MarkThenFail, KeepLedger
  <2>2. CASE Kind[n] = "branch"
    <3>1. Branch(n)  BY <1>5, <2>2 DEF StepOf, Gathering
    <3>2. Completes(n, "ok") \/ Completes(n, "approved") \/ Fails(n) => Frugal
      BY <1>3, <1>5 DEF Completes, Fails
    <3>. QED  BY <1>2, <1>4, <3>1, <3>2 DEF Branch, KeepLedger
  <2>3. CASE Kind[n] = "retry"
    <3>1. Retry(n)  BY <1>5, <2>3 DEF StepOf, Gathering
    <3>2. Completes(n, "ok") \/ Completes(n, "approved") \/ Fails(n) => Frugal
      BY <1>3, <1>5 DEF Completes, Fails
    <3>. QED  BY <1>2, <3>1, <3>2 DEF Retry, KeepLedger
  <2>4. CASE Kind[n] = "gate"
    <3>1. Gate(n)  BY <1>5, <2>4 DEF StepOf, Gathering
    <3>2. Completes(n, "ok") \/ Completes(n, "approved") \/ Fails(n) => Frugal
      BY <1>3, <1>5 DEF Completes, Fails
    <3>. QED  BY <1>2, <1>4, <3>1, <3>2 DEF Gate, MarkThenFail, KeepLedger
  <2>5. CASE Kind[n] \in Gathering
    BY <1>2, <1>5, <2>5 DEF StepOf, Scatter, KeepLedger, Gathering
  <2>. QED  BY <1>5, <2>1, <2>2, <2>3, <2>4, <2>5, WorkflowAssumption, NodeFacts DEF Composite, Gathering
<1>6. ASSUME NEW n \in Nodes, Frame(n) PROVE Frugal
  <2>1. FramesFitKinds  BY DEF WorkflowInv
  <2>2. CASE Running(n)
    <3>1. CASE Reuse(n)  BY <1>2, <3>1 DEF Reuse, KeepLedger
    <3>2. CASE StartComposite(n) \/ LimitTokens(n) \/ StartWorker(n)
      BY <1>3, <3>2 DEF StartComposite, LimitTokens, StartWorker
    <3>3. CASE StepOf(n)
      <4>1. n \notin Workers  BY <2>1, <3>3 DEF FramesFitKinds, StepOf
      <4>. QED  BY <1>5, <3>3, <4>1
    <3>4. CASE RunsCall(n)  BY <1>2, <3>4 DEF RunsCall, InCall
    <3>. QED  BY <2>2, <3>1, <3>2, <3>3, <3>4 DEF Running
  <2>3. CASE Resume(n)
    <3>1. CASE TakeTurn(n) \/ WakeUp(n) \/ Acquire(n)
      BY <1>2, <3>1 DEF TakeTurn, WakeUp, Acquire, KeepLedger
    <3>2. CASE Gather(n)
      <4>1. n \notin Workers  BY <2>1, <3>2 DEF FramesFitKinds, Gather
      <4>. QED  BY <1>3, <3>2, <4>1 DEF Gather, Completes, Fails
    <3>3. CASE ResumesCall(n)  BY <1>2, <3>3 DEF ResumesCall, InCall
    <3>. QED  BY <2>3, <3>1, <3>2, <3>3 DEF Resume
  <2>4. ~Deliver(n)  BY DEF Deliver
  <2>. QED  BY <1>6, <2>2, <2>3, <2>4 DEF Frame
<1>7. CASE RecoverNode \/ GiveUpNode \/ CloseGoal \/ StartGoal
  BY <1>2, <1>3, <1>7, NodeFacts DEF RecoverNode, GiveUpNode, CloseGoal, StartGoal, KeepLedger
<1>8. CASE Register
  <2>. SUFFICES ASSUME NEW w \in Workers
                PROVE  /\ node'[w].usage = node[w].usage
                       /\ node'[w].status = "completed" => node[w].status = "completed"
    BY DEF Frugal
  <2>1. w \in AllNodes /\ node[w] \in Entries  BY <1>1, NodeFacts DEF LedgerTypes
  <2>2. node'[w] = IF node[w].status = "absent" THEN [node[w] EXCEPT !.status = "pending"] ELSE node[w]
    BY <1>8, <2>1 DEF Register
  <2>. QED  BY <2>1, <2>2 DEF Entries
<1>9. CASE Begin \/ RecoverFlow \/ StartFlow \/ CloseFlow \/ Cancelled \/ GiveUp
  BY <1>2, <1>9 DEF Begin, RecoverFlow, StartFlow, CloseFlow, Cancelled, GiveUp
<1>10. ASSUME NEW n \in Workers, Cancelling(n) \/ TimeOut(n) PROVE Frugal
  BY <1>2, <1>10 DEF Cancelling, TimeOut, CancelCall, DropCall, InCall, KeepFlow, flowVars
<1>11. CASE Submit \/ Restart \/ WallTime
  BY <1>2, <1>11 DEF Submit, Restart, WallTime
<1>. QED  BY <1>6, <1>7, <1>8, <1>9, <1>10, <1>11 DEF Next, Work, Run

\* The results a workflow has accepted fit in its token budget, although its workers
\* spend tokens beside each other and each was started when some were left
\* (executor.py 344-365, 410-432).
THEOREM CompletedStaysWithinBudget == Spec => []CompletedWithinBudget
<1>1. Init => WithinBudget
  <2>. SUFFICES ASSUME Init PROVE WithinBudget  OBVIOUS
  <2>1. \A w \in Workers : node[w].status = "absent"  BY NodeFacts DEF Init
  <2>2. Within = {}  BY <2>1 DEF Within
  <2>3. LedgerTypes  BY InitHolds DEF WorkflowInv, TypeOK, LedgerTypes, Entries
  <2>4. Usage \in [Workers -> Nat]  BY <2>3, BudgetFacts
  <2>5. Sum({}, Usage) = 0  BY <2>4, SumOfNone
  <2>. QED  BY <2>2, <2>5, BudgetFacts DEF WithinBudget
<1>2. WorkflowInv /\ WithinBudget /\ [Next]_vars => WithinBudget'
  <2>. SUFFICES ASSUME WorkflowInv, WithinBudget, [Next]_vars PROVE WithinBudget'  OBVIOUS
  <2>1. CASE UNCHANGED vars
    <3>1. node' = node  BY <2>1 DEF vars, flowVars
    <3>. QED  BY <3>1 DEF WithinBudget, Within, Usage
  <2>2. ASSUME NEW n \in Workers, Deliver(n) PROVE WithinBudget'
    BY <2>2, ResultsFit DEF Deliver
  <2>3. ASSUME Next, ~(\E n \in Workers : Deliver(n)) PROVE WithinBudget'
    <3>1. Frugal  BY <2>3, StepsAreFrugal
    <3>2. LedgerTypes /\ LedgerTypes'
      <4>1. WorkflowInv'  BY NextKeeps DEF Kept
      <4>. QED  BY <4>1 DEF WorkflowInv, TypeOK, LedgerTypes, Entries
    <3>. QED  BY <3>1, <3>2, FrugalKeeps
  <2>. QED  BY <2>1, <2>2, <2>3
<1>3. WithinBudget => CompletedWithinBudget
  <2>1. Within \in SUBSET Workers  BY DEF Within
  <2>. QED  BY <2>1, UsageIsSummed DEF WithinBudget, CompletedWithinBudget, Within
<1>. QED  BY <1>1, <1>2, <1>3, WorkflowInvariant, PTL DEF Spec
=============================================================================
