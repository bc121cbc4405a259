--------------------------- MODULE WorkGraphProofs --------------------------
(***************************************************************************)
(* The executor, its ledger and the fleet implement WorkGraph: whatever    *)
(* the tree, and however often the daemon dies or a run is cancelled.      *)
(***************************************************************************)
EXTENDS WorkflowProofs

-----------------------------------------------------------------------------
(* What makes the promise inductive                                         *)

Done(n) == node[n].status = "completed"
Skipped(n) == node[n].status = "skipped"
IsBranch(n) == n \in Nodes /\ Kind[n] = "branch"

\* The source of a branch is settled before the branch begins.
SourceStands(b) ==
    \E a \in Nodes : b \in Below[a] /\ \E x \in Graph!Before(a) : Source[b] \in Below[x] /\ Done(x)

\* Work has reached a step: it is done, or has a frame.
Reached(m) == Done(m) \/ (main = "await" /\ ~Idle(m))

InOrder == \A a \in Nodes : \A m \in Below[a] : Reached(m) => \A x \in Graph!Before(a) : Done(x)
OneSide == \A b \in Nodes : IsBranch(b) => \A m \in Below[Passed(b)] : ~Reached(m)
SkippedIsPassed ==
    \A m \in Nodes : Skipped(m) => \E b \in Nodes : IsBranch(b) /\ m \in Below[Passed(b)] /\ SourceStands(b)
Marked(n) == node[n].status \in Unmarkable
DoneIsWhole == \A d \in Nodes : Done(d) => \A m \in Below[d] : Marked(m)
GoodIsDone == \A k \in Nodes : outcome[k] \in Good => Done(k)
PassedIsMarked ==
    main = "await" => \A b \in Nodes :
        IsBranch(b) /\ pc[b] = "run" /\ (\E k \in KidSet(b) : ~Idle(k) \/ outcome[k] # "none") =>
            \A m \in Below[Passed(b)] : Marked(m)
RepliesAreRecorded ==
    \A w \in Workers : call[w] = "done" /\ reply[w].status = "completed" =>
        rec[w].status = "completed" /\ rec[w].answer = reply[w].answer
ApprovalsAreRecorded ==
    \A w \in Workers : outcome[w] = "approved" =>
        w \in Reviewers /\ rec[w].status = "completed" /\ rec[w].answer
FlowIsOpen == main \in {"register", "start"} => flow # "completed"

GraphInv ==
    /\ WorkflowInv
    /\ InOrder
    /\ OneSide
    /\ SkippedIsPassed
    /\ DoneIsWhole
    /\ GoodIsDone
    /\ PassedIsMarked
    /\ RepliesAreRecorded
    /\ ApprovalsAreRecorded
    /\ FlowIsOpen

-----------------------------------------------------------------------------
(* The tree, up and down                                                    *)

\* A subtree holds its root and goes on from a step to its children, and is the least
\* such set.
LEMMA BelowFacts ==
    ASSUME NEW n \in Nodes
    PROVE  /\ n \in Below[n] /\ Below[n] \subseteq Nodes
           /\ \A m \in Below[n] : KidSet(m) \subseteq Below[n]
<1>1. n \in Below[n] /\ Below[n] \subseteq Nodes  BY DEF Below
<1>2. ASSUME NEW m \in Below[n], NEW k \in KidSet(m) PROVE k \in Below[n]
  <2>1. k \in Nodes  BY <1>1, KidsAreNodes
  <2>2. ASSUME NEW S \in SUBSET Nodes, n \in S, \A j \in S : KidSet(j) \subseteq S PROVE k \in S
    <3>1. m \in S  BY <2>2 DEF Below
    <3>. QED  BY <2>2, <3>1
  <2>. QED  BY <2>1, <2>2 DEF Below
<1>. QED  BY <1>1, <1>2

LEMMA BelowIsLeast ==
    ASSUME NEW n \in Nodes, NEW S \in SUBSET Nodes, n \in S, \A k \in S : KidSet(k) \subseteq S
    PROVE  Below[n] \subseteq S
BY DEF Below

LEMMA BelowNests ==
    ASSUME NEW n \in Nodes, NEW m \in Below[n]
    PROVE  Below[m] \subseteq Below[n]
<1>1. m \in Nodes /\ Below[n] \subseteq Nodes /\ \A k \in Below[n] : KidSet(k) \subseteq Below[n]
  BY BelowFacts
<1>. QED  BY <1>1, BelowIsLeast

LEMMA BelowKid ==
    ASSUME NEW n \in Nodes, NEW k \in KidSet(n)
    PROVE  k \in Nodes /\ k \in Below[n] /\ Below[k] \subseteq Below[n]
BY BelowFacts, BelowNests, KidsAreNodes

LEMMA BelowSplits ==
    ASSUME NEW n \in Nodes, NEW m \in Below[n], m # n
    PROVE  \E k \in KidSet(n) : m \in Below[k]
<1>. DEFINE S == {n} \cup {j \in Nodes : \E k \in KidSet(n) : j \in Below[k]}
<1>1. ASSUME NEW j \in S PROVE KidSet(j) \subseteq S
  <2>1. CASE j = n  BY <2>1, KidsAreNodes, BelowFacts
  <2>2. ASSUME NEW k \in KidSet(n), j \in Below[k] PROVE KidSet(j) \subseteq S
    BY <2>2, KidsAreNodes, BelowFacts
  <2>. QED  BY <2>1, <2>2
<1>2. S \in SUBSET Nodes /\ n \in S  OBVIOUS
<1>. HIDE DEF S
<1>3. m \in S  BY <1>1, <1>2, BelowIsLeast
<1>. QED  BY <1>3 DEF S

LEMMA BelowParent ==
    ASSUME NEW a \in Nodes, NEW m \in Below[a], m # a, NEW p \in Nodes, m \in KidSet(p)
    PROVE  p \in Below[a]
<1>. SUFFICES ASSUME p \notin Below[a] PROVE FALSE  OBVIOUS
<1>. DEFINE S == Below[a] \ {m}
<1>1. Below[a] \subseteq Nodes /\ a \in S  BY BelowFacts
<1>2. ASSUME NEW k \in S PROVE KidSet(k) \subseteq S
  <2>1. k \in Nodes /\ k # p /\ KidSet(k) \subseteq Below[a]  BY <1>1, BelowFacts
  <2>2. m \notin KidSet(k)  BY <2>1, OneParent
  <2>. QED  BY <2>1, <2>2
<1>3. S \in SUBSET Nodes /\ m \notin S  BY <1>1
<1>. HIDE DEF S
<1>4. Below[a] \subseteq S  BY <1>1, <1>2, <1>3, BelowIsLeast
<1>. QED  BY <1>3, <1>4

LEMMA RootIsTop ==
    ASSUME NEW a \in Nodes, Root \in Below[a]
    PROVE  a = Root
<1>. SUFFICES ASSUME a # Root PROVE FALSE  OBVIOUS
<1>. DEFINE S == Below[a] \ {Root}
<1>1. Below[a] \subseteq Nodes /\ a \in S  BY BelowFacts
<1>2. \A k \in S : KidSet(k) \subseteq S  BY <1>1, BelowFacts, TreeAssumption DEF IsTree
<1>3. S \in SUBSET Nodes /\ Root \notin S  BY <1>1
<1>. HIDE DEF S
<1>4. Below[a] \subseteq S  BY <1>1, <1>2, <1>3, BelowIsLeast
<1>. QED  BY <1>3, <1>4

\* No step is below its own child.
LEMMA NoCycle ==
    ASSUME NEW n \in Nodes, NEW k \in KidSet(n)
    PROVE  n \notin Below[k]
<1>. DEFINE S == {m \in Nodes : \A j \in KidSet(m) : m \notin Below[j]}
<1>1. Root \in S
  <2>1. Root \in Nodes /\ \A j \in KidSet(Root) : j \in Nodes /\ j # Root
    BY NodeFacts, KidsAreNodes, TreeAssumption DEF IsTree
  <2>. QED  BY <2>1, RootIsTop
<1>2. ASSUME NEW m \in S, NEW j \in KidSet(m) PROVE j \in S
  <2>1. m \in Nodes /\ j \in Nodes /\ \A i \in KidSet(m) : m \notin Below[i]  BY KidsAreNodes
  <2>2. ASSUME NEW i \in KidSet(j), j \in Below[i] PROVE FALSE
    <3>1. i \in Nodes /\ i # j /\ Below[i] \subseteq Below[j]  BY <2>1, BelowKid, NotOwnKid
    <3>2. m \in Below[i]  BY <2>1, <2>2, <3>1, BelowParent
    <3>. QED  BY <2>1, <3>1, <3>2
  <2>. QED  BY <2>1, <2>2
<1>3. S \in SUBSET Nodes  OBVIOUS
<1>. HIDE DEF S
<1>4. S = Nodes  BY <1>1, <1>2, <1>3, ClosedIsAll
<1>5. n \in S  BY <1>4
<1>. QED  BY <1>5 DEF S

\* The sides of a branch.
LEMMA SidesOfBranch ==
    ASSUME NEW b \in Nodes, IsBranch(b)
    PROVE  /\ KidSet(b) = {Selected(b), Passed(b)} /\ Selected(b) # Passed(b)
           /\ Selected(b) \in Nodes /\ Passed(b) \in Nodes
<1>1. Kind[b] = "branch" /\ Kids[b] \in Seq(Nodes) /\ Len(Kids[b]) \in Arity(Kind[b])
  BY WorkflowAssumption DEF IsBranch
<1>2. Len(Kids[b]) = 2  BY <1>1 DEF Arity
<1>3. DOMAIN Kids[b] = {1, 2}  BY <1>1, <1>2
<1>4. Kids[b][1] # Kids[b][2]  BY <1>3, TreeAssumption DEF IsTree
<1>5. KidSet(b) = {Kids[b][1], Kids[b][2]}  BY <1>3 DEF KidSet, Range
<1>6. {Selected(b), Passed(b)} = {Kids[b][1], Kids[b][2]} /\ Selected(b) # Passed(b)
  BY <1>4 DEF Selected, Passed
<1>7. KidSet(b) \subseteq Nodes  BY KidsAreNodes
<1>. QED  BY <1>5, <1>6, <1>7

\* What precedes a step are earlier children of a sequence or a gate.
LEMMA BeforeFacts ==
    ASSUME NEW n \in Nodes, NEW x \in Graph!Before(n)
    PROVE  /\ x \in Nodes
           /\ \E p \in Nodes : Kind[p] \in {"sequence", "gate"} /\ x \in KidSet(p) /\ n \in KidSet(p)
<1>1. PICK p \in Nodes : \E i, j \in DOMAIN Kids[p] :
          Kind[p] \in {"sequence", "gate"} /\ i < j /\ x = Kids[p][i] /\ n = Kids[p][j]
  BY DEF Graph!Before
<1>. QED  BY <1>1, KidsAreNodes DEF Graph!Before

LEMMA BeforeKid ==
    ASSUME NEW p \in Nodes, NEW j \in DOMAIN Kids[p], NEW x \in Graph!Before(Kids[p][j])
    PROVE  Kind[p] \in {"sequence", "gate"} /\ \E i \in DOMAIN Kids[p] : i < j /\ x = Kids[p][i]
<1>1. PICK q \in Nodes : \E i, k \in DOMAIN Kids[q] :
          Kind[q] \in {"sequence", "gate"} /\ i < k /\ x = Kids[q][i] /\ Kids[p][j] = Kids[q][k]
  BY DEF Graph!Before
<1>2. PICK i \in DOMAIN Kids[q], k \in DOMAIN Kids[q] :
          Kind[q] \in {"sequence", "gate"} /\ i < k /\ x = Kids[q][i] /\ Kids[p][j] = Kids[q][k]
  BY <1>1
<1>3. p = q /\ j = k  BY <1>2, TreeAssumption DEF IsTree
<1>. QED  BY <1>2, <1>3

-----------------------------------------------------------------------------
(* What a step may do to the graph                                          *)

\* The step c may be reached next.
MayReach(c) ==
    \/ c = Root
    \/ \E p \in Nodes :
        /\ c \in KidSet(p) /\ Reached(p)
        /\ \A x \in Graph!Before(c) : Done(x)
        /\ IsBranch(p) => c = Selected(p)
Engaged(b) == pc[b] = "run" /\ \E k \in KidSet(b) : ~Idle(k) \/ outcome[k] # "none"

\* The ledger is written for steps that are open or have a frame.
LedgerStands ==
    \A m \in Nodes : node'[m] = node[m] \/ ~Marked(m) \/ (main = "await" /\ ~Idle(m) /\ ~Settled(m))
ReachesInOrder == \A m \in Nodes : Reached(m)' => Reached(m) \/ MayReach(m)
SkipsPassed ==
    \A m \in Nodes : Skipped(m)' =>
        Skipped(m) \/ \E b \in Nodes : IsBranch(b) /\ Reached(b) /\ m \in Below[Passed(b)]
CompletesWhole == \A d \in Nodes : Done(d)' => Done(d) \/ \A m \in Below[d] : Marked(m)'
ReturnsDone == \A k \in Nodes : outcome'[k] \in Good => outcome[k] \in Good \/ Done(k)'
MarksFirst ==
    main' = "await" => \A b \in Nodes : IsBranch(b) /\ Engaged(b)' =>
        (main = "await" /\ Engaged(b)) \/ (Reached(b) /\ \A m \in Below[Passed(b)] : Marked(m))
Orderly ==
    /\ LedgerStands /\ ReachesInOrder /\ SkipsPassed
    /\ CompletesWhole /\ ReturnsDone /\ MarksFirst

LEMMA AncestorsRun ==
    ASSUME WorkflowInv, main = "await", NEW d \in Nodes, NEW m \in Below[d], ~Idle(m), m # d
    PROVE  pc[d] \in {"run", "gather"} /\ ~Idle(d) /\ node[d].status = "running"
<1>1. FramesNest /\ Fits(d)  BY AwaitFacts
<1>2. PICK k \in KidSet(d) : m \in Below[k]  BY BelowSplits
<1>3. ~Idle(k)  BY <1>1, <1>2, IdleBelow, KidsAreNodes
<1>4. pc[d] \in {"run", "gather"}  BY <1>1, <1>3 DEF FramesNest, Nests, NoKid
<1>. QED  BY <1>1, <1>4 DEF Fits, Idle, Begun

\* What is done stands, and all below it.
LEMMA DoneStands ==
    ASSUME GraphInv, LedgerStands, NEW d \in Nodes, Done(d), NEW m \in Below[d]
    PROVE  node'[m] = node[m]
<1>1. m \in Nodes /\ Marked(m)  BY BelowFacts DEF GraphInv, DoneIsWhole
<1>2. ASSUME main = "await", ~Idle(m), ~Settled(m) PROVE FALSE
  <2>1. m # d  BY <1>2 DEF Settled, Done
  <2>2. node[d].status = "running"  BY <1>2, <2>1, AncestorsRun DEF GraphInv
  <2>. QED  BY <2>2 DEF Done
<1>. QED  BY <1>1, <1>2 DEF LedgerStands

LEMMA SourceStays ==
    ASSUME GraphInv, LedgerStands, NEW b \in Nodes, IsBranch(b), SourceStands(b)
    PROVE  Passed(b)' = Passed(b) /\ SourceStands(b)'
<1>1. PICK a \in Nodes : b \in Below[a] /\ \E x \in Graph!Before(a) : Source[b] \in Below[x] /\ Done(x)
  BY DEF SourceStands
<1>2. PICK x \in Graph!Before(a) : Source[b] \in Below[x] /\ Done(x)  BY <1>1
<1>3. x \in Nodes /\ x \in Below[x]  BY BeforeFacts, BelowFacts
<1>4. node'[Source[b]] = node[Source[b]] /\ node'[x] = node[x]  BY <1>2, <1>3, DoneStands
<1>5. Done(x)'  BY <1>2, <1>4 DEF Done
<1>6. SourceStands(b)'  BY <1>1, <1>2, <1>5 DEF SourceStands
<1>7. Passed(b)' = Passed(b)  BY <1>4 DEF Passed, Matches
<1>. QED  BY <1>6, <1>7

\* Where work has reached, the source of a branch is settled.
LEMMA SourceSettled ==
    ASSUME GraphInv, SourcesPrecede, NEW b \in Nodes, IsBranch(b), NEW m \in Below[b], Reached(m)
    PROVE  SourceStands(b)
<1>1. PICK a \in Nodes : b \in Below[a] /\ \E x \in Graph!Before(a) : Source[b] \in Below[x]
  BY DEF SourcesPrecede, IsBranch
<1>2. m \in Below[a]  BY <1>1, BelowNests
<1>3. \A x \in Graph!Before(a) : Done(x)  BY <1>2 DEF GraphInv, InOrder
<1>. QED  BY <1>1, <1>3 DEF SourceStands

LEMMA StaysInOrder ==
    ASSUME GraphInv, LedgerStands, ReachesInOrder
    PROVE  InOrder'
<1>. SUFFICES ASSUME NEW a \in Nodes, NEW m \in Below[a], Reached(m)', NEW x \in Graph!Before(a)
              PROVE  Done(x)'
  BY DEF InOrder
<1>1. m \in Nodes /\ x \in Nodes /\ x \in Below[x]  BY BelowFacts, BeforeFacts
<1>2. ASSUME NEW k \in Below[a], Reached(k) PROVE Done(x)  BY <1>2 DEF GraphInv, InOrder
<1>3. ASSUME MayReach(m) PROVE Done(x)
  <2>1. CASE m = Root
    <3>1. a = Root  BY <2>1, RootIsTop
    <3>2. \E p \in Nodes : Root \in KidSet(p)  BY <3>1, BeforeFacts, NodeFacts
    <3>. QED  BY <3>2, TreeAssumption DEF IsTree
  <2>2. ASSUME NEW p \in Nodes, m \in KidSet(p), Reached(p), \A y \in Graph!Before(m) : Done(y)
        PROVE  Done(x)
    <3>1. CASE m = a  BY <2>2, <3>1
    <3>2. CASE m # a
      <4>1. p \in Below[a]  BY <2>2, <3>2, BelowParent
      <4>. QED  BY <2>2, <4>1, <1>2
    <3>. QED  BY <3>1, <3>2
  <2>. QED  BY <1>3, <2>1, <2>2 DEF MayReach
<1>4. Done(x)  BY <1>1, <1>2, <1>3 DEF ReachesInOrder
<1>5. node'[x] = node[x]  BY <1>1, <1>4, DoneStands
<1>. QED  BY <1>4, <1>5 DEF Done

LEMMA StaysOneSide ==
    ASSUME GraphInv, SourcesPrecede, LedgerStands, ReachesInOrder
    PROVE  OneSide'
<1>. SUFFICES ASSUME NEW b \in Nodes, IsBranch(b), NEW m \in Below[Passed(b)'], Reached(m)' PROVE FALSE
  BY DEF OneSide, IsBranch
<1>0. Passed(b)' \in KidSet(b)
  BY PlacesOfKids DEF Passed, IsBranch
<1>1. /\ Passed(b)' \in Nodes /\ m \in Nodes /\ m \in Below[b] /\ m # b /\ m # Root
  <2>1. Passed(b)' \in Nodes /\ Passed(b)' # Root
    BY <1>0, KidsAreNodes, TreeAssumption DEF IsTree
  <2>2. m \in Below[b] /\ m \in Nodes  BY <1>0, BelowKid, BelowFacts
  <2>3. m # b  BY <1>0, NoCycle
  <2>. QED  BY <2>1, <2>2, <2>3, RootIsTop
<1>2. Reached(m) \/ MayReach(m)  BY <1>1 DEF ReachesInOrder
<1>3. ASSUME ~Reached(m)
      PROVE  \E p \in Below[b] : p \in Nodes /\ m \in KidSet(p) /\ Reached(p) /\ (IsBranch(p) => m = Selected(p))
  <2>1. PICK p \in Nodes : m \in KidSet(p) /\ Reached(p) /\ (IsBranch(p) => m = Selected(p))
    BY <1>1, <1>2, <1>3 DEF MayReach
  <2>. QED  BY <1>1, <2>1, BelowParent
<1>4. SourceStands(b)  BY <1>1, <1>3, SourceSettled
<1>5. Passed(b)' = Passed(b)  BY <1>4, SourceStays
<1>6. \A k \in Below[Passed(b)] : ~Reached(k)  BY DEF GraphInv, OneSide
<1>7. PICK p \in Nodes : m \in KidSet(p) /\ Reached(p) /\ (IsBranch(p) => m = Selected(p))
  BY <1>3, <1>5, <1>6
<1>8. CASE m = Passed(b)
  <2>1. p = b  BY <1>0, <1>5, <1>7, <1>8, OneParent
  <2>. QED  BY <1>7, <1>8, <2>1, SidesOfBranch
<1>9. CASE m # Passed(b)
  <2>1. p \in Below[Passed(b)]  BY <1>1, <1>5, <1>7, <1>9, BelowParent
  <2>. QED  BY <1>6, <1>7, <2>1
<1>. QED  BY <1>8, <1>9

LEMMA StaysPassed ==
    ASSUME GraphInv, SourcesPrecede, LedgerStands, SkipsPassed
    PROVE  SkippedIsPassed'
<1>. SUFFICES ASSUME NEW m \in Nodes, Skipped(m)'
              PROVE  \E b \in Nodes : IsBranch(b) /\ m \in Below[Passed(b)'] /\ SourceStands(b)'
  BY DEF SkippedIsPassed, IsBranch
<1>1. \E b \in Nodes : IsBranch(b) /\ m \in Below[Passed(b)] /\ SourceStands(b)
  <2>1. CASE Skipped(m)  BY <2>1 DEF GraphInv, SkippedIsPassed
  <2>2. ASSUME NEW b \in Nodes, IsBranch(b), Reached(b), m \in Below[Passed(b)]
        PROVE  SourceStands(b)
    BY <2>2, BelowFacts, SourceSettled
  <2>. QED  BY <2>1, <2>2 DEF SkipsPassed
<1>. QED  BY <1>1, SourceStays

LEMMA StaysWhole ==
    ASSUME GraphInv, LedgerStands, CompletesWhole, ReturnsDone
    PROVE  DoneIsWhole' /\ GoodIsDone'
<1>1. ASSUME NEW d \in Nodes, Done(d) PROVE Done(d)' /\ \A m \in Below[d] : Marked(m)'
  <2>1. \A m \in Below[d] : node'[m] = node[m] /\ Marked(m)  BY <1>1, DoneStands DEF GraphInv, DoneIsWhole
  <2>2. d \in Below[d]  BY BelowFacts
  <2>. QED  BY <1>1, <2>1, <2>2 DEF Done, Marked
<1>2. DoneIsWhole'  BY <1>1 DEF DoneIsWhole, CompletesWhole
<1>3. GoodIsDone'  BY <1>1 DEF GraphInv, GoodIsDone, ReturnsDone
<1>. QED  BY <1>2, <1>3

LEMMA StaysMarked ==
    ASSUME GraphInv, SourcesPrecede, LedgerStands, MarksFirst
    PROVE  PassedIsMarked'
<1>. SUFFICES ASSUME main' = "await", NEW b \in Nodes, IsBranch(b), Engaged(b)', NEW m \in Below[Passed(b)']
              PROVE  Marked(m)'
  BY DEF PassedIsMarked, IsBranch, Engaged, Idle
<1>1. Reached(b) /\ \A k \in Below[Passed(b)] : Marked(k)
  <2>1. CASE main = "await" /\ Engaged(b)
    BY <2>1 DEF GraphInv, PassedIsMarked, Engaged, Reached, Idle
  <2>. QED  BY <2>1 DEF MarksFirst
<1>2. Passed(b)' = Passed(b)  BY <1>1, BelowFacts, SourceSettled, SourceStays
<1>3. Marked(m) /\ m \in Nodes  BY <1>1, <1>2, SidesOfBranch, BelowFacts
<1>4. ~Reached(m)  BY <1>2 DEF GraphInv, OneSide
<1>5. node'[m] = node[m]  BY <1>3, <1>4 DEF LedgerStands, Reached
<1>. QED  BY <1>3, <1>5 DEF Marked

LEMMA OrderlyKeeps ==
    ASSUME GraphInv, SourcesPrecede, Orderly
    PROVE  /\ InOrder' /\ OneSide' /\ SkippedIsPassed'
           /\ DoneIsWhole' /\ GoodIsDone' /\ PassedIsMarked'
BY StaysInOrder, StaysOneSide, StaysPassed, StaysWhole, StaysMarked DEF Orderly

-----------------------------------------------------------------------------
(* A step of a frame                                                        *)

CallsNow(n, c) == baton = n /\ pc[n] = "run" /\ c \in KidSet(n) /\ RunStep(c)

\* A frame writes its own node or marks an open one, completes itself only when all below
\* it is marked, and calls a child in its turn.
Honest(n) ==
    /\ \A m \in Nodes : node'[m] = node[m] \/ ~Marked(m) \/ (m = n /\ ~Settled(n))
    /\ \A m \in Nodes : Skipped(m)' => Skipped(m) \/ (IsBranch(n) /\ m \in Below[Passed(n)])
    /\ \A m \in Nodes : Done(m)' => Done(m) \/ (m = n /\ \A k \in Below[n] : Marked(k)')
    /\ ReturnsDone
    /\ \A c \in Nodes : CallsNow(n, c) =>
           /\ \A x \in Graph!Before(c) : Done(x)
           /\ IsBranch(n) => c = Selected(n) /\ \A m \in Below[Passed(n)] : Marked(m)

\* A step starts frames only of children, one that it calls or all that it gathers.
LEMMA NewFrames ==
    ASSUME WorkflowInv, NEW n \in Nodes, Moved(n), NEW m \in Nodes, ~Idle(m)', Idle(m), m # n
    PROVE  m \in KidSet(n) /\ (Kind[n] \in Gathering \/ CallsNow(n, m))
<1>0. FrameTypes /\ main = "await"  BY AwaitFacts DEF Moved
<1>1. pc[m] = "none" /\ pc'[m] # "none"  BY DEF Idle
<1>2. CASE Calls(n)
  <2>1. PICK c \in KidSet(n) : RunStep(c)  BY <1>2 DEF Calls
  <2>2. m = c  BY <1>0, <1>1, <2>1, RunStepFacts, KidsAreNodes
  <2>. QED  BY <1>2, <2>1, <2>2 DEF Calls, CallsNow
<1>3. CASE Forks(n)  BY <1>0, <1>1, <1>3 DEF Forks, Scatter
<1>4. CASE Returns(n)  BY <1>0, <1>1, <1>4, ReturnFacts DEF Returns
<1>5. CASE Goes(n)  BY <1>0, <1>1, <1>5, EnterFacts DEF Goes, Frames
<1>6. CASE Wakes(n)  BY <1>0, <1>1, <1>6, EnterFacts DEF Wakes, Frames
<1>7. CASE Starts(n) \/ Waits(n)  BY <1>0, <1>1, <1>7 DEF Starts, Waits, FrameTypes
<1>8. CASE Stays(n)  BY <1>1, <1>8 DEF Stays
<1>. QED  BY <1>2, <1>3, <1>4, <1>5, <1>6, <1>7, <1>8 DEF Moved, Shape

LEMMA NewlyEngaged ==
    ASSUME WorkflowInv, NEW n \in Nodes, Moved(n), ~Idle(n), NEW b \in Nodes, IsBranch(b), Engaged(b)'
    PROVE  Engaged(b) \/ (b = n /\ \E c \in KidSet(n) : CallsNow(n, c))
<1>0. /\ FrameTypes /\ FramesNest /\ main = "await" /\ Kind[b] = "branch"
      /\ KidSet(b) \subseteq Nodes /\ b \notin KidSet(b)
  BY AwaitFacts, KidsAreNodes, NotOwnKid DEF Moved, IsBranch
<1>1. PICK k \in KidSet(b) : pc'[b] = "run" /\ (pc'[k] # "none" \/ outcome'[k] # "none")
  BY DEF Engaged, Idle
<1>2. CASE Returns(n)
  <2>1. PICK o \in Outcomes : Return(n, o)  BY <1>2 DEF Returns
  <2>2. /\ pc'[n] = "none" /\ \A m \in Nodes \ {n} : pc'[m] = pc[m] /\ outcome'[m] = outcome[m]
    BY <1>0, <2>1, ReturnFacts
  <2>. QED  BY <1>0, <1>1, <2>2 DEF Engaged, Idle
<1>3. CASE Calls(n)
  <2>1. PICK c \in KidSet(n) : RunStep(c)  BY <1>3 DEF Calls
  <2>2. c \in Nodes /\ CallsNow(n, c)  BY <1>3, <2>1, KidsAreNodes DEF Calls, CallsNow
  <2>3. /\ pc'[c] = "call" /\ \A m \in Nodes \ {c} : pc'[m] = pc[m] /\ outcome'[m] = outcome[m]
    BY <1>0, <2>1, <2>2, RunStepFacts
  <2>4. CASE b = n  BY <2>2, <2>4
  <2>5. CASE b # n
    <3>1. c \notin KidSet(b)  BY <2>5, OneParent
    <3>2. b # c  BY <1>1, <2>3
    <3>. QED  BY <1>0, <1>1, <2>3, <3>1, <3>2 DEF Engaged, Idle
  <2>. QED  BY <2>4, <2>5
<1>4. CASE Goes(n)
  <2>1. PICK q \in {"call", "semaphore", "host"}, d \in {n, Free} : Enter(n, q, d)  BY <1>4 DEF Goes
  <2>2. pc'[n] = q /\ outcome' = outcome /\ \A m \in Nodes \ {n} : pc'[m] = pc[m]
    BY <1>0, <2>1, EnterFacts DEF Enter, Frames
  <2>. QED  BY <1>0, <1>1, <2>2 DEF Engaged, Idle
<1>5. CASE Wakes(n)
  <2>1. pc[n] = "sleep" /\ Kind[n] = "retry"  BY <1>5, AwaitFacts DEF Wakes, Fits, Moved
  <2>2. outcome' = outcome /\ \A m \in Nodes \ {n} : pc'[m] = pc[m]
    BY <1>0, <1>5, EnterFacts DEF Wakes, Enter, Frames
  <2>. QED  BY <1>0, <1>1, <2>1, <2>2 DEF Engaged, Idle
<1>6. CASE Starts(n)
  <2>1. /\ pc[n] = "call" /\ \A m \in Nodes \ {n} : pc'[m] = pc[m]
        /\ \A m \in Nodes : outcome'[m] = IF m \in KidSet(n) THEN "none" ELSE outcome[m]
    BY <1>0, <1>6 DEF Starts, FrameTypes
  <2>2. NoKid(n)  BY <1>0, <2>1 DEF FramesNest, Nests
  <2>3. CASE b = n  BY <1>0, <1>1, <2>1, <2>2, <2>3 DEF NoKid, Idle
  <2>4. CASE b # n  BY <1>0, <1>1, <2>1, <2>4 DEF Engaged, Idle
  <2>. QED  BY <2>3, <2>4
<1>7. CASE Forks(n)
  <2>1. /\ pc'[n] = "gather" /\ outcome' = outcome /\ Kind[n] \in Gathering
        /\ \A m \in Nodes : m # n => pc'[m] = IF m \in KidSet(n) THEN "ready" ELSE pc[m]
    BY <1>7 DEF Forks, Scatter
  <2>2. b # n /\ b \notin KidSet(n)  BY <1>1, <2>1
  <2>3. k \notin KidSet(n)  BY <2>2, OneParent
  <2>. QED  BY <1>0, <1>1, <2>1, <2>2, <2>3 DEF Engaged, Idle
<1>8. CASE Waits(n)
  <2>1. /\ \A m \in Nodes \ {n} : pc'[m] = pc[m]
        /\ \A m \in Nodes : outcome'[m] \in {"none", outcome[m]}
        /\ Kind[n] = "retry"
    BY <1>0, <1>8, KidsAreNodes DEF Waits, FrameTypes
  <2>. QED  BY <1>0, <1>1, <2>1 DEF Engaged, Idle
<1>9. CASE Stays(n)  BY <1>0, <1>1, <1>9 DEF Stays, Engaged, Idle
<1>. QED  BY <1>2, <1>3, <1>4, <1>5, <1>6, <1>7, <1>8, <1>9 DEF Moved, Shape

LEMMA HonestIsOrderly ==
    ASSUME GraphInv, NEW n \in Nodes, Moved(n), ~Idle(n), Honest(n)
    PROVE  Orderly
<1>1. main = "await" /\ main' = "await" /\ Reached(n) /\ WorkflowInv  BY DEF Moved, Reached, GraphInv
<1>2. LedgerStands  BY <1>1 DEF Honest, LedgerStands
<1>3. ReachesInOrder
  <2>. SUFFICES ASSUME NEW m \in Nodes, Reached(m)', ~Reached(m) PROVE MayReach(m)
    BY DEF ReachesInOrder
  <2>1. ~Done(m)'  BY <1>1 DEF Honest, Reached
  <2>2. ~Idle(m)' /\ Idle(m) /\ m # n  BY <1>1, <2>1 DEF Reached
  <2>3. m \in KidSet(n) /\ (Kind[n] \in Gathering \/ CallsNow(n, m))  BY <1>1, <2>2, NewFrames
  <2>4. CASE Kind[n] \in Gathering
    <3>1. Graph!Before(m) = {}
      <4>1. ASSUME NEW x \in Graph!Before(m) PROVE FALSE
        <5>1. PICK p \in Nodes : Kind[p] \in {"sequence", "gate"} /\ m \in KidSet(p)  BY BeforeFacts
        <5>2. p = n  BY <2>3, <5>1, OneParent
        <5>. QED  BY <2>4, <5>1, <5>2 DEF Gathering
      <4>. QED  BY <4>1
    <3>2. ~IsBranch(n)  BY <2>4 DEF IsBranch, Gathering
    <3>. QED  BY <1>1, <2>3, <3>1, <3>2 DEF MayReach
  <2>5. CASE CallsNow(n, m)  BY <1>1, <2>3, <2>5 DEF Honest, MayReach
  <2>. QED  BY <2>3, <2>4, <2>5
<1>4. SkipsPassed  BY <1>1 DEF SkipsPassed, Honest
<1>5. CompletesWhole  BY DEF CompletesWhole, Honest
<1>6. ReturnsDone  BY DEF Honest
<1>7. MarksFirst
  <2>. SUFFICES ASSUME NEW b \in Nodes, IsBranch(b), Engaged(b)', ~Engaged(b)
                PROVE  Reached(b) /\ \A m \in Below[Passed(b)] : Marked(m)
    BY <1>1 DEF MarksFirst
  <2>1. b = n /\ \E c \in KidSet(n) : CallsNow(n, c)  BY <1>1, NewlyEngaged
  <2>. QED  BY <1>1, <2>1, KidsAreNodes DEF Honest
<1>. QED  BY <1>2, <1>3, <1>4, <1>5, <1>6, <1>7 DEF Orderly

\* What a step of a frame does to the graph.
StepsStay == \A m \in Nodes : (Done(m)' <=> Done(m)) /\ (Skipped(m)' <=> Skipped(m))
Completion(n) ==
    /\ ~Done(n) /\ ~Skipped(n) /\ Done(n)' /\ ~Skipped(n)' /\ Graph!Earned(n)
    /\ \A m \in Nodes \ {n} : node'[m] = node[m]
Skipping(n) ==
    /\ IsBranch(n)
    /\ \E m \in Below[Passed(n)] :
        /\ Idle(m) /\ ~Done(m) /\ ~Skipped(m) /\ Skipped(m)' /\ ~Done(m)'
        /\ \A k \in Nodes \ {m} : node'[k] = node[k]
Fair(n) == Honest(n) /\ (StepsStay \/ Completion(n) \/ Skipping(n))

LEMMA ReachedIsOpen ==
    ASSUME GraphInv, NEW m \in Nodes, Reached(m)
    PROVE  ~Skipped(m)
BY DEF GraphInv, SkippedIsPassed, OneSide

\* Good outcomes are of steps whose subtree is marked.
LEMMA GoodIsMarked ==
    ASSUME GraphInv, NEW k \in Nodes, outcome[k] \in Good
    PROVE  Done(k) /\ \A m \in Below[k] : Marked(m)
BY DEF GraphInv, GoodIsDone, DoneIsWhole

LEMMA NotCalling ==
    ASSUME WorkflowInv, main = "await", NEW n \in Nodes,
           baton = n /\ pc[n] = "run" => baton' = Free \/ \A c \in KidSet(n) : pc'[c] = pc[c]
    PROVE  \A c \in Nodes : ~CallsNow(n, c)
<1>. SUFFICES ASSUME NEW c \in Nodes, CallsNow(n, c) PROVE FALSE  OBVIOUS
<1>1. FrameTypes  BY AwaitFacts
<1>2. pc[c] = "none"  BY RunFacts DEF CallsNow, NoKid, Idle
<1>3. pc'[c] = "call" /\ baton' = c /\ c # Free  BY <1>1, RunStepFacts, NodeFacts DEF CallsNow
<1>. QED  BY <1>2, <1>3 DEF CallsNow

LEMMA KeepsFair ==
    ASSUME NEW n \in Nodes, UNCHANGED node, ReturnsDone, \A c \in Nodes : ~CallsNow(n, c)
    PROVE  Fair(n)
BY DEF Fair, Honest, StepsStay, Done, Skipped

LEMMA WritesFair ==
    ASSUME NEW n \in Nodes, ~Settled(n), \A m \in Nodes \ {n} : node'[m] = node[m], ~Skipped(n)',
           Done(n)' => Graph!Earned(n) /\ \A k \in KidSet(n) : \A m \in Below[k] : Marked(m),
           ReturnsDone, \A c \in Nodes : ~CallsNow(n, c)
    PROVE  Fair(n)
<1>1. ~Done(n) /\ ~Skipped(n)  BY DEF Settled, Done, Skipped
<1>2. ASSUME Done(n)', NEW m \in Below[n] PROVE Marked(m)'
  <2>1. m \in Nodes  BY BelowFacts
  <2>2. CASE m = n  BY <1>2, <2>2 DEF Done, Marked, Unmarkable
  <2>3. CASE m # n
    <3>1. Marked(m)  BY <1>2, <2>3, BelowSplits
    <3>2. node'[m] = node[m]  BY <2>1, <2>3
    <3>. QED  BY <3>1, <3>2 DEF Marked
  <2>. QED  BY <2>2, <2>3
<1>3. Honest(n)
  <2>1. \A m \in Nodes : node'[m] = node[m] \/ (m = n /\ ~Settled(n))  OBVIOUS
  <2>2. \A m \in Nodes : Skipped(m)' => Skipped(m)  BY DEF Skipped
  <2>3. \A m \in Nodes : Done(m)' => Done(m) \/ (m = n /\ \A k \in Below[n] : Marked(k)')
    BY <1>2 DEF Done
  <2>. QED  BY <2>1, <2>2, <2>3 DEF Honest
<1>4. StepsStay \/ Completion(n)
  <2>1. CASE Done(n)'  BY <1>1, <2>1 DEF Completion
  <2>2. CASE ~Done(n)'
    <3>1. \A m \in Nodes : (Done(m)' <=> Done(m)) /\ (Skipped(m)' <=> Skipped(m))
      BY <1>1, <2>2 DEF Done, Skipped
    <3>. QED  BY <3>1 DEF StepsStay
  <2>. QED  BY <2>1, <2>2
<1>. QED  BY <1>3, <1>4 DEF Fair

LEMMA ReturnsFair ==
    ASSUME WorkflowInv, main = "await", NEW n \in Nodes, ~Settled(n),
           NEW o \in Outcomes, Return(n, o), o \in Good => Done(n)', ~Skipped(n)',
           \A m \in Nodes \ {n} : node'[m] = node[m],
           Done(n)' => Graph!Earned(n) /\ \A k \in KidSet(n) : \A m \in Below[k] : Marked(m)
    PROVE  Fair(n)
<1>1. FrameTypes  BY AwaitFacts
<1>2. outcome'[n] = o /\ \A m \in Nodes \ {n} : pc'[m] = pc[m] /\ outcome'[m] = outcome[m]
  BY <1>1, ReturnFacts
<1>3. ReturnsDone  BY <1>2 DEF ReturnsDone
<1>4. \A c \in Nodes : ~CallsNow(n, c)  BY <1>2, NotCalling, NotOwnKid, KidsAreNodes
<1>. QED  BY <1>3, <1>4, WritesFair

LEMMA FinishesFair ==
    ASSUME WorkflowInv, main = "await", NEW n \in Nodes, pc[n] \in {"run", "gather"},
           NEW o \in {"ok", "approved"},
           \/ Fails(n)
           \/ /\ Completes(n, o) /\ Graph!Earned(n)
              /\ \A k \in KidSet(n) : \A m \in Below[k] : Marked(m)
    PROVE  Fair(n)
<1>1. LedgerTypes /\ node[n].status = "running" /\ n \in AllNodes  BY AwaitFacts, NodeFacts DEF Fits, Begun
<1>2. ~Settled(n)  BY <1>1 DEF Settled
<1>3. CASE Fails(n)
  <2>1. node'[n].status = "failed" /\ \A m \in AllNodes \ {n} : node'[m] = node[m]
    BY <1>1, <1>3, EventFacts DEF Fails, NodeStatus
  <2>2. \A m \in Nodes \ {n} : node'[m] = node[m]  BY <2>1, NodeFacts
  <2>3. ~Done(n)' /\ ~Skipped(n)'  BY <2>1 DEF Done, Skipped
  <2>. QED  BY <1>2, <1>3, <2>2, <2>3, ReturnsFair DEF Fails, Outcomes, Good
<1>4. CASE ~Fails(n)
  <2>0. Completes(n, o) /\ Graph!Earned(n) /\ \A k \in KidSet(n) : \A m \in Below[k] : Marked(m)
    BY <1>4
  <2>1. node'[n].status = "completed" /\ \A m \in AllNodes \ {n} : node'[m] = node[m]
    BY <1>1, <2>0, EventFacts DEF Completes, NodeStatus
  <2>2. \A m \in Nodes \ {n} : node'[m] = node[m]  BY <2>1, NodeFacts
  <2>3. Done(n)' /\ ~Skipped(n)'  BY <2>1 DEF Done, Skipped
  <2>4. Return(n, o) /\ o \in Outcomes  BY <2>0 DEF Completes, Outcomes
  <2>. QED  BY <1>2, <2>0, <2>2, <2>3, <2>4, ReturnsFair
<1>. QED  BY <1>3, <1>4

LEMMA MarksFair ==
    ASSUME WorkflowInv, main = "await", NEW n \in Nodes, baton = n, pc[n] = "run", Stay,
           NEW trees, \A m \in trees : m \in Nodes /\ Idle(m), NEW s \in {"blocked", "skipped"},
           s = "skipped" => IsBranch(n) /\ trees = Below[Passed(n)], Mark(trees, s)
    PROVE  Fair(n)
<1>1. LedgerTypes  BY AwaitFacts
<1>2. PICK m \in trees : Event(m, s) /\ node[m].status \notin Unmarkable  BY DEF Mark, First, Unmarked
<1>3. m \in Nodes /\ Idle(m)  BY <1>2
<1>4. node'[m].status = s /\ \A k \in Nodes \ {m} : node'[k] = node[k]
  BY <1>1, <1>2, <1>3, EventFacts, NodeFacts DEF NodeStatus
<1>5. ~Marked(m) /\ ~Done(m) /\ ~Skipped(m)  BY <1>2 DEF Marked, Done, Skipped, Unmarkable
<1>6. ~Done(m)' /\ (Skipped(m)' <=> s = "skipped")  BY <1>4 DEF Done, Skipped
<1>7. ReturnsDone  BY DEF ReturnsDone, Stay
<1>8. \A c \in Nodes : ~CallsNow(n, c)  BY NotCalling DEF Stay
<1>9. Honest(n)
  <2>1. \A k \in Nodes : node'[k] = node[k] \/ ~Marked(k)  BY <1>4, <1>5
  <2>2. \A k \in Nodes : Skipped(k)' => Skipped(k) \/ (IsBranch(n) /\ k \in Below[Passed(n)])
    BY <1>2, <1>4, <1>6 DEF Skipped
  <2>3. \A k \in Nodes : Done(k)' => Done(k)  BY <1>4, <1>6 DEF Done
  <2>. QED  BY <1>7, <1>8, <2>1, <2>2, <2>3 DEF Honest
<1>10. StepsStay \/ Skipping(n)
  <2>1. CASE s = "skipped"  BY <1>2, <1>3, <1>4, <1>5, <1>6, <2>1 DEF Skipping
  <2>2. CASE s = "blocked"
    <3>1. \A k \in Nodes : (Done(k)' <=> Done(k)) /\ (Skipped(k)' <=> Skipped(k))
      BY <1>4, <1>5, <1>6, <2>2 DEF Done, Skipped
    <3>. QED  BY <3>1 DEF StepsStay
  <2>. QED  BY <2>1, <2>2
<1>. QED  BY <1>9, <1>10 DEF Fair

LEMMA CallsFair ==
    ASSUME WorkflowInv, main = "await", NEW n \in Nodes, NEW c \in KidSet(n), RunStep(c), KeepLedger,
           \A x \in Graph!Before(c) : Done(x),
           IsBranch(n) => c = Selected(n) /\ \A m \in Below[Passed(n)] : Marked(m)
    PROVE  Fair(n)
<1>1. FrameTypes /\ c \in Nodes  BY AwaitFacts, KidsAreNodes
<1>2. /\ outcome'[c] = "none" /\ baton' = c
      /\ \A m \in Nodes \ {c} : outcome'[m] = outcome[m]
  BY <1>1, RunStepFacts
<1>3. ReturnsDone  BY <1>2 DEF ReturnsDone, Good
<1>4. ASSUME NEW d \in Nodes, CallsNow(n, d) PROVE d = c
  BY <1>1, <1>2, <1>4, RunStepFacts DEF CallsNow
<1>5. Honest(n)  BY <1>3, <1>4 DEF Honest, KeepLedger, Done, Skipped
<1>6. StepsStay  BY DEF StepsStay, KeepLedger, Done, Skipped
<1>. QED  BY <1>5, <1>6 DEF Fair

LEMMA SequenceFair ==
    ASSUME GraphInv, main = "await", NEW n \in Nodes, baton = n, pc[n] = "run",
           Kind[n] = "sequence", Sequence(n)
    PROVE  Fair(n)
<1>0. WorkflowInv /\ ~IsBranch(n)  BY DEF GraphInv, IsBranch
<1>1. ASSUME \A k \in KidSet(n) : outcome[k] \in Good, Completes(n, "ok") PROVE Fair(n)
  <2>1. \A k \in KidSet(n) : Done(k) /\ \A m \in Below[k] : Marked(m)
    BY <1>1, GoodIsMarked, KidsAreNodes
  <2>2. Graph!Earned(n)
    BY <2>1, KidsAreNodes DEF Graph!Earned, Graph!KidSet, KidSet, Range, Done
  <2>. QED  BY <1>0, <1>1, <2>1, <2>2, FinishesFair
<1>2. ASSUME NEW i \in DOMAIN Kids[n], MarkThenFail(n, LaterThan(n, i)) PROVE Fair(n)
  <2>1. Kids[n] \in Seq(Nodes)  BY WorkflowAssumption
  <2>2. ASSUME NEW m \in LaterThan(n, i) PROVE \E k \in KidSet(n) : m \in Below[k]
    <3>1. PICK j \in i + 1 .. Len(Kids[n]) : m \in Below[Kids[n][j]]  BY DEF LaterThan
    <3>2. j \in DOMAIN Kids[n]  BY <2>1, <3>1
    <3>. QED  BY <3>1, <3>2, KidsAreNodes
  <2>3. \A m \in LaterThan(n, i) : m \in Nodes /\ Idle(m)  BY <1>0, <2>2, RunFacts
  <2>4. CASE Mark(LaterThan(n, i), "blocked") /\ Stay  BY <1>0, <2>3, <2>4, MarksFair
  <2>5. CASE Fails(n)  BY <1>0, <2>5, FinishesFair
  <2>. QED  BY <1>2, <2>4, <2>5 DEF MarkThenFail
<1>3. ASSUME NEW i \in DOMAIN Kids[n], \A j \in 1 .. i - 1 : outcome[Kids[n][j]] \in Good,
             RunStep(Kids[n][i]), KeepLedger
      PROVE  Fair(n)
  <2>0. Kids[n] \in Seq(Nodes)  BY WorkflowAssumption
  <2>1. ASSUME NEW x \in Graph!Before(Kids[n][i]) PROVE Done(x)
    <3>1. PICK j \in DOMAIN Kids[n] : j < i /\ x = Kids[n][j]  BY BeforeKid
    <3>2. j \in 1 .. i - 1 /\ x \in Nodes  BY <2>0, <3>1
    <3>. QED  BY <1>3, <3>1, <3>2, GoodIsMarked
  <2>. QED  BY <1>0, <1>3, <2>1, CallsFair, KidsAreNodes
<1>. QED  BY <1>1, <1>2, <1>3 DEF Sequence

LEMMA BranchFair ==
    ASSUME GraphInv, main = "await", NEW n \in Nodes, baton = n, pc[n] = "run",
           Kind[n] = "branch", Branch(n)
    PROVE  Fair(n)
<1>0. /\ WorkflowInv /\ IsBranch(n) /\ KidSet(n) = {Selected(n), Passed(n)}
      /\ Selected(n) \in Nodes /\ Passed(n) \in Nodes
  BY SidesOfBranch DEF GraphInv, IsBranch
<1>1. ASSUME NEW k \in KidSet(n), outcome[k] \in Good, Completes(n, "ok") PROVE Fair(n)
  <2>1. k \in Nodes /\ Done(k) /\ \A m \in Below[k] : Marked(m)
    BY <1>1, GoodIsMarked, KidsAreNodes
  <2>2. k # Passed(n)
    BY <1>0, <2>1, BelowFacts DEF GraphInv, OneSide, Reached
  <2>3. \A m \in Below[Passed(n)] : Marked(m)
    BY <1>0, <1>1 DEF GraphInv, PassedIsMarked, Good
  <2>4. Graph!Earned(n)
    BY <1>0, <1>1, <2>1 DEF Graph!Earned, Graph!KidSet, KidSet, Range, Done, IsBranch
  <2>. QED  BY <1>0, <1>1, <2>1, <2>2, <2>3, <2>4, FinishesFair
<1>2. CASE Fails(n)  BY <1>0, <1>2, FinishesFair
<1>3. CASE Mark(Below[Passed(n)], "skipped") /\ Stay
  BY <1>0, <1>3, RunFacts, MarksFair
<1>4. ASSUME Unmarked(Below[Passed(n)]) = {}, RunStep(Selected(n)), KeepLedger PROVE Fair(n)
  <2>1. ASSUME NEW x \in Graph!Before(Selected(n)) PROVE FALSE
    <3>1. PICK p \in Nodes : Kind[p] \in {"sequence", "gate"} /\ Selected(n) \in KidSet(p)
      BY <1>0, BeforeFacts
    <3>2. p = n  BY <1>0, <3>1, OneParent
    <3>. QED  BY <3>1, <3>2
  <2>2. \A m \in Below[Passed(n)] : Marked(m)  BY <1>4 DEF Unmarked, Marked
  <2>. QED  BY <1>0, <1>4, <2>1, <2>2, CallsFair
<1>. QED  BY <1>1, <1>2, <1>3, <1>4 DEF Branch

LEMMA RetryFair ==
    ASSUME GraphInv, main = "await", NEW n \in Nodes, baton = n, pc[n] = "run",
           Kind[n] = "retry", Retry(n)
    PROVE  Fair(n)
<1>. DEFINE c == Kids[n][1]
<1>0. /\ WorkflowInv /\ ~IsBranch(n) /\ c \in KidSet(n) /\ c \in Nodes /\ c # n /\ FrameTypes
      /\ KidSet(n) = {c}
  <2>1. WorkflowInv /\ ~IsBranch(n) /\ c \in KidSet(n)  BY PlacesOfKids DEF GraphInv, IsBranch
  <2>2. Kids[n] \in Seq(Nodes) /\ Len(Kids[n]) \in {1}  BY WorkflowAssumption DEF Arity
  <2>3. DOMAIN Kids[n] = {1}  BY <2>2
  <2>4. KidSet(n) = {c}  BY <2>3 DEF KidSet, Range
  <2>. QED  BY <2>1, <2>4, AwaitFacts, KidsAreNodes, NotOwnKid
<1>1. ASSUME outcome[c] \in Good, Completes(n, "ok") PROVE Fair(n)
  <2>1. Done(c) /\ \A m \in Below[c] : Marked(m)  BY <1>0, <1>1, GoodIsMarked
  <2>2. Graph!Earned(n)
    BY <1>0, <2>1 DEF Graph!Earned, Graph!KidSet, KidSet, Range, Done
  <2>. QED  BY <1>0, <1>1, <2>1, <2>2, FinishesFair
<1>2. CASE Fails(n)  BY <1>0, <1>2, FinishesFair
<1>3. ASSUME pc' = [pc EXCEPT ![n] = IF Backoff THEN "sleep" ELSE "run"],
             outcome' = [outcome EXCEPT ![c] = "none"], KeepLedger
      PROVE  Fair(n)
  <2>1. \A k \in KidSet(n) : pc'[k] = pc[k]  BY <1>0, <1>3
  <2>2. \A k \in Nodes : outcome'[k] \in {"none", outcome[k]}  BY <1>0, <1>3 DEF FrameTypes
  <2>3. ReturnsDone  BY <2>2 DEF ReturnsDone, Good
  <2>4. \A k \in Nodes : ~CallsNow(n, k)  BY <1>0, <2>1, NotCalling
  <2>. QED  BY <1>3, <2>3, <2>4, KeepsFair DEF KeepLedger
<1>4. ASSUME RunStep(c), KeepLedger PROVE Fair(n)
  <2>1. ASSUME NEW x \in Graph!Before(c) PROVE FALSE
    <3>1. PICK p \in Nodes : Kind[p] \in {"sequence", "gate"} /\ c \in KidSet(p)
      BY <1>0, BeforeFacts
    <3>2. p = n  BY <1>0, <3>1, OneParent
    <3>. QED  BY <3>1, <3>2
  <2>. QED  BY <1>0, <1>4, <2>1, CallsFair
<1>. QED  BY <1>1, <1>2, <1>3, <1>4 DEF Retry

LEMMA GateFair ==
    ASSUME GraphInv, main = "await", NEW n \in Nodes, baton = n, pc[n] = "run",
           Kind[n] = "gate", Gate(n)
    PROVE  Fair(n)
<1>. DEFINE target == Kids[n][1]
            reviewer == Kids[n][2]
<1>0. /\ WorkflowInv /\ ~IsBranch(n) /\ KidSet(n) = {target, reviewer} /\ DOMAIN Kids[n] = {1, 2}
      /\ target \in Nodes /\ reviewer \in Workers /\ reviewer \in Nodes
  <2>1. Kids[n] \in Seq(Nodes) /\ Len(Kids[n]) \in {2}  BY WorkflowAssumption DEF Arity
  <2>2. DOMAIN Kids[n] = {1, 2}  BY <2>1
  <2>3. KidSet(n) = {target, reviewer}  BY <2>2 DEF KidSet, Range
  <2>. QED  BY <2>2, <2>3, KidsAreNodes, WorkflowAssumption DEF GraphInv, IsBranch
<1>1. ASSUME outcome[target] \in Good, outcome[reviewer] = "approved", Completes(n, "approved")
      PROVE  Fair(n)
  <2>1. \A k \in KidSet(n) : Done(k) /\ \A m \in Below[k] : Marked(m)
    BY <1>0, <1>1, GoodIsMarked DEF Good
  <2>2. reviewer \in Reviewers /\ rec[reviewer].status = "completed" /\ rec[reviewer].answer
    BY <1>0, <1>1 DEF GraphInv, ApprovalsAreRecorded
  <2>3. Graph!Earned(n)
    BY <1>0, <2>1, <2>2 DEF Graph!Earned, Graph!KidSet, KidSet, Range, Done
  <2>. QED  BY <1>0, <1>1, <2>1, <2>3, FinishesFair
<1>2. CASE Fails(n)  BY <1>0, <1>2, FinishesFair
<1>3. CASE MarkThenFail(n, {reviewer})
  <2>1. \A m \in {reviewer} : m \in Nodes /\ Idle(m)  BY <1>0, RunFacts DEF NoKid
  <2>2. CASE Mark({reviewer}, "blocked") /\ Stay  BY <1>0, <2>1, <2>2, MarksFair
  <2>. QED  BY <1>2, <1>3, <2>2 DEF MarkThenFail
<1>4. ASSUME RunStep(target), KeepLedger PROVE Fair(n)
  <2>1. ASSUME NEW x \in Graph!Before(target) PROVE FALSE
    <3>1. \E i \in DOMAIN Kids[n] : i < 1  BY <1>0, BeforeKid
    <3>. QED  BY <1>0, <3>1
  <2>. QED  BY <1>0, <1>4, <2>1, CallsFair
<1>5. ASSUME outcome[target] \in Good, RunStep(reviewer), KeepLedger PROVE Fair(n)
  <2>1. ASSUME NEW x \in Graph!Before(reviewer) PROVE Done(x)
    <3>1. PICK i \in DOMAIN Kids[n] : i < 2 /\ x = Kids[n][i]  BY <1>0, BeforeKid
    <3>2. x = target  BY <1>0, <3>1
    <3>. QED  BY <1>0, <1>5, <3>2, GoodIsMarked
  <2>. QED  BY <1>0, <1>5, <2>1, CallsFair
<1>. QED  BY <1>1, <1>2, <1>3, <1>4, <1>5 DEF Gate, GatePasses

LEMMA GatherFair ==
    ASSUME GraphInv, main = "await", NEW n \in Nodes, Gather(n)
    PROVE  Fair(n)
<1>0. WorkflowInv /\ pc[n] = "gather" /\ Kind[n] \in Gathering
  BY AwaitFacts DEF GraphInv, Gather, Fits
<1>1. CASE Fails(n)  BY <1>0, <1>1, FinishesFair
<1>2. ASSUME \A k \in KidSet(n) : outcome[k] \in Good, Completes(n, "ok") PROVE Fair(n)
  <2>1. \A k \in KidSet(n) : Done(k) /\ \A m \in Below[k] : Marked(m)
    BY <1>2, GoodIsMarked, KidsAreNodes
  <2>2. Kind[n] \notin {"worker", "branch", "gate"}  BY <1>0 DEF Gathering
  <2>3. Graph!Earned(n)
    BY <2>1, <2>2, KidsAreNodes DEF Graph!Earned, Graph!KidSet, KidSet, Range, Done
  <2>. QED  BY <1>0, <1>2, <2>1, <2>3, FinishesFair
<1>. QED  BY <1>1, <1>2 DEF Gather

LEMMA StepOfFair ==
    ASSUME GraphInv, main = "await", NEW n \in Nodes, StepOf(n)
    PROVE  Fair(n)
<1>1. baton = n /\ pc[n] = "run" /\ WorkflowInv  BY DEF StepOf, GraphInv
<1>2. Kind[n] \in Composite
  BY <1>1, AwaitFacts, NodeFacts, WorkflowAssumption DEF Fits
<1>3. CASE Kind[n] = "sequence"
  BY <1>1, <1>3, SequenceFair DEF StepOf, Gathering
<1>4. CASE Kind[n] = "branch"
  <2>1. Branch(n)  BY <1>4 DEF StepOf, Gathering
  <2>. QED  BY <1>1, <1>4, <2>1, BranchFair
<1>5. CASE Kind[n] = "retry"
  <2>1. Retry(n)  BY <1>5 DEF StepOf, Gathering
  <2>. QED  BY <1>1, <1>5, <2>1, RetryFair
<1>6. CASE Kind[n] = "gate"
  <2>1. Gate(n)  BY <1>6 DEF StepOf, Gathering
  <2>. QED  BY <1>1, <1>6, <2>1, GateFair
<1>7. CASE Kind[n] \in Gathering
  <2>1. Kind[n] \notin {"sequence", "branch", "retry", "gate"}  BY <1>7 DEF Gathering
  <2>2. Scatter(n)  BY <1>7, <2>1 DEF StepOf
  <2>3. ReturnsDone /\ \A c \in Nodes : ~CallsNow(n, c)
    BY <1>1, <2>2, NotCalling DEF ReturnsDone, Scatter
  <2>. QED  BY <2>2, <2>3, KeepsFair DEF Scatter, KeepLedger
<1>. QED  BY <1>2, <1>3, <1>4, <1>5, <1>6, <1>7 DEF Composite, Gathering

LEMMA WorkerIsEarned ==
    ASSUME NEW w \in Workers
    PROVE  Graph!Earned(w) /\ KidSet(w) = {}
<1>1. Kind[w] = "worker"  BY NodeFacts
<1>. QED  BY <1>1, WorkersHaveNoKids DEF Graph!Earned

LEMMA ReuseFair ==
    ASSUME GraphInv, main = "await", NEW n \in Nodes, Reuse(n)
    PROVE  Fair(n)
<1>0. WorkflowInv /\ FrameTypes  BY AwaitFacts DEF GraphInv
<1>1. pc[n] = "call" /\ Settled(n) /\ UNCHANGED node /\ Return(n, RestoredOutcome(n))
  BY DEF Reuse, Reusable, KeepLedger
<1>2. Reached(n)  BY <1>1 DEF Reached, Idle
<1>3. Done(n)  BY <1>1, <1>2, ReachedIsOpen DEF Settled, Done, Skipped
<1>4. RestoredOutcome(n) \in Outcomes  BY DEF RestoredOutcome, Outcomes
<1>5. \A m \in Nodes \ {n} : outcome'[m] = outcome[m]  BY <1>0, <1>1, <1>4, ReturnFacts
<1>6. ReturnsDone  BY <1>1, <1>3, <1>5 DEF ReturnsDone, Done
<1>7. \A c \in Nodes : ~CallsNow(n, c)  BY <1>1 DEF CallsNow
<1>. QED  BY <1>1, <1>6, <1>7, KeepsFair

LEMMA StartsFair ==
    ASSUME GraphInv, main = "await", NEW n \in Nodes, StartComposite(n) \/ StartWorker(n)
    PROVE  Fair(n)
<1>0. LedgerTypes /\ FrameTypes  BY AwaitFacts DEF GraphInv
<1>1. pc[n] = "call" /\ ~Settled(n) /\ Event(n, "running")
  BY DEF StartComposite, StartWorker, Reusable
<1>2. node'[n].status = "running" /\ \A m \in AllNodes \ {n} : node'[m] = node[m]
  BY <1>0, <1>1, EventFacts, NodeFacts DEF NodeStatus
<1>3. \A m \in Nodes \ {n} : node'[m] = node[m]  BY <1>2, NodeFacts
<1>4. ~Done(n)' /\ ~Skipped(n)'  BY <1>2 DEF Done, Skipped
<1>5. \A k \in Nodes : outcome'[k] \in {"none", outcome[k]}
  BY <1>0 DEF StartComposite, StartWorker, Enter, FrameTypes
<1>6. ReturnsDone  BY <1>5 DEF ReturnsDone, Good
<1>7. \A c \in Nodes : ~CallsNow(n, c)  BY <1>1 DEF CallsNow
<1>. QED  BY <1>1, <1>3, <1>4, <1>6, <1>7, WritesFair

LEMMA LimitFair ==
    ASSUME GraphInv, main = "await", NEW n \in Nodes, LimitTokens(n)
    PROVE  Fair(n)
<1>0. LedgerTypes /\ WorkflowInv  BY AwaitFacts DEF GraphInv
<1>1. pc[n] = "call" /\ ~Settled(n) /\ Event(n, "budget_limited") /\ Return(n, "bad")
  BY DEF LimitTokens, Reusable
<1>2. node'[n].status = "budget_limited" /\ \A m \in AllNodes \ {n} : node'[m] = node[m]
  BY <1>0, <1>1, EventFacts, NodeFacts DEF NodeStatus
<1>3. \A m \in Nodes \ {n} : node'[m] = node[m]  BY <1>2, NodeFacts
<1>4. ~Done(n)' /\ ~Skipped(n)'  BY <1>2 DEF Done, Skipped
<1>5. "bad" \in Outcomes /\ "bad" \notin Good  BY DEF Outcomes, Good
<1>. QED  BY <1>0, <1>1, <1>3, <1>4, <1>5, ReturnsFair

LEMMA WaitsFair ==
    ASSUME GraphInv, main = "await", NEW n \in Nodes,
           \/ TakeTurn(n) \/ WakeUp(n) \/ Acquire(n) \/ (\E b \in {n, Free} : InCall(n, b))
    PROVE  Fair(n)
<1>1. UNCHANGED <<node, outcome>> /\ pc[n] # "run"
  BY DEF TakeTurn, WakeUp, Acquire, InCall, Enter, KeepLedger
<1>2. ReturnsDone  BY <1>1 DEF ReturnsDone
<1>3. \A c \in Nodes : ~CallsNow(n, c)  BY <1>1 DEF CallsNow
<1>. QED  BY <1>1, <1>2, <1>3, KeepsFair

LEMMA ResultFair ==
    ASSUME GraphInv, main = "await", NEW n \in Workers, RecordResult(n)
    PROVE  Fair(n)
<1>. DEFINE r == Result(n)
            s == IF Overspent(r) THEN "budget_limited" ELSE r.status
            o == IF s # "completed" THEN "bad"
                 ELSE IF n \in Reviewers /\ r.answer THEN "approved" ELSE "ok"
<1>0. FleetInv /\ LedgerTypes /\ FrameTypes /\ WorkflowInv /\ n \in Nodes /\ Fits(n)
  BY AwaitFacts, NodeFacts DEF GraphInv
<1>1. pc[n] = "host" /\ WorkerEvent(n, s, r) /\ Return(n, o)
  BY DEF RecordResult
<1>2. ~Settled(n)  BY <1>0, <1>1 DEF Fits, Begun, Settled
<1>3. r \in Replies
  BY <1>0 DEF Result, FleetInv, FleetTypeOK, Failure, Reply, Replies, Ended
<1>4. s \in Ended /\ s \in NodeStatus /\ s # "skipped"  BY <1>3 DEF Replies, Ended, NodeStatus
<1>5. o \in Outcomes /\ (o \in Good => s = "completed")  BY DEF Outcomes, Good
<1>. HIDE DEF r, s, o
<1>6. node'[n].status = s /\ \A m \in AllNodes \ {n} : node'[m] = node[m]
  BY <1>0, <1>1, <1>3, <1>4, WorkerEventFacts, NodeFacts
<1>7. \A m \in Nodes \ {n} : node'[m] = node[m]  BY <1>6, NodeFacts
<1>8. ~Skipped(n)' /\ (o \in Good => Done(n)')  BY <1>4, <1>5, <1>6 DEF Skipped, Done
<1>9. Graph!Earned(n) /\ \A k \in KidSet(n) : \A m \in Below[k] : Marked(m)  BY WorkerIsEarned
<1>. QED  BY <1>0, <1>1, <1>2, <1>5, <1>7, <1>8, <1>9, ReturnsFair

LEMMA FramesAreFair ==
    ASSUME GraphInv, NEW n \in Nodes, Frame(n) \/ (n \in Workers /\ TimeOut(n))
    PROVE  main = "await" /\ Moved(n) /\ ~Idle(n) /\ Fair(n)
<1>0. WorkflowInv  BY DEF GraphInv
<1>1. main = "await" /\ Moved(n)
  <2>1. CASE Frame(n)  BY <1>0, <2>1, FrameSteps DEF Moved
  <2>2. CASE n \in Workers /\ TimeOut(n)  BY <1>0, <2>2, InCalls DEF TimeOut
  <2>. QED  BY <2>1, <2>2
<1>2. ~Idle(n)
  BY DEF Frame, Running, Resume, Deliver, TimeOut, Reuse, StartComposite, StepOf, LimitTokens, StartWorker,
         RunsCall, ResumesCall, InCall, TakeTurn, Gather, WakeUp, Acquire, RecordResult, Idle
<1>3. Fair(n)
  <2>1. CASE RunsCall(n) \/ ResumesCall(n) \/ TimeOut(n)
    BY <1>1, <2>1, WaitsFair DEF RunsCall, ResumesCall, TimeOut
  <2>2. CASE Running(n)
    BY <1>1, <2>1, <2>2, ReuseFair, StartsFair, StepOfFair, LimitFair DEF Running
  <2>3. CASE Resume(n)
    BY <1>1, <2>1, <2>3, WaitsFair, GatherFair DEF Resume
  <2>4. CASE Deliver(n)  BY <1>1, <2>4, ResultFair DEF Deliver
  <2>. QED  BY <2>1, <2>2, <2>3, <2>4 DEF Frame
<1>. QED  BY <1>1, <1>2, <1>3

-----------------------------------------------------------------------------
(* A step of no frame                                                       *)

Other ==
    \/ Run \/ Submit \/ Restart \/ WallTime \/ (\E n \in Workers : Cancelling(n))
    \/ UNCHANGED vars

\* It writes only nodes that are neither done nor skipped, and starts at most the root.
Calm ==
    /\ \A m \in Nodes : node'[m] = node[m] \/ (~Marked(m) /\ ~Done(m)' /\ ~Skipped(m)')
    /\ \A k \in Nodes : outcome'[k] \in {"none", outcome[k]}
    /\ main' = "await" => \/ UNCHANGED <<main, pc, outcome>>
                          \/ \A m \in Nodes : pc'[m] # "none" => m = Root /\ pc'[m] = "call"

LEMMA CalmIsOrderly ==
    ASSUME Calm
    PROVE  Orderly /\ StepsStay
<1>1. StepsStay
  <2>1. ASSUME NEW m \in Nodes PROVE (Done(m)' <=> Done(m)) /\ (Skipped(m)' <=> Skipped(m))
    <3>1. CASE node'[m] = node[m]  BY <3>1 DEF Done, Skipped
    <3>2. CASE ~Marked(m) /\ ~Done(m)' /\ ~Skipped(m)'
      BY <3>2 DEF Marked, Unmarkable, Done, Skipped
    <3>. QED  BY <3>1, <3>2 DEF Calm
  <2>. QED  BY <2>1 DEF StepsStay
<1>2. LedgerStands  BY DEF Calm, LedgerStands
<1>3. ReachesInOrder
  <2>. SUFFICES ASSUME NEW m \in Nodes, Reached(m)', ~Done(m)' PROVE Reached(m) \/ MayReach(m)
    BY <1>1 DEF ReachesInOrder, StepsStay, Reached
  <2>1. main' = "await" /\ pc'[m] # "none"  BY DEF Reached, Idle
  <2>. QED  BY <2>1 DEF Calm, MayReach, Reached, Idle
<1>4. SkipsPassed  BY <1>1 DEF SkipsPassed, StepsStay
<1>5. CompletesWhole  BY <1>1 DEF CompletesWhole, StepsStay
<1>6. ReturnsDone  BY DEF ReturnsDone, Calm, Good
<1>7. MarksFirst
  <2>. SUFFICES ASSUME main' = "await", NEW b \in Nodes, IsBranch(b), Engaged(b)'
                PROVE  main = "await" /\ Engaged(b)
    BY DEF MarksFirst, IsBranch
  <2>1. UNCHANGED <<main, pc, outcome>>  BY DEF Calm, Engaged
  <2>. QED  BY <2>1 DEF Engaged, Idle
<1>. QED  BY <1>1, <1>2, <1>3, <1>4, <1>5, <1>6, <1>7 DEF Orderly

LEMMA OthersAreCalm ==
    ASSUME WorkflowInv, Other
    PROVE  Calm
<1>0. LedgerTypes /\ FrameTypes  BY DEF WorkflowInv, TypeOK, LedgerTypes, FrameTypes, Entries
<1>1. CASE UNCHANGED vars
  BY <1>1 DEF vars, flowVars, Calm
<1>2. CASE \/ Begin \/ RecoverFlow \/ StartFlow \/ CloseFlow \/ Cancelled \/ GiveUp \/ Submit
  <2>1. UNCHANGED <<node, outcome>> /\ main' # "await"
    BY <1>2 DEF Begin, RecoverFlow, StartFlow, CloseFlow, Cancelled, GiveUp, Submit, KeepRest, KeepFrames,
                Exit, Proceed
  <2>. QED  BY <2>1 DEF Calm
<1>3. CASE RecoverNode \/ GiveUpNode
  <2>1. PICK n \in RunningNodes : Event(n, "interrupted")  BY <1>3 DEF RecoverNode, GiveUpNode, First
  <2>2. UNCHANGED outcome /\ main' # "await"
    BY <1>3 DEF RecoverNode, GiveUpNode, KeepRest, KeepFrames, At
  <2>3. n \in AllNodes /\ node[n].status = "running"  BY DEF RunningNodes
  <2>4. node'[n].status = "interrupted" /\ \A m \in AllNodes \ {n} : node'[m] = node[m]
    BY <1>0, <2>1, <2>3, EventFacts DEF NodeStatus
  <2>5. ASSUME NEW m \in Nodes, m = n PROVE ~Marked(m) /\ ~Done(m)' /\ ~Skipped(m)'
    BY <2>3, <2>4, <2>5 DEF Marked, Unmarkable, Done, Skipped
  <2>. QED  BY <2>2, <2>4, <2>5, NodeFacts DEF Calm
<1>4. CASE Register
  <2>1. UNCHANGED outcome /\ main' # "await"  BY <1>4 DEF Register, KeepRest, KeepFrames, Proceed
  <2>2. ASSUME NEW m \in Nodes, node'[m] # node[m] PROVE ~Marked(m) /\ ~Done(m)' /\ ~Skipped(m)'
    <3>1. /\ node[m].status = "absent" /\ node'[m] = [node[m] EXCEPT !.status = "pending"]
          /\ node[m] \in Entries
      BY <1>0, <1>4, <2>2, NodeFacts DEF Register, LedgerTypes
    <3>2. node'[m].status = "pending"  BY <3>1 DEF Entries
    <3>. QED  BY <3>1, <3>2 DEF Marked, Unmarkable, Done, Skipped
  <2>. QED  BY <2>1, <2>2 DEF Calm
<1>5. CASE StartGoal
  <2>1. RunStep(Root) /\ (node' = node \/ Event(Goal, "running")) /\ main = "goal"
    BY <1>5 DEF StartGoal, KeepLedger, At
  <2>2. \A m \in Nodes : node'[m] = node[m]  BY <1>0, <2>1, EventFacts, NodeFacts DEF NodeStatus
  <2>3. /\ pc'[Root] = "call" /\ outcome'[Root] = "none"
        /\ \A m \in Nodes \ {Root} : pc'[m] = pc[m] /\ outcome'[m] = outcome[m]
    BY <1>0, <2>1, RunStepFacts, NodeFacts
  <2>4. \A m \in Nodes : pc[m] = "none"  BY <2>1 DEF WorkflowInv, MainOwns, Idle
  <2>5. \A m \in Nodes : pc'[m] # "none" => m = Root /\ pc'[m] = "call"  BY <2>3, <2>4
  <2>. QED  BY <2>2, <2>3, <2>5 DEF Calm
<1>6. CASE CloseGoal
  <2>1. PICK s \in {"completed", "failed"} : Event(Goal, s)  BY <1>6 DEF CloseGoal
  <2>2. \A m \in Nodes : node'[m] = node[m]  BY <1>0, <2>1, EventFacts, NodeFacts DEF NodeStatus
  <2>3. UNCHANGED outcome /\ main' # "await"  BY <1>6 DEF CloseGoal, KeepRest, KeepFrames, Proceed
  <2>. QED  BY <2>2, <2>3 DEF Calm
<1>7. CASE Restart
  BY <1>7 DEF Restart, Calm
<1>8. CASE WallTime
  BY <1>8 DEF WallTime, Calm
<1>9. ASSUME NEW n \in Workers, Cancelling(n) PROVE Calm
  <2>1. UNCHANGED <<node, outcome, main>> /\ main = "cancelling"
    BY <1>9 DEF Cancelling, CancelCall, DropCall, InCall, KeepFlow, flowVars
  <2>. QED  BY <2>1 DEF Calm
<1>. QED  BY <1>1, <1>2, <1>3, <1>4, <1>5, <1>6, <1>7, <1>8, <1>9 DEF Other, Run

-----------------------------------------------------------------------------
(* What the fleet has recorded                                              *)

\* Only Record completes a record, only Spawn begins a process, and a call that is done
\* tells what is recorded.
LEMMA FleetRecords ==
    ASSUME FleetInv, RepliesAreRecorded, NEW w \in Workers, FleetStep(w)
    PROVE  /\ RepliesAreRecorded'
           /\ rec'[w].status = "completed" => rec[w].status = "completed" \/ Record(w)
           /\ w \in Processes' => w \in Processes \/ Spawn(w)
<1>. DEFINE Own == /\ call'[w] = "done" /\ reply'[w].status = "completed" =>
                          rec'[w].status = "completed" /\ rec'[w].answer = reply'[w].answer
                   /\ rec'[w].status = "completed" => rec[w].status = "completed" \/ Record(w)
                   /\ call'[w] \in {"process", "stopping", "failing"} =>
                          call[w] \in {"process", "stopping", "failing"} \/ Spawn(w)
<1>1. /\ rec \in [Workers -> Records] /\ reply \in [Workers -> Replies] /\ call \in [Workers -> CallPhases]
      /\ rec[w] \in Records
  BY DEF FleetInv, FleetTypeOK, Records
<1>2. ASSUME Call(w) PROVE Own  BY <1>1, <1>2 DEF Call, Goto, Advance
<1>3. ASSUME Restore(w) PROVE Own
  <2>1. rec' = rec /\ call'[w] = "done" /\ reply'[w] = Reply(rec[w].status, rec[w].answer, 0)
    BY <1>1, <1>3 DEF Restore, Goto, Advance, Answer
  <2>. QED  BY <2>1 DEF Reply
<1>4. ASSUME Refuse(w) PROVE Own
  <2>1. rec' = rec /\ call'[w] = "done" /\ reply'[w] = Failure
    BY <1>1, <1>4 DEF Refuse, Goto, Advance, Answer
  <2>. QED  BY <2>1 DEF Failure, Reply
<1>5. ASSUME Queue(w) PROVE Own
  <2>1. call'[w] = "queued" /\ rec'[w].status = "queued"
    BY <1>1, <1>5 DEF Queue, Goto, Advance, Prepare, Status, Records
  <2>. QED  BY <2>1
<1>6. ASSUME Start(w) PROVE Own  BY <1>1, <1>6 DEF Start, Goto, Advance, Status, Records
<1>7. ASSUME Spawn(w) PROVE Own  BY <1>1, <1>7 DEF Spawn, Goto, Advance
<1>8. ASSUME HostReturns(w) PROVE Own  BY <1>1, <1>8 DEF HostReturns, Goto, Advance
<1>9. ASSUME Stopped(w) PROVE Own  BY <1>1, <1>9 DEF Stopped, Goto, Advance, Status, Records
<1>10. ASSUME AddTokenUsage(w) PROVE Own  BY <1>1, <1>10 DEF AddTokenUsage, Goto, Advance, Records
<1>11. ASSUME Record(w) PROVE Own
  <2>1. /\ call'[w] = "done" /\ rec'[w].status = reply[w].status /\ rec'[w].answer = reply[w].answer
        /\ reply' = reply
    BY <1>1, <1>11 DEF Record, Goto, Advance, Records
  <2>. QED  BY <1>11, <2>1
<1>12. ASSUME Cancel(w) PROVE Own  BY <1>1, <1>12 DEF Cancel, Goto, Advance, Status, Records
<1>13. ASSUME Collect(w) PROVE Own  BY <1>1, <1>13 DEF Collect, Goto, Advance
<1>14. ASSUME HostRaises(w) PROVE Own  BY <1>1, <1>14 DEF HostRaises, Goto, Advance
<1>15. ASSUME Failed(w) PROVE Own  BY <1>1, <1>15 DEF Failed, Goto, Advance
<1>16. ASSUME Interrupt(w) PROVE Own  BY <1>1, <1>16 DEF Interrupt, Advance, Status, Records
<1>20. Own
  BY <1>2, <1>3, <1>4, <1>5, <1>6, <1>7, <1>8, <1>9, <1>10, <1>11, <1>12, <1>13, <1>14, <1>15, <1>16
     DEF FleetStep, Admit, Process
<1>. HIDE DEF Own
<1>21. \A v \in Workers \ {w} : rec'[v] = rec[v] /\ call'[v] = call[v] /\ reply'[v] = reply[v]
  BY FleetSteps
<1>22. RepliesAreRecorded'  BY <1>20, <1>21 DEF Own, RepliesAreRecorded
<1>. QED  BY <1>20, <1>22 DEF Own, Processes

-----------------------------------------------------------------------------
(* Every step                                                               *)

\* A step of the fleet is beside one of the ledger only when a result is collected.
FleetMoves ==
    \/ UNCHANGED fleetVars
    \/ FleetRestart /\ UNCHANGED <<flow, node>>
    \/ \E w \in Workers :
        /\ FleetStep(w)
        /\ Collect(w) \/ (UNCHANGED <<flow, node>> /\ (Spawn(w) => main = "await"))
Framed == \E n \in Nodes : Frame(n) \/ (n \in Workers /\ TimeOut(n))

LEMMA FramedOrOther ==
    ASSUME [Next]_vars
    PROVE  Framed \/ Other
BY NodeFacts DEF Framed, Other, Next, Work

LEMMA FramesMoveFleet ==
    ASSUME GraphInv, NEW n \in Nodes, Frame(n) \/ (n \in Workers /\ TimeOut(n))
    PROVE  FleetMoves
<1>1. main = "await" /\ Fits(n)
  BY FramesAreFair, AwaitFacts DEF GraphInv
<1>2. CASE n \in Workers /\ (RunsCall(n) \/ ResumesCall(n) \/ TimeOut(n))
  <2>1. FleetStep(n) /\ UNCHANGED <<flow, node>>
    BY <1>2 DEF RunsCall, ResumesCall, TimeOut, FleetStep, InCall
  <2>. QED  BY <1>1, <1>2, <2>1 DEF FleetMoves
<1>3. CASE Acquire(n)
  <2>1. n \in Workers /\ FleetStep(n) /\ UNCHANGED <<flow, node>>
    BY <1>1, <1>3 DEF Acquire, Fits, FleetStep, KeepLedger
  <2>. QED  BY <1>1, <2>1 DEF FleetMoves
<1>4. CASE Deliver(n)
  <2>1. n \in Workers /\ FleetStep(n) /\ Collect(n)
    BY <1>4 DEF Deliver, RecordResult, FleetStep
  <2>. QED  BY <2>1 DEF FleetMoves
<1>5. CASE \/ Reuse(n) \/ StartComposite(n) \/ StepOf(n) \/ LimitTokens(n) \/ StartWorker(n)
           \/ TakeTurn(n) \/ Gather(n) \/ WakeUp(n)
  <2>1. UNCHANGED fleetVars
    BY <1>5 DEF Reuse, StartComposite, StepOf, LimitTokens, StartWorker, TakeTurn, Gather, WakeUp, Keep
  <2>. QED  BY <2>1 DEF FleetMoves
<1>. QED  BY <1>2, <1>3, <1>4, <1>5 DEF Frame, Running, Resume

LEMMA OthersMoveFleet ==
    ASSUME WorkflowInv, Other
    PROVE  FleetMoves
<1>1. CASE Run \/ Submit \/ WallTime \/ UNCHANGED vars
  <2>1. UNCHANGED fleetVars
    BY <1>1 DEF Run, Begin, RecoverNode, RecoverFlow, Register, StartFlow, StartGoal, CloseGoal, CloseFlow,
                Cancelled, GiveUpNode, GiveUp, KeepRest, Submit, WallTime, vars
  <2>. QED  BY <2>1 DEF FleetMoves
<1>2. CASE Restart
  BY <1>2 DEF Restart, FleetMoves
<1>3. ASSUME NEW w \in Workers, Cancelling(w) PROVE FleetMoves
  <2>1. CASE DropCall(w)
    <3>1. Collect(w) /\ FleetStep(w)  BY <2>1 DEF DropCall, FleetStep
    <3>. QED  BY <3>1 DEF FleetMoves
  <2>2. CASE CancelCall(w)
    <3>1. (Cancel(w) \/ Interrupt(w)) /\ FleetStep(w) /\ UNCHANGED <<flow, node>>
      BY <2>2 DEF CancelCall, FleetStep, KeepFlow, flowVars
    <3>2. call \in [Workers -> CallPhases]  BY DEF WorkflowInv, TypeOK, FleetTypeOK
    <3>3. ~Spawn(w)  BY <3>1, <3>2 DEF Cancel, Interrupt, Spawn, Goto, Advance
    <3>. QED  BY <3>1, <3>3 DEF FleetMoves
  <2>3. CASE Stopped(w) /\ InCall(w, Free)
    <3>1. FleetStep(w) /\ UNCHANGED <<flow, node>>
      BY <2>3 DEF FleetStep, Process, InCall
    <3>2. ~Spawn(w)  BY <2>3 DEF Stopped, Spawn
    <3>. QED  BY <3>1, <3>2 DEF FleetMoves
  <2>. QED  BY <1>3, <2>1, <2>2, <2>3 DEF Cancelling
<1>. QED  BY <1>1, <1>2, <1>3 DEF Other

LEMMA RepliesStayRecorded ==
    ASSUME GraphInv, FleetMoves
    PROVE  RepliesAreRecorded'
<1>1. CASE UNCHANGED fleetVars
  BY <1>1 DEF fleetVars, GraphInv, RepliesAreRecorded
<1>2. CASE FleetRestart
  BY <1>2 DEF FleetRestart, RepliesAreRecorded
<1>3. ASSUME NEW w \in Workers, FleetStep(w) PROVE RepliesAreRecorded'
  BY <1>3, FleetRecords DEF GraphInv, WorkflowInv, TypeOK, FleetInv
<1>. QED  BY <1>1, <1>2, <1>3 DEF FleetMoves

\* A step leaves no outcome but its own.
LEMMA OtherOutcomes ==
    ASSUME WorkflowInv, NEW n \in Nodes, Moved(n), NEW m \in Nodes \ {n}
    PROVE  outcome'[m] \in {"none", outcome[m]}
<1>0. FrameTypes  BY AwaitFacts DEF Moved
<1>1. CASE Returns(n)  BY <1>0, <1>1, ReturnFacts DEF Returns
<1>2. CASE Calls(n)  BY <1>0, <1>2, RunStepFacts, KidsAreNodes DEF Calls
<1>3. CASE Goes(n) \/ Wakes(n)  BY <1>3 DEF Goes, Wakes, Enter
<1>4. CASE Starts(n) \/ Forks(n) \/ Stays(n)  BY <1>4 DEF Starts, Forks, Scatter, Stays
<1>5. CASE Waits(n)
  <2>1. PICK c \in KidSet(n) : outcome' = [outcome EXCEPT ![c] = "none"]  BY <1>5 DEF Waits
  <2>. QED  BY <1>0, <2>1 DEF FrameTypes
<1>. QED  BY <1>1, <1>2, <1>3, <1>4, <1>5 DEF Moved, Shape

\* Only a recorded verdict approves.
LEMMA NewApproval ==
    ASSUME GraphInv, NEW n \in Workers, Frame(n) \/ TimeOut(n), outcome'[n] = "approved"
    PROVE  \/ outcome[n] = "approved"
           \/ n \in Reviewers /\ rec[n].status = "completed" /\ rec[n].answer
<1>0. /\ main = "await" /\ FrameTypes /\ FleetInv /\ n \in Nodes /\ Kind[n] = "worker" /\ Fits(n)
      /\ WorkflowInv
  BY FramesAreFair, AwaitFacts, NodeFacts DEF GraphInv
<1>1. CASE RecordResult(n)
  <2>. DEFINE r == Result(n)
              s == IF Overspent(r) THEN "budget_limited" ELSE r.status
              o == IF s # "completed" THEN "bad"
                   ELSE IF n \in Reviewers /\ r.answer THEN "approved" ELSE "ok"
  <2>1. Return(n, o) /\ Collect(n)  BY <1>1 DEF RecordResult
  <2>2. o \in Outcomes  BY DEF Outcomes
  <2>3. outcome'[n] = o
    <3>. HIDE DEF o
    <3>. QED  BY <1>0, <2>1, <2>2, ReturnFacts
  <2>4. s = "completed" /\ n \in Reviewers /\ r.answer  BY <2>3
  <2>5. r.status = "completed"  BY <2>4
  <2>6. call[n] = "done" /\ r = reply[n]
    BY <2>1, <2>5 DEF Collect, Returned, Result, Failure, Reply
  <2>. QED  BY <2>4, <2>5, <2>6 DEF GraphInv, RepliesAreRecorded
<1>2. CASE Reuse(n)
  <2>1. Return(n, "ok")  BY <1>0, <1>2 DEF Reuse, RestoredOutcome
  <2>2. outcome'[n] = "ok"  BY <1>0, <2>1, ReturnFacts DEF Outcomes
  <2>. QED  BY <2>2
<1>3. CASE LimitTokens(n)
  <2>1. outcome'[n] = "bad"  BY <1>0, <1>3, ReturnFacts DEF LimitTokens, Outcomes
  <2>. QED  BY <2>1
<1>4. CASE \/ StartWorker(n) \/ RunsCall(n) \/ ResumesCall(n) \/ TimeOut(n)
           \/ TakeTurn(n) \/ WakeUp(n) \/ Acquire(n)
  <2>1. UNCHANGED outcome
    BY <1>4 DEF StartWorker, RunsCall, ResumesCall, TimeOut, InCall, TakeTurn, WakeUp, Acquire, Enter
  <2>. QED  BY <2>1
<1>5. ~StartComposite(n) /\ ~StepOf(n) /\ ~Gather(n)
  BY <1>0 DEF StartComposite, StepOf, Gather, Fits
<1>. QED  BY <1>1, <1>2, <1>3, <1>4, <1>5 DEF Frame, Running, Resume, Deliver

LEMMA ApprovalsStayRecorded ==
    ASSUME GraphInv, [Next]_vars
    PROVE  ApprovalsAreRecorded'
<1>1. \A w \in Workers : Accepted(w)  BY NextKeeps DEF GraphInv, Kept
<1>. SUFFICES ASSUME NEW w \in Workers, outcome'[w] = "approved"
              PROVE  w \in Reviewers /\ rec'[w].status = "completed" /\ rec'[w].answer
  BY DEF ApprovalsAreRecorded, Reviewers
<1>2. outcome[w] = "approved" \/ (w \in Reviewers /\ rec[w].status = "completed" /\ rec[w].answer)
  <2>1. ASSUME NEW n \in Nodes, Frame(n) \/ (n \in Workers /\ TimeOut(n))
        PROVE  \/ outcome[w] = "approved"
               \/ w \in Reviewers /\ rec[w].status = "completed" /\ rec[w].answer
    <3>1. CASE w = n  BY <2>1, <3>1, NewApproval
    <3>2. CASE w # n
      <4>1. Moved(n)  BY <2>1, FramesAreFair
      <4>. QED  BY <3>2, <4>1, OtherOutcomes, NodeFacts DEF GraphInv
    <3>. QED  BY <3>1, <3>2
  <2>2. CASE Other
    <3>1. Calm  BY <2>2, OthersAreCalm DEF GraphInv
    <3>. QED  BY <3>1, NodeFacts DEF Calm
  <2>. QED  BY <2>1, <2>2, FramedOrOther DEF Framed
<1>3. w \in Reviewers /\ rec[w].status = "completed" /\ rec[w].answer
  BY <1>2 DEF GraphInv, ApprovalsAreRecorded
<1>. QED  BY <1>1, <1>3 DEF Accepted

LEMMA FlowStaysOpen ==
    ASSUME GraphInv, [Next]_vars
    PROVE  FlowIsOpen'
<1>1. CASE Framed
  <2>1. main' = "await"  BY <1>1, FramesAreFair DEF Framed, Moved
  <2>. QED  BY <2>1 DEF FlowIsOpen
<1>2. CASE Other
  <2>1. ASSUME NEW w \in Workers, Cancelling(w) PROVE main' = "cancelling"
    BY <2>1 DEF Cancelling, CancelCall, DropCall, InCall, KeepFlow, flowVars
  <2>. QED
    BY <1>2, <2>1
       DEF Other, Run, Begin, RecoverNode, RecoverFlow, Register, StartFlow, StartGoal, CloseGoal, CloseFlow,
           Cancelled, GiveUpNode, GiveUp, Submit, Restart, WallTime, At, Proceed, Exit, Flow,
           vars, flowVars, GraphInv, FlowIsOpen
<1>. QED  BY <1>1, <1>2, FramedOrOther

LEMMA GraphKept ==
    ASSUME GraphInv, SourcesPrecede, [Next]_vars
    PROVE  GraphInv' /\ FleetMoves
<1>1. Orderly /\ FleetMoves
  <2>1. ASSUME NEW n \in Nodes, Frame(n) \/ (n \in Workers /\ TimeOut(n)) PROVE Orderly /\ FleetMoves
    <3>1. Moved(n) /\ ~Idle(n) /\ Honest(n)  BY <2>1, FramesAreFair DEF Fair
    <3>. QED  BY <2>1, <3>1, HonestIsOrderly, FramesMoveFleet
  <2>2. CASE Other  BY <2>2, OthersAreCalm, CalmIsOrderly, OthersMoveFleet DEF GraphInv
  <2>. QED  BY <2>1, <2>2, FramedOrOther DEF Framed
<1>2. WorkflowInv'  BY NextKeeps DEF GraphInv, Kept
<1>3. InOrder' /\ OneSide' /\ SkippedIsPassed' /\ DoneIsWhole' /\ GoodIsDone' /\ PassedIsMarked'
  BY <1>1, OrderlyKeeps
<1>4. RepliesAreRecorded' /\ ApprovalsAreRecorded' /\ FlowIsOpen'
  BY <1>1, RepliesStayRecorded, ApprovalsStayRecorded, FlowStaysOpen
<1>. QED  BY <1>1, <1>2, <1>3, <1>4 DEF GraphInv

LEMMA GraphInit ==
    ASSUME Init
    PROVE  GraphInv
<1>1. WorkflowInv  BY InitHolds
<1>2. /\ call = [w \in Workers |-> "idle"] /\ main = "off"
      /\ node = [n \in AllNodes |-> [status |-> "absent", attempt |-> 0, answer |-> FALSE, usage |-> 0]]
      /\ outcome = [n \in Nodes |-> "none"]
  BY DEF Init, FleetInit
<1>3. \A m \in Nodes : ~Done(m) /\ ~Skipped(m) /\ ~Reached(m) /\ outcome[m] \notin Good /\ outcome[m] = "none"
  BY <1>2, NodeFacts DEF Done, Skipped, Reached, Good
<1>4. InOrder /\ OneSide
  <2>1. ASSUME NEW b \in Nodes, IsBranch(b), NEW m \in Below[Passed(b)] PROVE ~Reached(m)
    BY <1>3, <2>1, SidesOfBranch, BelowFacts
  <2>. QED  BY <1>3, <2>1, BelowFacts DEF InOrder, OneSide
<1>5. SkippedIsPassed /\ DoneIsWhole /\ GoodIsDone /\ PassedIsMarked
  BY <1>2, <1>3 DEF SkippedIsPassed, DoneIsWhole, GoodIsDone, PassedIsMarked
<1>6. RepliesAreRecorded /\ ApprovalsAreRecorded /\ FlowIsOpen
  BY <1>2, <1>3, NodeFacts DEF RepliesAreRecorded, ApprovalsAreRecorded, FlowIsOpen
<1>. QED  BY <1>1, <1>4, <1>5, <1>6 DEF GraphInv

-----------------------------------------------------------------------------
(* The abstract graph                                                       *)

DoneSteps == {n \in Nodes : Done(n)}
SkippedSteps == {n \in Nodes : Skipped(n)}
Approvals == {w \in Reviewers : rec[w].status = "completed" /\ rec[w].answer}
Finished == flow = "completed"
Mapped == UNCHANGED <<DoneSteps, SkippedSteps, Processes, Approvals, Finished>>

LEMMA BusyRuns ==
    ASSUME WorkflowInv, NEW w \in Processes
    PROVE  /\ w \in Workers /\ w \in Nodes /\ pc[w] = "host" /\ ~Idle(w)
           /\ main = "await" => Reached(w)
<1>1. w \in Workers /\ w \in Nodes /\ call[w] # "idle"  BY NodeFacts DEF Processes
<1>2. pc[w] = "host"  BY <1>1 DEF WorkflowInv, CallsHaveFrames
<1>. QED  BY <1>1, <1>2 DEF Idle, Reached

\* A worker that has a call is open.
LEMMA HostIsOpen ==
    ASSUME WorkflowInv, NEW w \in Workers, call[w] # "idle"
    PROVE  w \in Nodes /\ pc[w] = "host" /\ ~Done(w) /\ ~Skipped(w)
<1>1. w \in Nodes /\ pc[w] = "host"  BY NodeFacts DEF WorkflowInv, CallsHaveFrames
<1>2. main \in {"await", "cancelling"}  BY <1>1 DEF WorkflowInv, MainOwns, Idle
<1>3. node[w].status = "running"
  BY <1>1, <1>2 DEF WorkflowInv, LedgerTellsFrames, Begun
<1>. QED  BY <1>1, <1>3 DEF Done, Skipped

LEMMA OppositeFacts ==
    ASSUME NEW a \in Nodes, NEW o \in Graph!Opposite(a)
    PROVE  o \in Nodes /\ o # a /\ \E b \in Nodes : IsBranch(b) /\ {a, o} \subseteq KidSet(b)
BY DEF Graph!Opposite, Graph!KidSet, KidSet, Range, IsBranch

\* Where work has reached, the order holds and the other sides have none.
LEMMA ReachedIsReady ==
    ASSUME GraphInv, main = "await", NEW n \in Nodes, Reached(n)
    PROVE  Graph!Ready(n)
<1>1. ASSUME NEW a \in Nodes, n \in Below[a] PROVE Graph!Before(a) \subseteq DoneSteps
  BY <1>1, BeforeFacts DEF GraphInv, InOrder, DoneSteps
<1>2. ASSUME NEW a \in Nodes, n \in Below[a], NEW o \in Graph!Opposite(a)
      PROVE  Below[o] \cap (DoneSteps \cup Processes) = {}
  <2>1. PICK b \in Nodes : IsBranch(b) /\ {a, o} \subseteq KidSet(b)  BY OppositeFacts
  <2>2. a # Passed(b)  BY <1>2, <2>1 DEF GraphInv, OneSide
  <2>3. o = Passed(b)  BY <2>1, <2>2, SidesOfBranch, OppositeFacts
  <2>4. \A m \in Below[o] : ~Reached(m)  BY <2>1, <2>3 DEF GraphInv, OneSide
  <2>. QED  BY <2>4, BusyRuns DEF GraphInv, DoneSteps, Reached
<1>. QED  BY <1>1, <1>2 DEF Graph!Ready, Graph!Above, DoneSteps, Done

LEMMA ReviewersWork == Reviewers \subseteq Workers
BY WorkflowAssumption DEF Reviewers

LEMMA FleetGraph ==
    ASSUME GraphInv, NEW w \in Workers, FleetStep(w)
    PROVE  /\ ~Record(w) => Approvals' = Approvals
           /\ ~Spawn(w) => Processes' \subseteq Processes
           /\ Spawn(w) => w \notin Processes /\ Processes' = Processes \cup {w}
           /\ Record(w) => /\ w \notin Processes /\ Processes' = Processes
                           /\ Approvals' \in {Approvals, Approvals \cup {w}}
           /\ Collect(w) => Processes' = Processes /\ Approvals' = Approvals
<1>1. /\ FleetInv /\ call \in [Workers -> CallPhases]
      /\ rec[w] \in Records
  BY DEF GraphInv, WorkflowInv, TypeOK, FleetInv, FleetTypeOK, Records
<1>2. /\ rec'[w].status = "completed" => rec[w].status = "completed" \/ Record(w)
      /\ w \in Processes' => w \in Processes \/ Spawn(w)
  BY <1>1, FleetRecords DEF GraphInv
<1>3. /\ \A v \in Workers : Accepted(v)
      /\ \A v \in Workers \ {w} : rec'[v] = rec[v] /\ call'[v] = call[v]
  BY <1>1, FleetSteps
<1>4. \A v \in Workers \ {w} : v \in Processes' <=> v \in Processes  BY <1>3 DEF Processes
<1>5. ASSUME ~Record(w) PROVE Approvals' = Approvals
  <2>1. ASSUME NEW v \in Reviewers
        PROVE  (rec'[v].status = "completed" /\ rec'[v].answer)
                   <=> (rec[v].status = "completed" /\ rec[v].answer)
    <3>1. v \in Workers  BY ReviewersWork
    <3>2. CASE v = w  BY <1>2, <1>3, <1>5, <3>2 DEF Accepted
    <3>3. CASE v # w  BY <1>3, <3>1, <3>3
    <3>. QED  BY <3>2, <3>3
  <2>. QED  BY <2>1 DEF Approvals, Reviewers
<1>6. Processes' \subseteq Processes \/ Spawn(w)
  BY <1>2, <1>4 DEF Processes
<1>7. ASSUME Spawn(w) PROVE w \notin Processes /\ Processes' = Processes \cup {w}
  <2>1. call[w] = "slot" /\ call'[w] = "process"  BY <1>1, <1>7 DEF Spawn, Goto, Advance
  <2>2. w \notin Processes /\ w \in Processes'  BY <2>1 DEF Processes
  <2>. QED  BY <1>4, <2>2 DEF Processes
<1>8. ASSUME call[w] \in {"usage", "done", "cancelled"}, call'[w] \in {"done", "idle"}
      PROVE  w \notin Processes /\ Processes' = Processes
  <2>1. w \notin Processes /\ w \notin Processes'  BY <1>8 DEF Processes
  <2>. QED  BY <1>4, <2>1 DEF Processes
<1>9. ASSUME Record(w) PROVE w \notin Processes /\ Processes' = Processes
  BY <1>1, <1>8, <1>9 DEF Record, Goto, Advance
<1>10. ASSUME Record(w) PROVE Approvals' \in {Approvals, Approvals \cup {w}}
  <2>1. rec[w].status = "running"
    BY <1>1, <1>10 DEF Record, FleetInv, CallsMatchRecords, Executing
  <2>2. w \notin Approvals  BY <2>1 DEF Approvals
  <2>3. \A v \in Reviewers \ {w} : rec'[v] = rec[v]  BY <1>3, ReviewersWork
  <2>4. \A v \in Reviewers \ {w} : v \in Approvals' <=> v \in Approvals
    BY <2>3 DEF Approvals, Reviewers
  <2>5. Approvals \subseteq Reviewers /\ Approvals' \subseteq Reviewers  BY DEF Approvals, Reviewers
  <2>. QED  BY <2>2, <2>4, <2>5
<1>11. ASSUME Collect(w) PROVE Processes' = Processes /\ Approvals' = Approvals
  <2>1. call'[w] = "idle" /\ call[w] \in {"done", "cancelled"} /\ rec' = rec
    BY <1>1, <1>11 DEF Collect, Returned, Goto, Advance
  <2>. QED  BY <1>8, <2>1 DEF Approvals, Reviewers
<1>. QED  BY <1>5, <1>6, <1>7, <1>9, <1>10, <1>11

\* The run completes only when its root has.
LEMMA FinishesDone ==
    ASSUME GraphInv, Other
    PROVE  Finished' = Finished \/ (Finished' /\ Root \in DoneSteps)
<1>1. /\ main \in {"recover", "closing", "giving_up"} => flow = "running"
      /\ main = "start" => flow # "completed"
  BY DEF GraphInv, WorkflowInv, MainOwns, InFlow, FlowIsOpen
<1>2. CASE CloseFlow
  <2>1. main = "closing" /\ flow' \in {"completed", "failed"}
        /\ (flow' = "completed" => outcome[Root] \in Good)
    BY <1>2 DEF CloseFlow, At, Flow
  <2>2. flow' = "completed" => Root \in DoneSteps
    BY <2>1, NodeFacts DEF GraphInv, GoodIsDone, DoneSteps
  <2>. QED  BY <1>1, <2>1, <2>2 DEF Finished
<1>3. CASE RecoverFlow \/ StartFlow \/ GiveUp
  BY <1>1, <1>3 DEF RecoverFlow, StartFlow, GiveUp, At, Flow, Finished
<1>4. CASE Submit
  BY <1>4 DEF Submit, Finished
<1>5. CASE Begin \/ RecoverNode \/ Register \/ StartGoal \/ CloseGoal \/ Cancelled \/ GiveUpNode \/ Restart
           \/ WallTime \/ (\E n \in Workers : Cancelling(n)) \/ UNCHANGED vars
  <2>1. flow' = flow
    BY <1>5 DEF Begin, RecoverNode, Register, StartGoal, CloseGoal, Cancelled, GiveUpNode, Restart, WallTime,
                Cancelling, CancelCall, DropCall, InCall, KeepFlow, flowVars, vars
  <2>. QED  BY <2>1 DEF Finished
<1>. QED  BY <1>2, <1>3, <1>4, <1>5 DEF Other, Run

LEMMA SameSteps ==
    ASSUME StepsStay
    PROVE  DoneSteps' = DoneSteps /\ SkippedSteps' = SkippedSteps
BY DEF StepsStay, DoneSteps, SkippedSteps

LEMMA Completing ==
    ASSUME GraphInv, NEW n \in Nodes, Moved(n), ~Idle(n), Completion(n),
           Processes' = Processes, Approvals' = Approvals
    PROVE  Graph!Complete(n)
<1>1. main = "await" /\ flow' = flow /\ Reached(n) /\ Fits(n)'  BY DEF Moved, Reached
<1>2. Graph!Ready(n)  BY <1>1, ReachedIsReady
<1>3. n \notin Processes
  <2>. SUFFICES ASSUME n \in Processes' PROVE FALSE  OBVIOUS
  <2>1. n \in Workers /\ call'[n] # "idle"  BY DEF Processes
  <2>2. node'[n].status = "running"  BY <1>1, <2>1 DEF Fits, Begun
  <2>. QED  BY <2>2 DEF Completion, Done
<1>4. DoneSteps' = DoneSteps \cup {n} /\ SkippedSteps' = SkippedSteps
  BY DEF Completion, DoneSteps, SkippedSteps, Done, Skipped
<1>5. n \notin DoneSteps \cup SkippedSteps /\ Graph!Earned(n)
  BY DEF Completion, DoneSteps, SkippedSteps
<1>. QED
  BY <1>1, <1>2, <1>3, <1>4, <1>5
     DEF Graph!Complete, Graph!Open, DoneSteps, SkippedSteps, Approvals, Done, Skipped

LEMMA PassesOver ==
    ASSUME GraphInv, NEW n \in Nodes, Moved(n), Skipping(n),
           Processes' = Processes, Approvals' = Approvals
    PROVE  \E m \in Nodes : Graph!Skip(m)
<1>1. PICK m \in Below[Passed(n)] :
          /\ Idle(m) /\ ~Done(m) /\ ~Skipped(m) /\ Skipped(m)' /\ ~Done(m)'
          /\ \A k \in Nodes \ {m} : node'[k] = node[k]
  BY DEF Skipping
<1>2. /\ main = "await" /\ flow' = flow /\ WorkflowInv /\ IsBranch(n) /\ Passed(n) \in Nodes /\ m \in Nodes
  BY <1>1, SidesOfBranch, BelowFacts DEF Moved, Skipping, GraphInv
<1>3. Below[Passed(n)] \cap (DoneSteps \cup Processes) = {}
  BY <1>2, BusyRuns DEF GraphInv, OneSide, DoneSteps, Reached
<1>4. Selected(n) \in Graph!Opposite(Passed(n))
  BY <1>2, SidesOfBranch DEF Graph!Opposite, Graph!KidSet, KidSet, Range, IsBranch
<1>5. m \notin Processes /\ Passed(n) \in Graph!Above(m)
  BY <1>1, <1>2, <1>3 DEF Graph!Above
<1>6. /\ SkippedSteps' = SkippedSteps \cup {m} /\ DoneSteps' = DoneSteps
      /\ m \notin DoneSteps \cup SkippedSteps
  BY <1>1, <1>2 DEF DoneSteps, SkippedSteps, Done, Skipped
<1>. QED
  BY <1>2, <1>3, <1>4, <1>5, <1>6
     DEF Graph!Skip, Graph!Open, DoneSteps, SkippedSteps, Approvals, Done, Skipped

\* Every step is one of the abstract graph, or leaves it as it is.
LEMMA StepOfGraph ==
    ASSUME GraphInv, [Next]_vars, FleetMoves
    PROVE  Graph!Next \/ Mapped
<1>1. ASSUME FleetRestart, UNCHANGED <<flow, node>> PROVE Graph!End
  <2>1. Processes' = {}  BY <1>1 DEF FleetRestart, Processes
  <2>2. \A w \in Workers : rec'[w] = rec[w] \/ (rec[w].status \in Active /\ rec'[w].status = "interrupted")
    BY <1>1 DEF FleetRestart, RecoverStale, GraphInv, WorkflowInv, TypeOK, FleetTypeOK
  <2>3. Approvals' = Approvals
    BY <2>2, ReviewersWork DEF Approvals, Reviewers, Active
  <2>. QED  BY <1>1, <2>1, <2>3 DEF Graph!End, Approvals
<1>2. ASSUME NEW w \in Workers, FleetStep(w), UNCHANGED <<flow, node>>, Spawn(w) => main = "await"
      PROVE  Graph!Next \/ Mapped
  <2>1. UNCHANGED <<DoneSteps, SkippedSteps, Finished>>
    BY <1>2 DEF DoneSteps, SkippedSteps, Done, Skipped, Finished
  <2>2. CASE Spawn(w)
    <3>1. call[w] # "idle" /\ ~Record(w)  BY <2>2 DEF Spawn, Record
    <3>2. w \in Nodes /\ ~Idle(w) /\ ~Done(w) /\ ~Skipped(w)
      BY <3>1, HostIsOpen DEF GraphInv, Idle
    <3>3. Graph!Ready(w)  BY <1>2, <2>2, <3>2, ReachedIsReady DEF Reached
    <3>4. w \notin Processes /\ Processes' = Processes \cup {w} /\ Approvals' = Approvals
      BY <1>2, <2>2, <3>1, FleetGraph
    <3>5. Graph!Begin(w)
      BY <2>1, <3>2, <3>3, <3>4
         DEF Graph!Begin, Graph!Open, DoneSteps, SkippedSteps, Approvals, Finished, Done, Skipped
    <3>. QED  BY <3>5 DEF Graph!Next
  <2>3. CASE Record(w)
    <3>1. call[w] # "idle" /\ ~Spawn(w)  BY <2>3 DEF Spawn, Record
    <3>2. w \in Nodes /\ ~Done(w) /\ ~Skipped(w)  BY <3>1, HostIsOpen DEF GraphInv
    <3>3. w \notin Processes /\ Processes' = Processes /\ Approvals' \in {Approvals, Approvals \cup {w}}
      BY <1>2, <2>3, FleetGraph
    <3>4. CASE Approvals' = Approvals  BY <2>1, <3>3, <3>4 DEF Mapped
    <3>5. CASE Approvals' = Approvals \cup {w}
      <4>1. Graph!Approve(w)
        BY <2>1, <3>2, <3>3, <3>5
           DEF Graph!Approve, Graph!Open, DoneSteps, SkippedSteps, Approvals, Finished, Done, Skipped
      <4>. QED  BY <4>1 DEF Graph!Next
    <3>. QED  BY <3>3, <3>4, <3>5
  <2>4. CASE ~Spawn(w) /\ ~Record(w)
    <3>1. Processes' \subseteq Processes /\ Approvals' = Approvals  BY <1>2, <2>4, FleetGraph
    <3>2. Graph!End
      BY <2>1, <3>1 DEF Graph!End, DoneSteps, SkippedSteps, Approvals, Finished, Done, Skipped
    <3>. QED  BY <3>2 DEF Graph!Next
  <2>. QED  BY <2>2, <2>3, <2>4
<1>3. ASSUME Processes' = Processes, Approvals' = Approvals PROVE Graph!Next \/ Mapped
  <2>1. ASSUME NEW n \in Nodes, Frame(n) \/ (n \in Workers /\ TimeOut(n)) PROVE Graph!Next \/ Mapped
    <3>1. Moved(n) /\ ~Idle(n) /\ (StepsStay \/ Completion(n) \/ Skipping(n))
      BY <2>1, FramesAreFair DEF Fair
    <3>2. CASE StepsStay
      <4>1. Finished' = Finished  BY <3>1 DEF Moved, Finished
      <4>. QED  BY <1>3, <3>2, <4>1, SameSteps DEF Mapped
    <3>3. CASE Completion(n)
      <4>1. Graph!Complete(n)  BY <1>3, <3>1, <3>3, Completing
      <4>. QED  BY <4>1 DEF Graph!Next
    <3>4. CASE Skipping(n)
      <4>1. \E m \in Nodes : Graph!Skip(m)  BY <1>3, <3>1, <3>4, PassesOver
      <4>. QED  BY <4>1 DEF Graph!Next
    <3>. QED  BY <3>1, <3>2, <3>3, <3>4
  <2>2. CASE Other
    <3>1. DoneSteps' = DoneSteps /\ SkippedSteps' = SkippedSteps
      BY <2>2, OthersAreCalm, CalmIsOrderly, SameSteps DEF GraphInv
    <3>2. CASE Finished' = Finished  BY <1>3, <3>1, <3>2 DEF Mapped
    <3>3. CASE Finished' /\ Root \in DoneSteps
      <4>1. Graph!Finish
        BY <1>3, <3>1, <3>3 DEF Graph!Finish, DoneSteps, SkippedSteps, Approvals, Finished, Done, Skipped
      <4>. QED  BY <4>1 DEF Graph!Next
    <3>. QED  BY <2>2, <3>2, <3>3, FinishesDone
  <2>. QED  BY <2>1, <2>2, FramedOrOther DEF Framed
<1>4. ASSUME UNCHANGED fleetVars PROVE Processes' = Processes /\ Approvals' = Approvals
  BY <1>4 DEF fleetVars, Processes, Approvals, Reviewers
<1>5. ASSUME NEW w \in Workers, FleetStep(w), Collect(w)
      PROVE  Processes' = Processes /\ Approvals' = Approvals
  BY <1>5, FleetGraph
<1>. QED  BY <1>1, <1>2, <1>3, <1>4, <1>5 DEF FleetMoves, Graph!Next

-----------------------------------------------------------------------------
(* Theorems                                                                 *)

\* Work has reached a step only when all that precedes it is done, and never both sides
\* of a branch; what is done is done to the leaves, and what a worker reports or a
\* reviewer approves is recorded (executor.py 317-341 and 458-680).
THEOREM GraphInvariant == ASSUME SourcesPrecede PROVE Spec => []GraphInv
<1>1. Init => GraphInv  BY GraphInit
<1>2. GraphInv /\ [Next]_vars => GraphInv'  BY GraphKept
<1>. QED  BY <1>1, <1>2, PTL DEF Spec

\* The executor, its ledger and the fleet do to the graph only what WorkGraph allows,
\* whatever is cancelled, resumed or restarted (executor.py 214-341 and 344-732).
THEOREM ExecutorImplementsGraph == ASSUME SourcesPrecede PROVE Spec => GraphPromise
<1>1. Init => Graph!Init
  <2>1. ASSUME Init PROVE /\ node = [n \in AllNodes |->
                                 [status |-> "absent", attempt |-> 0, answer |-> FALSE, usage |-> 0]]
                          /\ call = [w \in Workers |-> "idle"] /\ flow = "none"
                          /\ \A w \in Workers : rec[w].status = "none"
    BY <2>1 DEF Init, FleetInit
  <2>2. ASSUME Init PROVE \A n \in Nodes : node[n].status = "absent"
    BY <2>1, <2>2, NodeFacts
  <2>. QED  BY <2>1, <2>2, ReviewersWork DEF Graph!Init, Processes
<1>2. GraphInv /\ [Next]_vars => [Graph!Next]_(Graph!vars)
  <2>. SUFFICES ASSUME GraphInv, [Next]_vars PROVE Graph!Next \/ UNCHANGED Graph!vars
    OBVIOUS
  <2>1. Graph!Next \/ Mapped  BY GraphKept, StepOfGraph
  <2>2. ASSUME Mapped PROVE UNCHANGED Graph!vars
    BY <2>2 DEF Mapped, Graph!vars, DoneSteps, SkippedSteps, Approvals, Finished, Done, Skipped
  <2>. QED  BY <2>1, <2>2
<1>. QED  BY <1>1, <1>2, GraphInvariant, PTL DEF Spec, GraphPromise, Graph!Spec
=============================================================================
