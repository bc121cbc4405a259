-------------------------- MODULE SessionQueueProofs --------------------------
(***************************************************************************)
(* Theorems about SessionQueue: a row is lost by nobody, delivered         *)
(* once and in order, held by a task that will settle it, and kept by a    *)
(* stop.                                                                   *)
(***************************************************************************)
EXTENDS SessionQueue, FiniteSetTheorems, TLAPS

-----------------------------------------------------------------------------
(* The types of the state, and which combinations of dispatcher, turn and   *)
(* loop occur                                                               *)

Waiting == {"off", "start", "polling", "claiming"}
Holding == {"sending", "turn", "deferring", "blocking", "removing"}
TurnPhases == {"none", "reserved", "preparing", "persisting", "starting", "running", "ending", "released"}
LoopPhases == {"idle", "claiming", "claimed", "emitting", "admitting", "finishing"}
StopPhases == {"none", "cancelling", "saving", "listing", "blocking", "waiting", "raised"}

RowStatuses == {"queued", "dispatching", "blocked"}
QueueTypes ==
    /\ queue \in Seq(Messages) /\ IsInjective(queue)
    /\ status \in [Messages -> Statuses]
    /\ \A m \in Messages : Row(m) <=> status[m] \in RowStatuses
RowTypes ==
    /\ QueueTypes
    /\ log \in Seq(Messages)
    /\ retried \in [Messages -> Nat]
    /\ removed \subseteq Messages /\ barred \subseteq Messages

DispatchTypes ==
    /\ wakeup \in BOOLEAN /\ dpc \in Waiting \cup Holding
    /\ held \in Messages \cup {0} /\ (held = 0 <=> dpc \in Waiting)
TurnTypes ==
    /\ owner \in {"none", "user", "dispatcher"} /\ phase \in TurnPhases /\ failed \in BOOLEAN
    /\ owner = "none" <=> phase = "none"
    /\ owner = "dispatcher" <=> dpc = "turn"
RunTypes ==
    /\ runner \in {"none", "active", "done"} /\ loop \in LoopPhases
    /\ claimed \in Seq(Messages) /\ steering \in Seq(Messages) /\ drained \in Seq(Messages)
    /\ orphans \subseteq Messages \cup {0}
StopTypes ==
    /\ stop \in StopPhases /\ saved \in Seq(Messages) /\ listed \in Seq(Messages)
    /\ finished \in BOOLEAN /\ aborted \in BOOLEAN /\ retaken \subseteq Messages
TaskTypes ==
    /\ DispatchTypes /\ TurnTypes /\ RunTypes /\ StopTypes
    /\ used \in [DOMAIN Limit -> Nat]

\* The loop claims only while its turn runs, and a turn does not begin to run
\* while the dispatcher claims and sends.
Exclusion ==
    /\ runner = "active" => phase \in {"persisting", "starting", "running"}
    /\ loop # "idle" => runner = "active" /\ phase = "running" /\ dpc # "deferring"
    /\ phase = "running" => dpc \notin {"claiming", "sending"}
    /\ loop \in {"idle", "finishing"} => claimed = <<>>
    /\ loop \in {"claimed", "emitting", "admitting"} => claimed # <<>>
    /\ stop \in {"saving", "listing", "blocking", "waiting"} => loop \in {"idle", "finishing"}

\* Steering is in one place until it is appended, saved or dropped; what a stop took
\* back has become a row, or waits with cancel_run to become one.
Apart(a, b) == Range(a) \cap Range(b) = {}
Steering ==
    /\ \A m \in Range(steering) \cup Range(drained) \cup Range(saved) : status[m] = "steered"
    /\ IsInjective(steering) /\ IsInjective(drained) /\ IsInjective(saved)
    /\ Apart(steering, drained) /\ Apart(steering, saved) /\ Apart(drained, saved)
Retaken ==
    /\ saved # <<>> => stop \in {"cancelling", "saving"}
    /\ \A m \in retaken :
           \/ aborted
           \/ /\ status[m] \notin {"new", "dropped"}
              /\ status[m] = "steered" => m \in Range(saved)

-----------------------------------------------------------------------------
(* What makes the properties inductive                                      *)

\* A message that is gone, or about to go, is in the conversation.
Kept ==
    /\ \A m \in Messages : status[m] = "gone" => m \in Range(log) \cup removed
    /\ dpc = "removing" => held \in Range(log)
    /\ dpc = "turn" /\ (phase \in {"starting", "running", "ending"} \/ (phase = "released" /\ ~failed))
           => held \in Range(log)
    /\ loop = "admitting" => Head(claimed) \in Range(log)
    /\ orphans \ {0} \subseteq Range(log)

\* Each right to deliver a message is used, in somebody's hands, or with the row
\* (or the message that has none yet); every retry adds one.
Count(s, m) == Cardinality({k \in DOMAIN s : s[k] = m})
Same(m, n) == IF m = n THEN 1 ELSE 0
WillSend ==
    \/ dpc \in {"sending", "deferring"}
    \/ dpc = "turn" /\ phase \in {"reserved", "preparing", "persisting"}
Admitting(m) == loop = "admitting" /\ Head(claimed) = m
Sending(m) == WillSend /\ held = m
Fresh(m) == status[m] \in {"new", "steered", "queued"}
InHand(m) == IF Sending(m) THEN 1 ELSE 0
AtRow(m) == IF Fresh(m) THEN 1 ELSE 0
Admission(m) == IF Admitting(m) THEN 1 ELSE 0
Rights(m) ==
    Deliveries(m) + Count(claimed, m) + InHand(m) + AtRow(m)
    <= 1 + retried[m] + Admission(m)
RightsHold == \A m \in Messages : Rights(m)

\* What a stop found pending stays where it is.
Pausing ==
    /\ stop = "raised" => aborted
    /\ dpc \in {"claiming", "sending"} /\ Paused => phase \in {"persisting", "starting"} /\ ~finished
SetAside ==
    /\ \A m \in barred : m \notin Range(log) /\ status[m] \in {"queued", "dispatching", "blocked", "gone"}
    /\ stop = "blocking" => \A m \in barred : Unsent(m) => m \in Range(listed)
    /\ stop \in {"waiting", "none"} => \A m \in barred : ~Unsent(m)
    /\ stop = "none" => barred \cap Range(claimed) = {} /\ (dpc = "sending" => held \notin barred)
    /\ dpc = "turn" /\ WillSend => held \notin barred
Barred == Pausing /\ (aborted \/ SetAside)

\* Without steering, what is still to be delivered follows what has been, in the
\* order of the queue, but for what the user has retried.
Coming ==
    (IF loop = "admitting" THEN Range(Tail(claimed)) ELSE Range(claimed))
        \cup (IF WillSend THEN {held} ELSE {})
Follows(m, n) == retried[m] = 0 /\ retried[n] = 0 => m < n
AsAccepted ==
    /\ \A m \in Messages : status[m] # "steered"
    /\ \A j, k \in DOMAIN queue : j < k => queue[j] < queue[k]
    /\ \A m, n \in Messages : status[m] = "new" /\ status[n] # "new" => n < m
Delivering ==
    /\ \A j, k \in DOMAIN log : j < k => Follows(log[j], log[k])
    /\ \A j, k \in DOMAIN claimed : j < k => Follows(claimed[j], claimed[k])
    /\ \A d \in Range(log), m \in Queued \cup Coming : Follows(d, m)
    /\ \A c \in Coming, m \in Queued : Follows(c, m)
Known ==
    /\ \A m \in Range(log) \cup Range(claimed) : status[m] # "new"
    /\ held # 0 => status[held] # "new"
Ordered == Known /\ (used.steers = 0 => AsAccepted /\ Delivering)

\* Until something fails or is stopped, every row in dispatch is in one pair of
\* hands, and the dispatcher is awake while a message waits.
InHands ==
    /\ stop = "none" /\ ~failed /\ orphans = {} /\ dpc # "blocking"
    /\ dpc \in Holding => status[held] = "dispatching" /\ held \notin Range(claimed)
    /\ IsInjective(claimed)
    /\ \A m \in Messages : status[m] = "dispatching" <=> m = held \/ m \in Range(claimed)
    /\ Queued # {} \/ claimed # <<>> => dpc # "off"
Owned == Undisturbed => InHands

Tasks == RowTypes /\ TaskTypes /\ Exclusion /\ Steering /\ Retaken
Inductive == Tasks /\ Kept /\ RightsHold /\ Barred /\ Ordered /\ Owned

-----------------------------------------------------------------------------
(* Sequences                                                                *)

LEMMA AppendFacts ==
    ASSUME NEW S, NEW s \in Seq(S), NEW e \in S
    PROVE  /\ Append(s, e) \in Seq(S) /\ Append(s, e) # <<>>
           /\ Range(Append(s, e)) = Range(s) \cup {e}
           /\ IsInjective(s) /\ e \notin Range(s) => IsInjective(Append(s, e))
<1>. DEFINE t == Append(s, e)
<1>1. /\ t \in Seq(S) /\ t # <<>> /\ DOMAIN t = 1 .. Len(s) + 1 /\ DOMAIN s = 1 .. Len(s) /\ Len(s) \in Nat
      /\ t[Len(s) + 1] = e /\ \A k \in 1 .. Len(s) : t[k] = s[k]
  OBVIOUS
<1>. HIDE DEF t
<1>2. Range(t) = Range(s) \cup {e}
  BY <1>1 DEF Range
<1>3. IsInjective(s) /\ e \notin Range(s) => IsInjective(t)
  BY <1>1 DEF Range, IsInjective
<1>. QED  BY <1>1, <1>2, <1>3 DEF t

LEMMA TailFacts ==
    ASSUME NEW S, NEW s \in Seq(S), s # <<>>
    PROVE  /\ Tail(s) \in Seq(S) /\ Head(s) \in S /\ Head(s) \in Range(s)
           /\ Range(s) = Range(Tail(s)) \cup {Head(s)}
           /\ IsInjective(s) => IsInjective(Tail(s)) /\ Head(s) \notin Range(Tail(s))
<1>. DEFINE t == Tail(s)
<1>1. /\ t \in Seq(S) /\ DOMAIN t = 1 .. Len(s) - 1 /\ DOMAIN s = 1 .. Len(s) /\ Len(s) \in Nat \ {0}
      /\ Head(s) = s[1] /\ s[1] \in S /\ \A k \in 1 .. Len(s) - 1 : t[k] = s[k + 1]
  OBVIOUS
<1>. HIDE DEF t
<1>2. Range(s) = Range(t) \cup {s[1]}
  <2>1. \A k \in DOMAIN s : k = 1 \/ (k - 1 \in DOMAIN t /\ t[k - 1] = s[k])
    BY <1>1
  <2>2. \A k \in DOMAIN t : k + 1 \in DOMAIN s /\ t[k] = s[k + 1]
    BY <1>1
  <2>. QED  BY <1>1, <2>1, <2>2 DEF Range
<1>3. ASSUME IsInjective(s)
      PROVE  IsInjective(t) /\ s[1] \notin Range(t)
  <2>1. ASSUME NEW j \in DOMAIN t, NEW k \in DOMAIN t, t[j] = t[k]
        PROVE  j = k
    <3>1. j + 1 \in DOMAIN s /\ k + 1 \in DOMAIN s /\ s[j + 1] = s[k + 1]
      BY <1>1, <2>1
    <3>2. j + 1 = k + 1
      BY <1>3, <3>1 DEF IsInjective
    <3>. QED  BY <1>1, <3>2
  <2>2. ASSUME NEW k \in DOMAIN t
        PROVE  t[k] # s[1]
    <3>1. k + 1 \in DOMAIN s /\ t[k] = s[k + 1] /\ k + 1 # 1 /\ 1 \in DOMAIN s
      BY <1>1
    <3>. QED  BY <1>3, <3>1 DEF IsInjective
  <2>. QED  BY <2>1, <2>2 DEF IsInjective, Range
<1>. QED  BY <1>1, <1>2, <1>3 DEF t

LEMMA FrontFacts ==
    ASSUME NEW S, NEW s \in Seq(S), s # <<>>
    PROVE  /\ Front(s) \in Seq(S) /\ Last(s) \in S /\ Last(s) \in Range(s)
           /\ Range(s) = Range(Front(s)) \cup {Last(s)}
           /\ IsInjective(s) => IsInjective(Front(s)) /\ Last(s) \notin Range(Front(s))
<1>. DEFINE t == Front(s)
<1>1. /\ t \in Seq(S) /\ DOMAIN t = 1 .. Len(s) - 1 /\ DOMAIN s = 1 .. Len(s) /\ Len(s) \in Nat \ {0}
      /\ Last(s) = s[Len(s)] /\ s[Len(s)] \in S /\ \A k \in 1 .. Len(s) - 1 : t[k] = s[k]
  BY DEF Front, Last
<1>. HIDE DEF t
<1>2. Range(s) = Range(t) \cup {s[Len(s)]}
  <2>1. \A k \in DOMAIN s : k = Len(s) \/ (k \in DOMAIN t /\ t[k] = s[k])
    BY <1>1
  <2>2. \A k \in DOMAIN t : k \in DOMAIN s /\ t[k] = s[k]
    BY <1>1
  <2>. QED  BY <1>1, <2>1, <2>2 DEF Range
<1>3. IsInjective(s) => IsInjective(t) /\ s[Len(s)] \notin Range(t)
  BY <1>1 DEF Range, IsInjective
<1>. QED  BY <1>1, <1>2, <1>3 DEF t

LEMMA RemoveAtFacts ==
    ASSUME NEW S, NEW s \in Seq(S), NEW k \in DOMAIN s
    PROVE  /\ RemoveAt(s, k) \in Seq(S) /\ DOMAIN RemoveAt(s, k) = 1 .. Len(s) - 1
           /\ \A j \in 1 .. Len(s) - 1 : RemoveAt(s, k)[j] = s[IF j < k THEN j ELSE j + 1]
<1>. DEFINE a == SubSeq(s, 1, k - 1)
            b == SubSeq(s, k + 1, Len(s))
<1>1. k \in 1 .. Len(s) /\ Len(s) \in Nat
  OBVIOUS
<1>2. /\ a \in Seq(S) /\ Len(a) = k - 1 /\ \A j \in 1 .. k - 1 : a[j] = s[j]
  BY <1>1
<1>3. /\ b \in Seq(S) /\ Len(b) = Len(s) - k /\ \A j \in 1 .. Len(s) - k : b[j] = s[j + k]
  BY <1>1
<1>4. RemoveAt(s, k) = a \o b
  BY DEF RemoveAt
<1>. HIDE DEF a, b
<1>. QED  BY <1>1, <1>2, <1>3, <1>4

LEMMA RemoveAtUnique ==
    ASSUME NEW S, NEW s \in Seq(S), IsInjective(s), NEW k \in DOMAIN s
    PROVE  /\ IsInjective(RemoveAt(s, k))
           /\ Range(RemoveAt(s, k)) = Range(s) \ {s[k]}
<1>. DEFINE t == RemoveAt(s, k)
<1>1. /\ DOMAIN t = 1 .. Len(s) - 1 /\ k \in 1 .. Len(s) /\ DOMAIN s = 1 .. Len(s) /\ Len(s) \in Nat
      /\ \A j \in 1 .. Len(s) - 1 : t[j] = s[IF j < k THEN j ELSE j + 1]
  BY RemoveAtFacts
<1>. HIDE DEF t
<1>2. IsInjective(t)
  <2>1. ASSUME NEW i \in DOMAIN t, NEW j \in DOMAIN t, t[i] = t[j]
        PROVE  i = j
    <3>. DEFINE Before(n) == IF n < k THEN n ELSE n + 1
    <3>1. Before(i) \in DOMAIN s /\ Before(j) \in DOMAIN s /\ s[Before(i)] = s[Before(j)]
      BY <1>1, <2>1
    <3>2. Before(i) = Before(j)
      BY <3>1 DEF IsInjective
    <3>. QED  BY <1>1, <3>2
  <2>. QED  BY <2>1 DEF IsInjective
<1>3. \A j \in DOMAIN t : t[j] \in Range(s) \ {s[k]}
  BY <1>1 DEF IsInjective, Range
<1>4. \A j \in DOMAIN s : j # k => \E l \in DOMAIN t : t[l] = s[j]
  <2>. TAKE j \in DOMAIN s
  <2>1. CASE j < k
    BY <1>1, <2>1
  <2>2. CASE j > k
    <3>1. j - 1 \in DOMAIN t /\ t[j - 1] = s[j]
      BY <1>1, <2>2
    <3>. QED  BY <3>1
  <2>. QED  BY <1>1, <2>1, <2>2
<1>. QED  BY <1>2, <1>3, <1>4 DEF Range, t

LEMMA EmptyFacts == Range(<<>>) = {} /\ IsInjective(<<>>)
BY DEF Range, IsInjective

-----------------------------------------------------------------------------
(* What the operations on the rows do                                       *)

LEMMA StatusKept ==
    ASSUME QueueTypes, NEW m \in Messages, NEW s \in Statuses,
           status' = [status EXCEPT ![m] = s]
    PROVE  /\ status' \in [Messages -> Statuses]
           /\ \A n \in Messages : status'[n] = IF n = m THEN s ELSE status[n]
BY DEF QueueTypes

LEMMA MarkFacts ==
    ASSUME QueueTypes, NEW m \in Messages, NEW s \in Statuses, Mark(m, s),
           Row(m) <=> s \in RowStatuses
    PROVE  /\ QueueTypes' /\ queue' = queue
           /\ \A n \in Messages : status'[n] = IF n = m THEN s ELSE status[n]
BY StatusKept DEF Mark, QueueTypes, Row

LEMMA InsertFacts ==
    ASSUME QueueTypes, NEW m \in Messages, ~Row(m), Insert(m)
    PROVE  /\ QueueTypes' /\ Range(queue)' = Range(queue) \cup {m}
           /\ \A n \in Messages : status'[n] = IF n = m THEN "queued" ELSE status[n]
<1>1. /\ status' \in [Messages -> Statuses]
      /\ \A n \in Messages : status'[n] = IF n = m THEN "queued" ELSE status[n]
  BY StatusKept DEF Insert, Statuses
<1>2. /\ queue' \in Seq(Messages) /\ IsInjective(queue') /\ Range(queue') = Range(queue) \cup {m}
  BY AppendFacts DEF Insert, QueueTypes, Row
<1>. QED  BY <1>1, <1>2 DEF QueueTypes, Row, RowStatuses

LEMMA DeleteFacts ==
    ASSUME QueueTypes, NEW m \in Messages, Delete(m)
    PROVE  /\ QueueTypes' /\ Row(m) /\ Range(queue)' = Range(queue) \ {m}
           /\ \A n \in Messages : status'[n] = IF n = m THEN "gone" ELSE status[n]
<1>1. /\ status' \in [Messages -> Statuses]
      /\ \A n \in Messages : status'[n] = IF n = m THEN "gone" ELSE status[n]
  BY StatusKept DEF Delete, Statuses
<1>2. PICK k \in DOMAIN queue : queue[k] = m /\ queue' = RemoveAt(queue, k)
  BY DEF Delete
<1>3. /\ queue' \in Seq(Messages) /\ IsInjective(queue') /\ Range(queue') = Range(queue) \ {m}
  BY <1>2, RemoveAtFacts, RemoveAtUnique DEF QueueTypes
<1>4. Row(m)
  BY <1>2 DEF Row, Range
<1>. QED  BY <1>1, <1>3, <1>4 DEF QueueTypes, Row, RowStatuses

LEMMA ClaimFacts ==
    ASSUME QueueTypes, NEW m \in Messages, Claim(m)
    PROVE  /\ QueueTypes' /\ queue' = queue /\ Row(m) /\ status[m] = "queued" /\ m \in Queued
           /\ \A n \in Messages : status'[n] = IF n = m THEN "dispatching" ELSE status[n]
<1>1. Row(m) /\ status[m] = "queued" /\ Mark(m, "dispatching") /\ m \in Queued
  BY DEF Claim, Queued, Row
<1>. QED  BY <1>1, MarkFacts DEF Statuses, RowStatuses

LEMMA LoseSteeringFacts ==
    ASSUME QueueTypes, Steering, LoseSteering
    PROVE  /\ QueueTypes' /\ queue' = queue
           /\ \A n \in Messages :
                  status'[n] = IF n \in Range(steering) \cup Range(drained)
                                 THEN "dropped" ELSE status[n]
           /\ \A n \in Range(steering) \cup Range(drained) : status[n] = "steered"
BY DEF LoseSteering, Steering, QueueTypes, Statuses, RowStatuses, Row

LEMMA UseFacts ==
    ASSUME used \in [DOMAIN Limit -> Nat], NEW b \in DOMAIN Limit, Use(b)
    PROVE  used' \in [DOMAIN Limit -> Nat] /\ used'[b] > 0
           /\ \A c \in DOMAIN Limit : c # b => used'[c] = used[c]
<1>. DEFINE D == DOMAIN Limit
<1>1. used \in [D -> Nat] /\ b \in D /\ used' = [used EXCEPT ![b] = used[b] + 1]
  BY DEF Use
<1>. HIDE DEF D
<1>2. used' \in [D -> Nat] /\ used'[b] > 0 /\ \A c \in D : c # b => used'[c] = used[c]
  BY <1>1
<1>. QED  BY <1>2 DEF D

LEMMA Bounds ==
    DOMAIN Limit = {"turns", "steers", "retries", "stops", "failures", "crashes"}
BY DEF Limit

\* Which messages the lists of the loop and of a stop hold.
LEMMA ListFacts ==
    ASSUME Tasks
    PROVE  /\ claimed # <<>> => /\ Head(claimed) \in Messages /\ Last(claimed) \in Messages
                                /\ Head(claimed) \in Range(claimed)
                                /\ Last(claimed) \in Range(claimed)
                                /\ Tail(claimed) \in Seq(Messages)
                                /\ Front(claimed) \in Seq(Messages)
           /\ steering # <<>> => /\ Head(steering) \in Messages
                                 /\ Head(steering) \in Range(steering)
                                 /\ status[Head(steering)] = "steered"
                                 /\ Tail(steering) \in Seq(Messages)
           /\ drained # <<>> => /\ Head(drained) \in Messages
                                /\ Head(drained) \in Range(drained)
                                /\ status[Head(drained)] = "steered"
                                /\ Tail(drained) \in Seq(Messages)
           /\ saved # <<>> => /\ Head(saved) \in Messages
                              /\ Head(saved) \in Range(saved)
                              /\ status[Head(saved)] = "steered"
                              /\ Tail(saved) \in Seq(Messages)
           /\ listed # <<>> => Head(listed) \in Messages /\ Tail(listed) \in Seq(Messages)
           /\ \A s \in {log, claimed, steering, drained, saved, listed, queue} :
                  Range(s) \subseteq Messages
           /\ retaken \subseteq Messages
<1>1. /\ claimed \in Seq(Messages) /\ steering \in Seq(Messages) /\ saved \in Seq(Messages)
      /\ drained \in Seq(Messages) /\ retaken \subseteq Messages
      /\ listed \in Seq(Messages) /\ log \in Seq(Messages) /\ queue \in Seq(Messages)
  BY DEF Tasks, TaskTypes, RunTypes, StopTypes, RowTypes, QueueTypes
<1>2. \A s \in Seq(Messages) : Range(s) \subseteq Messages
  BY DEF Range
<1>. QED  BY <1>1, <1>2, TailFacts, FrontFacts DEF Tasks, Steering
-----------------------------------------------------------------------------
(* The state is well typed                                                  *)

\* Every step keeps the rows well formed.
LEMMA QueueTypesStep ==
    ASSUME Tasks, Next
    PROVE  QueueTypes'
<1>. USE DEF Tasks, RowTypes
<1>1. ASSUME NEW m \in Messages, QueueMessage(m)
      PROVE  QueueTypes'
  BY <1>1, InsertFacts DEF QueueMessage, NextMessage, RowStatuses, QueueTypes
<1>2. ASSUME NEW m \in Messages, SteerRun(m)
      PROVE  QueueTypes'
  BY <1>2, MarkFacts DEF SteerRun, NextMessage, RowStatuses, Statuses, QueueTypes
<1>3. ASSUME NEW m \in Messages, RemoveQueued(m)
      PROVE  QueueTypes'
  BY <1>3, DeleteFacts DEF RemoveQueued
<1>4. ASSUME NEW m \in Messages, RetryQueued(m)
      PROVE  QueueTypes'
  BY <1>4, MarkFacts DEF RetryQueued, RowStatuses, Statuses
<1>5. CASE UserTurn
  BY <1>5 DEF UserTurn, rowVars, QueueTypes, Row
<1>6. CASE StopRun
  BY <1>6 DEF StopRun, rowVars, QueueTypes, Row
<1>7. CASE TakeLock
  BY <1>7 DEF TakeLock, rowVars, QueueTypes, Row
<1>8. CASE Register
  BY <1>8 DEF Register, rowVars, QueueTypes, Row
<1>9. CASE AppendMessage
  BY <1>9 DEF AppendMessage, rowVars, QueueTypes, Row
<1>10. CASE StartTurn
  BY <1>10 DEF StartTurn, rowVars, QueueTypes, Row
<1>11. CASE TurnFails
  BY <1>11 DEF TurnFails, rowVars, QueueTypes, Row
<1>12. CASE AwaitRunner
  BY <1>12 DEF AwaitRunner, rowVars, QueueTypes, Row
<1>13. CASE ReleaseLock
  BY <1>13 DEF ReleaseLock, rowVars, QueueTypes, Row
<1>14. CASE EndTurn
  BY <1>14 DEF EndTurn, rowVars, QueueTypes, Row
<1>15. CASE DispatchStart
  BY <1>15 DEF DispatchStart, rowVars, QueueTypes, Row
<1>16. CASE DispatchPoll
  BY <1>16 DEF DispatchPoll, rowVars, QueueTypes, Row
<1>17. CASE DispatchClaim
  BY <1>17, ClaimFacts DEF DispatchClaim, QueueTypes, Row
<1>18. CASE DispatchSend
  BY <1>18 DEF DispatchSend, rowVars, QueueTypes, Row
<1>19. CASE DispatchDefer
  BY <1>19, MarkFacts DEF DispatchDefer, Deferrable, RowStatuses, Statuses, QueueTypes, Row,
     TaskTypes, DispatchTypes, Waiting
<1>20. CASE DispatchBlock
  BY <1>20, MarkFacts DEF DispatchBlock, RowStatuses, Statuses, QueueTypes, Row, TaskTypes,
     DispatchTypes, Waiting
<1>21. CASE DispatchRemove
  BY <1>21, DeleteFacts DEF DispatchRemove, QueueTypes, Row, TaskTypes, DispatchTypes, Waiting
<1>22. CASE AppendSteering
  BY <1>22, ListFacts, MarkFacts DEF AppendSteering, QueueTypes, RowStatuses, Statuses
<1>23. CASE FollowUp
  BY <1>23 DEF FollowUp, rowVars, QueueTypes, Row
<1>24. CASE FollowUpClaim
  BY <1>24, ClaimFacts DEF FollowUpClaim, QueueTypes, Row
<1>25. CASE FollowUpDecide
  BY <1>25, ListFacts, MarkFacts, LoseSteeringFacts DEF FollowUpDecide, Exclusion, Deferrable,
     QueueTypes, Row, RowStatuses, Statuses
<1>26. CASE FollowUpPersist
  BY <1>26 DEF FollowUpPersist, rowVars, QueueTypes, Row
<1>27. CASE FollowUpAdmit
  BY <1>27, ListFacts, DeleteFacts, LoseSteeringFacts DEF FollowUpAdmit, Exclusion
<1>28. CASE RunEnds
  BY <1>28, LoseSteeringFacts DEF RunEnds
<1>29. CASE RunFails
  BY <1>29, LoseSteeringFacts DEF RunFails
<1>30. CASE RunCancelled
  BY <1>30, LoseSteeringFacts DEF RunCancelled
<1>31. CASE StopAwaited
  BY <1>31 DEF StopAwaited, rowVars, QueueTypes, Row
<1>32. CASE StopSaves
  BY <1>32, ListFacts, InsertFacts DEF StopSaves, rowVars, QueueTypes, RowStatuses, Row
<1>33. CASE StopLists
  BY <1>33 DEF StopLists, rowVars, QueueTypes, Row
<1>34. CASE StopBlocks
  BY <1>34, ListFacts, MarkFacts DEF StopBlocks, QueueTypes, Row, RowStatuses, Statuses
<1>35. CASE StopReturns
  BY <1>35 DEF StopReturns, rowVars, QueueTypes, Row
<1>36. ASSUME NEW x \in orphans, OrphanCommits(x)
      PROVE  QueueTypes'
  BY <1>36, ClaimFacts, DeleteFacts DEF OrphanCommits, TaskTypes, RunTypes, QueueTypes, Row
<1>37. CASE Restart
  BY <1>37 DEF Restart, Recovered, QueueTypes, Row, RowStatuses, Statuses
<1>38. CASE DrainSteering
  BY <1>38 DEF DrainSteering, rowVars, QueueTypes, Row
<1>. QED  BY <1>1, <1>2, <1>3, <1>4, <1>5, <1>6, <1>7, <1>8, <1>9, <1>10, <1>11, <1>12,
             <1>13, <1>14, <1>15, <1>16, <1>17, <1>18, <1>19, <1>20, <1>21, <1>22, <1>23,
             <1>24, <1>25, <1>26, <1>27, <1>28, <1>29, <1>30, <1>31, <1>32, <1>33, <1>34,
             <1>35, <1>36, <1>37, <1>38 DEF Next

LEMMA FiniteRows == IsFiniteSet(Messages) /\ \A R \in SUBSET Messages : IsFiniteSet(R)
<1>1. MaxMessages \in Nat
  BY QueueAssumption
<1>2. IsFiniteSet(1 .. MaxMessages)
  BY <1>1, FS_Interval
<1>. QED  BY <1>2, FS_Subset DEF Messages

LEMMA ListingFacts ==
    ASSUME QueueTypes, NEW s, s \in InOrder({m \in Range(queue) : Unsent(m)})
    PROVE  s \in Seq(Messages) /\ Range(s) = {m \in Range(queue) : Unsent(m)}
<1>. DEFINE rows == {m \in Range(queue) : Unsent(m)}
<1>1. rows \subseteq Messages
  BY DEF QueueTypes, Range
<1>3. Cardinality(rows) \in Nat
  BY <1>1, FiniteRows, FS_CardinalityType
<1>4. s \in [1 .. Cardinality(rows) -> rows] /\ Range(s) = rows
  BY DEF InOrder
<1>. HIDE DEF rows
<1>5. s \in [1 .. Cardinality(rows) -> Messages]
  BY <1>1, <1>4
<1>6. \A n \in Nat : \A f \in [1 .. n -> Messages] : f \in Seq(Messages)
  OBVIOUS
<1>. QED  BY <1>3, <1>4, <1>5, <1>6 DEF rows

LEMMA RowTypesStep ==
    ASSUME Tasks, Next
    PROVE  RowTypes'
<1>. DEFINE Rest == /\ log \in Seq(Messages) /\ retried \in [Messages -> Nat]
                    /\ removed \subseteq Messages /\ barred \subseteq Messages
<1>. SUFFICES Rest'
  BY QueueTypesStep DEF RowTypes
<1>. USE DEF Tasks, RowTypes
<1>1. ASSUME NEW m \in Messages, QueueMessage(m)
      PROVE  Rest'
  BY <1>1 DEF QueueMessage
<1>2. ASSUME NEW m \in Messages, SteerRun(m)
      PROVE  Rest'
  BY <1>2 DEF SteerRun, rowVars
<1>3. ASSUME NEW m \in Messages, RemoveQueued(m)
      PROVE  Rest'
  BY <1>3 DEF RemoveQueued, rowVars
<1>4. ASSUME NEW m \in Messages, RetryQueued(m)
      PROVE  Rest'
  BY <1>4 DEF RetryQueued
<1>5. CASE UserTurn
  BY <1>5 DEF UserTurn, rowVars
<1>6. CASE StopRun
  BY <1>6 DEF StopRun, Pending, QueueTypes, Range
<1>7. CASE TakeLock
  BY <1>7 DEF TakeLock, rowVars
<1>8. CASE Register
  BY <1>8 DEF Register, rowVars
<1>9. CASE AppendMessage
  <2>1. owner = "dispatcher" => held \in Messages
    BY DEF TaskTypes, DispatchTypes, TurnTypes, Waiting
  <2>2. owner = "dispatcher" => Append(log, held) \in Seq(Messages)
    BY <2>1
  <2>. QED  BY <1>9, <2>2 DEF AppendMessage, Deliver
<1>10. CASE StartTurn
  BY <1>10 DEF StartTurn, rowVars
<1>11. CASE TurnFails
  BY <1>11 DEF TurnFails, rowVars
<1>12. CASE AwaitRunner
  BY <1>12 DEF AwaitRunner, rowVars
<1>13. CASE ReleaseLock
  BY <1>13 DEF ReleaseLock, rowVars
<1>14. CASE EndTurn
  BY <1>14 DEF EndTurn, rowVars
<1>15. CASE DispatchStart
  BY <1>15 DEF DispatchStart, rowVars
<1>16. CASE DispatchPoll
  BY <1>16 DEF DispatchPoll, rowVars
<1>17. CASE DispatchClaim
  BY <1>17 DEF DispatchClaim, rowVars
<1>18. CASE DispatchSend
  BY <1>18 DEF DispatchSend, rowVars
<1>19. CASE DispatchDefer
  BY <1>19 DEF DispatchDefer, rowVars
<1>20. CASE DispatchBlock
  BY <1>20 DEF DispatchBlock, rowVars
<1>21. CASE DispatchRemove
  BY <1>21 DEF DispatchRemove, rowVars
<1>22. CASE AppendSteering
  BY <1>22, ListFacts, AppendFacts DEF AppendSteering, Deliver
<1>23. CASE FollowUp
  BY <1>23 DEF FollowUp, rowVars
<1>24. CASE FollowUpClaim
  BY <1>24 DEF FollowUpClaim, rowVars
<1>25. CASE FollowUpDecide
  BY <1>25 DEF FollowUpDecide, rowVars
<1>26. CASE FollowUpPersist
  BY <1>26, ListFacts, AppendFacts DEF FollowUpPersist, Deliver, Exclusion
<1>27. CASE FollowUpAdmit
  BY <1>27 DEF FollowUpAdmit, rowVars
<1>28. CASE RunEnds
  BY <1>28 DEF RunEnds, rowVars
<1>29. CASE RunFails
  BY <1>29 DEF RunFails, rowVars
<1>30. CASE RunCancelled
  BY <1>30 DEF RunCancelled, rowVars
<1>31. CASE StopAwaited
  BY <1>31 DEF StopAwaited, rowVars
<1>32. CASE StopSaves
  BY <1>32 DEF StopSaves, rowVars
<1>33. CASE StopLists
  BY <1>33 DEF StopLists, rowVars
<1>34. CASE StopBlocks
  BY <1>34 DEF StopBlocks, rowVars
<1>35. CASE StopReturns
  BY <1>35 DEF StopReturns, rowVars
<1>36. ASSUME NEW x \in orphans, OrphanCommits(x)
      PROVE  Rest'
  BY <1>36 DEF OrphanCommits, rowVars
<1>37. CASE Restart
  BY <1>37 DEF Restart, rowVars
<1>38. CASE DrainSteering
  BY <1>38 DEF DrainSteering, rowVars
<1>. QED  BY <1>1, <1>2, <1>3, <1>4, <1>5, <1>6, <1>7, <1>8, <1>9, <1>10, <1>11, <1>12,
             <1>13, <1>14, <1>15, <1>16, <1>17, <1>18, <1>19, <1>20, <1>21, <1>22, <1>23,
             <1>24, <1>25, <1>26, <1>27, <1>28, <1>29, <1>30, <1>31, <1>32, <1>33, <1>34,
             <1>35, <1>36, <1>37, <1>38 DEF Next

LEMMA UsedStep ==
    ASSUME Tasks, Next
    PROVE  (used \in [DOMAIN Limit -> Nat])'
<1>. USE DEF Tasks, TaskTypes
<1>1. ASSUME NEW m \in Messages, QueueMessage(m)
      PROVE  (used \in [DOMAIN Limit -> Nat])'
  BY <1>1, Bounds, UseFacts DEF QueueMessage
<1>2. ASSUME NEW m \in Messages, SteerRun(m)
      PROVE  (used \in [DOMAIN Limit -> Nat])'
  BY <1>2, Bounds, UseFacts DEF SteerRun
<1>3. ASSUME NEW m \in Messages, RemoveQueued(m)
      PROVE  (used \in [DOMAIN Limit -> Nat])'
  BY <1>3, Bounds, UseFacts DEF RemoveQueued
<1>4. ASSUME NEW m \in Messages, RetryQueued(m)
      PROVE  (used \in [DOMAIN Limit -> Nat])'
  BY <1>4, Bounds, UseFacts DEF RetryQueued
<1>5. CASE UserTurn
  BY <1>5, Bounds, UseFacts DEF UserTurn
<1>6. CASE StopRun
  BY <1>6, Bounds, UseFacts DEF StopRun
<1>7. CASE TakeLock
  BY <1>7, Bounds, UseFacts DEF TakeLock
<1>8. CASE Register
  BY <1>8, Bounds, UseFacts DEF Register
<1>9. CASE AppendMessage
  BY <1>9, Bounds, UseFacts DEF AppendMessage
<1>10. CASE StartTurn
  BY <1>10, Bounds, UseFacts DEF StartTurn
<1>11. CASE TurnFails
  BY <1>11, Bounds, UseFacts DEF TurnFails
<1>12. CASE AwaitRunner
  BY <1>12, Bounds, UseFacts DEF AwaitRunner
<1>13. CASE ReleaseLock
  BY <1>13, Bounds, UseFacts DEF ReleaseLock
<1>14. CASE EndTurn
  BY <1>14, Bounds, UseFacts DEF EndTurn
<1>15. CASE DispatchStart
  BY <1>15, Bounds, UseFacts DEF DispatchStart
<1>16. CASE DispatchPoll
  BY <1>16, Bounds, UseFacts DEF DispatchPoll
<1>17. CASE DispatchClaim
  BY <1>17, Bounds, UseFacts DEF DispatchClaim
<1>18. CASE DispatchSend
  BY <1>18, Bounds, UseFacts DEF DispatchSend
<1>19. CASE DispatchDefer
  BY <1>19, Bounds, UseFacts DEF DispatchDefer
<1>20. CASE DispatchBlock
  BY <1>20, Bounds, UseFacts DEF DispatchBlock
<1>21. CASE DispatchRemove
  BY <1>21, Bounds, UseFacts DEF DispatchRemove
<1>22. CASE AppendSteering
  BY <1>22, Bounds, UseFacts DEF AppendSteering
<1>23. CASE FollowUp
  BY <1>23, Bounds, UseFacts DEF FollowUp
<1>24. CASE FollowUpClaim
  BY <1>24, Bounds, UseFacts DEF FollowUpClaim
<1>25. CASE FollowUpDecide
  BY <1>25, Bounds, UseFacts DEF FollowUpDecide
<1>26. CASE FollowUpPersist
  BY <1>26, Bounds, UseFacts DEF FollowUpPersist
<1>27. CASE FollowUpAdmit
  BY <1>27, Bounds, UseFacts DEF FollowUpAdmit
<1>28. CASE RunEnds
  BY <1>28, Bounds, UseFacts DEF RunEnds
<1>29. CASE RunFails
  BY <1>29, Bounds, UseFacts DEF RunFails
<1>30. CASE RunCancelled
  BY <1>30, Bounds, UseFacts DEF RunCancelled
<1>31. CASE StopAwaited
  BY <1>31, Bounds, UseFacts DEF StopAwaited
<1>32. CASE StopSaves
  BY <1>32, Bounds, UseFacts DEF StopSaves
<1>33. CASE StopLists
  BY <1>33, Bounds, UseFacts DEF StopLists
<1>34. CASE StopBlocks
  BY <1>34, Bounds, UseFacts DEF StopBlocks
<1>35. CASE StopReturns
  BY <1>35, Bounds, UseFacts DEF StopReturns
<1>36. ASSUME NEW x \in orphans, OrphanCommits(x)
      PROVE  (used \in [DOMAIN Limit -> Nat])'
  BY <1>36, Bounds, UseFacts DEF OrphanCommits
<1>37. CASE Restart
  BY <1>37, Bounds, UseFacts DEF Restart
<1>38. CASE DrainSteering
  BY <1>38, Bounds, UseFacts DEF DrainSteering
<1>. QED  BY <1>1, <1>2, <1>3, <1>4, <1>5, <1>6, <1>7, <1>8, <1>9, <1>10, <1>11, <1>12,
             <1>13, <1>14, <1>15, <1>16, <1>17, <1>18, <1>19, <1>20, <1>21, <1>22, <1>23,
             <1>24, <1>25, <1>26, <1>27, <1>28, <1>29, <1>30, <1>31, <1>32, <1>33, <1>34,
             <1>35, <1>36, <1>37, <1>38 DEF Next

LEMMA MessageFacts == \A m \in Messages : m # 0
BY DEF Messages

LEMMA DispatchTypesStep ==
    ASSUME Tasks, Next
    PROVE  DispatchTypes'
<1>. USE DEF Tasks, TaskTypes
<1>1. ASSUME NEW m \in Messages, QueueMessage(m)
      PROVE  DispatchTypes'
  BY <1>1, MessageFacts DEF QueueMessage, Schedule, DispatchTypes, Waiting, Holding
<1>2. ASSUME NEW m \in Messages, SteerRun(m)
      PROVE  DispatchTypes'
  BY <1>2 DEF SteerRun, dispatchVars, DispatchTypes
<1>3. ASSUME NEW m \in Messages, RemoveQueued(m)
      PROVE  DispatchTypes'
  BY <1>3 DEF RemoveQueued, dispatchVars, DispatchTypes
<1>4. ASSUME NEW m \in Messages, RetryQueued(m)
      PROVE  DispatchTypes'
  BY <1>4, MessageFacts DEF RetryQueued, Schedule, DispatchTypes, Waiting, Holding
<1>5. CASE UserTurn
  BY <1>5 DEF UserTurn, dispatchVars, DispatchTypes
<1>6. CASE StopRun
  BY <1>6 DEF StopRun, dispatchVars, DispatchTypes
<1>7. CASE TakeLock
  BY <1>7 DEF TakeLock, dispatchVars, DispatchTypes
<1>8. CASE Register
  BY <1>8 DEF Register, dispatchVars, DispatchTypes
<1>9. CASE AppendMessage
  BY <1>9 DEF AppendMessage, dispatchVars, DispatchTypes
<1>10. CASE StartTurn
  BY <1>10 DEF StartTurn, dispatchVars, DispatchTypes
<1>11. CASE TurnFails
  BY <1>11 DEF TurnFails, dispatchVars, DispatchTypes
<1>12. CASE AwaitRunner
  BY <1>12 DEF AwaitRunner, dispatchVars, DispatchTypes
<1>13. CASE ReleaseLock
  BY <1>13 DEF ReleaseLock, dispatchVars, DispatchTypes
<1>14. CASE EndTurn
  BY <1>14, MessageFacts DEF EndTurn, Settle, TurnTypes, DispatchTypes, Waiting, Holding
<1>15. CASE DispatchStart
  BY <1>15, MessageFacts DEF DispatchStart, DispatchTypes, Waiting, Holding
<1>16. CASE DispatchPoll
  BY <1>16, MessageFacts DEF DispatchPoll, Return, DispatchTypes, Waiting, Holding
<1>17. CASE DispatchClaim
  BY <1>17, MessageFacts DEF DispatchClaim, Return, DispatchTypes, Waiting, Holding
<1>18. CASE DispatchSend
  BY <1>18, MessageFacts DEF DispatchSend, DispatchTypes, Waiting, Holding
<1>19. CASE DispatchDefer
  BY <1>19, MessageFacts DEF DispatchDefer, Again, Return, DispatchTypes, Waiting, Holding
<1>20. CASE DispatchBlock
  BY <1>20, MessageFacts DEF DispatchBlock, Return, DispatchTypes, Waiting, Holding
<1>21. CASE DispatchRemove
  BY <1>21, MessageFacts DEF DispatchRemove, Again, Return, DispatchTypes, Waiting, Holding
<1>22. CASE AppendSteering
  BY <1>22 DEF AppendSteering, dispatchVars, DispatchTypes
<1>23. CASE FollowUp
  BY <1>23 DEF FollowUp, dispatchVars, DispatchTypes
<1>24. CASE FollowUpClaim
  BY <1>24 DEF FollowUpClaim, dispatchVars, DispatchTypes
<1>25. CASE FollowUpDecide
  BY <1>25 DEF FollowUpDecide, dispatchVars, DispatchTypes
<1>26. CASE FollowUpPersist
  BY <1>26 DEF FollowUpPersist, dispatchVars, DispatchTypes
<1>27. CASE FollowUpAdmit
  BY <1>27 DEF FollowUpAdmit, dispatchVars, DispatchTypes
<1>28. CASE RunEnds
  BY <1>28 DEF RunEnds, dispatchVars, DispatchTypes
<1>29. CASE RunFails
  BY <1>29 DEF RunFails, dispatchVars, DispatchTypes
<1>30. CASE RunCancelled
  BY <1>30 DEF RunCancelled, dispatchVars, DispatchTypes
<1>31. CASE StopAwaited
  BY <1>31 DEF StopAwaited, dispatchVars, DispatchTypes
<1>32. CASE StopSaves
  BY <1>32, MessageFacts DEF StopSaves, Schedule, dispatchVars, DispatchTypes, Waiting, Holding
<1>33. CASE StopLists
  BY <1>33 DEF StopLists, dispatchVars, DispatchTypes
<1>34. CASE StopBlocks
  BY <1>34 DEF StopBlocks, dispatchVars, DispatchTypes
<1>35. CASE StopReturns
  BY <1>35 DEF StopReturns, dispatchVars, DispatchTypes
<1>36. ASSUME NEW x \in orphans, OrphanCommits(x)
      PROVE  DispatchTypes'
  BY <1>36 DEF OrphanCommits, dispatchVars, DispatchTypes
<1>37. CASE Restart
  BY <1>37, MessageFacts DEF Restart, Again, DispatchTypes, Waiting, Holding
<1>38. CASE DrainSteering
  BY <1>38 DEF DrainSteering, dispatchVars, DispatchTypes
<1>. QED  BY <1>1, <1>2, <1>3, <1>4, <1>5, <1>6, <1>7, <1>8, <1>9, <1>10, <1>11, <1>12,
             <1>13, <1>14, <1>15, <1>16, <1>17, <1>18, <1>19, <1>20, <1>21, <1>22, <1>23,
             <1>24, <1>25, <1>26, <1>27, <1>28, <1>29, <1>30, <1>31, <1>32, <1>33, <1>34,
             <1>35, <1>36, <1>37, <1>38 DEF Next

LEMMA TurnTypesStep ==
    ASSUME Tasks, Next
    PROVE  TurnTypes'
<1>. USE DEF Tasks, TaskTypes
<1>1. ASSUME NEW m \in Messages, QueueMessage(m)
      PROVE  TurnTypes'
  BY <1>1 DEF QueueMessage, Schedule, turnVars, TurnTypes, TurnPhases
<1>2. ASSUME NEW m \in Messages, SteerRun(m)
      PROVE  TurnTypes'
  BY <1>2 DEF SteerRun, dispatchVars, turnVars, TurnTypes, TurnPhases
<1>3. ASSUME NEW m \in Messages, RemoveQueued(m)
      PROVE  TurnTypes'
  BY <1>3 DEF RemoveQueued, dispatchVars, turnVars, TurnTypes, TurnPhases
<1>4. ASSUME NEW m \in Messages, RetryQueued(m)
      PROVE  TurnTypes'
  BY <1>4 DEF RetryQueued, Schedule, turnVars, TurnTypes, TurnPhases
<1>5. CASE UserTurn
  BY <1>5 DEF UserTurn, Reserve, dispatchVars, turnVars, TurnTypes, TurnPhases
<1>6. CASE StopRun
  BY <1>6 DEF StopRun, dispatchVars, turnVars, TurnTypes, TurnPhases
<1>7. CASE TakeLock
  BY <1>7 DEF TakeLock, dispatchVars, turnVars, TurnTypes, TurnPhases
<1>8. CASE Register
  BY <1>8 DEF Register, dispatchVars, turnVars, TurnTypes, TurnPhases
<1>9. CASE AppendMessage
  BY <1>9 DEF AppendMessage, dispatchVars, turnVars, TurnTypes, TurnPhases
<1>10. CASE StartTurn
  BY <1>10 DEF StartTurn, Starts, dispatchVars, turnVars, TurnTypes, TurnPhases
<1>11. CASE TurnFails
  BY <1>11 DEF TurnFails, dispatchVars, Starts, turnVars, TurnTypes, TurnPhases
<1>12. CASE AwaitRunner
  BY <1>12 DEF AwaitRunner, dispatchVars, turnVars, TurnTypes, TurnPhases
<1>13. CASE ReleaseLock
  BY <1>13 DEF ReleaseLock, dispatchVars, turnVars, TurnTypes, TurnPhases
<1>14. CASE EndTurn
  BY <1>14 DEF EndTurn, Settle, turnVars, TurnTypes, TurnPhases
<1>15. CASE DispatchStart
  BY <1>15 DEF DispatchStart, dispatchVars, turnVars, TurnTypes, TurnPhases
<1>16. CASE DispatchPoll
  BY <1>16 DEF DispatchPoll, Return, turnVars, TurnTypes, TurnPhases
<1>17. CASE DispatchClaim
  BY <1>17 DEF DispatchClaim, Return, turnVars, TurnTypes, TurnPhases
<1>18. CASE DispatchSend
  BY <1>18 DEF DispatchSend, Reserve, turnVars, TurnTypes, TurnPhases
<1>19. CASE DispatchDefer
  BY <1>19 DEF DispatchDefer, Again, Return, turnVars, TurnTypes, TurnPhases
<1>20. CASE DispatchBlock
  BY <1>20 DEF DispatchBlock, Return, turnVars, TurnTypes, TurnPhases
<1>21. CASE DispatchRemove
  BY <1>21 DEF DispatchRemove, Again, Return, turnVars, TurnTypes, TurnPhases
<1>22. CASE AppendSteering
  BY <1>22 DEF AppendSteering, dispatchVars, turnVars, TurnTypes, TurnPhases
<1>23. CASE FollowUp
  BY <1>23 DEF FollowUp, dispatchVars, turnVars, TurnTypes, TurnPhases
<1>24. CASE FollowUpClaim
  BY <1>24 DEF FollowUpClaim, dispatchVars, turnVars, TurnTypes, TurnPhases
<1>25. CASE FollowUpDecide
  BY <1>25 DEF FollowUpDecide, dispatchVars, turnVars, TurnTypes, TurnPhases
<1>26. CASE FollowUpPersist
  BY <1>26 DEF FollowUpPersist, dispatchVars, turnVars, TurnTypes, TurnPhases
<1>27. CASE FollowUpAdmit
  BY <1>27 DEF FollowUpAdmit, dispatchVars, turnVars, TurnTypes, TurnPhases
<1>28. CASE RunEnds
  BY <1>28 DEF RunEnds, dispatchVars, turnVars, TurnTypes, TurnPhases
<1>29. CASE RunFails
  BY <1>29 DEF RunFails, dispatchVars, turnVars, TurnTypes, TurnPhases
<1>30. CASE RunCancelled
  BY <1>30 DEF RunCancelled, dispatchVars, turnVars, TurnTypes, TurnPhases
<1>31. CASE StopAwaited
  BY <1>31 DEF StopAwaited, dispatchVars, turnVars, TurnTypes, TurnPhases
<1>32. CASE StopSaves
  BY <1>32 DEF StopSaves, Schedule, dispatchVars, turnVars, TurnTypes, TurnPhases
<1>33. CASE StopLists
  BY <1>33 DEF StopLists, dispatchVars, turnVars, TurnTypes, TurnPhases
<1>34. CASE StopBlocks
  BY <1>34 DEF StopBlocks, dispatchVars, turnVars, TurnTypes, TurnPhases
<1>35. CASE StopReturns
  BY <1>35 DEF StopReturns, dispatchVars, turnVars, TurnTypes, TurnPhases
<1>36. ASSUME NEW x \in orphans, OrphanCommits(x)
      PROVE  TurnTypes'
  BY <1>36 DEF OrphanCommits, dispatchVars, turnVars, TurnTypes, TurnPhases
<1>37. CASE Restart
  BY <1>37 DEF Restart, Again, turnVars, TurnTypes, TurnPhases
<1>38. CASE DrainSteering
  BY <1>38 DEF DrainSteering, dispatchVars, turnVars, TurnTypes, TurnPhases
<1>. QED  BY <1>1, <1>2, <1>3, <1>4, <1>5, <1>6, <1>7, <1>8, <1>9, <1>10, <1>11, <1>12,
             <1>13, <1>14, <1>15, <1>16, <1>17, <1>18, <1>19, <1>20, <1>21, <1>22, <1>23,
             <1>24, <1>25, <1>26, <1>27, <1>28, <1>29, <1>30, <1>31, <1>32, <1>33, <1>34,
             <1>35, <1>36, <1>37, <1>38 DEF Next
LEMMA RunTypesStep ==
    ASSUME Tasks, Next
    PROVE  RunTypes'
<1>. USE DEF Tasks, TaskTypes
<1>1. ASSUME NEW m \in Messages, QueueMessage(m)
      PROVE  RunTypes'
  BY <1>1 DEF QueueMessage, runVars, RunTypes, LoopPhases
<1>2. ASSUME NEW m \in Messages, SteerRun(m)
      PROVE  RunTypes'
  BY <1>2, AppendFacts DEF SteerRun, runVars, RunTypes, LoopPhases
<1>3. ASSUME NEW m \in Messages, RemoveQueued(m)
      PROVE  RunTypes'
  BY <1>3 DEF RemoveQueued, runVars, RunTypes, LoopPhases
<1>4. ASSUME NEW m \in Messages, RetryQueued(m)
      PROVE  RunTypes'
  BY <1>4 DEF RetryQueued, runVars, RunTypes, LoopPhases
<1>5. CASE UserTurn
  BY <1>5 DEF UserTurn, runVars, RunTypes, LoopPhases
<1>6. CASE StopRun
  BY <1>6 DEF StopRun, runVars, RunTypes, LoopPhases
<1>7. CASE TakeLock
  BY <1>7 DEF TakeLock, runVars, RunTypes, LoopPhases
<1>8. CASE Register
  BY <1>8 DEF Register, runVars, RunTypes, LoopPhases
<1>9. CASE AppendMessage
  BY <1>9 DEF AppendMessage, runVars, RunTypes, LoopPhases
<1>10. CASE StartTurn
  BY <1>10 DEF StartTurn, runVars, RunTypes, LoopPhases
<1>11. CASE TurnFails
  BY <1>11 DEF TurnFails, EndRun, Exclusion, runVars, RunTypes, LoopPhases
<1>12. CASE AwaitRunner
  BY <1>12 DEF AwaitRunner, runVars, RunTypes, LoopPhases
<1>13. CASE ReleaseLock
  BY <1>13 DEF ReleaseLock, runVars, RunTypes, LoopPhases
<1>14. CASE EndTurn
  BY <1>14 DEF EndTurn, runVars, RunTypes, LoopPhases
<1>15. CASE DispatchStart
  BY <1>15 DEF DispatchStart, runVars, RunTypes, LoopPhases
<1>16. CASE DispatchPoll
  BY <1>16 DEF DispatchPoll, runVars, RunTypes, LoopPhases
<1>17. CASE DispatchClaim
  BY <1>17 DEF DispatchClaim, runVars, RunTypes, LoopPhases
<1>18. CASE DispatchSend
  BY <1>18 DEF DispatchSend, runVars, RunTypes, LoopPhases
<1>19. CASE DispatchDefer
  BY <1>19 DEF DispatchDefer, runVars, RunTypes, LoopPhases
<1>20. CASE DispatchBlock
  BY <1>20 DEF DispatchBlock, runVars, RunTypes, LoopPhases
<1>21. CASE DispatchRemove
  BY <1>21 DEF DispatchRemove, runVars, RunTypes, LoopPhases
<1>22. CASE AppendSteering
  BY <1>22, ListFacts DEF AppendSteering, runVars, RunTypes, LoopPhases
<1>23. CASE FollowUp
  BY <1>23 DEF FollowUp, runVars, RunTypes, LoopPhases
<1>24. CASE FollowUpClaim
  <2>1. \A m \in Messages : Append(claimed, m) \in Seq(Messages)
    BY DEF RunTypes
  <2>. QED  BY <1>24, <2>1 DEF FollowUpClaim, Conclude, RunTypes, LoopPhases
<1>25. CASE FollowUpDecide
  <2>1. loop = "claimed" => Front(claimed) \in Seq(Messages)
    BY ListFacts DEF Exclusion
  <2>2. /\ orphans' = orphans /\ (claimed' = claimed \/ claimed' = Front(claimed) \/ claimed' = <<>>)
        /\ (steering' = steering \/ steering' = <<>>) /\ (drained' = drained \/ drained' = <<>>)
        /\ runner' \in {runner, "done"}
        /\ loop' \in {"emitting", "claiming", "idle", "finishing"} /\ loop = "claimed"
    BY <1>25 DEF FollowUpDecide, Conclude, EndRun
  <2>3. claimed \in Seq(Messages) /\ steering \in Seq(Messages) /\ drained \in Seq(Messages)
        /\ <<>> \in Seq(Messages)
    BY DEF RunTypes
  <2>4. claimed' \in Seq(Messages) /\ steering' \in Seq(Messages) /\ drained' \in Seq(Messages)
    BY <2>1, <2>2, <2>3
  <2>. QED  BY <2>2, <2>4 DEF RunTypes, LoopPhases
<1>26. CASE FollowUpPersist
  BY <1>26 DEF FollowUpPersist, runVars, RunTypes, LoopPhases
<1>27. CASE FollowUpAdmit
  <2>1. loop = "admitting" => Tail(claimed) \in Seq(Messages)
    BY ListFacts DEF Exclusion
  <2>2. /\ orphans' = orphans /\ (claimed' = Tail(claimed) \/ claimed' = <<>>)
        /\ (steering' = steering \/ steering' = <<>>) /\ (drained' = drained \/ drained' = <<>>)
        /\ runner' \in {runner, "done"}
        /\ loop' \in {"emitting", "idle"} /\ loop = "admitting"
    BY <1>27 DEF FollowUpAdmit, EndRun
  <2>3. claimed \in Seq(Messages) /\ steering \in Seq(Messages) /\ drained \in Seq(Messages)
        /\ <<>> \in Seq(Messages)
    BY DEF RunTypes
  <2>4. claimed' \in Seq(Messages) /\ steering' \in Seq(Messages) /\ drained' \in Seq(Messages)
    BY <2>1, <2>2, <2>3
  <2>. QED  BY <2>2, <2>4 DEF RunTypes, LoopPhases
<1>28. CASE RunEnds
  BY <1>28 DEF RunEnds, EndRun, runVars, RunTypes, LoopPhases
<1>29. CASE RunFails
  BY <1>29 DEF RunFails, EndRun, runVars, RunTypes, LoopPhases
<1>30. CASE RunCancelled
  BY <1>30, ListFacts DEF RunCancelled, EndRun, Exclusion, runVars, RunTypes, LoopPhases
<1>31. CASE StopAwaited
  BY <1>31 DEF StopAwaited, runVars, RunTypes, LoopPhases
<1>32. CASE StopSaves
  BY <1>32 DEF StopSaves, runVars, RunTypes, LoopPhases
<1>33. CASE StopLists
  BY <1>33 DEF StopLists, runVars, RunTypes, LoopPhases
<1>34. CASE StopBlocks
  BY <1>34 DEF StopBlocks, runVars, RunTypes, LoopPhases
<1>35. CASE StopReturns
  BY <1>35 DEF StopReturns, runVars, RunTypes, LoopPhases
<1>36. ASSUME NEW x \in orphans, OrphanCommits(x)
      PROVE  RunTypes'
  BY <1>36 DEF OrphanCommits, runVars, RunTypes, LoopPhases
<1>37. CASE Restart
  BY <1>37 DEF Restart, runVars, RunTypes, LoopPhases
<1>38. CASE DrainSteering
  <2>1. UNCHANGED <<runner, loop, claimed, orphans>>
    BY <1>38 DEF DrainSteering
  <2>2. steering \in Seq(Messages) /\ <<>> \in Seq(Messages)
    BY DEF RunTypes
  <2>3. CASE drained' = <<Head(steering)>> /\ steering' = Tail(steering)
    <3>1. Head(steering) \in Messages /\ Tail(steering) \in Seq(Messages)
      BY <1>38, ListFacts DEF DrainSteering
    <3>2. <<Head(steering)>> \in Seq(Messages)
      BY <3>1
    <3>. QED  BY <2>1, <2>3, <3>1, <3>2 DEF RunTypes
  <2>4. CASE drained' = steering /\ steering' = <<>>
    BY <2>1, <2>2, <2>4 DEF RunTypes
  <2>. QED  BY <1>38, <2>3, <2>4 DEF DrainSteering
<1>. QED  BY <1>1, <1>2, <1>3, <1>4, <1>5, <1>6, <1>7, <1>8, <1>9, <1>10, <1>11, <1>12,
             <1>13, <1>14, <1>15, <1>16, <1>17, <1>18, <1>19, <1>20, <1>21, <1>22, <1>23,
             <1>24, <1>25, <1>26, <1>27, <1>28, <1>29, <1>30, <1>31, <1>32, <1>33, <1>34,
             <1>35, <1>36, <1>37, <1>38 DEF Next

LEMMA StopTypesStep ==
    ASSUME Tasks, Next
    PROVE  StopTypes'
<1>. USE DEF Tasks, TaskTypes
<1>1. ASSUME NEW m \in Messages, QueueMessage(m)
      PROVE  StopTypes'
  BY <1>1 DEF QueueMessage, stopVars, StopTypes, StopPhases
<1>2. ASSUME NEW m \in Messages, SteerRun(m)
      PROVE  StopTypes'
  BY <1>2 DEF SteerRun, stopVars, StopTypes, StopPhases
<1>3. ASSUME NEW m \in Messages, RemoveQueued(m)
      PROVE  StopTypes'
  BY <1>3 DEF RemoveQueued, stopVars, StopTypes, StopPhases
<1>4. ASSUME NEW m \in Messages, RetryQueued(m)
      PROVE  StopTypes'
  BY <1>4 DEF RetryQueued, stopVars, StopTypes, StopPhases
<1>5. CASE UserTurn
  BY <1>5 DEF UserTurn, stopVars, StopTypes, StopPhases
<1>6. CASE StopRun
  <2>1. /\ stop' = "cancelling" /\ saved' = steering /\ listed' = <<>> /\ finished' = FALSE
        /\ aborted' = aborted /\ retaken' = retaken \cup Range(steering)
    BY <1>6 DEF StopRun
  <2>2. stop' \in StopPhases
    BY <2>1 DEF StopPhases
  <2>3. saved' \in Seq(Messages) /\ listed' \in Seq(Messages)
    BY <2>1 DEF RunTypes
  <2>4. finished' \in BOOLEAN
    BY <2>1
  <2>5. aborted' \in BOOLEAN /\ retaken' \subseteq Messages
    BY <2>1, ListFacts DEF StopTypes
  <2>. QED  BY <2>2, <2>3, <2>4, <2>5 DEF StopTypes
<1>7. CASE TakeLock
  BY <1>7 DEF TakeLock, stopVars, StopTypes, StopPhases
<1>8. CASE Register
  BY <1>8 DEF Register, stopVars, StopTypes, StopPhases
<1>9. CASE AppendMessage
  BY <1>9 DEF AppendMessage, stopVars, StopTypes, StopPhases
<1>10. CASE StartTurn
  BY <1>10 DEF StartTurn, stopVars, StopTypes, StopPhases
<1>11. CASE TurnFails
  BY <1>11 DEF TurnFails, Finish, stopVars, StopTypes, StopPhases
<1>12. CASE AwaitRunner
  BY <1>12 DEF AwaitRunner, stopVars, StopTypes, StopPhases
<1>13. CASE ReleaseLock
  BY <1>13 DEF ReleaseLock, Finish, stopVars, StopTypes, StopPhases
<1>14. CASE EndTurn
  BY <1>14 DEF EndTurn, stopVars, StopTypes, StopPhases
<1>15. CASE DispatchStart
  BY <1>15 DEF DispatchStart, stopVars, StopTypes, StopPhases
<1>16. CASE DispatchPoll
  BY <1>16 DEF DispatchPoll, stopVars, StopTypes, StopPhases
<1>17. CASE DispatchClaim
  BY <1>17 DEF DispatchClaim, stopVars, StopTypes, StopPhases
<1>18. CASE DispatchSend
  BY <1>18 DEF DispatchSend, stopVars, StopTypes, StopPhases
<1>19. CASE DispatchDefer
  BY <1>19 DEF DispatchDefer, stopVars, StopTypes, StopPhases
<1>20. CASE DispatchBlock
  BY <1>20 DEF DispatchBlock, stopVars, StopTypes, StopPhases
<1>21. CASE DispatchRemove
  BY <1>21 DEF DispatchRemove, stopVars, StopTypes, StopPhases
<1>22. CASE AppendSteering
  BY <1>22 DEF AppendSteering, stopVars, StopTypes, StopPhases
<1>23. CASE FollowUp
  BY <1>23 DEF FollowUp, stopVars, StopTypes, StopPhases
<1>24. CASE FollowUpClaim
  BY <1>24 DEF FollowUpClaim, stopVars, StopTypes, StopPhases
<1>25. CASE FollowUpDecide
  BY <1>25 DEF FollowUpDecide, stopVars, StopTypes, StopPhases
<1>26. CASE FollowUpPersist
  BY <1>26 DEF FollowUpPersist, stopVars, StopTypes, StopPhases
<1>27. CASE FollowUpAdmit
  BY <1>27 DEF FollowUpAdmit, stopVars, StopTypes, StopPhases
<1>28. CASE RunEnds
  BY <1>28 DEF RunEnds, stopVars, StopTypes, StopPhases
<1>29. CASE RunFails
  BY <1>29 DEF RunFails, stopVars, StopTypes, StopPhases
<1>30. CASE RunCancelled
  BY <1>30 DEF RunCancelled, stopVars, StopTypes, StopPhases
<1>31. CASE StopAwaited
  BY <1>31 DEF StopAwaited, stopVars, StopTypes, StopPhases
<1>32. CASE StopSaves
  BY <1>32, ListFacts DEF StopSaves, stopVars, StopTypes, StopPhases
<1>33. CASE StopLists
  BY <1>33, ListingFacts DEF StopLists, RowTypes, stopVars, StopTypes, StopPhases
<1>34. CASE StopBlocks
  BY <1>34, ListFacts DEF StopBlocks, stopVars, StopTypes, StopPhases
<1>35. CASE StopReturns
  BY <1>35 DEF StopReturns, stopVars, StopTypes, StopPhases
<1>36. ASSUME NEW x \in orphans, OrphanCommits(x)
      PROVE  StopTypes'
  BY <1>36 DEF OrphanCommits, stopVars, StopTypes, StopPhases
<1>37. CASE Restart
  <2>1. /\ stop' = "none" /\ saved' = <<>> /\ listed' = <<>> /\ finished' = FALSE
        /\ aborted' = (aborted \/ Paused) /\ retaken' = retaken
    BY <1>37 DEF Restart
  <2>2. stop' \in StopPhases
    BY <2>1 DEF StopPhases
  <2>3. saved' \in Seq(Messages) /\ listed' \in Seq(Messages)
    BY <2>1
  <2>4. finished' \in BOOLEAN
    BY <2>1
  <2>5. aborted' \in BOOLEAN /\ retaken' \subseteq Messages
    BY <2>1 DEF StopTypes
  <2>. QED  BY <2>2, <2>3, <2>4, <2>5 DEF StopTypes
<1>38. CASE DrainSteering
  BY <1>38 DEF DrainSteering, stopVars, StopTypes, StopPhases
<1>. QED  BY <1>1, <1>2, <1>3, <1>4, <1>5, <1>6, <1>7, <1>8, <1>9, <1>10, <1>11, <1>12,
             <1>13, <1>14, <1>15, <1>16, <1>17, <1>18, <1>19, <1>20, <1>21, <1>22, <1>23,
             <1>24, <1>25, <1>26, <1>27, <1>28, <1>29, <1>30, <1>31, <1>32, <1>33, <1>34,
             <1>35, <1>36, <1>37, <1>38 DEF Next

LEMMA TaskTypesStep ==
    ASSUME Tasks, Next
    PROVE  TaskTypes'
BY DispatchTypesStep, TurnTypesStep, RunTypesStep, StopTypesStep, UsedStep DEF TaskTypes

LEMMA ExclusionStep ==
    ASSUME Tasks, Next
    PROVE  Exclusion'
<1>. USE DEF Tasks, TaskTypes
<1>1. ASSUME NEW m \in Messages, QueueMessage(m)
      PROVE  Exclusion'
  BY <1>1 DEF QueueMessage, Schedule, dispatchVars, turnVars, runVars, stopVars, Exclusion,
     TurnTypes, RunTypes, LoopPhases, StopTypes, StopPhases
<1>2. ASSUME NEW m \in Messages, SteerRun(m)
      PROVE  Exclusion'
  BY <1>2 DEF SteerRun, dispatchVars, turnVars, runVars, stopVars, Exclusion, TurnTypes,
     RunTypes, LoopPhases, StopTypes, StopPhases
<1>3. ASSUME NEW m \in Messages, RemoveQueued(m)
      PROVE  Exclusion'
  BY <1>3 DEF RemoveQueued, dispatchVars, turnVars, runVars, stopVars, Exclusion, TurnTypes,
     RunTypes, LoopPhases, StopTypes, StopPhases
<1>4. ASSUME NEW m \in Messages, RetryQueued(m)
      PROVE  Exclusion'
  BY <1>4 DEF RetryQueued, Schedule, dispatchVars, turnVars, runVars, stopVars, Exclusion,
     TurnTypes, RunTypes, LoopPhases, StopTypes, StopPhases
<1>5. CASE UserTurn
  BY <1>5 DEF UserTurn, Reserve, dispatchVars, turnVars, runVars, stopVars, Exclusion,
     TurnTypes, RunTypes, LoopPhases, StopTypes, StopPhases
<1>6. CASE StopRun
  BY <1>6 DEF StopRun, dispatchVars, turnVars, runVars, stopVars, Exclusion, TurnTypes,
     RunTypes, LoopPhases, StopTypes, StopPhases
<1>7. CASE TakeLock
  BY <1>7 DEF TakeLock, dispatchVars, turnVars, runVars, stopVars, Exclusion, TurnTypes,
     RunTypes, LoopPhases, StopTypes, StopPhases
<1>8. CASE Register
  BY <1>8 DEF Register, dispatchVars, turnVars, runVars, stopVars, Exclusion, TurnTypes,
     RunTypes, LoopPhases, StopTypes, StopPhases
<1>9. CASE AppendMessage
  BY <1>9 DEF AppendMessage, dispatchVars, turnVars, runVars, stopVars, Exclusion, TurnTypes,
     RunTypes, LoopPhases, StopTypes, StopPhases
<1>10. CASE StartTurn
  BY <1>10 DEF StartTurn, Starts, dispatchVars, turnVars, runVars, stopVars, Exclusion,
     TurnTypes, RunTypes, LoopPhases, StopTypes, StopPhases
<1>11. CASE TurnFails
  BY <1>11 DEF TurnFails, EndRun, Starts, dispatchVars, turnVars, runVars, stopVars, Exclusion,
     TurnTypes, RunTypes, LoopPhases, StopTypes, StopPhases
<1>12. CASE AwaitRunner
  BY <1>12 DEF AwaitRunner, dispatchVars, turnVars, runVars, stopVars, Exclusion, TurnTypes,
     RunTypes, LoopPhases, StopTypes, StopPhases
<1>13. CASE ReleaseLock
  BY <1>13 DEF ReleaseLock, dispatchVars, turnVars, runVars, stopVars, Exclusion, TurnTypes,
     RunTypes, LoopPhases, StopTypes, StopPhases
<1>14. CASE EndTurn
  BY <1>14 DEF EndTurn, Settle, dispatchVars, turnVars, runVars, stopVars, Exclusion,
     TurnTypes, RunTypes, LoopPhases, StopTypes, StopPhases
<1>15. CASE DispatchStart
  BY <1>15 DEF DispatchStart, dispatchVars, turnVars, runVars, stopVars, Exclusion, TurnTypes,
     RunTypes, LoopPhases, StopTypes, StopPhases
<1>16. CASE DispatchPoll
  BY <1>16 DEF DispatchPoll, Return, Locked, Paused, dispatchVars, turnVars, runVars, stopVars,
     Exclusion, TurnTypes, RunTypes, LoopPhases, StopTypes, StopPhases
<1>17. CASE DispatchClaim
  BY <1>17 DEF DispatchClaim, Return, dispatchVars, turnVars, runVars, stopVars, Exclusion,
     TurnTypes, RunTypes, LoopPhases, StopTypes, StopPhases
<1>18. CASE DispatchSend
  BY <1>18 DEF DispatchSend, Reserve, dispatchVars, turnVars, runVars, stopVars, Exclusion,
     TurnTypes, RunTypes, LoopPhases, StopTypes, StopPhases
<1>19. CASE DispatchDefer
  BY <1>19 DEF DispatchDefer, Again, Return, dispatchVars, turnVars, runVars, stopVars,
     Exclusion, TurnTypes, RunTypes, LoopPhases, StopTypes, StopPhases
<1>20. CASE DispatchBlock
  BY <1>20 DEF DispatchBlock, Return, dispatchVars, turnVars, runVars, stopVars, Exclusion,
     TurnTypes, RunTypes, LoopPhases, StopTypes, StopPhases
<1>21. CASE DispatchRemove
  BY <1>21 DEF DispatchRemove, Again, Return, dispatchVars, turnVars, runVars, stopVars,
     Exclusion, TurnTypes, RunTypes, LoopPhases, StopTypes, StopPhases
<1>22. CASE AppendSteering
  BY <1>22 DEF AppendSteering, Looping, dispatchVars, turnVars, runVars, stopVars, Exclusion,
     TurnTypes, RunTypes, LoopPhases, StopTypes, StopPhases
<1>23. CASE FollowUp
  BY <1>23 DEF FollowUp, AskFollowUp, Looping, Paused, dispatchVars, turnVars, runVars,
     stopVars, Exclusion, TurnTypes, RunTypes, LoopPhases, StopTypes, StopPhases
<1>24. CASE FollowUpClaim
  BY <1>24, AppendFacts DEF FollowUpClaim, Looping, Conclude, dispatchVars, turnVars, runVars,
     stopVars, Exclusion, TurnTypes, RunTypes, LoopPhases, StopTypes, StopPhases
<1>25. CASE FollowUpDecide
  BY <1>25, ListFacts DEF FollowUpDecide, Looping, Conclude, EndRun, dispatchVars, turnVars,
     runVars, stopVars, Exclusion, RunTypes, LoopPhases
<1>26. CASE FollowUpPersist
  BY <1>26 DEF FollowUpPersist, Looping, dispatchVars, turnVars, runVars, stopVars, Exclusion,
     TurnTypes, RunTypes, LoopPhases, StopTypes, StopPhases
<1>27. CASE FollowUpAdmit
  BY <1>27 DEF FollowUpAdmit, Looping, EndRun, dispatchVars, turnVars, runVars, stopVars,
     Exclusion, TurnTypes, RunTypes, LoopPhases, StopTypes, StopPhases
<1>28. CASE RunEnds
  BY <1>28 DEF RunEnds, EndRun, dispatchVars, turnVars, runVars, stopVars, Exclusion,
     TurnTypes, RunTypes, LoopPhases, StopTypes, StopPhases
<1>29. CASE RunFails
  BY <1>29 DEF RunFails, EndRun, dispatchVars, turnVars, runVars, stopVars, Exclusion,
     TurnTypes, RunTypes, LoopPhases, StopTypes, StopPhases
<1>30. CASE RunCancelled
  BY <1>30 DEF RunCancelled, EndRun, dispatchVars, turnVars, runVars, stopVars, Exclusion,
     TurnTypes, RunTypes, LoopPhases, StopTypes, StopPhases
<1>31. CASE StopAwaited
  BY <1>31 DEF StopAwaited, dispatchVars, turnVars, runVars, stopVars, Exclusion, TurnTypes,
     RunTypes, LoopPhases, StopTypes, StopPhases
<1>32. CASE StopSaves
  BY <1>32 DEF StopSaves, Schedule, dispatchVars, turnVars, runVars, stopVars, Exclusion,
     TurnTypes, RunTypes, LoopPhases, StopTypes, StopPhases
<1>33. CASE StopLists
  BY <1>33 DEF StopLists, dispatchVars, turnVars, runVars, stopVars, Exclusion, TurnTypes,
     RunTypes, LoopPhases, StopTypes, StopPhases
<1>34. CASE StopBlocks
  BY <1>34 DEF StopBlocks, dispatchVars, turnVars, runVars, stopVars, Exclusion, TurnTypes,
     RunTypes, LoopPhases, StopTypes, StopPhases
<1>35. CASE StopReturns
  BY <1>35 DEF StopReturns, dispatchVars, turnVars, runVars, stopVars, Exclusion, TurnTypes,
     RunTypes, LoopPhases, StopTypes, StopPhases
<1>36. ASSUME NEW x \in orphans, OrphanCommits(x)
      PROVE  Exclusion'
  BY <1>36 DEF OrphanCommits, dispatchVars, turnVars, runVars, stopVars, Exclusion, TurnTypes,
     RunTypes, LoopPhases, StopTypes, StopPhases
<1>37. CASE Restart
  BY <1>37 DEF Restart, Again, dispatchVars, turnVars, runVars, stopVars, Exclusion, TurnTypes,
     RunTypes, LoopPhases, StopTypes, StopPhases
<1>38. CASE DrainSteering
  BY <1>38 DEF DrainSteering, Looping, Paused, dispatchVars, turnVars, runVars,
     stopVars, Exclusion, TurnTypes, RunTypes, LoopPhases, StopTypes, StopPhases
<1>. QED  BY <1>1, <1>2, <1>3, <1>4, <1>5, <1>6, <1>7, <1>8, <1>9, <1>10, <1>11, <1>12,
             <1>13, <1>14, <1>15, <1>16, <1>17, <1>18, <1>19, <1>20, <1>21, <1>22, <1>23,
             <1>24, <1>25, <1>26, <1>27, <1>28, <1>29, <1>30, <1>31, <1>32, <1>33, <1>34,
             <1>35, <1>36, <1>37, <1>38 DEF Next
LEMMA HeldFacts ==
    ASSUME Tasks
    PROVE  dpc \in Holding => held \in Messages
BY DEF Tasks, TaskTypes, DispatchTypes, Waiting, Holding

LEMMA RemarkedRow ==
    ASSUME Tasks, NEW m \in Messages, NEW s \in RowStatuses, Row(m), Mark(m, s),
           UNCHANGED <<steering, drained, saved, stop, aborted, retaken>>
    PROVE  Steering' /\ Retaken'
<1>. USE DEF Tasks, RowTypes
<1>1. \A n \in Messages : status'[n] = IF n = m THEN s ELSE status[n]
  BY MarkFacts DEF Statuses, RowStatuses
<1>2. status[m] # "steered"
  BY DEF QueueTypes, RowStatuses
<1>3. Steering'
  BY <1>1, <1>2, ListFacts DEF Steering, Apart
<1>4. Retaken'
  BY <1>1, <1>2, ListFacts DEF Retaken, RowStatuses
<1>. QED  BY <1>3, <1>4

LEMMA SteeringLost ==
    ASSUME Tasks, EndRun, LoseSteering, UNCHANGED <<saved, stop, aborted, retaken>>
    PROVE  Steering' /\ Retaken'
<1>. USE DEF Tasks, RowTypes
<1>1. /\ steering' = <<>> /\ drained' = <<>>
      /\ \A n \in Messages : status'[n] = IF n \in Range(steering) \cup Range(drained)
                                         THEN "dropped" ELSE status[n]
  BY LoseSteeringFacts DEF EndRun
<1>2. \A n \in Range(saved) : n \notin Range(steering) \cup Range(drained) /\ n \in Messages
  BY ListFacts DEF Steering, Apart
<1>3. Steering'
  BY <1>1, <1>2, EmptyFacts DEF Steering, Apart
<1>4. Retaken'
  BY <1>1, <1>2 DEF Retaken, Steering, TaskTypes, StopTypes
<1>. QED  BY <1>3, <1>4

\* Steering is appended, saved or dropped once, and what a stop took back is not
\* dropped.
LEMMA SteeringStep ==
    ASSUME Tasks, Next
    PROVE  Steering' /\ Retaken'
<1>. USE DEF Tasks, RowTypes
<1>1. ASSUME NEW m \in Messages, QueueMessage(m)
      PROVE  Steering' /\ Retaken'
  <2>1. /\ status[m] = "new" /\ ~Row(m) /\ Insert(m)
        /\ UNCHANGED <<steering, drained, saved, stop, aborted, retaken>>
    BY <1>1 DEF QueueMessage, NextMessage, runVars, stopVars, QueueTypes, RowStatuses
  <2>2. \A n \in Messages : status'[n] = IF n = m THEN "queued" ELSE status[n]
    BY <2>1, InsertFacts
  <2>3. Steering'
    BY <2>1, <2>2, ListFacts DEF Steering, Apart
  <2>4. Retaken'
    BY <2>1, <2>2, ListFacts DEF Retaken
  <2>. QED  BY <2>3, <2>4
<1>2. ASSUME NEW m \in Messages, SteerRun(m)
      PROVE  Steering' /\ Retaken'
  <2>1. /\ QueueTypes /\ status[m] = "new" /\ steering' = Append(steering, m)
        /\ UNCHANGED <<drained, saved, stop, aborted, retaken>>
    BY <1>2 DEF SteerRun, NextMessage, stopVars
  <2>2. \A n \in Messages : status'[n] = IF n = m THEN "steered" ELSE status[n]
    BY <1>2, <2>1, MarkFacts DEF SteerRun, Statuses, RowStatuses, QueueTypes
  <2>3. m \notin Range(steering) \cup Range(drained) \cup Range(saved)
    BY <2>1 DEF Steering
  <2>4. IsInjective(steering') /\ Range(steering') = Range(steering) \cup {m}
    BY <2>1, <2>3, AppendFacts DEF TaskTypes, RunTypes, Steering
  <2>5. Steering'
    BY <2>1, <2>2, <2>3, <2>4, ListFacts DEF Steering, Apart
  <2>6. Retaken'
    BY <2>1, <2>2, ListFacts DEF Retaken, TaskTypes, StopTypes
  <2>. QED  BY <2>5, <2>6
<1>3. ASSUME NEW m \in Messages, RemoveQueued(m)
      PROVE  Steering' /\ Retaken'
  BY <1>3, DeleteFacts, ListFacts DEF RemoveQueued, runVars, stopVars, QueueTypes, RowStatuses,
     Row, Steering, Apart, Retaken
<1>4. ASSUME NEW m \in Messages, RetryQueued(m)
      PROVE  Steering' /\ Retaken'
  <2>1. /\ Row(m) /\ Mark(m, "queued")
        /\ UNCHANGED <<steering, drained, saved, stop, aborted, retaken>>
    BY <1>4 DEF RetryQueued, runVars, stopVars
  <2>. QED  BY <2>1, RemarkedRow DEF RowStatuses
<1>5. CASE UserTurn
  BY <1>5 DEF UserTurn, rowVars, runVars, stopVars, Steering, Apart, Retaken
<1>6. CASE StopRun
  <2>1. /\ saved = <<>> /\ saved' = steering /\ steering' = <<>> /\ stop' = "cancelling"
        /\ retaken' = retaken \cup Range(steering) /\ UNCHANGED <<status, drained, aborted>>
    BY <1>6 DEF StopRun, Retaken
  <2>2. Steering'
    BY <2>1, EmptyFacts DEF Steering, Apart
  <2>3. Retaken'
    BY <2>1, EmptyFacts DEF Steering, Retaken
  <2>. QED  BY <2>2, <2>3
<1>7. CASE TakeLock
  BY <1>7 DEF TakeLock, rowVars, runVars, stopVars, Steering, Apart, Retaken
<1>8. CASE Register
  BY <1>8 DEF Register, rowVars, runVars, stopVars, Steering, Apart, Retaken
<1>9. CASE AppendMessage
  BY <1>9 DEF AppendMessage, rowVars, runVars, stopVars, Steering, Apart, Retaken
<1>10. CASE StartTurn
  BY <1>10 DEF StartTurn, rowVars, runVars, stopVars, Steering, Apart, Retaken
<1>11. CASE TurnFails
  <2>1. /\ UNCHANGED <<status, saved, stop, aborted, retaken>>
        /\ UNCHANGED <<steering, drained>> \/ (steering' = <<>> /\ drained' = <<>>)
    BY <1>11 DEF TurnFails, EndRun, runVars, rowVars
  <2>. QED  BY <2>1, EmptyFacts DEF Steering, Apart, Retaken
<1>12. CASE AwaitRunner
  BY <1>12 DEF AwaitRunner, rowVars, runVars, stopVars, Steering, Apart, Retaken
<1>13. CASE ReleaseLock
  BY <1>13 DEF ReleaseLock, rowVars, runVars, stopVars, Steering, Apart, Retaken
<1>14. CASE EndTurn
  BY <1>14 DEF EndTurn, rowVars, runVars, stopVars, Steering, Apart, Retaken
<1>15. CASE DispatchStart
  BY <1>15 DEF DispatchStart, rowVars, runVars, stopVars, Steering, Apart, Retaken
<1>16. CASE DispatchPoll
  BY <1>16 DEF DispatchPoll, rowVars, runVars, stopVars, Steering, Apart, Retaken
<1>17. CASE DispatchClaim
  BY <1>17, ClaimFacts, ListFacts DEF DispatchClaim, runVars, stopVars, QueueTypes,
     RowStatuses, Row, Steering, Apart, Retaken
<1>18. CASE DispatchSend
  BY <1>18 DEF DispatchSend, rowVars, runVars, stopVars, Steering, Apart, Retaken
<1>19. CASE DispatchDefer
  <2>1. CASE UNCHANGED <<status, steering, drained, saved, stop, aborted, retaken>>
    BY <2>1 DEF Steering, Apart, Retaken
  <2>2. CASE Row(held) /\ Mark(held, "queued") /\ UNCHANGED <<steering, drained, saved, stop, aborted, retaken>>
    BY <1>19, <2>2, HeldFacts, RemarkedRow DEF DispatchDefer, Holding, RowStatuses
  <2>. QED  BY <1>19, <2>1, <2>2 DEF DispatchDefer, Deferrable, runVars, stopVars
<1>20. CASE DispatchBlock
  <2>1. CASE UNCHANGED <<status, steering, drained, saved, stop, aborted, retaken>>
    BY <2>1 DEF Steering, Apart, Retaken
  <2>2. CASE Row(held) /\ Mark(held, "blocked") /\ UNCHANGED <<steering, drained, saved, stop, aborted, retaken>>
    BY <1>20, <2>2, HeldFacts, RemarkedRow DEF DispatchBlock, Holding, RowStatuses
  <2>. QED  BY <1>20, <2>1, <2>2 DEF DispatchBlock, runVars, stopVars
<1>21. CASE DispatchRemove
  BY <1>21, DeleteFacts, ListFacts DEF DispatchRemove, runVars, stopVars, TaskTypes,
     DispatchTypes, Waiting, QueueTypes, RowStatuses, Row, Steering, Apart, Retaken
<1>22. CASE AppendSteering
  <2>1. /\ drained # <<>> /\ drained' = Tail(drained) /\ Mark(Head(drained), "gone")
        /\ UNCHANGED <<steering, saved, stop, aborted, retaken>>
    BY <1>22 DEF AppendSteering, stopVars
  <2>2. Head(drained) \in Messages /\ Head(drained) \in Range(drained) /\ ~Row(Head(drained))
    BY <2>1, ListFacts DEF QueueTypes, RowStatuses
  <2>3. \A n \in Messages : status'[n] = IF n = Head(drained) THEN "gone" ELSE status[n]
    BY <2>1, <2>2, MarkFacts DEF Statuses, RowStatuses
  <2>4. /\ IsInjective(drained') /\ Head(drained) \notin Range(drained')
        /\ Range(drained') \subseteq Range(drained)
    BY <2>1, TailFacts DEF TaskTypes, RunTypes, Steering
  <2>5. Steering'
    BY <2>1, <2>2, <2>3, <2>4, ListFacts DEF Steering, Apart
  <2>6. Retaken'
    BY <2>1, <2>2, <2>3, ListFacts DEF Retaken, TaskTypes, StopTypes
  <2>. QED  BY <2>5, <2>6
<1>23. CASE FollowUp
  BY <1>23 DEF FollowUp, rowVars, runVars, stopVars, Steering, Apart, Retaken
<1>24. CASE FollowUpClaim
  BY <1>24, ClaimFacts, ListFacts DEF FollowUpClaim, stopVars, QueueTypes, RowStatuses, Row,
     Steering, Apart, Retaken
<1>25. CASE FollowUpDecide
  <2>1. loop = "claimed" /\ UNCHANGED <<saved, stop, aborted, retaken>>
    BY <1>25 DEF FollowUpDecide, stopVars
  <2>2. Last(claimed) \in Messages
    BY <2>1, ListFacts DEF Exclusion
  <2>3. CASE EndRun /\ LoseSteering
    BY <2>1, <2>3, SteeringLost
  <2>4. CASE UNCHANGED <<status, steering, drained>>
    BY <2>1, <2>4 DEF Steering, Apart, Retaken
  <2>5. ASSUME NEW s \in {"queued", "blocked"}, Row(Last(claimed)), Mark(Last(claimed), s),
               UNCHANGED <<steering, drained>>
        PROVE  Steering' /\ Retaken'
    BY <2>1, <2>2, <2>5, RemarkedRow DEF RowStatuses
  <2>. QED  BY <1>25, <2>3, <2>4, <2>5 DEF FollowUpDecide, Deferrable
<1>26. CASE FollowUpPersist
  BY <1>26 DEF FollowUpPersist, rowVars, runVars, stopVars, Steering, Apart, Retaken
<1>27. CASE FollowUpAdmit
  <2>1. Head(claimed) \in Messages /\ UNCHANGED <<saved, stop, aborted, retaken>>
    BY <1>27, ListFacts DEF FollowUpAdmit, Exclusion, stopVars
  <2>2. CASE EndRun /\ LoseSteering
    BY <2>1, <2>2, SteeringLost
  <2>3. CASE Delete(Head(claimed)) /\ UNCHANGED <<steering, drained>>
    BY <2>1, <2>3, DeleteFacts, ListFacts DEF Steering, Apart, Retaken, QueueTypes, RowStatuses,
       Row, TaskTypes, StopTypes
  <2>. QED  BY <1>27, <2>2, <2>3 DEF FollowUpAdmit
<1>28. CASE RunEnds
  BY <1>28, SteeringLost DEF RunEnds, stopVars
<1>29. CASE RunFails
  BY <1>29, SteeringLost DEF RunFails, stopVars
<1>30. CASE RunCancelled
  BY <1>30, SteeringLost DEF RunCancelled, stopVars
<1>31. CASE StopAwaited
  BY <1>31 DEF StopAwaited, rowVars, runVars, stopVars, Steering, Apart, Retaken
<1>32. CASE StopSaves
  <2>0. UNCHANGED <<steering, drained, aborted, retaken>> /\ stop = "saving"
    BY <1>32 DEF StopSaves, runVars
  <2>1. CASE saved = <<>>
    BY <1>32, <2>0, <2>1 DEF StopSaves, Steering, Apart, Retaken
  <2>2. CASE saved # <<>>
    <3>1. Insert(Head(saved)) /\ saved' = Tail(saved) /\ stop' = stop
      BY <1>32, <2>2 DEF StopSaves
    <3>2. Head(saved) \in Messages /\ Head(saved) \in Range(saved) /\ ~Row(Head(saved))
      BY <2>2, ListFacts DEF QueueTypes, RowStatuses
    <3>3. \A n \in Messages : status'[n] = IF n = Head(saved) THEN "queued" ELSE status[n]
      BY <3>1, <3>2, InsertFacts
    <3>4. /\ IsInjective(saved') /\ Head(saved) \notin Range(saved')
          /\ Range(saved) = Range(saved') \cup {Head(saved)}
      BY <2>2, <3>1, TailFacts DEF TaskTypes, StopTypes, Steering
    <3>5. Steering'
      BY <2>0, <3>1, <3>2, <3>3, <3>4, ListFacts DEF Steering, Apart
    <3>6. Retaken'
      BY <2>0, <3>1, <3>2, <3>3, <3>4, ListFacts DEF Retaken, TaskTypes, StopTypes
    <3>. QED  BY <3>5, <3>6
  <2>. QED  BY <2>1, <2>2
<1>33. CASE StopLists
  BY <1>33 DEF StopLists, rowVars, runVars, stopVars, Steering, Apart, Retaken
<1>34. CASE StopBlocks
  <2>1. UNCHANGED <<steering, drained, saved, retaken>> /\ saved = <<>>
    BY <1>34 DEF StopBlocks, runVars, Retaken
  <2>2. CASE UNCHANGED status /\ (aborted' = aborted \/ aborted' = TRUE)
    BY <2>1, <2>2 DEF Steering, Apart, Retaken
  <2>3. CASE Row(Head(listed)) /\ Mark(Head(listed), "blocked") /\ UNCHANGED <<stop, aborted>>
            /\ listed # <<>>
    BY <2>1, <2>3, ListFacts, RemarkedRow DEF RowStatuses
  <2>. QED  BY <1>34, <2>2, <2>3 DEF StopBlocks
<1>35. CASE StopReturns
  BY <1>35 DEF StopReturns, rowVars, runVars, stopVars, Steering, Apart, Retaken
<1>36. ASSUME NEW x \in orphans, OrphanCommits(x)
      PROVE  Steering' /\ Retaken'
  BY <1>36, ClaimFacts, DeleteFacts, ListFacts DEF OrphanCommits, TaskTypes, RunTypes,
     stopVars, QueueTypes, RowStatuses, Row, Steering, Apart, Retaken
<1>37. CASE Restart
  <2>1. /\ steering' = <<>> /\ drained' = <<>> /\ saved' = <<>> /\ retaken' = retaken
        /\ aborted' = (aborted \/ Paused) /\ \A m \in Messages : status'[m] = Recovered(m)
    BY <1>37 DEF Restart
  <2>2. saved # <<>> => Paused
    BY DEF Retaken, Paused
  <2>3. Steering'
    BY <2>1, EmptyFacts DEF Steering, Apart
  <2>4. Retaken'
    BY <2>1, <2>2, EmptyFacts DEF Retaken, Recovered, TaskTypes, StopTypes
  <2>. QED  BY <2>3, <2>4
<1>38. CASE DrainSteering
  <2>1. UNCHANGED <<status, saved, stop, aborted, retaken>> /\ drained = <<>> /\ steering # <<>>
    BY <1>38 DEF DrainSteering, rowVars, stopVars
  <2>2. CASE drained' = <<Head(steering)>> /\ steering' = Tail(steering)
    <3>1. Range(drained') = {Head(steering)} /\ IsInjective(drained')
      BY <2>2 DEF Range, IsInjective
    <3>2. /\ Range(steering) = Range(steering') \cup {Head(steering)} /\ IsInjective(steering')
          /\ Head(steering) \notin Range(steering')
      BY <2>1, <2>2, TailFacts DEF TaskTypes, RunTypes, Steering
    <3>. QED  BY <2>1, <3>1, <3>2 DEF Steering, Apart, Retaken
  <2>3. CASE drained' = steering /\ steering' = <<>>
    BY <2>1, <2>3, EmptyFacts DEF Steering, Apart, Retaken
  <2>. QED  BY <1>38, <2>2, <2>3 DEF DrainSteering
<1>. QED  BY <1>1, <1>2, <1>3, <1>4, <1>5, <1>6, <1>7, <1>8, <1>9, <1>10, <1>11, <1>12,
             <1>13, <1>14, <1>15, <1>16, <1>17, <1>18, <1>19, <1>20, <1>21, <1>22, <1>23,
             <1>24, <1>25, <1>26, <1>27, <1>28, <1>29, <1>30, <1>31, <1>32, <1>33, <1>34,
             <1>35, <1>36, <1>37, <1>38 DEF Next

LEMMA TasksStep ==
    ASSUME Tasks, Next
    PROVE  Tasks'
BY RowTypesStep, TaskTypesStep, ExclusionStep, SteeringStep DEF Tasks

LEMMA TasksUnchanged ==
    ASSUME Tasks, UNCHANGED vars
    PROVE  Tasks'
<1>. USE DEF Tasks, vars, rowVars, dispatchVars, turnVars, runVars, stopVars
<1>1. RowTypes'
  BY DEF RowTypes, QueueTypes, Row
<1>2. TaskTypes'
  BY DEF TaskTypes, DispatchTypes, TurnTypes, RunTypes, StopTypes
<1>3. Exclusion'
  BY DEF Exclusion
<1>4. Steering'
  BY DEF Steering, Apart
<1>5. Retaken'
  BY DEF Retaken
<1>. QED  BY <1>1, <1>2, <1>3, <1>4, <1>5

LEMMA TasksInit ==
    ASSUME Init
    PROVE  Tasks
<1>1. RowTypes
  BY EmptyFacts DEF Init, RowTypes, QueueTypes, Row, RowStatuses, Statuses
<1>2. used \in [DOMAIN Limit -> Nat]
  <2>. DEFINE D == DOMAIN Limit
  <2>1. used = [b \in D |-> 0]
    BY DEF Init
  <2>. HIDE DEF D
  <2>2. used \in [D -> Nat]
    BY <2>1
  <2>. QED  BY <2>2 DEF D
<1>3. DispatchTypes /\ TurnTypes
  BY DEF Init, DispatchTypes, TurnTypes, Waiting, Holding, TurnPhases
<1>4. RunTypes
  BY DEF Init, RunTypes, LoopPhases
<1>5. StopTypes
  <2>1. stop \in StopPhases /\ finished \in BOOLEAN /\ aborted \in BOOLEAN /\ retaken \subseteq Messages
    BY DEF Init, StopPhases
  <2>2. saved \in Seq(Messages) /\ listed \in Seq(Messages)
    BY DEF Init
  <2>. QED  BY <2>1, <2>2 DEF StopTypes
<1>6. Exclusion
  BY DEF Init, Exclusion
<1>7. Steering /\ Retaken
  BY EmptyFacts DEF Init, Steering, Apart, Retaken
<1>. QED  BY <1>1, <1>2, <1>3, <1>4, <1>5, <1>6, <1>7 DEF Tasks, TaskTypes
-----------------------------------------------------------------------------
(* No message is lost                                                       *)

LEMMA KeptStep ==
    ASSUME Tasks, Kept, Next
    PROVE  Kept'
<1>. USE DEF Tasks, RowTypes
<1>1. ASSUME NEW m \in Messages, QueueMessage(m)
      PROVE  Kept'
    BY <1>1, InsertFacts DEF QueueMessage, NextMessage, QueueTypes, RowStatuses, Schedule,
     turnVars, runVars, Kept
<1>2. ASSUME NEW m \in Messages, SteerRun(m)
      PROVE  Kept'
    BY <1>2, MarkFacts DEF SteerRun, NextMessage, QueueTypes, Statuses, RowStatuses, rowVars,
     dispatchVars, turnVars, runVars, Kept
<1>3. ASSUME NEW m \in Messages, RemoveQueued(m)
      PROVE  Kept'
    BY <1>3, DeleteFacts DEF RemoveQueued, rowVars, dispatchVars, turnVars, runVars, Kept
<1>4. ASSUME NEW m \in Messages, RetryQueued(m)
      PROVE  Kept'
    BY <1>4, MarkFacts DEF RetryQueued, Schedule, Statuses, RowStatuses, rowVars, dispatchVars,
     turnVars, runVars, Kept
<1>5. CASE UserTurn
  BY <1>5 DEF UserTurn, Reserve, rowVars, dispatchVars, turnVars, runVars, Kept
<1>6. CASE StopRun
  BY <1>6 DEF StopRun, rowVars, dispatchVars, turnVars, runVars, Kept
<1>7. CASE TakeLock
  BY <1>7 DEF TakeLock, rowVars, dispatchVars, turnVars, runVars, Kept
<1>8. CASE Register
  BY <1>8 DEF Register, rowVars, dispatchVars, turnVars, runVars, Kept
<1>9. CASE AppendMessage
  <2>1. CASE owner = "dispatcher"
    <3>1. dpc = "turn" /\ held \in Messages /\ log' = Append(log, held)
      BY <1>9, <2>1, HeldFacts DEF AppendMessage, Deliver, TaskTypes, TurnTypes, Holding
    <3>2. Range(log)' = Range(log) \cup {held}
      BY <3>1, AppendFacts
    <3>. QED  BY <1>9, <3>1, <3>2 DEF AppendMessage, dispatchVars, runVars, Kept
  <2>2. CASE owner # "dispatcher"
    BY <1>9, <2>2 DEF AppendMessage, dispatchVars, runVars, Kept, TaskTypes,
        TurnTypes
  <2>. QED  BY <2>1, <2>2
<1>10. CASE StartTurn
  BY <1>10 DEF StartTurn, Starts, rowVars, dispatchVars, turnVars, runVars, Kept
<1>11. CASE TurnFails
    BY <1>11 DEF TurnFails, EndRun, Starts, rowVars, dispatchVars, turnVars, runVars, Kept
<1>12. CASE AwaitRunner
  BY <1>12 DEF AwaitRunner, rowVars, dispatchVars, turnVars, runVars, Kept
<1>13. CASE ReleaseLock
  BY <1>13 DEF ReleaseLock, rowVars, dispatchVars, turnVars, runVars, Kept
<1>14. CASE EndTurn
    BY <1>14 DEF EndTurn, Settle, TaskTypes, TurnTypes, rowVars, dispatchVars, turnVars,
     runVars, Kept
<1>15. CASE DispatchStart
  BY <1>15 DEF DispatchStart, rowVars, dispatchVars, turnVars, runVars, Kept
<1>16. CASE DispatchPoll
    BY <1>16 DEF DispatchPoll, Return, rowVars, dispatchVars, turnVars, runVars, Kept
<1>17. CASE DispatchClaim
    BY <1>17, ClaimFacts DEF DispatchClaim, Return, rowVars, dispatchVars, turnVars, runVars,
     Kept
<1>18. CASE DispatchSend
    BY <1>18 DEF DispatchSend, Reserve, rowVars, dispatchVars, turnVars, runVars, Kept
<1>19. CASE DispatchDefer
  <2>1. CASE Row(held) /\ Mark(held, "queued")
    BY <1>19, <2>1, HeldFacts, MarkFacts DEF DispatchDefer, Again, Return, Holding,
        Statuses, RowStatuses, turnVars, runVars, Kept
  <2>2. CASE UNCHANGED status
    BY <1>19, <2>2 DEF DispatchDefer, Again, Return, turnVars, runVars, Kept
  <2>. QED  BY <1>19, <2>1, <2>2 DEF DispatchDefer, Deferrable
<1>20. CASE DispatchBlock
  <2>1. CASE Row(held) /\ Mark(held, "blocked")
    BY <1>20, <2>1, HeldFacts, MarkFacts DEF DispatchBlock, Return, Holding, Statuses,
        RowStatuses, turnVars, runVars, Kept
  <2>2. CASE UNCHANGED status
    BY <1>20, <2>2 DEF DispatchBlock, Return, turnVars, runVars, Kept
  <2>. QED  BY <1>20, <2>1, <2>2 DEF DispatchBlock
<1>21. CASE DispatchRemove
  <2>1. CASE Delete(held)
    BY <1>21, <2>1, HeldFacts, DeleteFacts DEF DispatchRemove, Again, Return, Holding,
        turnVars, runVars, Kept
  <2>2. CASE UNCHANGED status
    BY <1>21, <2>2 DEF DispatchRemove, Again, Return, turnVars, runVars, Kept
  <2>. QED  BY <1>21, <2>1, <2>2 DEF DispatchRemove
<1>22. CASE AppendSteering
  <2>1. /\ Head(drained) \in Messages /\ ~Row(Head(drained)) /\ Mark(Head(drained), "gone")
        /\ log' = Append(log, Head(drained)) /\ loop = "idle"
    BY <1>22, ListFacts DEF AppendSteering, Looping, Deliver, QueueTypes, RowStatuses
  <2>2. Range(log)' = Range(log) \cup {Head(drained)}
    BY <2>1, AppendFacts
  <2>3. \A n \in Messages : status'[n] = IF n = Head(drained) THEN "gone" ELSE status[n]
    BY <2>1, MarkFacts DEF Statuses, RowStatuses
    <2>. QED  BY <1>22, <2>1, <2>2, <2>3 DEF AppendSteering, dispatchVars, turnVars, Kept
<1>23. CASE FollowUp
  BY <1>23 DEF FollowUp, rowVars, dispatchVars, turnVars, runVars, Kept
<1>24. CASE FollowUpClaim
    BY <1>24, ClaimFacts, ListFacts DEF FollowUpClaim, Conclude, rowVars, dispatchVars,
     turnVars, runVars, Kept
<1>25. CASE FollowUpDecide
  <2>1. /\ loop = "claimed" /\ loop' # "admitting"
        /\ UNCHANGED <<log, removed, dispatchVars, turnVars, orphans>>
    BY <1>25 DEF FollowUpDecide, Conclude, EndRun
  <2>2. \A n \in Messages : status'[n] = "gone" => status[n] = "gone"
    <3>1. CASE LoseSteering
      BY <3>1, LoseSteeringFacts
    <3>2. CASE UNCHANGED status
      BY <3>2
    <3>3. ASSUME NEW s \in {"queued", "blocked"}, Row(Last(claimed)), Mark(Last(claimed), s)
          PROVE  \A n \in Messages : status'[n] = "gone" => status[n] = "gone"
      <4>1. Last(claimed) \in Messages
        BY <2>1, ListFacts DEF Exclusion
      <4>. QED  BY <3>3, <4>1, MarkFacts DEF RowStatuses, Statuses
    <3>. QED  BY <1>25, <3>1, <3>2, <3>3 DEF FollowUpDecide, Deferrable
  <2>. QED  BY <2>1, <2>2 DEF dispatchVars, turnVars, Kept
<1>26. CASE FollowUpPersist
  <2>1. Head(claimed) \in Messages /\ log' = Append(log, Head(claimed)) /\ claimed' = claimed
    BY <1>26, ListFacts DEF FollowUpPersist, Deliver, Exclusion
  <2>2. Range(log)' = Range(log) \cup {Head(claimed)}
    BY <2>1, AppendFacts
  <2>. QED  BY <1>26, <2>1, <2>2 DEF FollowUpPersist, dispatchVars, turnVars, Kept
<1>27. CASE FollowUpAdmit
  <2>1. /\ loop = "admitting" /\ loop' # "admitting" /\ Head(claimed) \in Messages
        /\ UNCHANGED <<log, removed, dispatchVars, turnVars, orphans>>
    BY <1>27, ListFacts DEF FollowUpAdmit, EndRun, Exclusion
  <2>2. CASE LoseSteering
    BY <2>1, <2>2, LoseSteeringFacts DEF dispatchVars, turnVars, Kept
  <2>3. CASE Delete(Head(claimed))
    BY <2>1, <2>3, DeleteFacts DEF dispatchVars, turnVars, Kept
  <2>. QED  BY <1>27, <2>2, <2>3 DEF FollowUpAdmit
<1>28. CASE RunEnds
    BY <1>28, LoseSteeringFacts DEF RunEnds, EndRun, rowVars, dispatchVars, turnVars, runVars,
     Kept
<1>29. CASE RunFails
    BY <1>29, LoseSteeringFacts DEF RunFails, EndRun, rowVars, dispatchVars, turnVars, runVars,
     Kept
<1>30. CASE RunCancelled
    BY <1>30, LoseSteeringFacts DEF RunCancelled, EndRun, rowVars, dispatchVars, turnVars,
     runVars, Kept
<1>31. CASE StopAwaited
  BY <1>31 DEF StopAwaited, rowVars, dispatchVars, turnVars, runVars, Kept
<1>32. CASE StopSaves
  <2>1. CASE saved = <<>>
    BY <1>32, <2>1 DEF StopSaves, dispatchVars, turnVars, runVars, Kept
  <2>2. CASE saved # <<>>
    <3>1. Insert(Head(saved)) /\ Head(saved) \in Messages /\ ~Row(Head(saved))
      BY <1>32, <2>2, ListFacts DEF StopSaves, QueueTypes, RowStatuses
        <3>. QED  BY <1>32, <2>2, <3>1, InsertFacts DEF StopSaves, Schedule, turnVars, runVars,
                 Kept
  <2>. QED  BY <2>1, <2>2
<1>33. CASE StopLists
  BY <1>33 DEF StopLists, rowVars, dispatchVars, turnVars, runVars, Kept
<1>34. CASE StopBlocks
  <2>1. CASE UNCHANGED status
    BY <1>34, <2>1 DEF StopBlocks, dispatchVars, turnVars, runVars, Kept
  <2>2. CASE Row(Head(listed)) /\ Mark(Head(listed), "blocked") /\ Head(listed) \in Messages
    BY <1>34, <2>2, MarkFacts DEF StopBlocks, Statuses, RowStatuses, dispatchVars,
        turnVars, runVars, Kept
  <2>. QED  BY <1>34, <2>1, <2>2, ListFacts DEF StopBlocks
<1>35. CASE StopReturns
  BY <1>35 DEF StopReturns, rowVars, dispatchVars, turnVars, runVars, Kept
<1>36. ASSUME NEW x \in orphans, OrphanCommits(x)
      PROVE  Kept'
  <2>1. CASE \E m \in Messages : Claim(m)
    BY <1>36, <2>1, ClaimFacts DEF OrphanCommits, dispatchVars, turnVars, Kept
  <2>2. CASE UNCHANGED status
    BY <1>36, <2>2 DEF OrphanCommits, dispatchVars, turnVars, Kept
  <2>3. CASE x # 0 /\ Delete(x)
    BY <1>36, <2>3, DeleteFacts DEF OrphanCommits, dispatchVars, turnVars, TaskTypes,
        RunTypes, Kept
  <2>. QED  BY <1>36, <2>1, <2>2, <2>3 DEF OrphanCommits
<1>37. CASE Restart
    BY <1>37 DEF Restart, Again, Recovered, rowVars, dispatchVars, turnVars, runVars, Kept
<1>38. CASE DrainSteering
  BY <1>38 DEF DrainSteering, rowVars, dispatchVars, turnVars, runVars, Kept
<1>. QED  BY <1>1, <1>2, <1>3, <1>4, <1>5, <1>6, <1>7, <1>8, <1>9, <1>10, <1>11, <1>12,
             <1>13, <1>14, <1>15, <1>16, <1>17, <1>18, <1>19, <1>20, <1>21, <1>22, <1>23,
             <1>24, <1>25, <1>26, <1>27, <1>28, <1>29, <1>30, <1>31, <1>32, <1>33, <1>34,
             <1>35, <1>36, <1>37, <1>38 DEF Next

-----------------------------------------------------------------------------
(* Nothing is delivered more often than the user confirmed                  *)

LEMMA CountType ==
    ASSUME NEW S, NEW s \in Seq(S), NEW n
    PROVE  IsFiniteSet({k \in DOMAIN s : s[k] = n}) /\ Count(s, n) \in Nat
<1>1. IsFiniteSet(DOMAIN s)
  <2>1. DOMAIN s = 1 .. Len(s) /\ Len(s) \in Nat
    OBVIOUS
  <2>. QED  BY <2>1, FS_Interval
<1>2. IsFiniteSet({k \in DOMAIN s : s[k] = n})
  BY <1>1, FS_Subset
<1>. QED  BY <1>2, FS_CardinalityType DEF Count

LEMMA CountEmpty ==
    ASSUME NEW n
    PROVE  Count(<<>>, n) = 0
<1>1. {k \in DOMAIN <<>> : <<>>[k] = n} = {}
  OBVIOUS
<1>. QED  BY <1>1, FS_EmptySet DEF Count

LEMMA CountFront ==
    ASSUME NEW S, NEW s \in Seq(S), s # <<>>, NEW n
    PROVE  Count(s, n) = Count(Front(s), n) + Same(Last(s), n)
<1>. DEFINE t == Front(s)
            A == {k \in DOMAIN t : t[k] = n}
            B == {k \in DOMAIN s : s[k] = n}
<1>1. /\ t \in Seq(S) /\ DOMAIN t = 1 .. Len(s) - 1 /\ DOMAIN s = 1 .. Len(s) /\ Len(s) \in Nat \ {0}
      /\ Last(s) = s[Len(s)] /\ \A k \in 1 .. Len(s) - 1 : t[k] = s[k]
  BY DEF Front, Last
<1>2. IsFiniteSet(A) /\ Cardinality(A) \in Nat
  BY <1>1, CountType DEF Count
<1>3. B = IF Last(s) = n THEN A \cup {Len(s)} ELSE A
  <2>. HIDE DEF t
  <2>1. \A k \in B : k \in A \/ (k = Len(s) /\ Last(s) = n)
    BY <1>1
  <2>2. A \subseteq B /\ (Last(s) = n => Len(s) \in B)
    BY <1>1
  <2>. QED  BY <2>1, <2>2
<1>4. Len(s) \notin A
  <2>. HIDE DEF t
  <2>. QED  BY <1>1
<1>5. Cardinality(B) = Cardinality(A) + Same(Last(s), n)
  <2>. HIDE DEF A, B
  <2>1. Cardinality(A \cup {Len(s)}) = Cardinality(A) + 1
    BY <1>2, <1>4, FS_AddElement
  <2>2. CASE Last(s) = n
    BY <1>3, <2>1, <2>2 DEF Same
  <2>3. CASE Last(s) # n
    BY <1>2, <1>3, <2>3 DEF Same
  <2>. QED  BY <2>2, <2>3
<1>. QED  BY <1>5 DEF Count

LEMMA CountAppend ==
    ASSUME NEW S, NEW s \in Seq(S), NEW e \in S, NEW n
    PROVE  Count(Append(s, e), n) = Count(s, n) + Same(e, n)
<1>. DEFINE t == Append(s, e)
<1>1. t \in Seq(S) /\ t # <<>>
  BY AppendFacts
<1>2. Front(t) = s /\ Last(t) = e
  BY DEF Front, Last
<1>. HIDE DEF t
<1>3. Count(t, n) = Count(s, n) + Same(e, n)
  BY <1>1, <1>2, CountFront
<1>. QED  BY <1>3 DEF t

LEMMA CountTail ==
    ASSUME NEW S, NEW s \in Seq(S), s # <<>>, NEW n
    PROVE  Count(s, n) = Count(Tail(s), n) + Same(Head(s), n)
<1>. DEFINE t == Tail(s)
            A == {k \in DOMAIN t : t[k] = n}
            B == {k \in DOMAIN s : s[k] = n}
            shift == [k \in A |-> k + 1]
<1>1. /\ t \in Seq(S) /\ DOMAIN t = 1 .. Len(s) - 1 /\ DOMAIN s = 1 .. Len(s) /\ Len(s) \in Nat \ {0}
      /\ Head(s) = s[1] /\ \A k \in 1 .. Len(s) - 1 : t[k] = s[k + 1]
  OBVIOUS
<1>2. /\ IsFiniteSet(A) /\ Cardinality(A) \in Nat
      /\ IsFiniteSet(B) /\ Cardinality(B) \in Nat
  BY <1>1, CountType DEF Count
<1>. HIDE DEF t
<1>3. shift \in Bijection(A, B \ {1})
  <2>1. \A k \in A : k + 1 \in B \ {1}
    BY <1>1
  <2>2. \A k \in B \ {1} : k - 1 \in A /\ shift[k - 1] = k
    BY <1>1
  <2>3. \A j, k \in A : shift[j] = shift[k] => j = k
    BY <1>1
  <2>4. shift \in Injection(A, B \ {1})
    BY <2>1, <2>3 DEF Injection, IsInjective
  <2>5. shift \in Surjection(A, B \ {1})
    BY <2>1, <2>2 DEF Surjection
  <2>. QED  BY <2>4, <2>5 DEF Bijection
<1>4. Cardinality(B \ {1}) = Cardinality(A)
  BY <1>2, <1>3, FS_Bijection DEF ExistsBijection
<1>5. 1 \in B <=> Head(s) = n
  BY <1>1
<1>6. Cardinality(B) = Cardinality(A) + Same(Head(s), n)
  <2>. HIDE DEF A, B
  <2>1. Cardinality(B \ {1}) = IF 1 \in B THEN Cardinality(B) - 1 ELSE Cardinality(B)
    BY <1>2, FS_RemoveElement
  <2>2. CASE Head(s) = n
    BY <1>2, <1>4, <1>5, <2>1, <2>2 DEF Same
  <2>3. CASE Head(s) # n
    BY <1>2, <1>4, <1>5, <2>1, <2>3 DEF Same
  <2>. QED  BY <2>2, <2>3
<1>. QED  BY <1>6 DEF Count, t

\* The counts of the delivered and the claimed messages.
LEMMA CountFacts ==
    ASSUME Tasks, NEW n \in Messages
    PROVE  /\ Deliveries(n) = Count(log, n) /\ Count(log, n) \in Nat /\ Count(claimed, n) \in Nat
           /\ retried[n] \in Nat
           /\ \A m \in Messages : Count(Append(log, m), n) = Count(log, n) + Same(m, n)
           /\ \A m \in Messages : Count(Append(claimed, m), n) = Count(claimed, n) + Same(m, n)
           /\ claimed # <<>> =>
                  /\ Count(claimed, n) = Count(Tail(claimed), n) + Same(Head(claimed), n)
                  /\ Count(claimed, n) = Count(Front(claimed), n) + Same(Last(claimed), n)
                  /\ Count(Tail(claimed), n) \in Nat /\ Count(Front(claimed), n) \in Nat
           /\ Count(<<>>, n) = 0
<1>1. log \in Seq(Messages) /\ claimed \in Seq(Messages) /\ retried[n] \in Nat
  BY DEF Tasks, RowTypes, TaskTypes, RunTypes
<1>2. claimed # <<>> => Tail(claimed) \in Seq(Messages) /\ Front(claimed) \in Seq(Messages)
  BY ListFacts
<1>3. Deliveries(n) = Count(log, n)
  BY DEF Deliveries, Count
<1>4. Count(log, n) \in Nat /\ Count(claimed, n) \in Nat
  BY <1>1, CountType
<1>5. \A m \in Messages : /\ Count(Append(log, m), n) = Count(log, n) + Same(m, n)
                          /\ Count(Append(claimed, m), n) = Count(claimed, n) + Same(m, n)
  BY <1>1, CountAppend
<1>6. claimed # <<>> =>
          /\ Count(claimed, n) = Count(Tail(claimed), n) + Same(Head(claimed), n)
          /\ Count(claimed, n) = Count(Front(claimed), n) + Same(Last(claimed), n)
          /\ Count(Tail(claimed), n) \in Nat /\ Count(Front(claimed), n) \in Nat
  <2>. SUFFICES ASSUME claimed # <<>>
                PROVE  /\ Count(claimed, n) = Count(Tail(claimed), n) + Same(Head(claimed), n)
                       /\ Count(claimed, n) = Count(Front(claimed), n) + Same(Last(claimed), n)
                       /\ Count(Tail(claimed), n) \in Nat /\ Count(Front(claimed), n) \in Nat
    OBVIOUS
  <2>1. Count(claimed, n) = Count(Tail(claimed), n) + Same(Head(claimed), n)
    BY <1>1, CountTail
  <2>2. Count(claimed, n) = Count(Front(claimed), n) + Same(Last(claimed), n)
    BY <1>1, CountFront
  <2>3. Count(Tail(claimed), n) \in Nat /\ Count(Front(claimed), n) \in Nat
    BY <1>2, CountType
  <2>. QED  BY <2>1, <2>2, <2>3
<1>. QED  BY <1>1, <1>3, <1>4, <1>5, <1>6, CountEmpty
LEMMA OneType ==
    ASSUME NEW n
    PROVE  /\ InHand(n) \in Nat /\ AtRow(n) \in Nat /\ Admission(n) \in Nat
           /\ InHand(n)' \in Nat /\ AtRow(n)' \in Nat /\ Admission(n)' \in Nat
BY DEF InHand, AtRow, Admission, Same

\* A message keeps its rights unless those in use grow.
LEMMA RightsBalance ==
    ASSUME Tasks, NEW n \in Messages, Rights(n),
           Count(log', n) \in Nat, Count(claimed', n) \in Nat, retried'[n] \in Nat,
           Count(log', n) + Count(claimed', n) + InHand(n)' + AtRow(n)' + retried[n]
               + Admission(n)
           <= Count(log, n) + Count(claimed, n) + InHand(n) + AtRow(n) + retried'[n]
               + Admission(n)'
    PROVE  Rights(n)'
<1>1. Deliveries(n) = Count(log, n) /\ Deliveries(n)' = Count(log', n)
  BY DEF Deliveries, Count
<1>2. Count(log, n) \in Nat /\ Count(claimed, n) \in Nat /\ retried[n] \in Nat
  BY CountFacts
<1>3. /\ InHand(n) \in Nat /\ AtRow(n) \in Nat /\ Admission(n) \in Nat
      /\ InHand(n)' \in Nat /\ AtRow(n)' \in Nat /\ Admission(n)' \in Nat
  BY OneType
<1>4. Count(log, n) + Count(claimed, n) + InHand(n) + AtRow(n) <= 1 + retried[n] + Admission(n)
  BY <1>1 DEF Rights
<1>5. Count(log', n) + Count(claimed', n) + InHand(n)' + AtRow(n)' <= 1 + retried'[n] + Admission(n)'
  BY <1>2, <1>3, <1>4
<1>. QED  BY <1>1, <1>5 DEF Rights

\* A right that stays, moves between the row and the dispatcher, or is given up.
LEMMA RightsStay ==
    ASSUME Tasks, NEW n \in Messages, Rights(n), UNCHANGED <<log, claimed, retried>>,
           Admitting(n)' <=> Admitting(n),
           Sending(n)' /\ Fresh(n)' => Sending(n) /\ Fresh(n),
           Sending(n)' \/ Fresh(n)' => Sending(n) \/ Fresh(n)
    PROVE  Rights(n)'
<1>1. InHand(n)' + AtRow(n)' <= InHand(n) + AtRow(n)
  BY DEF InHand, AtRow, Admission, Same
<1>2. Admission(n)' = Admission(n)
  BY DEF InHand, AtRow, Admission, Same
<1>3. /\ Count(log, n) \in Nat /\ Count(claimed, n) \in Nat /\ retried[n] \in Nat
      /\ InHand(n) \in Nat /\ AtRow(n) \in Nat /\ Admission(n) \in Nat
      /\ InHand(n)' \in Nat /\ AtRow(n)' \in Nat /\ Admission(n)' \in Nat
  BY CountFacts, OneType
<1>4. /\ Count(log', n) \in Nat /\ Count(claimed', n) \in Nat /\ retried'[n] \in Nat
      /\ Count(log', n) + Count(claimed', n) + InHand(n)' + AtRow(n)' + retried[n]
             + Admission(n)
         <= Count(log, n) + Count(claimed, n) + InHand(n) + AtRow(n) + retried'[n]
             + Admission(n)'
  BY <1>1, <1>2, <1>3
<1>. QED  BY <1>4, RightsBalance

LEMMA RightsKept ==
    ASSUME Tasks, NEW n \in Messages, Rights(n), UNCHANGED <<log, claimed, loop, retried>>,
           Sending(n)' /\ Fresh(n)' => Sending(n) /\ Fresh(n),
           Sending(n)' \/ Fresh(n)' => Sending(n) \/ Fresh(n)
    PROVE  Rights(n)'
BY RightsStay DEF Admitting

\* A message that is given to the conversation: who sends it loses the right.
LEMMA RightsGiven ==
    ASSUME Tasks, NEW n \in Messages, Rights(n), UNCHANGED <<claimed, loop, retried>>,
           NEW m \in Messages, Count(log', n) = Count(log, n) + Same(m, n),
           Sending(n)' => Sending(n), Fresh(n)' => Fresh(n),
           m = n => (Sending(n) /\ ~Sending(n)') \/ (Fresh(n) /\ ~Fresh(n)')
    PROVE  Rights(n)'
<1>1. Admitting(n)' <=> Admitting(n)
  BY DEF Admitting
<1>2. Same(m, n) + InHand(n)' + AtRow(n)' <= InHand(n) + AtRow(n)
  BY DEF InHand, AtRow, Admission, Same
<1>3. Same(m, n) \in Nat
  BY DEF InHand, AtRow, Admission, Same
<1>4. Admission(n)' = Admission(n)
  BY <1>1 DEF InHand, AtRow, Admission, Same
<1>5. /\ Count(log, n) \in Nat /\ Count(claimed, n) \in Nat /\ retried[n] \in Nat
      /\ InHand(n) \in Nat /\ AtRow(n) \in Nat /\ Admission(n) \in Nat
      /\ InHand(n)' \in Nat /\ AtRow(n)' \in Nat /\ Admission(n)' \in Nat
  BY CountFacts, OneType
<1>6. /\ Count(log', n) \in Nat /\ Count(claimed', n) \in Nat /\ retried'[n] \in Nat
      /\ Count(log', n) + Count(claimed', n) + InHand(n)' + AtRow(n)' + retried[n]
             + Admission(n)
         <= Count(log, n) + Count(claimed, n) + InHand(n) + AtRow(n) + retried'[n]
             + Admission(n)'
  BY <1>2, <1>3, <1>4, <1>5
<1>. QED  BY <1>6, RightsBalance

\* The loop gives a claimed message back.
LEMMA RightsPassed ==
    ASSUME Tasks, NEW n \in Messages, Rights(n), UNCHANGED <<log, retried>>,
           ~Admitting(n), ~Admitting(n)', Sending(n)' <=> Sending(n),
           NEW m, Count(claimed, n) = Count(claimed', n) + Same(m, n), Count(claimed', n) \in Nat,
           m = n \/ (Fresh(n)' <=> Fresh(n))
    PROVE  Rights(n)'
<1>1. Deliveries(n)' = Deliveries(n) /\ retried'[n] = retried[n]
  BY DEF Deliveries
<1>2. Count(claimed', n) + InHand(n)' + AtRow(n)'
          <= Count(claimed, n) + InHand(n) + AtRow(n)
  BY CountFacts DEF InHand, AtRow, Admission, Same
<1>. QED  BY <1>1, <1>2, CountFacts DEF Rights, InHand, AtRow, Admission, Same

LEMMA AdmittingIsClaimed ==
    ASSUME Tasks, NEW n \in Messages
    PROVE  Admission(n) <= Count(claimed, n)
<1>1. Admitting(n) => claimed # <<>> /\ Head(claimed) = n
  BY DEF Admitting, Tasks, Exclusion
<1>. QED  BY <1>1, CountFacts DEF InHand, AtRow, Admission, Same

\* What the loop claimed when its run ends is not delivered by it.
LEMMA RightsDropped ==
    ASSUME Tasks, NEW n \in Messages, Rights(n), UNCHANGED <<log, retried>>,
           Sending(n)' <=> Sending(n), EndRun, LoseSteering
    PROVE  Rights(n)'
<1>1. claimed' = <<>> /\ ~Admitting(n)'
  BY DEF EndRun, Admitting
<1>2. Fresh(n)' => Fresh(n)
  BY LoseSteeringFacts DEF Fresh, Tasks, RowTypes
<1>3. Deliveries(n)' = Deliveries(n) /\ retried'[n] = retried[n] /\ Count(claimed', n) = 0
  BY <1>1, CountFacts DEF Deliveries
<1>4. InHand(n)' + AtRow(n)' <= InHand(n) + AtRow(n)
  BY <1>2 DEF InHand, AtRow, Admission, Same
<1>5. Admission(n)' = 0
  BY <1>1 DEF InHand, AtRow, Admission, Same
<1>. QED  BY <1>3, <1>4, <1>5, CountFacts, AdmittingIsClaimed DEF Rights, InHand, AtRow,
              Admission, Same

LEMMA RightsStep ==
    ASSUME Tasks, RightsHold, Next
    PROVE  RightsHold'
<1>. USE DEF Tasks, RowTypes
<1>. SUFFICES ASSUME NEW n \in Messages, Rights(n)
              PROVE  Rights(n)'
  BY DEF RightsHold
<1>1. ASSUME NEW m \in Messages, QueueMessage(m)
      PROVE  Rights(n)'
  <2>1. (Sending(n)' => Sending(n)) /\ (Fresh(n)' => Fresh(n))
        /\ UNCHANGED <<log, claimed, loop, retried>>
    BY <1>1, InsertFacts DEF QueueMessage, NextMessage, Schedule, QueueTypes, RowStatuses,
        turnVars, runVars, Sending, Fresh, WillSend
  <2>. QED  BY <2>1, RightsKept
<1>2. ASSUME NEW m \in Messages, SteerRun(m)
      PROVE  Rights(n)'
  <2>1. (Sending(n)' => Sending(n)) /\ (Fresh(n)' => Fresh(n))
        /\ UNCHANGED <<log, claimed, loop, retried>>
    BY <1>2, MarkFacts DEF SteerRun, NextMessage, QueueTypes, RowStatuses, Statuses,
        dispatchVars, turnVars, Sending, Fresh, WillSend
  <2>. QED  BY <2>1, RightsKept
<1>3. ASSUME NEW m \in Messages, RemoveQueued(m)
      PROVE  Rights(n)'
  <2>1. (Sending(n)' => Sending(n)) /\ (Fresh(n)' => Fresh(n))
        /\ UNCHANGED <<log, claimed, loop, retried>>
    BY <1>3, DeleteFacts DEF RemoveQueued, dispatchVars, turnVars, runVars, Sending, Fresh,
        WillSend
  <2>. QED  BY <2>1, RightsKept
<1>4. ASSUME NEW m \in Messages, RetryQueued(m)
      PROVE  Rights(n)'
  <2>1. /\ Sending(n)' => Sending(n)
        /\ IF n = m THEN ~Fresh(n) ELSE Fresh(n)' => Fresh(n)
        /\ UNCHANGED <<log, claimed, loop>> /\ retried'[n] = IF n = m THEN retried[n] + 1 ELSE retried[n]
    BY <1>4, MarkFacts DEF RetryQueued, Schedule, RowStatuses, Statuses, turnVars, runVars,
        Sending, Fresh, WillSend
  <2>2. Admission(n)' = Admission(n) /\ InHand(n)' <= InHand(n)
    BY <2>1 DEF InHand, AtRow, Admission, Same, Admitting
  <2>3. CASE n = m
    <3>1. AtRow(n) = 0 /\ AtRow(n)' <= 1
      BY <2>1, <2>3 DEF InHand, AtRow, Admission, Same
    <3>2. /\ Count(log, n) \in Nat /\ Count(claimed, n) \in Nat /\ retried[n] \in Nat
          /\ InHand(n) \in Nat /\ AtRow(n) \in Nat /\ Admission(n) \in Nat
          /\ InHand(n)' \in Nat /\ AtRow(n)' \in Nat /\ Admission(n)' \in Nat
      BY CountFacts, OneType
    <3>3. /\ Count(log', n) \in Nat /\ Count(claimed', n) \in Nat /\ retried'[n] \in Nat
          /\ Count(log', n) + Count(claimed', n) + InHand(n)' + AtRow(n)' + retried[n]
                 + Admission(n)
             <= Count(log, n) + Count(claimed, n) + InHand(n) + AtRow(n) + retried'[n]
                 + Admission(n)'
      BY <2>1, <2>2, <2>3, <3>1, <3>2
    <3>. QED  BY <3>3, RightsBalance
  <2>4. CASE n # m
    <3>1. AtRow(n)' <= AtRow(n)
      BY <2>1, <2>4 DEF InHand, AtRow, Admission, Same
    <3>2. /\ Count(log, n) \in Nat /\ Count(claimed, n) \in Nat /\ retried[n] \in Nat
          /\ InHand(n) \in Nat /\ AtRow(n) \in Nat /\ Admission(n) \in Nat
          /\ InHand(n)' \in Nat /\ AtRow(n)' \in Nat /\ Admission(n)' \in Nat
      BY CountFacts, OneType
    <3>0. Count(log', n) = Count(log, n) /\ Count(claimed', n) = Count(claimed, n) /\ retried'[n] = retried[n]
      BY <2>1, <2>4
    <3>3. Count(log', n) \in Nat /\ Count(claimed', n) \in Nat /\ retried'[n] \in Nat
      BY <3>0, <3>2
    <3>4. Count(log', n) + Count(claimed', n) + InHand(n)' + AtRow(n)' + retried[n] + Admission(n)
          <= Count(log, n) + Count(claimed, n) + InHand(n) + AtRow(n) + retried'[n] + Admission(n)'
      BY <2>2, <3>1, <3>2, <3>0, <3>3, SMTT(30)
    <3>. QED  BY <3>3, <3>4, RightsBalance
  <2>. QED  BY <2>3, <2>4
<1>5. CASE UserTurn
  <2>1. (Sending(n)' => Sending(n)) /\ (Fresh(n)' => Fresh(n)) /\ UNCHANGED <<log, claimed, loop, retried>>
    BY <1>5 DEF UserTurn, Reserve, rowVars, dispatchVars, turnVars, runVars, Sending,
        Fresh, WillSend, TaskTypes, TurnTypes
  <2>. QED  BY <2>1, RightsKept
<1>6. CASE StopRun
  <2>1. (Sending(n)' => Sending(n)) /\ (Fresh(n)' => Fresh(n)) /\ UNCHANGED <<log, claimed, loop, retried>>
    BY <1>6 DEF StopRun, rowVars, dispatchVars, turnVars, runVars, Sending, Fresh,
        WillSend, TaskTypes, TurnTypes
  <2>. QED  BY <2>1, RightsKept
<1>7. CASE TakeLock
  <2>1. (Sending(n)' => Sending(n)) /\ (Fresh(n)' => Fresh(n)) /\ UNCHANGED <<log, claimed, loop, retried>>
    BY <1>7 DEF TakeLock, rowVars, dispatchVars, turnVars, runVars, Sending, Fresh,
        WillSend, TaskTypes, TurnTypes
  <2>. QED  BY <2>1, RightsKept
<1>8. CASE Register
  <2>1. /\ (Sending(n)' => Sending(n)) /\ (Fresh(n)' <=> Fresh(n)) /\ UNCHANGED <<log, claimed, retried>>
        /\ ~Admitting(n) /\ ~Admitting(n)'
    BY <1>8 DEF Register, Exclusion, rowVars, dispatchVars, Sending, Fresh, WillSend, Admitting
  <2>. QED  BY <2>1, RightsStay
<1>9. CASE AppendMessage
  <2>1. UNCHANGED <<claimed, loop, retried>> /\ (Fresh(n)' <=> Fresh(n))
    BY <1>9 DEF AppendMessage, runVars, Fresh
  <2>2. CASE owner = "dispatcher"
    <3>1. held \in Messages /\ log' = Append(log, held) /\ dpc = "turn" /\ phase = "persisting"
      BY <1>9, <2>2, HeldFacts DEF AppendMessage, Deliver, TaskTypes, TurnTypes, Holding
    <3>2. ~Sending(n)' /\ (held = n <=> Sending(n))
      BY <1>9, <3>1 DEF AppendMessage, dispatchVars, Sending, WillSend
    <3>3. Count(log', n) = Count(log, n) + Same(held, n)
      BY <3>1, CountFacts
    <3>. QED  BY <2>1, <3>1, <3>2, <3>3, RightsGiven
  <2>3. CASE owner # "dispatcher"
    <3>1. (Sending(n)' => Sending(n)) /\ log' = log
      BY <1>9, <2>3 DEF AppendMessage, dispatchVars, TaskTypes, TurnTypes, Sending, WillSend
    <3>. QED  BY <2>1, <3>1, RightsKept
  <2>. QED  BY <2>2, <2>3
<1>10. CASE StartTurn
  <2>1. (Sending(n)' => Sending(n)) /\ (Fresh(n)' => Fresh(n)) /\ UNCHANGED <<log, claimed, loop, retried>>
    BY <1>10 DEF StartTurn, Starts, rowVars, dispatchVars, turnVars, runVars, Sending,
        Fresh, WillSend, TaskTypes, TurnTypes
  <2>. QED  BY <2>1, RightsKept
<1>11. CASE TurnFails
  <2>1. (Sending(n)' => Sending(n)) /\ (Fresh(n)' <=> Fresh(n)) /\ UNCHANGED <<log, retried>>
    BY <1>11 DEF TurnFails, rowVars, dispatchVars, Sending, Fresh, WillSend
  <2>2. claimed' = claimed /\ loop' = loop
    BY <1>11 DEF TurnFails, Starts, EndRun, Exclusion, runVars
  <2>. QED  BY <2>1, <2>2, RightsKept
<1>12. CASE AwaitRunner
  <2>1. (Sending(n)' => Sending(n)) /\ (Fresh(n)' => Fresh(n)) /\ UNCHANGED <<log, claimed, loop, retried>>
    BY <1>12 DEF AwaitRunner, rowVars, dispatchVars, turnVars, runVars, Sending, Fresh,
        WillSend, TaskTypes, TurnTypes
  <2>. QED  BY <2>1, RightsKept
<1>13. CASE ReleaseLock
  <2>1. (Sending(n)' => Sending(n)) /\ (Fresh(n)' => Fresh(n)) /\ UNCHANGED <<log, claimed, loop, retried>>
    BY <1>13 DEF ReleaseLock, rowVars, dispatchVars, turnVars, runVars, Sending, Fresh,
        WillSend, TaskTypes, TurnTypes
  <2>. QED  BY <2>1, RightsKept
<1>14. CASE EndTurn
  <2>1. (Sending(n)' => Sending(n)) /\ (Fresh(n)' => Fresh(n)) /\ UNCHANGED <<log, claimed, loop, retried>>
    BY <1>14 DEF EndTurn, Settle, rowVars, dispatchVars, turnVars, runVars, Sending, Fresh,
        WillSend, TaskTypes, TurnTypes
  <2>. QED  BY <2>1, RightsKept
<1>15. CASE DispatchStart
  <2>1. (Sending(n)' => Sending(n)) /\ (Fresh(n)' => Fresh(n)) /\ UNCHANGED <<log, claimed, loop, retried>>
    BY <1>15 DEF DispatchStart, rowVars, dispatchVars, turnVars, runVars, Sending, Fresh,
        WillSend, TaskTypes, TurnTypes
  <2>. QED  BY <2>1, RightsKept
<1>16. CASE DispatchPoll
  <2>1. (Sending(n)' => Sending(n)) /\ (Fresh(n)' => Fresh(n)) /\ UNCHANGED <<log, claimed, loop, retried>>
    BY <1>16 DEF DispatchPoll, Return, rowVars, dispatchVars, turnVars, runVars, Sending,
        Fresh, WillSend, TaskTypes, TurnTypes
  <2>. QED  BY <2>1, RightsKept
<1>17. CASE DispatchClaim
  <2>1. (Sending(n)' /\ Fresh(n)' => Sending(n) /\ Fresh(n))
        /\ (Sending(n)' \/ Fresh(n)' => Sending(n) \/ Fresh(n))
        /\ UNCHANGED <<log, claimed, loop, retried>>
    BY <1>17, ClaimFacts DEF DispatchClaim, Return, turnVars, runVars, Sending, Fresh, WillSend
  <2>. QED  BY <2>1, RightsKept
<1>18. CASE DispatchSend
  <2>1. (Sending(n)' => Sending(n)) /\ (Fresh(n)' => Fresh(n)) /\ UNCHANGED <<log, claimed, loop, retried>>
    BY <1>18 DEF DispatchSend, Reserve, rowVars, dispatchVars, turnVars, runVars, Sending,
        Fresh, WillSend, TaskTypes, TurnTypes
  <2>. QED  BY <2>1, RightsKept
<1>19. CASE DispatchDefer
  <2>1. UNCHANGED <<log, claimed, loop, retried>> /\ ~Sending(n)' /\ (held = n => Sending(n))
    BY <1>19 DEF DispatchDefer, Again, Return, runVars, Sending, WillSend
  <2>2. CASE Row(held) /\ Mark(held, "queued")
    <3>1. IF n = held THEN Sending(n) ELSE Fresh(n)' => Fresh(n)
            BY <1>19, <2>1, <2>2, HeldFacts, MarkFacts DEF DispatchDefer, Holding, RowStatuses,
         Statuses, Fresh
    <3>. QED  BY <2>1, <3>1, RightsKept
  <2>3. CASE UNCHANGED status
    BY <2>1, <2>3, RightsKept DEF Fresh
  <2>. QED  BY <1>19, <2>2, <2>3 DEF DispatchDefer, Deferrable
<1>20. CASE DispatchBlock
  <2>1. UNCHANGED <<log, claimed, loop, retried>> /\ ~Sending(n)'
    BY <1>20 DEF DispatchBlock, Return, runVars, Sending, WillSend
  <2>2. CASE Row(held) /\ Mark(held, "blocked")
    <3>1. Fresh(n)' => Fresh(n)
            BY <1>20, <2>2, HeldFacts, MarkFacts DEF DispatchBlock, Holding, RowStatuses,
         Statuses, Fresh
    <3>. QED  BY <2>1, <3>1, RightsKept
  <2>3. CASE UNCHANGED status
    BY <2>1, <2>3, RightsKept DEF Fresh
  <2>. QED  BY <1>20, <2>2, <2>3 DEF DispatchBlock
<1>21. CASE DispatchRemove
  <2>1. UNCHANGED <<log, claimed, loop, retried>> /\ ~Sending(n)'
    BY <1>21 DEF DispatchRemove, Again, Return, runVars, Sending, WillSend
  <2>2. CASE Delete(held)
    <3>1. Fresh(n)' => Fresh(n)
      BY <1>21, <2>2, HeldFacts, DeleteFacts DEF DispatchRemove, Holding, Fresh
    <3>. QED  BY <2>1, <3>1, RightsKept
  <2>3. CASE UNCHANGED status
    BY <2>1, <2>3, RightsKept DEF Fresh
  <2>. QED  BY <1>21, <2>2, <2>3 DEF DispatchRemove
<1>22. CASE AppendSteering
  <2>1. /\ Head(drained) \in Messages /\ ~Row(Head(drained)) /\ Mark(Head(drained), "gone")
        /\ status[Head(drained)] = "steered" /\ log' = Append(log, Head(drained))
        /\ UNCHANGED <<claimed, loop, retried>> /\ (Sending(n)' <=> Sending(n))
    BY <1>22, ListFacts DEF AppendSteering, Deliver, QueueTypes, RowStatuses, dispatchVars,
        turnVars, Sending, WillSend
  <2>2. \A k \in Messages : status'[k] = IF k = Head(drained) THEN "gone" ELSE status[k]
    BY <2>1, MarkFacts DEF Statuses, RowStatuses
  <2>3. Count(log', n) = Count(log, n) + Same(Head(drained), n)
    BY <2>1, CountFacts
  <2>4. IF Head(drained) = n THEN Fresh(n) /\ ~Fresh(n)' ELSE Fresh(n)' <=> Fresh(n)
    BY <2>1, <2>2 DEF Fresh
  <2>. QED  BY <2>1, <2>3, <2>4, RightsGiven
<1>23. CASE FollowUp
  <2>1. /\ (Sending(n)' => Sending(n)) /\ (Fresh(n)' <=> Fresh(n)) /\ UNCHANGED <<log, claimed, retried>>
        /\ ~Admitting(n) /\ ~Admitting(n)'
    BY <1>23 DEF FollowUp, rowVars, dispatchVars, turnVars, Sending, Fresh, WillSend, Admitting
  <2>. QED  BY <2>1, RightsStay
<1>24. CASE FollowUpClaim
  <2>1. UNCHANGED <<log, retried>> /\ (Sending(n)' <=> Sending(n)) /\ ~Admitting(n) /\ ~Admitting(n)'
    BY <1>24 DEF FollowUpClaim, Conclude, dispatchVars, turnVars, Sending, WillSend, Admitting
  <2>2. ASSUME NEW m \in Messages, Claim(m), claimed' = Append(claimed, m)
        PROVE  Rights(n)'
    <3>1. Count(claimed', n) = Count(claimed, n) + Same(m, n)
      BY <2>2, CountFacts
    <3>2. IF m = n THEN Fresh(n) /\ ~Fresh(n)' ELSE Fresh(n)' <=> Fresh(n)
      BY <2>2, ClaimFacts DEF Fresh
    <3>3. /\ Same(m, n) + AtRow(n)' <= AtRow(n) /\ Same(m, n) \in Nat
          /\ InHand(n)' = InHand(n) /\ Admission(n)' = Admission(n)
      BY <2>1, <3>2 DEF InHand, AtRow, Admission, Same
    <3>4. /\ Count(log, n) \in Nat /\ Count(claimed, n) \in Nat /\ retried[n] \in Nat
          /\ InHand(n) \in Nat /\ AtRow(n) \in Nat /\ Admission(n) \in Nat
          /\ InHand(n)' \in Nat /\ AtRow(n)' \in Nat /\ Admission(n)' \in Nat
      BY CountFacts, OneType
    <3>0. Count(log', n) = Count(log, n) /\ retried'[n] = retried[n]
      BY <2>1
    <3>5. Count(log', n) \in Nat /\ Count(claimed', n) \in Nat /\ retried'[n] \in Nat
      BY <3>0, <3>1, <3>3, <3>4
    <3>6. Count(log', n) + Count(claimed', n) + InHand(n)' + AtRow(n)' + retried[n] + Admission(n)
          <= Count(log, n) + Count(claimed, n) + InHand(n) + AtRow(n) + retried'[n] + Admission(n)'
      BY <3>0, <3>1, <3>3, <3>4, <3>5, SMTT(30)
    <3>. QED  BY <3>5, <3>6, RightsBalance
  <2>3. CASE UNCHANGED <<status, claimed>>
    BY <2>1, <2>3, RightsStay DEF Fresh
  <2>. QED  BY <1>24, <2>2, <2>3 DEF FollowUpClaim
<1>25. CASE FollowUpDecide
  <2>1. /\ UNCHANGED <<log, retried>> /\ (Sending(n)' <=> Sending(n)) /\ ~Admitting(n) /\ ~Admitting(n)'
        /\ claimed # <<>> /\ Last(claimed) \in Messages
    BY <1>25, ListFacts DEF FollowUpDecide, Conclude, EndRun, dispatchVars, turnVars,
        Sending, WillSend, Admitting, Exclusion
  <2>2. ASSUME NEW s \in {"queued", "blocked"}, Row(Last(claimed)), Mark(Last(claimed), s),
               claimed' = Front(claimed)
        PROVE  Rights(n)'
    <3>1. Count(claimed, n) = Count(claimed', n) + Same(Last(claimed), n)
      BY <2>1, <2>2, CountFacts
    <3>2. Count(claimed', n) \in Nat
      BY <2>1, <2>2, CountFacts
    <3>3. Last(claimed) = n \/ (Fresh(n)' <=> Fresh(n))
      BY <2>1, <2>2, MarkFacts DEF RowStatuses, Statuses, Fresh
    <3>. QED  BY <2>1, <3>1, <3>2, <3>3, RightsPassed
  <2>3. CASE EndRun /\ LoseSteering
    BY <2>1, <2>3, RightsDropped
  <2>4. CASE UNCHANGED <<status, claimed>>
    BY <2>1, <2>4, RightsStay DEF Fresh
  <2>. QED  BY <1>25, <2>2, <2>3, <2>4 DEF FollowUpDecide, Deferrable
<1>26. CASE FollowUpPersist
  <2>1. /\ Head(claimed) \in Messages /\ log' = Append(log, Head(claimed)) /\ ~Admitting(n)
        /\ UNCHANGED <<claimed, retried>> /\ (Sending(n)' <=> Sending(n)) /\ (Fresh(n)' <=> Fresh(n))
        /\ (Head(claimed) = n => Admitting(n)')
    BY <1>26, ListFacts DEF FollowUpPersist, Deliver, Exclusion, dispatchVars, turnVars,
        Sending, WillSend, Fresh, Admitting
  <2>2. Count(log', n) = Count(log, n) + Same(Head(claimed), n)
    BY <2>1, CountFacts
  <2>3. /\ Same(Head(claimed), n) <= Admission(n)' /\ Same(Head(claimed), n) \in Nat
        /\ Admission(n) = 0 /\ InHand(n)' = InHand(n)
        /\ AtRow(n)' = AtRow(n)
    BY <2>1 DEF InHand, AtRow, Admission, Same
  <2>4. /\ Count(log, n) \in Nat /\ Count(claimed, n) \in Nat /\ retried[n] \in Nat
        /\ InHand(n) \in Nat /\ AtRow(n) \in Nat /\ Admission(n) \in Nat
        /\ InHand(n)' \in Nat /\ AtRow(n)' \in Nat /\ Admission(n)' \in Nat
    BY CountFacts, OneType
  <2>0. Count(claimed', n) = Count(claimed, n) /\ retried'[n] = retried[n]
    BY <2>1
  <2>5. Count(log', n) \in Nat /\ Count(claimed', n) \in Nat /\ retried'[n] \in Nat
    BY <2>0, <2>2, <2>3, <2>4
  <2>6. Count(log', n) + Count(claimed', n) + InHand(n)' + AtRow(n)' + retried[n] + Admission(n)
        <= Count(log, n) + Count(claimed, n) + InHand(n) + AtRow(n) + retried'[n] + Admission(n)'
    BY <2>0, <2>2, <2>3, <2>4, <2>5, SMTT(30)
  <2>. QED  BY <2>5, <2>6, RightsBalance
<1>27. CASE FollowUpAdmit
  <2>1. /\ UNCHANGED <<log, retried>> /\ (Sending(n)' <=> Sending(n)) /\ ~Admitting(n)'
        /\ claimed # <<>> /\ Head(claimed) \in Messages /\ (Admitting(n) <=> Head(claimed) = n)
    BY <1>27, ListFacts DEF FollowUpAdmit, EndRun, dispatchVars, turnVars, Sending,
        WillSend, Admitting, Exclusion
  <2>2. CASE Delete(Head(claimed)) /\ claimed' = Tail(claimed)
    <3>1. Count(claimed, n) = Count(claimed', n) + Same(Head(claimed), n) /\ Count(claimed', n) \in Nat
      BY <2>1, <2>2, CountFacts
    <3>2. Fresh(n)' => Fresh(n)
      BY <2>1, <2>2, DeleteFacts DEF Fresh
    <3>3. /\ Admission(n) = Same(Head(claimed), n) /\ Admission(n)' = 0
          /\ InHand(n)' = InHand(n) /\ AtRow(n)' <= AtRow(n)
      BY <2>1, <3>2 DEF InHand, AtRow, Admission, Same
    <3>4. /\ Count(log, n) \in Nat /\ Count(claimed, n) \in Nat /\ retried[n] \in Nat
          /\ InHand(n) \in Nat /\ AtRow(n) \in Nat /\ Admission(n) \in Nat
          /\ InHand(n)' \in Nat /\ AtRow(n)' \in Nat /\ Admission(n)' \in Nat
      BY CountFacts, OneType
    <3>0. Count(log', n) = Count(log, n) /\ retried'[n] = retried[n] /\ Same(Head(claimed), n) \in Nat
      BY <2>1 DEF Same
    <3>5. Count(log', n) \in Nat /\ Count(claimed', n) \in Nat /\ retried'[n] \in Nat
      BY <3>0, <3>1, <3>4
    <3>6. Count(log', n) + Count(claimed', n) + InHand(n)' + AtRow(n)' + retried[n] + Admission(n)
          <= Count(log, n) + Count(claimed, n) + InHand(n) + AtRow(n) + retried'[n] + Admission(n)'
      BY <3>0, <3>1, <3>3, <3>4, <3>5, SMTT(30)
    <3>. QED  BY <3>5, <3>6, RightsBalance
  <2>3. CASE EndRun /\ LoseSteering
    BY <2>1, <2>3, RightsDropped
  <2>. QED  BY <1>27, <2>2, <2>3 DEF FollowUpAdmit
<1>28. CASE RunEnds
  <2>1. UNCHANGED <<log, retried>> /\ (Sending(n)' <=> Sending(n)) /\ EndRun /\ LoseSteering
    BY <1>28 DEF RunEnds, dispatchVars, turnVars, Sending, WillSend
  <2>. QED  BY <2>1, RightsDropped
<1>29. CASE RunFails
  <2>1. UNCHANGED <<log, retried>> /\ (Sending(n)' <=> Sending(n)) /\ EndRun /\ LoseSteering
    BY <1>29 DEF RunFails, dispatchVars, turnVars, Sending, WillSend
  <2>. QED  BY <2>1, RightsDropped
<1>30. CASE RunCancelled
  <2>1. UNCHANGED <<log, retried>> /\ (Sending(n)' <=> Sending(n)) /\ EndRun /\ LoseSteering
    BY <1>30 DEF RunCancelled, dispatchVars, turnVars, Sending, WillSend
  <2>. QED  BY <2>1, RightsDropped
<1>31. CASE StopAwaited
  <2>1. (Sending(n)' => Sending(n)) /\ (Fresh(n)' => Fresh(n)) /\ UNCHANGED <<log, claimed, loop, retried>>
    BY <1>31 DEF StopAwaited, rowVars, dispatchVars, turnVars, runVars, Sending, Fresh,
        WillSend, TaskTypes, TurnTypes
  <2>. QED  BY <2>1, RightsKept
<1>32. CASE StopSaves
  <2>1. UNCHANGED <<log, claimed, loop, retried>> /\ (Sending(n)' => Sending(n))
    BY <1>32 DEF StopSaves, Schedule, dispatchVars, turnVars, runVars, Sending, WillSend
  <2>2. CASE saved = <<>>
    BY <1>32, <2>1, <2>2, RightsKept DEF StopSaves, Fresh
  <2>3. CASE saved # <<>>
    <3>1. /\ Insert(Head(saved)) /\ Head(saved) \in Messages /\ ~Row(Head(saved))
          /\ status[Head(saved)] = "steered"
      BY <1>32, <2>3, ListFacts DEF StopSaves, QueueTypes, RowStatuses
    <3>2. Fresh(n)' => Fresh(n)
      BY <3>1, InsertFacts DEF Fresh
    <3>. QED  BY <2>1, <3>2, RightsKept
  <2>. QED  BY <2>2, <2>3
<1>33. CASE StopLists
  <2>1. (Sending(n)' => Sending(n)) /\ (Fresh(n)' => Fresh(n)) /\ UNCHANGED <<log, claimed, loop, retried>>
    BY <1>33 DEF StopLists, rowVars, dispatchVars, turnVars, runVars, Sending, Fresh,
        WillSend, TaskTypes, TurnTypes
  <2>. QED  BY <2>1, RightsKept
<1>34. CASE StopBlocks
  <2>1. UNCHANGED <<log, claimed, loop, retried>> /\ (Sending(n)' => Sending(n))
    BY <1>34 DEF StopBlocks, dispatchVars, turnVars, runVars, Sending, WillSend
  <2>2. CASE UNCHANGED status
    BY <2>1, <2>2, RightsKept DEF Fresh
  <2>3. CASE Row(Head(listed)) /\ Mark(Head(listed), "blocked") /\ Head(listed) \in Messages
    BY <2>1, <2>3, MarkFacts, RightsKept DEF Statuses, RowStatuses, Fresh
  <2>. QED  BY <1>34, <2>2, <2>3, ListFacts DEF StopBlocks
<1>35. CASE StopReturns
  <2>1. (Sending(n)' => Sending(n)) /\ (Fresh(n)' => Fresh(n)) /\ UNCHANGED <<log, claimed, loop, retried>>
    BY <1>35 DEF StopReturns, rowVars, dispatchVars, turnVars, runVars, Sending, Fresh,
        WillSend, TaskTypes, TurnTypes
  <2>. QED  BY <2>1, RightsKept
<1>36. ASSUME NEW x \in orphans, OrphanCommits(x)
      PROVE  Rights(n)'
  <2>1. UNCHANGED <<log, claimed, loop, retried>> /\ (Sending(n)' <=> Sending(n))
    BY <1>36 DEF OrphanCommits, dispatchVars, turnVars, Sending, WillSend
  <2>2. CASE \E m \in Messages : Claim(m)
    BY <2>1, <2>2, ClaimFacts, RightsKept DEF Fresh
  <2>3. CASE UNCHANGED status
    BY <2>1, <2>3, RightsKept DEF Fresh
  <2>4. CASE x # 0 /\ Delete(x)
    BY <1>36, <2>1, <2>4, DeleteFacts, RightsKept DEF TaskTypes, RunTypes, Fresh
  <2>. QED  BY <1>36, <2>2, <2>3, <2>4 DEF OrphanCommits
<1>37. CASE Restart
  <2>1. UNCHANGED <<log, retried>> /\ ~Sending(n)' /\ (Fresh(n)' => Fresh(n)) /\ ~Admitting(n)' /\ claimed' = <<>>
    BY <1>37 DEF Restart, Again, Recovered, Sending, WillSend, Fresh, Admitting
  <2>2. /\ InHand(n)' <= InHand(n) /\ AtRow(n)' <= AtRow(n)
        /\ Admission(n)' = 0
    BY <2>1 DEF InHand, AtRow, Admission, Same
  <2>3. /\ Count(log, n) \in Nat /\ Count(claimed, n) \in Nat /\ retried[n] \in Nat
        /\ InHand(n) \in Nat /\ AtRow(n) \in Nat /\ Admission(n) \in Nat
        /\ InHand(n)' \in Nat /\ AtRow(n)' \in Nat /\ Admission(n)' \in Nat
    BY CountFacts, OneType
  <2>0. /\ Count(log', n) = Count(log, n) /\ retried'[n] = retried[n] /\ Count(claimed', n) = 0
        /\ Admission(n) <= Count(claimed, n)
    BY <2>1, CountFacts, AdmittingIsClaimed
  <2>4. /\ Count(log', n) \in Nat /\ Count(claimed', n) \in Nat /\ retried'[n] \in Nat
        /\ Count(log', n) + Count(claimed', n) + InHand(n)' + AtRow(n)' + retried[n]
               + Admission(n)
           <= Count(log, n) + Count(claimed, n) + InHand(n) + AtRow(n) + retried'[n]
               + Admission(n)'
    BY <2>0, <2>2, <2>3
  <2>. QED  BY <2>4, RightsBalance
<1>38. CASE DrainSteering
  <2>1. /\ (Sending(n)' => Sending(n)) /\ (Fresh(n)' <=> Fresh(n)) /\ UNCHANGED <<log, claimed, retried>>
        /\ ~Admitting(n) /\ ~Admitting(n)'
    BY <1>38 DEF DrainSteering, rowVars, dispatchVars, turnVars, Sending, Fresh, WillSend, Admitting
  <2>. QED  BY <2>1, RightsStay
<1>. QED  BY <1>1, <1>2, <1>3, <1>4, <1>5, <1>6, <1>7, <1>8, <1>9, <1>10, <1>11, <1>12,
             <1>13, <1>14, <1>15, <1>16, <1>17, <1>18, <1>19, <1>20, <1>21, <1>22, <1>23,
             <1>24, <1>25, <1>26, <1>27, <1>28, <1>29, <1>30, <1>31, <1>32, <1>33, <1>34,
             <1>35, <1>36, <1>37, <1>38 DEF Next
-----------------------------------------------------------------------------
(* Every row in dispatch is in somebody's hands                             *)

\* Of a row in dispatch, no other state is possible.
LEMMA DispatchingRow ==
    ASSUME Tasks, InHands
    PROVE  /\ dpc \in Holding => held \in Messages /\ Row(held) /\ status[held] = "dispatching"
           /\ \A m \in Range(claimed) : m \in Messages /\ Row(m) /\ status[m] = "dispatching"
           /\ dpc \notin Holding => held = 0
           /\ 0 \notin Messages
<1>1. \A m \in Messages : status[m] = "dispatching" => Row(m)
  BY DEF Tasks, RowTypes, QueueTypes, RowStatuses
<1>2. dpc \in Holding => held \in Messages
  BY HeldFacts
<1>3. Range(claimed) \subseteq Messages
  BY ListFacts
<1>4. dpc \notin Holding => held = 0
  BY DEF Tasks, TaskTypes, DispatchTypes
<1>. QED  BY <1>1, <1>2, <1>3, <1>4, MessageFacts DEF InHands

LEMMA UsedGrows ==
    ASSUME Tasks, Next
    PROVE  \A b \in DOMAIN Limit : used[b] = 0 \/ used'[b] # 0
<1>. USE DEF Tasks, TaskTypes
<1>1. ASSUME NEW m \in Messages, QueueMessage(m)
      PROVE  \A b \in DOMAIN Limit : used[b] = 0 \/ used'[b] # 0
  BY <1>1, UseFacts, Bounds DEF QueueMessage
<1>2. ASSUME NEW m \in Messages, SteerRun(m)
      PROVE  \A b \in DOMAIN Limit : used[b] = 0 \/ used'[b] # 0
  BY <1>2, UseFacts, Bounds DEF SteerRun
<1>3. ASSUME NEW m \in Messages, RemoveQueued(m)
      PROVE  \A b \in DOMAIN Limit : used[b] = 0 \/ used'[b] # 0
  BY <1>3, UseFacts, Bounds DEF RemoveQueued
<1>4. ASSUME NEW m \in Messages, RetryQueued(m)
      PROVE  \A b \in DOMAIN Limit : used[b] = 0 \/ used'[b] # 0
  BY <1>4, UseFacts, Bounds DEF RetryQueued
<1>5. CASE UserTurn
  BY <1>5, UseFacts, Bounds DEF UserTurn
<1>6. CASE StopRun
  BY <1>6, UseFacts, Bounds DEF StopRun
<1>7. CASE TakeLock
  BY <1>7, UseFacts, Bounds DEF TakeLock
<1>8. CASE Register
  BY <1>8, UseFacts, Bounds DEF Register
<1>9. CASE AppendMessage
  BY <1>9, UseFacts, Bounds DEF AppendMessage
<1>10. CASE StartTurn
  BY <1>10, UseFacts, Bounds DEF StartTurn
<1>11. CASE TurnFails
  BY <1>11, UseFacts, Bounds DEF TurnFails
<1>12. CASE AwaitRunner
  BY <1>12, UseFacts, Bounds DEF AwaitRunner
<1>13. CASE ReleaseLock
  BY <1>13, UseFacts, Bounds DEF ReleaseLock
<1>14. CASE EndTurn
  BY <1>14, UseFacts, Bounds DEF EndTurn
<1>15. CASE DispatchStart
  BY <1>15, UseFacts, Bounds DEF DispatchStart
<1>16. CASE DispatchPoll
  BY <1>16, UseFacts, Bounds DEF DispatchPoll
<1>17. CASE DispatchClaim
  BY <1>17, UseFacts, Bounds DEF DispatchClaim
<1>18. CASE DispatchSend
  BY <1>18, UseFacts, Bounds DEF DispatchSend
<1>19. CASE DispatchDefer
  BY <1>19, UseFacts, Bounds DEF DispatchDefer
<1>20. CASE DispatchBlock
  BY <1>20, UseFacts, Bounds DEF DispatchBlock
<1>21. CASE DispatchRemove
  BY <1>21, UseFacts, Bounds DEF DispatchRemove
<1>22. CASE AppendSteering
  BY <1>22, UseFacts, Bounds DEF AppendSteering
<1>23. CASE FollowUp
  BY <1>23, UseFacts, Bounds DEF FollowUp
<1>24. CASE FollowUpClaim
  BY <1>24, UseFacts, Bounds DEF FollowUpClaim
<1>25. CASE FollowUpDecide
  BY <1>25, UseFacts, Bounds DEF FollowUpDecide
<1>26. CASE FollowUpPersist
  BY <1>26, UseFacts, Bounds DEF FollowUpPersist
<1>27. CASE FollowUpAdmit
  BY <1>27, UseFacts, Bounds DEF FollowUpAdmit
<1>28. CASE RunEnds
  BY <1>28, UseFacts, Bounds DEF RunEnds
<1>29. CASE RunFails
  BY <1>29, UseFacts, Bounds DEF RunFails
<1>30. CASE RunCancelled
  BY <1>30, UseFacts, Bounds DEF RunCancelled
<1>31. CASE StopAwaited
  BY <1>31, UseFacts, Bounds DEF StopAwaited
<1>32. CASE StopSaves
  BY <1>32, UseFacts, Bounds DEF StopSaves
<1>33. CASE StopLists
  BY <1>33, UseFacts, Bounds DEF StopLists
<1>34. CASE StopBlocks
  BY <1>34, UseFacts, Bounds DEF StopBlocks
<1>35. CASE StopReturns
  BY <1>35, UseFacts, Bounds DEF StopReturns
<1>36. ASSUME NEW x \in orphans, OrphanCommits(x)
      PROVE  \A b \in DOMAIN Limit : used[b] = 0 \/ used'[b] # 0
  BY <1>36, UseFacts, Bounds DEF OrphanCommits
<1>37. CASE Restart
  BY <1>37, UseFacts, Bounds DEF Restart
<1>38. CASE DrainSteering
  BY <1>38, UseFacts, Bounds DEF DrainSteering
<1>. QED  BY <1>1, <1>2, <1>3, <1>4, <1>5, <1>6, <1>7, <1>8, <1>9, <1>10, <1>11, <1>12,
             <1>13, <1>14, <1>15, <1>16, <1>17, <1>18, <1>19, <1>20, <1>21, <1>22, <1>23,
             <1>24, <1>25, <1>26, <1>27, <1>28, <1>29, <1>30, <1>31, <1>32, <1>33, <1>34,
             <1>35, <1>36, <1>37, <1>38 DEF Next

LEMMA OwnedStep ==
    ASSUME Tasks, Owned, Next
    PROVE  Owned'
<1>. USE DEF Tasks, RowTypes
<1>a. Undisturbed' => Undisturbed
  BY UsedGrows, Bounds DEF Undisturbed
<1>. SUFFICES ASSUME Undisturbed', InHands
              PROVE  InHands'
  BY <1>a DEF Owned
<1>1. ASSUME NEW m \in Messages, QueueMessage(m)
      PROVE  InHands'
  <2>1. /\ ~Row(m) /\ status[m] = "new" /\ dpc' # "off" /\ (dpc' = dpc \/ (dpc = "off" /\ dpc' = "start"))
        /\ UNCHANGED <<held, claimed, stop, failed, orphans>>
    BY <1>1 DEF QueueMessage, NextMessage, Schedule, QueueTypes, RowStatuses, turnVars,
       runVars, stopVars
  <2>2. \A n \in Messages : status'[n] = IF n = m THEN "queued" ELSE status[n]
    BY <1>1, <2>1, InsertFacts DEF QueueMessage
  <2>. QED  BY <2>1, <2>2, DispatchingRow DEF InHands, Holding
<1>2. ASSUME NEW m \in Messages, SteerRun(m)
      PROVE  InHands'
  <2>1. \A n \in Messages : status'[n] = IF n = m THEN "steered" ELSE status[n]
    BY <1>2, MarkFacts DEF SteerRun, NextMessage, QueueTypes, RowStatuses, Statuses
  <2>2. status[m] = "new" /\ queue' = queue /\ UNCHANGED <<held, dpc, claimed, stop, failed, orphans>>
    BY <1>2 DEF SteerRun, NextMessage, Mark, dispatchVars, turnVars, stopVars
  <2>. QED  BY <2>1, <2>2, DispatchingRow, ListFacts DEF InHands, Queued
<1>3. ASSUME NEW m \in Messages, RemoveQueued(m)
      PROVE  InHands'
  <2>1. /\ Range(queue)' = Range(queue) \ {m} /\ status[m] # "dispatching"
        /\ \A n \in Messages : status'[n] = IF n = m THEN "gone" ELSE status[n]
        /\ UNCHANGED <<held, dpc, claimed, stop, failed, orphans>>
    BY <1>3, DeleteFacts DEF RemoveQueued, dispatchVars, turnVars, runVars, stopVars
  <2>. QED  BY <2>1, DispatchingRow, ListFacts DEF InHands, Queued
<1>4. ASSUME NEW m \in Messages, RetryQueued(m)
      PROVE  InHands'
  <2>1. /\ status[m] = "blocked" /\ dpc' # "off" /\ (dpc' = dpc \/ (dpc = "off" /\ dpc' = "start"))
        /\ UNCHANGED <<held, claimed, stop, failed, orphans>>
    BY <1>4 DEF RetryQueued, Schedule, turnVars, runVars, stopVars
  <2>2. \A n \in Messages : status'[n] = IF n = m THEN "queued" ELSE status[n]
    BY <1>4, MarkFacts DEF RetryQueued, RowStatuses, Statuses
  <2>. QED  BY <2>1, <2>2, DispatchingRow DEF InHands, Holding
<1>5. CASE UserTurn
  BY <1>5 DEF UserTurn, Reserve, rowVars, dispatchVars, turnVars, runVars, stopVars, InHands,
     Queued
<1>6. CASE StopRun
  <2>1. used'.stops > 0
    BY <1>6, UseFacts, Bounds DEF StopRun, TaskTypes
  <2>. QED  BY <2>1 DEF Undisturbed
<1>7. CASE TakeLock
  BY <1>7 DEF TakeLock, rowVars, dispatchVars, turnVars, runVars, stopVars, InHands, Queued
<1>8. CASE Register
  BY <1>8 DEF Register, rowVars, dispatchVars, turnVars, runVars, stopVars, InHands, Queued
<1>9. CASE AppendMessage
  BY <1>9 DEF AppendMessage, rowVars, dispatchVars, turnVars, runVars, stopVars, InHands,
     Queued
<1>10. CASE StartTurn
  BY <1>10 DEF StartTurn, Starts, rowVars, dispatchVars, turnVars, runVars, stopVars, InHands,
     Queued
<1>11. CASE TurnFails
  <2>1. used'.failures > 0
    BY <1>11, UseFacts, Bounds DEF TurnFails, TaskTypes
  <2>. QED  BY <2>1 DEF Undisturbed
<1>12. CASE AwaitRunner
  BY <1>12 DEF AwaitRunner, rowVars, dispatchVars, turnVars, runVars, stopVars, InHands, Queued
<1>13. CASE ReleaseLock
  BY <1>13 DEF ReleaseLock, rowVars, dispatchVars, turnVars, runVars, stopVars, InHands, Queued
<1>14. CASE EndTurn
  BY <1>14 DEF EndTurn, Settle, Holding, TaskTypes, TurnTypes, rowVars, dispatchVars, turnVars,
     runVars, stopVars, InHands, Queued
<1>15. CASE DispatchStart
  BY <1>15 DEF DispatchStart, Holding, TaskTypes, DispatchTypes, Waiting, rowVars,
     dispatchVars, turnVars, runVars, stopVars, InHands, Queued
<1>16. CASE DispatchPoll
  BY <1>16 DEF DispatchPoll, Return, Paused, Holding, rowVars, dispatchVars, turnVars, runVars,
     stopVars, InHands, Queued
<1>17. CASE DispatchClaim
  <2>1. dpc = "claiming" /\ held = 0 /\ claimed = <<>> /\ UNCHANGED <<claimed, stop, failed, orphans>>
    BY <1>17, DispatchingRow DEF DispatchClaim, Exclusion, Holding, turnVars, runVars, stopVars
  <2>2. ASSUME NEW m \in Messages, Claim(m), held' = m, dpc' = "sending"
        PROVE  InHands'
    BY <2>1, <2>2, ClaimFacts, DispatchingRow, EmptyFacts DEF InHands, Holding
  <2>3. CASE Queued = {} /\ Return /\ UNCHANGED <<queue, status>>
    BY <2>1, <2>3, EmptyFacts DEF Return, InHands, Queued, Holding
  <2>. QED  BY <1>17, <2>2, <2>3 DEF DispatchClaim
<1>18. CASE DispatchSend
  <2>1. CASE Use("failures")
    <3>1. used'.failures > 0
      BY <2>1, UseFacts, Bounds DEF TaskTypes
    <3>. QED  BY <3>1 DEF Undisturbed
  <2>2. CASE ~Use("failures")
    BY <1>18, <2>2 DEF DispatchSend, Reserve, rowVars, runVars, stopVars, turnVars, InHands,
       Queued, Holding
  <2>. QED  BY <2>1, <2>2
<1>19. CASE DispatchDefer
  <2>1. Deferrable(held) /\ held \in Messages /\ dpc \in Holding
    BY <1>19, DispatchingRow DEF DispatchDefer, Deferrable, Holding
  <2>2. Mark(held, "queued") /\ Again /\ UNCHANGED <<claimed, stop, failed, orphans>>
    BY <1>19, <2>1 DEF DispatchDefer, turnVars, runVars, stopVars
  <2>3. \A n \in Messages : status'[n] = IF n = held THEN "queued" ELSE status[n]
    BY <2>1, <2>2, MarkFacts DEF Deferrable, RowStatuses, Statuses
  <2>. QED  BY <2>1, <2>2, <2>3, DispatchingRow DEF Again, InHands, Holding
<1>20. CASE DispatchBlock
  BY <1>20 DEF DispatchBlock, InHands
<1>21. CASE DispatchRemove
  <2>1. Row(held) /\ held \in Messages /\ dpc \in Holding
    BY <1>21, DispatchingRow DEF DispatchRemove, Holding
  <2>2. Delete(held) /\ Again /\ UNCHANGED <<claimed, stop, failed, orphans>>
    BY <1>21, <2>1 DEF DispatchRemove, turnVars, runVars, stopVars
  <2>3. \A n \in Messages : status'[n] = IF n = held THEN "gone" ELSE status[n]
    BY <2>1, <2>2, DeleteFacts
  <2>. QED  BY <2>1, <2>2, <2>3, DispatchingRow DEF Again, InHands, Holding
<1>22. CASE AppendSteering
  <2>1. /\ Head(drained) \in Messages /\ ~Row(Head(drained)) /\ Mark(Head(drained), "gone")
        /\ status[Head(drained)] = "steered"
        /\ UNCHANGED <<held, dpc, claimed, stop, failed, orphans>>
    BY <1>22, ListFacts DEF AppendSteering, QueueTypes, RowStatuses, dispatchVars, turnVars,
       stopVars
  <2>2. queue' = queue /\ \A k \in Messages : status'[k] = IF k = Head(drained) THEN "gone" ELSE status[k]
    BY <2>1, MarkFacts DEF Statuses, RowStatuses
  <2>. QED  BY <2>1, <2>2, DispatchingRow, ListFacts DEF InHands, Queued
<1>23. CASE FollowUp
  BY <1>23 DEF FollowUp, rowVars, dispatchVars, turnVars, runVars, stopVars, InHands, Queued
<1>24. CASE FollowUpClaim
  <2>1. UNCHANGED <<held, dpc, stop, failed, orphans>>
    BY <1>24 DEF FollowUpClaim, dispatchVars, turnVars, stopVars
  <2>2. ASSUME NEW m \in Messages, Claim(m), claimed' = Append(claimed, m)
        PROVE  InHands'
    <3>1. /\ m \in Queued /\ status[m] = "queued"
          /\ \A n \in Messages : status'[n] = IF n = m THEN "dispatching" ELSE status[n]
      BY <2>2, ClaimFacts
    <3>2. m # held /\ m \notin Range(claimed)
      BY <3>1, DispatchingRow
    <3>3. IsInjective(claimed') /\ Range(claimed') = Range(claimed) \cup {m}
      BY <2>2, <3>2, AppendFacts DEF InHands, TaskTypes, RunTypes
    <3>. QED  BY <2>1, <3>1, <3>2, <3>3, DispatchingRow DEF InHands
  <2>3. CASE UNCHANGED <<queue, status, claimed>>
    BY <2>1, <2>3 DEF InHands, Queued
  <2>. QED  BY <1>24, <2>2, <2>3 DEF FollowUpClaim
<1>25. CASE FollowUpDecide
  <2>1. /\ claimed # <<>> /\ Deferrable(Last(claimed)) /\ Last(claimed) \in Messages
        /\ UNCHANGED <<held, dpc, stop, failed, orphans>>
    BY <1>25, ListFacts, DispatchingRow DEF FollowUpDecide, Deferrable, Exclusion,
       dispatchVars, turnVars, stopVars
  <2>2. CASE Mark(Last(claimed), "queued") /\ claimed' = Front(claimed)
    <3>1. \A n \in Messages : status'[n] = IF n = Last(claimed) THEN "queued" ELSE status[n]
      BY <2>1, <2>2, MarkFacts DEF Deferrable, RowStatuses, Statuses
    <3>2. /\ IsInjective(claimed') /\ Range(claimed) = Range(claimed') \cup {Last(claimed)}
          /\ Last(claimed) \notin Range(claimed')
      BY <2>1, <2>2, FrontFacts DEF InHands, TaskTypes, RunTypes
    <3>. QED  BY <2>1, <3>1, <3>2, DispatchingRow DEF InHands
  <2>3. CASE UNCHANGED <<queue, status, claimed>>
    BY <2>1, <2>3 DEF InHands, Queued
  <2>4. CASE Use("failures")
    <3>1. used'.failures > 0
      BY <2>4, UseFacts, Bounds DEF TaskTypes
    <3>. QED  BY <3>1 DEF Undisturbed
  <2>. QED  BY <1>25, <2>1, <2>2, <2>3, <2>4 DEF FollowUpDecide
<1>26. CASE FollowUpPersist
  BY <1>26 DEF FollowUpPersist, rowVars, dispatchVars, turnVars, runVars, stopVars, InHands,
     Queued
<1>27. CASE FollowUpAdmit
  <2>1. /\ claimed # <<>> /\ Row(Head(claimed)) /\ Head(claimed) \in Messages
        /\ Head(claimed) \in Range(claimed) /\ UNCHANGED <<held, dpc, stop, failed, orphans>>
    BY <1>27, ListFacts, DispatchingRow DEF FollowUpAdmit, Exclusion, dispatchVars, turnVars,
       stopVars
  <2>2. Delete(Head(claimed)) /\ claimed' = Tail(claimed)
    BY <1>27, <2>1 DEF FollowUpAdmit
  <2>3. /\ Range(queue)' = Range(queue) \ {Head(claimed)}
        /\ \A n \in Messages : status'[n] = IF n = Head(claimed) THEN "gone" ELSE status[n]
    BY <2>1, <2>2, DeleteFacts
  <2>4. /\ IsInjective(claimed') /\ Range(claimed) = Range(claimed') \cup {Head(claimed)}
        /\ Head(claimed) \notin Range(claimed')
    BY <2>1, <2>2, TailFacts DEF InHands, TaskTypes, RunTypes
  <2>. QED  BY <2>1, <2>3, <2>4, DispatchingRow DEF InHands
<1>28. CASE RunEnds
  <2>1. claimed = <<>> /\ claimed' = <<>> /\ LoseSteering /\ UNCHANGED <<held, dpc, stop, failed, orphans>>
    BY <1>28 DEF RunEnds, EndRun, Exclusion, dispatchVars, turnVars, stopVars
  <2>. QED  BY <2>1, LoseSteeringFacts, ListFacts, DispatchingRow DEF InHands, Queued
<1>29. CASE RunFails
  <2>1. used'.failures > 0
    BY <1>29, UseFacts, Bounds DEF RunFails, TaskTypes
  <2>. QED  BY <2>1 DEF Undisturbed
<1>30. CASE RunCancelled
  BY <1>30 DEF RunCancelled, InHands
<1>31. CASE StopAwaited
  BY <1>31 DEF StopAwaited, InHands
<1>32. CASE StopSaves
  BY <1>32 DEF StopSaves, InHands
<1>33. CASE StopLists
  BY <1>33 DEF StopLists, InHands
<1>34. CASE StopBlocks
  BY <1>34 DEF StopBlocks, InHands
<1>35. CASE StopReturns
  BY <1>35 DEF StopReturns, InHands
<1>36. ASSUME NEW x \in orphans, OrphanCommits(x)
      PROVE  InHands'
  BY <1>36 DEF OrphanCommits, InHands
<1>37. CASE Restart
  BY <1>37, EmptyFacts, MessageFacts DEF Restart, Again, Recovered, InHands, Holding
<1>38. CASE DrainSteering
  BY <1>38 DEF DrainSteering, rowVars, dispatchVars, turnVars, runVars, stopVars, InHands, Queued
<1>. QED  BY <1>1, <1>2, <1>3, <1>4, <1>5, <1>6, <1>7, <1>8, <1>9, <1>10, <1>11, <1>12,
             <1>13, <1>14, <1>15, <1>16, <1>17, <1>18, <1>19, <1>20, <1>21, <1>22, <1>23,
             <1>24, <1>25, <1>26, <1>27, <1>28, <1>29, <1>30, <1>31, <1>32, <1>33, <1>34,
             <1>35, <1>36, <1>37, <1>38 DEF Next
-----------------------------------------------------------------------------
(* A stop keeps what was pending                                            *)

LEMMA PausingStep ==
    ASSUME Tasks, Pausing, Next
    PROVE  Pausing'
<1>. USE DEF Tasks, TaskTypes, TurnTypes
<1>1. ASSUME NEW m \in Messages, QueueMessage(m)
      PROVE  Pausing'
  BY <1>1 DEF QueueMessage, Schedule, dispatchVars, turnVars, runVars, stopVars, Pausing,
     Paused
<1>2. ASSUME NEW m \in Messages, SteerRun(m)
      PROVE  Pausing'
  BY <1>2 DEF SteerRun, dispatchVars, turnVars, runVars, stopVars, Pausing, Paused
<1>3. ASSUME NEW m \in Messages, RemoveQueued(m)
      PROVE  Pausing'
  BY <1>3 DEF RemoveQueued, dispatchVars, turnVars, runVars, stopVars, Pausing, Paused
<1>4. ASSUME NEW m \in Messages, RetryQueued(m)
      PROVE  Pausing'
  BY <1>4 DEF RetryQueued, Schedule, dispatchVars, turnVars, runVars, stopVars, Pausing, Paused
<1>5. CASE UserTurn
  BY <1>5 DEF UserTurn, Reserve, dispatchVars, turnVars, runVars, stopVars, Pausing, Paused
<1>6. CASE StopRun
  BY <1>6 DEF StopRun, Exclusion, dispatchVars, turnVars, runVars, stopVars, Pausing, Paused
<1>7. CASE TakeLock
  BY <1>7 DEF TakeLock, dispatchVars, turnVars, runVars, stopVars, Pausing, Paused
<1>8. CASE Register
  BY <1>8 DEF Register, dispatchVars, turnVars, runVars, stopVars, Pausing, Paused
<1>9. CASE AppendMessage
  BY <1>9 DEF AppendMessage, dispatchVars, turnVars, runVars, stopVars, Pausing, Paused
<1>10. CASE StartTurn
  BY <1>10 DEF StartTurn, Starts, dispatchVars, turnVars, runVars, stopVars, Pausing, Paused
<1>11. CASE TurnFails
  BY <1>11 DEF TurnFails, Starts, Finish, dispatchVars, turnVars, runVars, stopVars, Pausing,
     Paused
<1>12. CASE AwaitRunner
  BY <1>12 DEF AwaitRunner, dispatchVars, turnVars, runVars, stopVars, Pausing, Paused
<1>13. CASE ReleaseLock
  BY <1>13 DEF ReleaseLock, Finish, dispatchVars, turnVars, runVars, stopVars, Pausing, Paused
<1>14. CASE EndTurn
  BY <1>14 DEF EndTurn, Settle, dispatchVars, turnVars, runVars, stopVars, Pausing, Paused
<1>15. CASE DispatchStart
  BY <1>15 DEF DispatchStart, dispatchVars, turnVars, runVars, stopVars, Pausing, Paused
<1>16. CASE DispatchPoll
  BY <1>16 DEF DispatchPoll, Return, dispatchVars, turnVars, runVars, stopVars, Pausing, Paused
<1>17. CASE DispatchClaim
  BY <1>17 DEF DispatchClaim, Return, dispatchVars, turnVars, runVars, stopVars, Pausing,
     Paused
<1>18. CASE DispatchSend
  BY <1>18 DEF DispatchSend, Reserve, dispatchVars, turnVars, runVars, stopVars, Pausing,
     Paused
<1>19. CASE DispatchDefer
  BY <1>19 DEF DispatchDefer, Again, Return, dispatchVars, turnVars, runVars, stopVars,
     Pausing, Paused
<1>20. CASE DispatchBlock
  BY <1>20 DEF DispatchBlock, Return, dispatchVars, turnVars, runVars, stopVars, Pausing,
     Paused
<1>21. CASE DispatchRemove
  BY <1>21 DEF DispatchRemove, Again, Return, dispatchVars, turnVars, runVars, stopVars,
     Pausing, Paused
<1>22. CASE AppendSteering
  BY <1>22 DEF AppendSteering, dispatchVars, turnVars, runVars, stopVars, Pausing, Paused
<1>23. CASE FollowUp
  BY <1>23 DEF FollowUp, dispatchVars, turnVars, runVars, stopVars, Pausing, Paused
<1>24. CASE FollowUpClaim
  BY <1>24 DEF FollowUpClaim, dispatchVars, turnVars, runVars, stopVars, Pausing, Paused
<1>25. CASE FollowUpDecide
  BY <1>25 DEF FollowUpDecide, dispatchVars, turnVars, runVars, stopVars, Pausing, Paused
<1>26. CASE FollowUpPersist
  BY <1>26 DEF FollowUpPersist, dispatchVars, turnVars, runVars, stopVars, Pausing, Paused
<1>27. CASE FollowUpAdmit
  BY <1>27 DEF FollowUpAdmit, dispatchVars, turnVars, runVars, stopVars, Pausing, Paused
<1>28. CASE RunEnds
  BY <1>28 DEF RunEnds, dispatchVars, turnVars, runVars, stopVars, Pausing, Paused
<1>29. CASE RunFails
  BY <1>29 DEF RunFails, dispatchVars, turnVars, runVars, stopVars, Pausing, Paused
<1>30. CASE RunCancelled
  BY <1>30 DEF RunCancelled, dispatchVars, turnVars, runVars, stopVars, Pausing, Paused
<1>31. CASE StopAwaited
  BY <1>31 DEF StopAwaited, dispatchVars, turnVars, runVars, stopVars, Pausing, Paused
<1>32. CASE StopSaves
  BY <1>32 DEF StopSaves, Schedule, dispatchVars, turnVars, runVars, stopVars, Pausing, Paused
<1>33. CASE StopLists
  BY <1>33 DEF StopLists, dispatchVars, turnVars, runVars, stopVars, Pausing, Paused
<1>34. CASE StopBlocks
  BY <1>34 DEF StopBlocks, dispatchVars, turnVars, runVars, stopVars, Pausing, Paused
<1>35. CASE StopReturns
  BY <1>35 DEF StopReturns, dispatchVars, turnVars, runVars, stopVars, Pausing, Paused
<1>36. ASSUME NEW x \in orphans, OrphanCommits(x)
      PROVE  Pausing'
  BY <1>36 DEF OrphanCommits, dispatchVars, turnVars, runVars, stopVars, Pausing, Paused
<1>37. CASE Restart
  BY <1>37 DEF Restart, Again, dispatchVars, turnVars, runVars, stopVars, Pausing, Paused
<1>38. CASE DrainSteering
  BY <1>38 DEF DrainSteering, dispatchVars, turnVars, runVars, stopVars, Pausing, Paused
<1>. QED  BY <1>1, <1>2, <1>3, <1>4, <1>5, <1>6, <1>7, <1>8, <1>9, <1>10, <1>11, <1>12,
             <1>13, <1>14, <1>15, <1>16, <1>17, <1>18, <1>19, <1>20, <1>21, <1>22, <1>23,
             <1>24, <1>25, <1>26, <1>27, <1>28, <1>29, <1>30, <1>31, <1>32, <1>33, <1>34,
             <1>35, <1>36, <1>37, <1>38 DEF Next

LEMMA AbortedStays ==
    ASSUME Tasks, Next
    PROVE  aborted => aborted'
<1>1. ASSUME NEW m \in Messages, QueueMessage(m)
      PROVE  aborted => aborted'
  BY <1>1 DEF QueueMessage, stopVars
<1>2. ASSUME NEW m \in Messages, SteerRun(m)
      PROVE  aborted => aborted'
  BY <1>2 DEF SteerRun, stopVars
<1>3. ASSUME NEW m \in Messages, RemoveQueued(m)
      PROVE  aborted => aborted'
  BY <1>3 DEF RemoveQueued, stopVars
<1>4. ASSUME NEW m \in Messages, RetryQueued(m)
      PROVE  aborted => aborted'
  BY <1>4 DEF RetryQueued, stopVars
<1>5. CASE UserTurn
  BY <1>5 DEF UserTurn, stopVars
<1>6. CASE StopRun
  BY <1>6 DEF StopRun, stopVars
<1>7. CASE TakeLock
  BY <1>7 DEF TakeLock, stopVars
<1>8. CASE Register
  BY <1>8 DEF Register, stopVars
<1>9. CASE AppendMessage
  BY <1>9 DEF AppendMessage, stopVars
<1>10. CASE StartTurn
  BY <1>10 DEF StartTurn, stopVars
<1>11. CASE TurnFails
  BY <1>11 DEF TurnFails, stopVars
<1>12. CASE AwaitRunner
  BY <1>12 DEF AwaitRunner, stopVars
<1>13. CASE ReleaseLock
  BY <1>13 DEF ReleaseLock, stopVars
<1>14. CASE EndTurn
  BY <1>14 DEF EndTurn, stopVars
<1>15. CASE DispatchStart
  BY <1>15 DEF DispatchStart, stopVars
<1>16. CASE DispatchPoll
  BY <1>16 DEF DispatchPoll, stopVars
<1>17. CASE DispatchClaim
  BY <1>17 DEF DispatchClaim, stopVars
<1>18. CASE DispatchSend
  BY <1>18 DEF DispatchSend, stopVars
<1>19. CASE DispatchDefer
  BY <1>19 DEF DispatchDefer, stopVars
<1>20. CASE DispatchBlock
  BY <1>20 DEF DispatchBlock, stopVars
<1>21. CASE DispatchRemove
  BY <1>21 DEF DispatchRemove, stopVars
<1>22. CASE AppendSteering
  BY <1>22 DEF AppendSteering, stopVars
<1>23. CASE FollowUp
  BY <1>23 DEF FollowUp, stopVars
<1>24. CASE FollowUpClaim
  BY <1>24 DEF FollowUpClaim, stopVars
<1>25. CASE FollowUpDecide
  BY <1>25 DEF FollowUpDecide, stopVars
<1>26. CASE FollowUpPersist
  BY <1>26 DEF FollowUpPersist, stopVars
<1>27. CASE FollowUpAdmit
  BY <1>27 DEF FollowUpAdmit, stopVars
<1>28. CASE RunEnds
  BY <1>28 DEF RunEnds, stopVars
<1>29. CASE RunFails
  BY <1>29 DEF RunFails, stopVars
<1>30. CASE RunCancelled
  BY <1>30 DEF RunCancelled, stopVars
<1>31. CASE StopAwaited
  BY <1>31 DEF StopAwaited, stopVars
<1>32. CASE StopSaves
  BY <1>32 DEF StopSaves, stopVars
<1>33. CASE StopLists
  BY <1>33 DEF StopLists, stopVars
<1>34. CASE StopBlocks
  BY <1>34 DEF StopBlocks, stopVars
<1>35. CASE StopReturns
  BY <1>35 DEF StopReturns, stopVars
<1>36. ASSUME NEW x \in orphans, OrphanCommits(x)
      PROVE  aborted => aborted'
  BY <1>36 DEF OrphanCommits, stopVars
<1>37. CASE Restart
  BY <1>37 DEF Restart, stopVars
<1>38. CASE DrainSteering
  BY <1>38 DEF DrainSteering, stopVars
<1>. QED  BY <1>1, <1>2, <1>3, <1>4, <1>5, <1>6, <1>7, <1>8, <1>9, <1>10, <1>11, <1>12,
             <1>13, <1>14, <1>15, <1>16, <1>17, <1>18, <1>19, <1>20, <1>21, <1>22, <1>23,
             <1>24, <1>25, <1>26, <1>27, <1>28, <1>29, <1>30, <1>31, <1>32, <1>33, <1>34,
             <1>35, <1>36, <1>37, <1>38 DEF Next

LEMMA BarredStep ==
    ASSUME Tasks, Barred, Next
    PROVE  Barred'
<1>. USE DEF Tasks, RowTypes
<1>. SUFFICES ASSUME Pausing, SetAside, ~aborted, ~aborted'
              PROVE  SetAside'
  BY PausingStep, AbortedStays DEF Barred
<1>1. ASSUME NEW m \in Messages, QueueMessage(m)
      PROVE  SetAside'
  <2>1. status[m] = "new" /\ ~Row(m) /\ UNCHANGED <<log, barred, claimed, listed, stop, held, phase>>
        /\ (dpc' = dpc \/ dpc' = "start")
    BY <1>1 DEF QueueMessage, NextMessage, Schedule, QueueTypes, RowStatuses, turnVars,
       runVars, stopVars
  <2>2. \A n \in Messages : status'[n] = IF n = m THEN "queued" ELSE status[n]
    BY <1>1, <2>1, InsertFacts DEF QueueMessage
  <2>. QED  BY <2>1, <2>2 DEF SetAside, Unsent, WillSend
<1>2. ASSUME NEW m \in Messages, SteerRun(m)
      PROVE  SetAside'
  <2>1. status[m] = "new" /\ UNCHANGED <<log, barred, claimed, listed, stop, held, phase, dpc>>
    BY <1>2 DEF SteerRun, NextMessage, dispatchVars, turnVars, stopVars
  <2>2. \A n \in Messages : status'[n] = IF n = m THEN "steered" ELSE status[n]
    BY <1>2, <2>1, MarkFacts DEF SteerRun, QueueTypes, RowStatuses, Statuses
  <2>. QED  BY <2>1, <2>2 DEF SetAside, Unsent, WillSend
<1>3. ASSUME NEW m \in Messages, RemoveQueued(m)
      PROVE  SetAside'
  BY <1>3, DeleteFacts DEF RemoveQueued, dispatchVars, turnVars, runVars, stopVars, SetAside,
     Unsent, WillSend
<1>4. ASSUME NEW m \in Messages, RetryQueued(m)
      PROVE  SetAside'
  <2>1. barred' = barred \ {m} /\ UNCHANGED <<log, claimed, listed, stop, held, phase>>
        /\ (dpc' = dpc \/ dpc' = "start")
    BY <1>4 DEF RetryQueued, Schedule, turnVars, runVars, stopVars
  <2>2. \A n \in Messages : status'[n] = IF n = m THEN "queued" ELSE status[n]
    BY <1>4, MarkFacts DEF RetryQueued, RowStatuses, Statuses
  <2>. QED  BY <2>1, <2>2 DEF SetAside, Unsent, WillSend
<1>5. CASE UserTurn
  BY <1>5 DEF UserTurn, Reserve, TaskTypes, TurnTypes, rowVars, dispatchVars, turnVars,
     runVars, stopVars, SetAside, Unsent, WillSend
<1>6. CASE StopRun
  <2>1. /\ barred' = barred \cup Pending /\ stop' = "cancelling"
        /\ UNCHANGED <<log, status, held, phase, dpc>>
    BY <1>6 DEF StopRun, dispatchVars, turnVars
  <2>2. /\ \A m \in Pending : m \notin Range(log) /\ status[m] \in {"queued", "dispatching"}
        /\ dpc = "turn" => held \notin Pending
    BY DEF Pending
  <2>. QED  BY <2>1, <2>2 DEF SetAside, Unsent, WillSend
<1>7. CASE TakeLock
  BY <1>7 DEF TakeLock, rowVars, dispatchVars, turnVars, runVars, stopVars, SetAside, Unsent,
     WillSend
<1>8. CASE Register
  BY <1>8 DEF Register, rowVars, dispatchVars, turnVars, runVars, stopVars, SetAside, Unsent,
     WillSend
<1>9. CASE AppendMessage
  <2>1. CASE owner = "dispatcher"
    <3>1. /\ held \in Messages /\ log' = Append(log, held) /\ held \notin barred
          /\ phase' = "starting" /\ UNCHANGED <<status, barred, claimed, listed, stop, held, dpc>>
          /\ dpc = "turn"
      BY <1>9, <2>1, HeldFacts DEF AppendMessage, Deliver, TaskTypes, TurnTypes, Holding,
         dispatchVars, runVars, stopVars, SetAside, Unsent, WillSend
    <3>2. Range(log)' = Range(log) \cup {held}
      BY <3>1, AppendFacts
    <3>. QED  BY <3>1, <3>2 DEF SetAside, Unsent, WillSend
  <2>2. CASE owner # "dispatcher"
    BY <1>9, <2>2 DEF AppendMessage, TaskTypes, TurnTypes, dispatchVars, runVars, stopVars,
       SetAside, Unsent, WillSend
  <2>. QED  BY <2>1, <2>2
<1>10. CASE StartTurn
  BY <1>10 DEF StartTurn, Starts, rowVars, dispatchVars, turnVars, runVars, stopVars, SetAside,
     Unsent, WillSend
<1>11. CASE TurnFails
  <2>1. UNCHANGED <<log, status, barred, listed, stop, held, dpc>> /\ phase' = "released"
        /\ Range(claimed') \subseteq Range(claimed)
    BY <1>11, EmptyFacts DEF TurnFails, EndRun, rowVars, dispatchVars, runVars
  <2>. QED  BY <2>1 DEF SetAside, Unsent, WillSend
<1>12. CASE AwaitRunner
  BY <1>12 DEF AwaitRunner, rowVars, dispatchVars, turnVars, runVars, stopVars, SetAside,
     Unsent, WillSend
<1>13. CASE ReleaseLock
  BY <1>13 DEF ReleaseLock, rowVars, dispatchVars, turnVars, runVars, stopVars, SetAside,
     Unsent, WillSend
<1>14. CASE EndTurn
  BY <1>14 DEF EndTurn, Settle, rowVars, dispatchVars, turnVars, runVars, stopVars, SetAside,
     Unsent, WillSend
<1>15. CASE DispatchStart
  BY <1>15 DEF DispatchStart, rowVars, dispatchVars, turnVars, runVars, stopVars, SetAside,
     Unsent, WillSend
<1>16. CASE DispatchPoll
  BY <1>16 DEF DispatchPoll, Return, rowVars, dispatchVars, turnVars, runVars, stopVars,
     SetAside, Unsent, WillSend
<1>17. CASE DispatchClaim
  <2>1. dpc = "claiming" /\ UNCHANGED <<log, barred, claimed, listed, stop, phase>>
    BY <1>17 DEF DispatchClaim, turnVars, runVars, stopVars
  <2>2. ASSUME NEW m \in Messages, Claim(m), held' = m, dpc' = "sending"
        PROVE  SetAside'
    BY <2>1, <2>2, ClaimFacts DEF SetAside, Unsent, WillSend
  <2>3. CASE Queued = {} /\ Return /\ UNCHANGED <<queue, status>>
    BY <2>1, <2>3 DEF Return, SetAside, Unsent, WillSend
  <2>. QED  BY <1>17, <2>2, <2>3 DEF DispatchClaim
<1>18. CASE DispatchSend
  <2>1. dpc = "sending" /\ UNCHANGED <<log, status, barred, claimed, listed, stop, held>>
    BY <1>18 DEF DispatchSend, rowVars, runVars, stopVars
  <2>2. CASE dpc' = "turn"
    <3>1. phase = "none"
      BY <1>18, <2>2 DEF DispatchSend, Reserve
    <3>2. stop = "none"
      BY <2>1, <3>1 DEF Pausing, Paused, TaskTypes, StopTypes, StopPhases
    <3>. QED  BY <2>1, <2>2, <3>2 DEF SetAside, Unsent, WillSend
  <2>3. CASE dpc' \in {"deferring", "blocking"}
    BY <2>1, <2>3 DEF SetAside, Unsent, WillSend
  <2>. QED  BY <1>18, <2>2, <2>3 DEF DispatchSend
<1>19. CASE DispatchDefer
  <2>1. dpc' \in {"off", "start"} /\ UNCHANGED <<log, barred, claimed, listed, stop>>
    BY <1>19 DEF DispatchDefer, Again, Return, runVars, stopVars
  <2>2. CASE Deferrable(held) /\ Mark(held, "queued")
    <3>1. \A n \in Messages : status'[n] = IF n = held THEN "queued" ELSE status[n]
      BY <1>19, <2>2, HeldFacts, MarkFacts DEF DispatchDefer, Deferrable, Holding, RowStatuses,
         Statuses
    <3>. QED  BY <2>1, <2>2, <3>1 DEF Deferrable, SetAside, Unsent, WillSend
  <2>3. CASE UNCHANGED status
    BY <2>1, <2>3 DEF SetAside, Unsent, WillSend
  <2>. QED  BY <1>19, <2>2, <2>3 DEF DispatchDefer
<1>20. CASE DispatchBlock
  <2>1. dpc' \in {"off", "start"} /\ UNCHANGED <<log, barred, claimed, listed, stop>>
    BY <1>20 DEF DispatchBlock, Return, runVars, stopVars
  <2>2. CASE Row(held) /\ Mark(held, "blocked")
    <3>1. \A n \in Messages : status'[n] = IF n = held THEN "blocked" ELSE status[n]
      BY <1>20, <2>2, HeldFacts, MarkFacts DEF DispatchBlock, Holding, RowStatuses, Statuses
    <3>. QED  BY <2>1, <2>2, <3>1 DEF SetAside, Unsent, WillSend
  <2>3. CASE UNCHANGED status
    BY <2>1, <2>3 DEF SetAside, Unsent, WillSend
  <2>. QED  BY <1>20, <2>2, <2>3 DEF DispatchBlock
<1>21. CASE DispatchRemove
  <2>1. dpc' \in {"off", "start"} /\ UNCHANGED <<log, barred, claimed, listed, stop>>
    BY <1>21 DEF DispatchRemove, Again, Return, runVars, stopVars
  <2>2. CASE Delete(held)
    <3>1. \A n \in Messages : status'[n] = IF n = held THEN "gone" ELSE status[n]
      BY <1>21, <2>2, HeldFacts, DeleteFacts DEF DispatchRemove, Holding
    <3>. QED  BY <2>1, <3>1 DEF SetAside, Unsent, WillSend
  <2>3. CASE UNCHANGED status
    BY <2>1, <2>3 DEF SetAside, Unsent, WillSend
  <2>. QED  BY <1>21, <2>2, <2>3 DEF DispatchRemove
<1>22. CASE AppendSteering
  <2>1. /\ Head(drained) \in Messages /\ ~Row(Head(drained)) /\ Mark(Head(drained), "gone")
        /\ log' = Append(log, Head(drained)) /\ status[Head(drained)] = "steered"
        /\ UNCHANGED <<barred, claimed, listed, stop, held, phase, dpc>>
    BY <1>22, ListFacts DEF AppendSteering, Deliver, QueueTypes, RowStatuses, dispatchVars,
       turnVars, stopVars
  <2>2. \A k \in Messages : status'[k] = IF k = Head(drained) THEN "gone" ELSE status[k]
    BY <2>1, MarkFacts DEF Statuses, RowStatuses
  <2>3. Range(log)' = Range(log) \cup {Head(drained)}
    BY <2>1, AppendFacts
  <2>. QED  BY <2>1, <2>2, <2>3 DEF SetAside, Unsent, WillSend
<1>23. CASE FollowUp
  BY <1>23 DEF FollowUp, rowVars, dispatchVars, turnVars, runVars, stopVars, SetAside, Unsent,
     WillSend
<1>24. CASE FollowUpClaim
  <2>1. UNCHANGED <<log, barred, listed, stop, held, phase, dpc>>
    BY <1>24 DEF FollowUpClaim, dispatchVars, turnVars, stopVars
  <2>2. ASSUME NEW m \in Messages, Claim(m), claimed' = Append(claimed, m)
        PROVE  SetAside'
    <3>1. Range(claimed)' = Range(claimed) \cup {m}
      BY <2>2, AppendFacts DEF TaskTypes, RunTypes
    <3>. QED  BY <2>1, <2>2, <3>1, ClaimFacts DEF SetAside, Unsent, WillSend
  <2>3. CASE UNCHANGED <<status, claimed>>
    BY <2>1, <2>3 DEF SetAside, Unsent, WillSend
  <2>. QED  BY <1>24, <2>2, <2>3 DEF FollowUpClaim
<1>25. CASE FollowUpDecide
  <2>1. /\ claimed # <<>> /\ Last(claimed) \in Messages /\ Range(Front(claimed)) \subseteq Range(claimed)
        /\ stop \in {"none", "raised"} /\ UNCHANGED <<log, barred, listed, stop, held, phase, dpc>>
    BY <1>25, ListFacts, FrontFacts DEF FollowUpDecide, Looping, Exclusion, TaskTypes,
       RunTypes, StopTypes, StopPhases, dispatchVars, turnVars, stopVars
  <2>2. CASE UNCHANGED <<status, claimed>>
    BY <2>1, <2>2 DEF SetAside, Unsent, WillSend
  <2>3. CASE EndRun /\ LoseSteering
    BY <2>1, <2>3, LoseSteeringFacts, EmptyFacts DEF EndRun, SetAside, Unsent, WillSend
  <2>4. ASSUME NEW s \in {"queued", "blocked"}, Row(Last(claimed)), Mark(Last(claimed), s),
               claimed' = Front(claimed)
        PROVE  SetAside'
    <3>1. \A n \in Messages : status'[n] = IF n = Last(claimed) THEN s ELSE status[n]
      BY <2>1, <2>4, MarkFacts DEF RowStatuses, Statuses
    <3>2. stop = "none"
      BY <2>1 DEF Pausing
    <3>3. Last(claimed) \notin barred
      BY <2>1, <3>2, FrontFacts DEF SetAside, TaskTypes, RunTypes
    <3>. QED  BY <2>1, <2>4, <3>1, <3>2, <3>3 DEF SetAside, Unsent, WillSend
  <2>. QED  BY <1>25, <2>2, <2>3, <2>4 DEF FollowUpDecide, Deferrable
<1>26. CASE FollowUpPersist
  <2>1. /\ Head(claimed) \in Messages /\ Head(claimed) \in Range(claimed) /\ log' = Append(log, Head(claimed))
        /\ UNCHANGED <<status, barred, claimed, listed, stop, held, phase, dpc>>
    BY <1>26, ListFacts DEF FollowUpPersist, Deliver, Exclusion, dispatchVars, turnVars,
       stopVars
  <2>2. stop = "none"
    BY <1>26 DEF FollowUpPersist, Looping, Exclusion, Pausing, TaskTypes, StopTypes, StopPhases
  <2>3. Range(log)' = Range(log) \cup {Head(claimed)}
    BY <2>1, AppendFacts
  <2>. QED  BY <2>1, <2>2, <2>3 DEF SetAside, Unsent, WillSend
<1>27. CASE FollowUpAdmit
  <2>0. /\ claimed # <<>> /\ claimed \in Seq(Messages)
        /\ UNCHANGED <<log, barred, listed, stop, held, phase, dpc>>
    BY <1>27 DEF FollowUpAdmit, Exclusion, TaskTypes, RunTypes, dispatchVars, turnVars, stopVars
  <2>1. /\ claimed # <<>> /\ Head(claimed) \in Messages /\ Range(Tail(claimed)) \subseteq Range(claimed)
        /\ UNCHANGED <<log, barred, listed, stop, held, phase, dpc>>
    BY <2>0, TailFacts
  <2>2. CASE EndRun /\ LoseSteering
    BY <2>1, <2>2, LoseSteeringFacts, EmptyFacts DEF EndRun, SetAside, Unsent, WillSend
  <2>3. CASE Delete(Head(claimed)) /\ claimed' = Tail(claimed)
    BY <2>1, <2>3, DeleteFacts DEF SetAside, Unsent, WillSend
  <2>. QED  BY <1>27, <2>2, <2>3 DEF FollowUpAdmit
<1>28. CASE RunEnds
  <2>1. LoseSteering /\ claimed' = <<>> /\ UNCHANGED <<log, barred, listed, stop, held, phase, dpc>>
    BY <1>28 DEF RunEnds, EndRun, dispatchVars, turnVars, stopVars
  <2>. QED  BY <2>1, LoseSteeringFacts, EmptyFacts DEF SetAside, Unsent, WillSend
<1>29. CASE RunFails
  <2>1. LoseSteering /\ claimed' = <<>> /\ UNCHANGED <<log, barred, listed, stop, held, phase, dpc>>
    BY <1>29 DEF RunFails, EndRun, dispatchVars, turnVars, stopVars
  <2>. QED  BY <2>1, LoseSteeringFacts, EmptyFacts DEF SetAside, Unsent, WillSend
<1>30. CASE RunCancelled
  <2>1. LoseSteering /\ claimed' = <<>> /\ UNCHANGED <<log, barred, listed, stop, held, phase, dpc>>
    BY <1>30 DEF RunCancelled, EndRun, dispatchVars, turnVars, stopVars
  <2>. QED  BY <2>1, LoseSteeringFacts, EmptyFacts DEF SetAside, Unsent, WillSend
<1>31. CASE StopAwaited
  BY <1>31 DEF StopAwaited, rowVars, dispatchVars, turnVars, runVars, stopVars, SetAside,
     Unsent, WillSend
<1>32. CASE StopSaves
  <2>1. UNCHANGED <<log, barred, claimed, listed, held, phase>> /\ stop = "saving" /\ stop' \in {"saving", "listing"}
        /\ (dpc' = dpc \/ dpc' = "start")
    BY <1>32 DEF StopSaves, Schedule, dispatchVars, turnVars, runVars
  <2>2. CASE saved = <<>>
    BY <1>32, <2>1, <2>2 DEF StopSaves, SetAside, Unsent, WillSend
  <2>3. CASE saved # <<>>
    <3>1. /\ Insert(Head(saved)) /\ Head(saved) \in Messages /\ ~Row(Head(saved))
          /\ status[Head(saved)] = "steered"
      BY <1>32, <2>3, ListFacts DEF StopSaves, QueueTypes, RowStatuses
    <3>. QED  BY <2>1, <3>1, InsertFacts DEF SetAside, Unsent, WillSend
  <2>. QED  BY <2>2, <2>3
<1>33. CASE StopLists
  <2>1. Range(listed') = {m \in Range(queue) : Unsent(m)}
    BY <1>33, ListingFacts DEF StopLists
  <2>2. \A m \in barred : Unsent(m) => m \in Range(listed')
    BY <2>1 DEF Unsent, QueueTypes, Row, RowStatuses
  <2>. QED  BY <1>33, <2>2 DEF StopLists, rowVars, dispatchVars, turnVars, runVars, SetAside,
                Unsent, WillSend
<1>34. CASE StopBlocks
  <2>1. UNCHANGED <<log, barred, claimed, held, phase, dpc>> /\ stop = "blocking"
    BY <1>34 DEF StopBlocks, dispatchVars, turnVars, runVars
  <2>2. CASE listed = <<>> /\ stop' = "waiting" /\ UNCHANGED status
    BY <2>1, <2>2, EmptyFacts DEF SetAside, Unsent, WillSend
  <2>3. CASE listed # <<>> /\ Row(Head(listed)) /\ Mark(Head(listed), "blocked")
             /\ listed' = Tail(listed) /\ stop' = stop
    <3>1. Head(listed) \in Messages /\ Range(listed) = Range(listed') \cup {Head(listed)}
      BY <2>3, ListFacts, TailFacts DEF TaskTypes, StopTypes
    <3>2. \A n \in Messages : status'[n] = IF n = Head(listed) THEN "blocked" ELSE status[n]
      BY <2>3, <3>1, MarkFacts DEF RowStatuses, Statuses
    <3>. QED  BY <2>1, <2>3, <3>1, <3>2 DEF SetAside, Unsent, WillSend
  <2>4. CASE aborted'
    BY <2>4
  <2>. QED  BY <1>34, <2>2, <2>3, <2>4 DEF StopBlocks
<1>35. CASE StopReturns
  <2>1. /\ UNCHANGED <<log, status, barred, claimed, listed, held, phase, dpc>>
        /\ stop = "waiting" /\ finished
    BY <1>35 DEF StopReturns, Pausing, rowVars, dispatchVars, turnVars, runVars
  <2>2. claimed = <<>> /\ dpc # "sending"
    BY <2>1 DEF Exclusion, Pausing, Paused
  <2>. QED  BY <2>1, <2>2, EmptyFacts DEF SetAside, Unsent, WillSend
<1>36. ASSUME NEW x \in orphans, OrphanCommits(x)
      PROVE  SetAside'
  <2>1. UNCHANGED <<log, barred, claimed, listed, stop, held, phase, dpc>>
    BY <1>36 DEF OrphanCommits, dispatchVars, turnVars, stopVars
  <2>2. CASE \E m \in Messages : Claim(m)
    BY <2>1, <2>2, ClaimFacts DEF SetAside, Unsent, WillSend
  <2>3. CASE UNCHANGED status
    BY <2>1, <2>3 DEF SetAside, Unsent, WillSend
  <2>4. CASE x # 0 /\ Delete(x)
    BY <1>36, <2>1, <2>4, DeleteFacts DEF TaskTypes, RunTypes, SetAside, Unsent, WillSend
  <2>. QED  BY <1>36, <2>2, <2>3, <2>4 DEF OrphanCommits
<1>37. CASE Restart
  <2>1. /\ stop = "none" /\ UNCHANGED <<log, barred>> /\ dpc' = "start" /\ claimed' = <<>>
        /\ \A m \in Messages : status'[m] = Recovered(m)
    BY <1>37 DEF Restart, Again, Paused, Pausing, TaskTypes, StopTypes, StopPhases
  <2>. QED  BY <1>37, <2>1, EmptyFacts DEF Restart, Recovered, SetAside, Unsent, WillSend
<1>38. CASE DrainSteering
  BY <1>38 DEF DrainSteering, rowVars, dispatchVars, turnVars, runVars, stopVars, SetAside, Unsent,
     WillSend
<1>. QED  BY <1>1, <1>2, <1>3, <1>4, <1>5, <1>6, <1>7, <1>8, <1>9, <1>10, <1>11, <1>12,
             <1>13, <1>14, <1>15, <1>16, <1>17, <1>18, <1>19, <1>20, <1>21, <1>22, <1>23,
             <1>24, <1>25, <1>26, <1>27, <1>28, <1>29, <1>30, <1>31, <1>32, <1>33, <1>34,
             <1>35, <1>36, <1>37, <1>38 DEF Next
-----------------------------------------------------------------------------
(* Messages are delivered in the order they were accepted                   *)

\* A message is accepted once, the next one first.
LEMMA StatusSteps ==
    ASSUME Tasks, Next
    PROVE  \A n \in Messages :
               /\ status[n] # "new" => status'[n] # "new"
               /\ status'[n] = "steered" => status[n] = "steered" \/ used'.steers # 0
               /\ status[n] = "new" /\ status'[n] # "new" => NextMessage(n)
<1>. USE DEF Tasks, RowTypes
<1>. DEFINE Steps == \A n \in Messages :
                       /\ status[n] # "new" => status'[n] # "new"
                       /\ status'[n] = "steered" => status[n] = "steered" \/ used'.steers # 0
                       /\ status[n] = "new" /\ status'[n] # "new" => NextMessage(n)
<1>. SUFFICES Steps
  OBVIOUS
<1>1. ASSUME NEW m \in Messages, QueueMessage(m)
      PROVE  Steps
  BY <1>1, InsertFacts DEF QueueMessage, NextMessage, QueueTypes, RowStatuses, Statuses
<1>2. ASSUME NEW m \in Messages, SteerRun(m)
      PROVE  Steps
  <2>1. used'.steers # 0
    BY <1>2, UseFacts, Bounds DEF SteerRun, TaskTypes
  <2>2. NextMessage(m) /\ Mark(m, "steered") /\ ~Row(m)
    BY <1>2 DEF SteerRun, NextMessage, QueueTypes, RowStatuses
  <2>3. \A n \in Messages : status'[n] = IF n = m THEN "steered" ELSE status[n]
    BY <2>2, MarkFacts DEF RowStatuses, Statuses
  <2>. QED  BY <2>1, <2>2, <2>3
<1>3. ASSUME NEW m \in Messages, RemoveQueued(m)
      PROVE  Steps
  BY <1>3, DeleteFacts DEF RemoveQueued, QueueTypes, RowStatuses
<1>4. ASSUME NEW m \in Messages, RetryQueued(m)
      PROVE  Steps
  BY <1>4, MarkFacts DEF RetryQueued, RowStatuses, Statuses
<1>5. CASE UserTurn
  BY <1>5 DEF UserTurn, rowVars
<1>6. CASE StopRun
  BY <1>6 DEF StopRun, rowVars
<1>7. CASE TakeLock
  BY <1>7 DEF TakeLock, rowVars
<1>8. CASE Register
  BY <1>8 DEF Register, rowVars
<1>9. CASE AppendMessage
  BY <1>9 DEF AppendMessage, rowVars
<1>10. CASE StartTurn
  BY <1>10 DEF StartTurn, rowVars
<1>11. CASE TurnFails
  BY <1>11 DEF TurnFails, rowVars
<1>12. CASE AwaitRunner
  BY <1>12 DEF AwaitRunner, rowVars
<1>13. CASE ReleaseLock
  BY <1>13 DEF ReleaseLock, rowVars
<1>14. CASE EndTurn
  BY <1>14 DEF EndTurn, rowVars
<1>15. CASE DispatchStart
  BY <1>15 DEF DispatchStart, rowVars
<1>16. CASE DispatchPoll
  BY <1>16 DEF DispatchPoll, rowVars
<1>17. CASE DispatchClaim
  <2>1. CASE UNCHANGED status
    BY <1>17, <2>1
  <2>2. CASE \E m \in Messages : Claim(m)
    BY <1>17, <2>2, ClaimFacts
  <2>. QED  BY <1>17, <2>1, <2>2 DEF DispatchClaim
<1>18. CASE DispatchSend
  BY <1>18 DEF DispatchSend, rowVars
<1>19. CASE DispatchDefer
  <2>1. CASE Row(held) /\ Mark(held, "queued")
    BY <1>19, <2>1, HeldFacts, MarkFacts DEF DispatchDefer, Holding, RowStatuses, Statuses,
       QueueTypes
  <2>2. CASE UNCHANGED status
    BY <1>19, <2>2
  <2>. QED  BY <1>19, <2>1, <2>2 DEF DispatchDefer, Deferrable
<1>20. CASE DispatchBlock
  <2>1. CASE Row(held) /\ Mark(held, "blocked")
    BY <1>20, <2>1, HeldFacts, MarkFacts DEF DispatchBlock, Holding, RowStatuses, Statuses,
       QueueTypes
  <2>2. CASE UNCHANGED status
    BY <1>20, <2>2
  <2>. QED  BY <1>20, <2>1, <2>2 DEF DispatchBlock
<1>21. CASE DispatchRemove
  <2>1. CASE Delete(held)
    BY <1>21, <2>1, HeldFacts, DeleteFacts DEF DispatchRemove, Holding, RowStatuses, Statuses,
       QueueTypes
  <2>2. CASE UNCHANGED status
    BY <1>21, <2>2
  <2>. QED  BY <1>21, <2>1, <2>2 DEF DispatchRemove
<1>22. CASE AppendSteering
  <2>1. /\ Head(drained) \in Messages /\ ~Row(Head(drained)) /\ Mark(Head(drained), "gone")
        /\ status[Head(drained)] = "steered"
    BY <1>22, ListFacts DEF AppendSteering, QueueTypes, RowStatuses
  <2>. QED  BY <2>1, MarkFacts DEF Statuses, RowStatuses
<1>23. CASE FollowUp
  BY <1>23 DEF FollowUp, rowVars
<1>24. CASE FollowUpClaim
  <2>1. CASE UNCHANGED status
    BY <1>24, <2>1
  <2>2. CASE \E m \in Messages : Claim(m)
    BY <1>24, <2>2, ClaimFacts
  <2>. QED  BY <1>24, <2>1, <2>2 DEF FollowUpClaim
<1>25. CASE FollowUpDecide
  <2>1. Last(claimed) \in Messages
    BY <1>25, ListFacts DEF FollowUpDecide, Exclusion
  <2>2. CASE UNCHANGED status
    BY <2>2
  <2>3. CASE LoseSteering
    BY <2>3, LoseSteeringFacts
  <2>4. ASSUME NEW s \in {"queued", "blocked"}, Row(Last(claimed)), Mark(Last(claimed), s)
        PROVE  Steps
    <3>1. \A n \in Messages : status'[n] = IF n = Last(claimed) THEN s ELSE status[n]
      BY <2>1, <2>4, MarkFacts DEF RowStatuses, Statuses
    <3>2. status[Last(claimed)] # "new"
      BY <2>1, <2>4 DEF RowStatuses, QueueTypes
    <3>. QED  BY <2>4, <3>1, <3>2
  <2>. QED  BY <1>25, <2>2, <2>3, <2>4 DEF FollowUpDecide, Deferrable
<1>26. CASE FollowUpPersist
  BY <1>26 DEF FollowUpPersist, rowVars
<1>27. CASE FollowUpAdmit
  <2>1. Head(claimed) \in Messages
    BY <1>27, ListFacts DEF FollowUpAdmit, Exclusion
  <2>2. CASE LoseSteering
    BY <2>2, LoseSteeringFacts
  <2>3. CASE Delete(Head(claimed))
    BY <2>1, <2>3, DeleteFacts DEF QueueTypes, RowStatuses
  <2>. QED  BY <1>27, <2>2, <2>3 DEF FollowUpAdmit
<1>28. CASE RunEnds
  BY <1>28, LoseSteeringFacts DEF RunEnds
<1>29. CASE RunFails
  BY <1>29, LoseSteeringFacts DEF RunFails
<1>30. CASE RunCancelled
  BY <1>30, LoseSteeringFacts DEF RunCancelled
<1>31. CASE StopAwaited
  BY <1>31 DEF StopAwaited, rowVars
<1>32. CASE StopSaves
  <2>1. CASE saved = <<>>
    BY <1>32, <2>1 DEF StopSaves
  <2>2. CASE saved # <<>>
    <3>1. /\ Insert(Head(saved)) /\ Head(saved) \in Messages /\ ~Row(Head(saved))
          /\ status[Head(saved)] = "steered"
      BY <1>32, <2>2, ListFacts DEF StopSaves, QueueTypes, RowStatuses
    <3>. QED  BY <3>1, InsertFacts
  <2>. QED  BY <2>1, <2>2
<1>33. CASE StopLists
  BY <1>33 DEF StopLists, rowVars
<1>34. CASE StopBlocks
  <2>1. CASE UNCHANGED status
    BY <2>1
  <2>2. CASE Row(Head(listed)) /\ Mark(Head(listed), "blocked") /\ Head(listed) \in Messages
    BY <2>2, MarkFacts DEF RowStatuses, Statuses, QueueTypes
  <2>. QED  BY <1>34, <2>1, <2>2, ListFacts DEF StopBlocks
<1>35. CASE StopReturns
  BY <1>35 DEF StopReturns, rowVars
<1>36. ASSUME NEW x \in orphans, OrphanCommits(x)
      PROVE  Steps
  <2>1. CASE UNCHANGED status
    BY <2>1
  <2>2. CASE \E m \in Messages : Claim(m)
    BY <2>2, ClaimFacts
  <2>3. CASE x # 0 /\ Delete(x)
    BY <1>36, <2>3, DeleteFacts DEF TaskTypes, RunTypes, QueueTypes, RowStatuses
  <2>. QED  BY <1>36, <2>1, <2>2, <2>3 DEF OrphanCommits
<1>37. CASE Restart
  BY <1>37 DEF Restart, Recovered
<1>38. CASE DrainSteering
  BY <1>38 DEF DrainSteering, rowVars
<1>. QED  BY <1>1, <1>2, <1>3, <1>4, <1>5, <1>6, <1>7, <1>8, <1>9, <1>10, <1>11, <1>12,
             <1>13, <1>14, <1>15, <1>16, <1>17, <1>18, <1>19, <1>20, <1>21, <1>22, <1>23,
             <1>24, <1>25, <1>26, <1>27, <1>28, <1>29, <1>30, <1>31, <1>32, <1>33, <1>34,
             <1>35, <1>36, <1>37, <1>38 DEF Next

LEMMA QueueSteps ==
    ASSUME Tasks, Next
    PROVE  \/ queue' = queue
           \/ \E n \in Messages : NextMessage(n) /\ Insert(n)
           \/ \E n \in Messages : Delete(n)
           \/ \E n \in Messages : status[n] = "steered"
<1>. DEFINE Steps == \/ queue' = queue
                     \/ \E n \in Messages : NextMessage(n) /\ Insert(n)
                     \/ \E n \in Messages : Delete(n)
                     \/ \E n \in Messages : status[n] = "steered"
<1>. SUFFICES Steps
  OBVIOUS
<1>1. ASSUME NEW m \in Messages, QueueMessage(m)
      PROVE  Steps
  BY <1>1 DEF QueueMessage, rowVars
<1>2. ASSUME NEW m \in Messages, SteerRun(m)
      PROVE  Steps
  BY <1>2 DEF SteerRun, Mark, rowVars
<1>3. ASSUME NEW m \in Messages, RemoveQueued(m)
      PROVE  Steps
  BY <1>3 DEF RemoveQueued, rowVars
<1>4. ASSUME NEW m \in Messages, RetryQueued(m)
      PROVE  Steps
  BY <1>4 DEF RetryQueued, Mark, rowVars
<1>5. CASE UserTurn
  BY <1>5 DEF UserTurn, rowVars
<1>6. CASE StopRun
  BY <1>6 DEF StopRun, rowVars
<1>7. CASE TakeLock
  BY <1>7 DEF TakeLock, rowVars
<1>8. CASE Register
  BY <1>8 DEF Register, rowVars
<1>9. CASE AppendMessage
  BY <1>9 DEF AppendMessage, rowVars
<1>10. CASE StartTurn
  BY <1>10 DEF StartTurn, rowVars
<1>11. CASE TurnFails
  BY <1>11 DEF TurnFails, rowVars
<1>12. CASE AwaitRunner
  BY <1>12 DEF AwaitRunner, rowVars
<1>13. CASE ReleaseLock
  BY <1>13 DEF ReleaseLock, rowVars
<1>14. CASE EndTurn
  BY <1>14 DEF EndTurn, rowVars
<1>15. CASE DispatchStart
  BY <1>15 DEF DispatchStart, rowVars
<1>16. CASE DispatchPoll
  BY <1>16 DEF DispatchPoll, rowVars
<1>17. CASE DispatchClaim
  BY <1>17 DEF DispatchClaim, Claim, Mark, rowVars
<1>18. CASE DispatchSend
  BY <1>18 DEF DispatchSend, rowVars
<1>19. CASE DispatchDefer
  BY <1>19 DEF DispatchDefer, Mark, rowVars
<1>20. CASE DispatchBlock
  BY <1>20 DEF DispatchBlock, Mark, rowVars
<1>21. CASE DispatchRemove
  BY <1>21, HeldFacts DEF DispatchRemove, Holding, rowVars
<1>22. CASE AppendSteering
  BY <1>22 DEF AppendSteering, Mark, rowVars
<1>23. CASE FollowUp
  BY <1>23 DEF FollowUp, rowVars
<1>24. CASE FollowUpClaim
  BY <1>24 DEF FollowUpClaim, Claim, Mark, rowVars
<1>25. CASE FollowUpDecide
  BY <1>25 DEF FollowUpDecide, Mark, LoseSteering, rowVars
<1>26. CASE FollowUpPersist
  BY <1>26 DEF FollowUpPersist, rowVars
<1>27. CASE FollowUpAdmit
  BY <1>27, ListFacts DEF FollowUpAdmit, LoseSteering, Tasks, Exclusion
<1>28. CASE RunEnds
  BY <1>28 DEF RunEnds, LoseSteering, rowVars
<1>29. CASE RunFails
  BY <1>29 DEF RunFails, LoseSteering, rowVars
<1>30. CASE RunCancelled
  BY <1>30 DEF RunCancelled, LoseSteering, rowVars
<1>31. CASE StopAwaited
  BY <1>31 DEF StopAwaited, rowVars
<1>32. CASE StopSaves
  BY <1>32, ListFacts DEF StopSaves
<1>33. CASE StopLists
  BY <1>33 DEF StopLists, rowVars
<1>34. CASE StopBlocks
  BY <1>34 DEF StopBlocks, Mark, rowVars
<1>35. CASE StopReturns
  BY <1>35 DEF StopReturns, rowVars
<1>36. ASSUME NEW x \in orphans, OrphanCommits(x)
      PROVE  Steps
  BY <1>36 DEF OrphanCommits, Claim, Mark, Tasks, TaskTypes, RunTypes
<1>37. CASE Restart
  BY <1>37 DEF Restart, rowVars
<1>38. CASE DrainSteering
  BY <1>38 DEF DrainSteering, rowVars
<1>. QED  BY <1>1, <1>2, <1>3, <1>4, <1>5, <1>6, <1>7, <1>8, <1>9, <1>10, <1>11, <1>12,
             <1>13, <1>14, <1>15, <1>16, <1>17, <1>18, <1>19, <1>20, <1>21, <1>22, <1>23,
             <1>24, <1>25, <1>26, <1>27, <1>28, <1>29, <1>30, <1>31, <1>32, <1>33, <1>34,
             <1>35, <1>36, <1>37, <1>38 DEF Next

LEMMA AsAcceptedStep ==
    ASSUME Tasks, Next, AsAccepted, used'.steers = 0
    PROVE  AsAccepted'
<1>. USE DEF Tasks, RowTypes
<1>1. \A n \in Messages : status'[n] # "steered"
  BY StatusSteps DEF AsAccepted
<1>2. ASSUME NEW m \in Messages, NEW n \in Messages, status'[m] = "new", status'[n] # "new"
      PROVE  n < m
  <2>1. status[m] = "new" /\ m # n
    BY <1>2, StatusSteps
  <2>2. CASE status[n] # "new"
    BY <2>1, <2>2 DEF AsAccepted
  <2>3. CASE status[n] = "new"
    <3>1. NextMessage(n)
      BY <1>2, <2>3, StatusSteps
    <3>. QED  BY <2>1, <3>1 DEF NextMessage, Messages
  <2>. QED  BY <2>2, <2>3
<1>3. \A j, k \in DOMAIN queue' : j < k => queue'[j] < queue'[k]
  <2>1. CASE queue' = queue
    BY <2>1 DEF AsAccepted
  <2>2. ASSUME NEW n \in Messages, NextMessage(n), Insert(n)
        PROVE  \A j, k \in DOMAIN queue' : j < k => queue'[j] < queue'[k]
    <3>0. queue' = Append(queue, n) /\ queue \in Seq(Messages) /\ status[n] = "new"
      BY <2>2 DEF NextMessage, Insert, QueueTypes
    <3>1. \A k \in DOMAIN queue : queue[k] \in Messages /\ status[queue[k]] # "new"
      <4>. TAKE k \in DOMAIN queue
      <4>1. queue[k] \in Messages /\ Row(queue[k])
        BY <3>0 DEF Row, Range
      <4>. QED  BY <4>1 DEF QueueTypes, RowStatuses
    <3>2. \A k \in DOMAIN queue : queue[k] < n
      BY <3>0, <3>1 DEF AsAccepted
    <3>3. /\ DOMAIN queue' = 1 .. Len(queue) + 1 /\ DOMAIN queue = 1 .. Len(queue) /\ Len(queue) \in Nat
          /\ queue'[Len(queue) + 1] = n /\ \A k \in DOMAIN queue : queue'[k] = queue[k]
      BY <3>0
    <3>4. \A j, k \in DOMAIN queue : j < k => queue[j] < queue[k]
      BY DEF AsAccepted
    <3>. QED  BY <3>2, <3>3, <3>4
  <2>3. ASSUME NEW n \in Messages, Delete(n)
        PROVE  \A j, k \in DOMAIN queue' : j < k => queue'[j] < queue'[k]
    <3>1. PICK i \in DOMAIN queue : queue' = RemoveAt(queue, i)
      BY <2>3 DEF Delete
    <3>2. /\ DOMAIN queue' = 1 .. Len(queue) - 1 /\ DOMAIN queue = 1 .. Len(queue) /\ Len(queue) \in Nat
          /\ \A k \in 1 .. Len(queue) - 1 : queue'[k] = queue[IF k < i THEN k ELSE k + 1]
      <4>1. queue \in Seq(Messages)
        BY DEF QueueTypes
      <4>2. DOMAIN queue = 1 .. Len(queue) /\ Len(queue) \in Nat
        BY <4>1
      <4>3. /\ DOMAIN RemoveAt(queue, i) = 1 .. Len(queue) - 1
            /\ \A k \in 1 .. Len(queue) - 1 :
                   RemoveAt(queue, i)[k] = queue[IF k < i THEN k ELSE k + 1]
        BY <4>1, RemoveAtFacts
      <4>. QED  BY <3>1, <4>2, <4>3
    <3>. DEFINE Was(k) == IF k < i THEN k ELSE k + 1
    <3>3. ASSUME NEW j \in DOMAIN queue', NEW k \in DOMAIN queue', j < k
          PROVE  queue'[j] < queue'[k]
      <4>1. Was(j) \in DOMAIN queue /\ Was(k) \in DOMAIN queue /\ Was(j) < Was(k)
        BY <3>2, <3>3
      <4>2. queue[Was(j)] < queue[Was(k)]
        BY <4>1 DEF AsAccepted
      <4>. QED  BY <3>2, <4>2
    <3>. QED  BY <3>3
  <2>. QED  BY <2>1, <2>2, <2>3, QueueSteps DEF AsAccepted
<1>. QED  BY <1>1, <1>2, <1>3 DEF AsAccepted

\* Who is delivered, claimed and held is known.
LEMMA ListSteps ==
    ASSUME Tasks, Next
    PROVE  /\ \A m \in Range(log') : m \in Range(log) \cup Range(claimed) \cup Range(drained) \cup {held}
           /\ \A m \in Range(claimed') : m \in Range(claimed) \/ status'[m] = "dispatching"
           /\ held' \in {0, held} \/ status'[held'] = "dispatching"
<1>. USE DEF Tasks, RowTypes
<1>. DEFINE Steps == /\ \A m \in Range(log') :
                         m \in Range(log) \cup Range(claimed) \cup Range(drained) \cup {held}
                     /\ \A m \in Range(claimed') : m \in Range(claimed) \/ status'[m] = "dispatching"
                     /\ held' \in {0, held} \/ status'[held'] = "dispatching"
<1>. SUFFICES Steps
  OBVIOUS
<1>1. ASSUME NEW m \in Messages, QueueMessage(m)
      PROVE  Steps
  BY <1>1, EmptyFacts DEF QueueMessage, Schedule, rowVars, dispatchVars, runVars
<1>2. ASSUME NEW m \in Messages, SteerRun(m)
      PROVE  Steps
  BY <1>2, EmptyFacts DEF SteerRun, rowVars, dispatchVars, runVars
<1>3. ASSUME NEW m \in Messages, RemoveQueued(m)
      PROVE  Steps
  BY <1>3, EmptyFacts DEF RemoveQueued, rowVars, dispatchVars, runVars
<1>4. ASSUME NEW m \in Messages, RetryQueued(m)
      PROVE  Steps
  BY <1>4, EmptyFacts DEF RetryQueued, Schedule, rowVars, dispatchVars, runVars
<1>5. CASE UserTurn
  BY <1>5, EmptyFacts DEF UserTurn, rowVars, dispatchVars, runVars
<1>6. CASE StopRun
  BY <1>6, EmptyFacts DEF StopRun, rowVars, dispatchVars, runVars
<1>7. CASE TakeLock
  BY <1>7, EmptyFacts DEF TakeLock, rowVars, dispatchVars, runVars
<1>8. CASE Register
  BY <1>8, EmptyFacts DEF Register, rowVars, dispatchVars, runVars
<1>9. CASE AppendMessage
  <2>1. owner = "dispatcher" => Range(Append(log, held)) = Range(log) \cup {held}
    BY HeldFacts, AppendFacts DEF TaskTypes, TurnTypes, Holding
  <2>. QED  BY <1>9, <2>1 DEF AppendMessage, Deliver, dispatchVars, runVars
<1>10. CASE StartTurn
  BY <1>10, EmptyFacts DEF StartTurn, rowVars, dispatchVars, runVars
<1>11. CASE TurnFails
  BY <1>11, EmptyFacts DEF TurnFails, EndRun, rowVars, dispatchVars, runVars
<1>12. CASE AwaitRunner
  BY <1>12, EmptyFacts DEF AwaitRunner, rowVars, dispatchVars, runVars
<1>13. CASE ReleaseLock
  BY <1>13, EmptyFacts DEF ReleaseLock, rowVars, dispatchVars, runVars
<1>14. CASE EndTurn
  BY <1>14, EmptyFacts DEF EndTurn, rowVars, dispatchVars, runVars
<1>15. CASE DispatchStart
  BY <1>15, EmptyFacts DEF DispatchStart, rowVars, dispatchVars, runVars
<1>16. CASE DispatchPoll
  BY <1>16, EmptyFacts DEF DispatchPoll, Return, rowVars, dispatchVars, runVars
<1>17. CASE DispatchClaim
  BY <1>17, ClaimFacts DEF DispatchClaim, Return, runVars
<1>18. CASE DispatchSend
  BY <1>18, EmptyFacts DEF DispatchSend, rowVars, dispatchVars, runVars
<1>19. CASE DispatchDefer
  BY <1>19, EmptyFacts DEF DispatchDefer, Again, Return, rowVars, dispatchVars, runVars
<1>20. CASE DispatchBlock
  BY <1>20, EmptyFacts DEF DispatchBlock, Return, rowVars, dispatchVars, runVars
<1>21. CASE DispatchRemove
  BY <1>21, EmptyFacts DEF DispatchRemove, Again, Return, rowVars, dispatchVars, runVars
<1>22. CASE AppendSteering
  <2>0. Head(drained) \in Messages /\ Head(drained) \in Range(drained) /\ log \in Seq(Messages)
    BY <1>22, ListFacts DEF AppendSteering
  <2>1. Range(Append(log, Head(drained))) = Range(log) \cup {Head(drained)}
    BY <2>0, AppendFacts
  <2>. QED  BY <1>22, <2>0, <2>1 DEF AppendSteering, Deliver, dispatchVars
<1>23. CASE FollowUp
  BY <1>23, EmptyFacts DEF FollowUp, rowVars, dispatchVars, runVars
<1>24. CASE FollowUpClaim
  <2>1. \A m \in Messages : Range(Append(claimed, m)) = Range(claimed) \cup {m}
    BY AppendFacts DEF TaskTypes, RunTypes
  <2>. QED  BY <1>24, <2>1, ClaimFacts DEF FollowUpClaim, dispatchVars
<1>25. CASE FollowUpDecide
  <2>0. claimed \in Seq(Messages) /\ claimed # <<>>
    BY <1>25 DEF FollowUpDecide, Exclusion, TaskTypes, RunTypes
  <2>1. Range(Front(claimed)) \subseteq Range(claimed)
    BY <2>0, FrontFacts
  <2>. QED  BY <1>25, <2>1, EmptyFacts DEF FollowUpDecide, EndRun, dispatchVars
<1>26. CASE FollowUpPersist
  <2>0. Head(claimed) \in Messages /\ Head(claimed) \in Range(claimed) /\ log \in Seq(Messages)
    BY <1>26, ListFacts DEF FollowUpPersist, Exclusion
  <2>1. /\ Range(Append(log, Head(claimed))) = Range(log) \cup {Head(claimed)}
        /\ Head(claimed) \in Range(claimed)
    BY <2>0, AppendFacts
  <2>. QED  BY <1>26, <2>1 DEF FollowUpPersist, Deliver, dispatchVars
<1>27. CASE FollowUpAdmit
  <2>1. Range(Tail(claimed)) \subseteq Range(claimed)
    BY <1>27, TailFacts DEF FollowUpAdmit, Exclusion, TaskTypes, RunTypes
  <2>. QED  BY <1>27, <2>1, EmptyFacts DEF FollowUpAdmit, EndRun, dispatchVars
<1>28. CASE RunEnds
  BY <1>28, EmptyFacts DEF RunEnds, EndRun, rowVars, dispatchVars, runVars
<1>29. CASE RunFails
  BY <1>29, EmptyFacts DEF RunFails, EndRun, rowVars, dispatchVars, runVars
<1>30. CASE RunCancelled
  BY <1>30, EmptyFacts DEF RunCancelled, EndRun, rowVars, dispatchVars, runVars
<1>31. CASE StopAwaited
  BY <1>31, EmptyFacts DEF StopAwaited, rowVars, dispatchVars, runVars
<1>32. CASE StopSaves
  BY <1>32, EmptyFacts DEF StopSaves, Schedule, rowVars, dispatchVars, runVars
<1>33. CASE StopLists
  BY <1>33, EmptyFacts DEF StopLists, rowVars, dispatchVars, runVars
<1>34. CASE StopBlocks
  BY <1>34, EmptyFacts DEF StopBlocks, rowVars, dispatchVars, runVars
<1>35. CASE StopReturns
  BY <1>35, EmptyFacts DEF StopReturns, rowVars, dispatchVars, runVars
<1>36. ASSUME NEW x \in orphans, OrphanCommits(x)
      PROVE  Steps
  BY <1>36, EmptyFacts DEF OrphanCommits, rowVars, dispatchVars, runVars
<1>37. CASE Restart
  BY <1>37, EmptyFacts DEF Restart, Again, rowVars, dispatchVars, runVars
<1>38. CASE DrainSteering
  BY <1>38, EmptyFacts DEF DrainSteering, rowVars, dispatchVars, runVars
<1>. QED  BY <1>1, <1>2, <1>3, <1>4, <1>5, <1>6, <1>7, <1>8, <1>9, <1>10, <1>11, <1>12,
             <1>13, <1>14, <1>15, <1>16, <1>17, <1>18, <1>19, <1>20, <1>21, <1>22, <1>23,
             <1>24, <1>25, <1>26, <1>27, <1>28, <1>29, <1>30, <1>31, <1>32, <1>33, <1>34,
             <1>35, <1>36, <1>37, <1>38 DEF Next

LEMMA KnownStep ==
    ASSUME Tasks, Next, Known
    PROVE  Known'
<1>1. Range(log') \subseteq Messages /\ Range(claimed') \subseteq Messages /\ held' \in Messages \cup {0}
  BY TasksStep DEF Tasks, RowTypes, TaskTypes, RunTypes, DispatchTypes, Range
<1>2. ASSUME NEW m \in Range(log') \cup Range(claimed')
      PROVE  status'[m] # "new"
  <2>1. CASE status'[m] = "dispatching"
    BY <2>1
  <2>2. CASE status[m] # "new"
    BY <1>1, <2>2, StatusSteps
  <2>3. m \in Range(drained) => status[m] # "new"
    BY DEF Tasks, Steering
  <2>4. m = held => m # 0
    BY <1>1, MessageFacts
  <2>. QED  BY <2>1, <2>2, <2>3, <2>4, ListSteps DEF Known
<1>3. ASSUME held' # 0
      PROVE  status'[held'] # "new"
  <2>1. held' \in Messages
    BY <1>1, <1>3
  <2>2. CASE status'[held'] = "dispatching"
    BY <2>2
  <2>3. CASE held' = held
    <3>1. status[held'] # "new"
      BY <1>3, <2>3 DEF Known
    <3>. QED  BY <2>1, <3>1, StatusSteps
  <2>. QED  BY <1>3, <2>2, <2>3, ListSteps
<1>. QED  BY <1>2, <1>3 DEF Known

\* Messages of the conversation and of the loop are messages that were accepted.
LEMMA ComingFacts ==
    ASSUME Tasks
    PROVE  /\ Coming \subseteq Range(claimed) \cup (IF held = 0 THEN {} ELSE {held})
           /\ Coming \subseteq Messages
           /\ loop # "idle" => ~WillSend
           /\ loop # "admitting" => Range(claimed) \subseteq Coming
           /\ loop = "admitting" => Coming = Range(Tail(claimed))
           /\ WillSend => held \in Coming /\ claimed = <<>>
<1>. USE DEF Tasks, TaskTypes
<1>1. loop # "idle" => ~WillSend
  BY DEF Exclusion, WillSend
<1>2. WillSend => held \in Messages /\ held # 0
  BY HeldFacts, MessageFacts DEF WillSend, Holding
<1>3. claimed # <<>> => Range(Tail(claimed)) \subseteq Range(claimed)
  BY TailFacts DEF RunTypes
<1>4. Range(claimed) \subseteq Messages /\ (loop = "admitting" => claimed # <<>>)
  BY ListFacts DEF Exclusion
<1>5. loop = "idle" => claimed = <<>>
  BY DEF Exclusion
<1>. QED  BY <1>1, <1>2, <1>3, <1>4, <1>5 DEF Coming

\* The order stands when nothing is accepted, retried or delivered.
LEMMA NothingComes ==
    ASSUME Tasks, Delivering, UNCHANGED <<log, retried>>, Queued' \subseteq Queued,
           \/ UNCHANGED claimed /\ (loop' = "admitting" <=> loop = "admitting")
           \/ claimed' = <<>> /\ loop' = "idle",
           WillSend' => WillSend /\ UNCHANGED held
    PROVE  Delivering'
<1>1. Coming' \subseteq Coming
  BY EmptyFacts DEF Coming
<1>2. \A m, n : Follows(m, n)' <=> Follows(m, n)
  BY DEF Follows
<1>3. \A j, k \in DOMAIN claimed' : j < k => Follows(claimed'[j], claimed'[k])
  BY DEF Delivering
<1>. QED  BY <1>1, <1>2, <1>3 DEF Delivering, Follows

LEMMA RowsStay ==
    ASSUME Tasks, Delivering, UNCHANGED <<queue, status, log, retried>>,
           \/ UNCHANGED claimed /\ (loop' = "admitting" <=> loop = "admitting")
           \/ claimed' = <<>> /\ loop' = "idle",
           WillSend' => WillSend /\ UNCHANGED held
    PROVE  Delivering'
BY NothingComes DEF Queued

\* A claim takes what follows nothing else that waits.
LEMMA OldestClaimed ==
    ASSUME Tasks, AsAccepted, NEW m \in Messages, Claim(m)
    PROVE  /\ m \in Queued /\ Queued' = Queued \ {m}
           /\ \A n \in Queued' : m < n
<1>. USE DEF Tasks, RowTypes
<1>1. /\ queue' = queue /\ m \in Queued
      /\ \A n \in Messages : status'[n] = IF n = m THEN "dispatching" ELSE status[n]
  BY ClaimFacts
<1>2. Range(queue) \subseteq Messages
  BY ListFacts
<1>3. Queued' = Queued \ {m}
  BY <1>1, <1>2 DEF Queued
<1>4. PICK k \in DOMAIN queue : queue[k] = m /\ \A j \in 1 .. k - 1 : queue[j] \notin Queued
  BY DEF Claim
<1>5. ASSUME NEW n \in Queued'
      PROVE  m < n
  <2>1. n \in Queued /\ n # m
    BY <1>3, <1>5
  <2>2. PICK j \in DOMAIN queue : queue[j] = n
    BY <2>1 DEF Queued, Range
  <2>3. j \notin 1 .. k - 1 /\ j # k
    BY <1>4, <2>1, <2>2
  <2>4. queue \in Seq(Messages)
    BY DEF QueueTypes
  <2>5. k < j
    BY <2>3, <2>4
  <2>. QED  BY <1>4, <2>2, <2>5 DEF AsAccepted
<1>. QED  BY <1>1, <1>3, <1>5

\* What blocking or deleting a row, or dropping steering, leaves queued.
LEMMA Blocked ==
    ASSUME Tasks, NEW m \in Messages, Row(m), Mark(m, "blocked")
    PROVE  Queued' \subseteq Queued
<1>. USE DEF Tasks, RowTypes
<1>1. queue' = queue /\ \A n \in Messages : status'[n] = IF n = m THEN "blocked" ELSE status[n]
  BY MarkFacts DEF RowStatuses, Statuses
<1>. QED  BY <1>1, ListFacts DEF Queued

LEMMA Deleted ==
    ASSUME Tasks, NEW m \in Messages, Delete(m)
    PROVE  Queued' \subseteq Queued
<1>. USE DEF Tasks, RowTypes
<1>1. /\ Range(queue)' = Range(queue) \ {m}
      /\ \A n \in Messages : status'[n] = IF n = m THEN "gone" ELSE status[n]
  BY DeleteFacts
<1>. QED  BY <1>1, ListFacts DEF Queued

LEMMA Dropped ==
    ASSUME Tasks, LoseSteering
    PROVE  Queued' \subseteq Queued
<1>. USE DEF Tasks, RowTypes
<1>1. /\ queue' = queue
      /\ \A n \in Messages : status'[n] = IF n \in Range(steering) \cup Range(drained)
                                         THEN "dropped" ELSE status[n]
  BY LoseSteeringFacts
<1>. QED  BY <1>1, ListFacts DEF Queued

\* Lists whose elements follow one another.
LEMMA Appended ==
    ASSUME NEW s \in Seq(Messages), NEW m \in Messages,
           \A j, k \in DOMAIN s : j < k => Follows(s[j], s[k]),
           \A d \in Range(s) : Follows(d, m)
    PROVE  \A j, k \in DOMAIN Append(s, m) :
               j < k => Follows(Append(s, m)[j], Append(s, m)[k])
<1>. DEFINE t == Append(s, m)
<1>1. /\ DOMAIN t = 1 .. Len(s) + 1 /\ DOMAIN s = 1 .. Len(s) /\ Len(s) \in Nat
      /\ t[Len(s) + 1] = m /\ \A k \in DOMAIN s : t[k] = s[k]
  OBVIOUS
<1>. HIDE DEF t
<1>2. \A k \in DOMAIN s : Follows(s[k], m)
  BY DEF Range
<1>3. \A j, k \in DOMAIN t : j < k => Follows(t[j], t[k])
  BY <1>1, <1>2
<1>. QED  BY <1>3 DEF t

LEMMA Fronted ==
    ASSUME NEW s \in Seq(Messages), s # <<>>,
           \A j, k \in DOMAIN s : j < k => Follows(s[j], s[k])
    PROVE  /\ \A j, k \in DOMAIN Front(s) : j < k => Follows(Front(s)[j], Front(s)[k])
           /\ \A c \in Range(Front(s)) : Follows(c, Last(s))
<1>. DEFINE t == Front(s)
<1>1. /\ DOMAIN t = 1 .. Len(s) - 1 /\ DOMAIN s = 1 .. Len(s) /\ Len(s) \in Nat \ {0}
      /\ Last(s) = s[Len(s)] /\ \A k \in 1 .. Len(s) - 1 : t[k] = s[k]
  BY DEF Front, Last
<1>. HIDE DEF t
<1>2. \A j, k \in DOMAIN t : j < k => Follows(t[j], t[k])
  BY <1>1
<1>3. \A j \in DOMAIN t : Follows(t[j], Last(s))
  BY <1>1
<1>. QED  BY <1>2, <1>3 DEF t, Range

LEMMA Tailed ==
    ASSUME NEW s \in Seq(Messages), s # <<>>,
           \A j, k \in DOMAIN s : j < k => Follows(s[j], s[k])
    PROVE  /\ \A j, k \in DOMAIN Tail(s) : j < k => Follows(Tail(s)[j], Tail(s)[k])
           /\ \A c \in Range(Tail(s)) : Follows(Head(s), c)
<1>. DEFINE t == Tail(s)
<1>1. /\ DOMAIN t = 1 .. Len(s) - 1 /\ DOMAIN s = 1 .. Len(s) /\ Len(s) \in Nat \ {0}
      /\ Head(s) = s[1] /\ \A k \in 1 .. Len(s) - 1 : t[k] = s[k + 1]
  OBVIOUS
<1>. HIDE DEF t
<1>2. ASSUME NEW j \in DOMAIN t, NEW k \in DOMAIN t, j < k
      PROVE  Follows(t[j], t[k])
  <2>1. /\ j + 1 \in DOMAIN s /\ k + 1 \in DOMAIN s /\ j + 1 < k + 1
        /\ t[j] = s[j + 1] /\ t[k] = s[k + 1]
    BY <1>1, <1>2
  <2>2. Follows(s[j + 1], s[k + 1])
    BY <2>1
  <2>. QED  BY <2>1, <2>2
<1>3. ASSUME NEW k \in DOMAIN t
      PROVE  Follows(Head(s), t[k])
  <2>1. 1 \in DOMAIN s /\ k + 1 \in DOMAIN s /\ 1 < k + 1 /\ t[k] = s[k + 1] /\ Head(s) = s[1]
    BY <1>1
  <2>2. Follows(s[1], s[k + 1])
    BY <2>1
  <2>. QED  BY <2>1, <2>2
<1>. QED  BY <1>2, <1>3 DEF t, Range

\* Without steering, no step delivers, claims or queues a message out of order.
LEMMA DeliveringStep ==
    ASSUME Tasks, Next, Known, AsAccepted, Delivering, used'.steers = 0
    PROVE  Delivering'
<1>. USE DEF Tasks, RowTypes
<1>1. ASSUME NEW m \in Messages, QueueMessage(m)
      PROVE  Delivering'
  <2>1. /\ Insert(m) /\ ~Row(m) /\ status[m] = "new" /\ (dpc' = dpc \/ dpc' = "start")
        /\ UNCHANGED <<log, retried, claimed, loop, held, phase>>
    BY <1>1 DEF QueueMessage, NextMessage, Schedule, QueueTypes, RowStatuses, turnVars, runVars
  <2>2. /\ Range(queue)' = Range(queue) \cup {m}
        /\ \A n \in Messages : status'[n] = IF n = m THEN "queued" ELSE status[n]
    BY <2>1, InsertFacts
  <2>3. Range(queue) \subseteq Messages /\ Range(log) \subseteq Messages /\ Coming \subseteq Messages
    BY ListFacts, ComingFacts
  <2>4. Queued' \subseteq Queued \cup {m}
    BY <2>2, <2>3 DEF Queued
  <2>5. Coming' \subseteq Coming
    BY <2>1 DEF Coming, WillSend
  <2>6. \A d \in Range(log) \cup Coming : d < m
    <3>1. \A d \in Range(log) \cup Coming : status[d] # "new"
      BY ComingFacts DEF Known
    <3>. QED  BY <2>1, <2>3, <3>1 DEF AsAccepted
  <2>. QED  BY <2>1, <2>4, <2>5, <2>6 DEF Delivering, Follows
<1>2. ASSUME NEW m \in Messages, SteerRun(m)
      PROVE  Delivering'
  <2>1. used'.steers # 0
    BY <1>2, UseFacts, Bounds DEF SteerRun, TaskTypes
  <2>. QED  BY <2>1
<1>3. ASSUME NEW m \in Messages, RemoveQueued(m)
      PROVE  Delivering'
  <2>1. Delete(m) /\ UNCHANGED <<log, retried, claimed, loop, held, phase, dpc>>
    BY <1>3 DEF RemoveQueued, dispatchVars, turnVars, runVars
  <2>. QED  BY <2>1, Deleted, NothingComes DEF WillSend
<1>4. ASSUME NEW m \in Messages, RetryQueued(m)
      PROVE  Delivering'
  <2>1. /\ Mark(m, "queued") /\ Row(m) /\ retried' = [retried EXCEPT ![m] = @ + 1]
        /\ (dpc' = dpc \/ dpc' = "start")
        /\ UNCHANGED <<log, claimed, loop, held, phase>>
    BY <1>4 DEF RetryQueued, Schedule, turnVars, runVars
  <2>2. /\ queue' = queue
        /\ \A n \in Messages : status'[n] = IF n = m THEN "queued" ELSE status[n]
    BY <2>1, MarkFacts DEF RowStatuses, Statuses
  <2>3. Range(queue) \subseteq Messages
    BY ListFacts
  <2>4. Queued' \subseteq Queued \cup {m}
    BY <2>2, <2>3 DEF Queued
  <2>5. Coming' \subseteq Coming
    BY <2>1 DEF Coming, WillSend
  <2>6. retried'[m] # 0 /\ \A n : n # m => retried'[n] = retried[n]
    BY <2>1
  <2>7. \A n : Follows(n, m)' /\ Follows(m, n)'
    BY <2>6 DEF Follows
  <2>8. \A n, o : Follows(n, o) => Follows(n, o)'
    BY <2>6 DEF Follows
  <2>. QED  BY <2>1, <2>4, <2>5, <2>7, <2>8 DEF Delivering
<1>5. CASE UserTurn
  <2>1. UNCHANGED <<queue, status, log, retried, dpc, held, claimed, loop>> /\ dpc # "turn"
    BY <1>5 DEF UserTurn, Reserve, rowVars, dispatchVars, runVars, TaskTypes, TurnTypes
  <2>. QED  BY <2>1, RowsStay DEF WillSend
<1>6. CASE StopRun
  BY <1>6, RowsStay DEF StopRun, dispatchVars, turnVars, WillSend
<1>7. CASE TakeLock
  BY <1>7, RowsStay DEF TakeLock, rowVars, dispatchVars, turnVars, runVars, WillSend
<1>8. CASE Register
  <2>1. loop = "idle"
    BY <1>8 DEF Register, Exclusion
  <2>. QED  BY <1>8, <2>1, RowsStay DEF Register, rowVars, dispatchVars, WillSend
<1>9. CASE AppendMessage
  <2>1. /\ UNCHANGED <<queue, status, retried, dpc, held, loop, claimed>>
        /\ phase = "persisting" /\ phase' = "starting"
    BY <1>9 DEF AppendMessage, dispatchVars, runVars
  <2>2. loop = "idle" /\ claimed = <<>>
    BY <2>1 DEF Exclusion
  <2>3. CASE owner # "dispatcher"
    BY <1>9, <2>1, <2>3, RowsStay DEF AppendMessage, WillSend, TaskTypes, TurnTypes
  <2>4. CASE owner = "dispatcher"
    <3>1. dpc = "turn" /\ WillSend /\ ~WillSend' /\ log' = Append(log, held)
      BY <1>9, <2>1, <2>4 DEF AppendMessage, Deliver, WillSend, TaskTypes, TurnTypes
    <3>2. held \in Coming /\ held \in Messages /\ log \in Seq(Messages)
      BY <3>1, ComingFacts
    <3>3. Range(log') = Range(log) \cup {held}
      BY <3>1, <3>2, AppendFacts
    <3>4. Coming' = {} /\ Queued' = Queued
      BY <2>1, <2>2, <3>1, EmptyFacts DEF Coming, Queued
    <3>5. \A j, k \in DOMAIN log' : j < k => Follows(log'[j], log'[k])
      BY <3>1, <3>2, Appended DEF Delivering
    <3>. QED  BY <2>1, <2>2, <3>2, <3>3, <3>4, <3>5 DEF Delivering, Follows
  <2>. QED  BY <2>3, <2>4
<1>10. CASE StartTurn
  BY <1>10, RowsStay DEF StartTurn, rowVars, dispatchVars, turnVars, runVars, WillSend
<1>11. CASE TurnFails
  <2>1. (claimed' = <<>> /\ loop' = "idle") \/ UNCHANGED <<claimed, loop>>
    BY <1>11 DEF TurnFails, EndRun, runVars
  <2>2. UNCHANGED <<queue, status, log, retried, dpc, held>> /\ phase' = "released"
    BY <1>11 DEF TurnFails, rowVars, dispatchVars
  <2>. QED  BY <2>1, <2>2, RowsStay DEF WillSend
<1>12. CASE AwaitRunner
  BY <1>12, RowsStay DEF AwaitRunner, rowVars, dispatchVars, turnVars, runVars, WillSend
<1>13. CASE ReleaseLock
  BY <1>13, RowsStay DEF ReleaseLock, rowVars, dispatchVars, turnVars, runVars, WillSend
<1>14. CASE EndTurn
  <2>1. UNCHANGED <<queue, status, log, retried, held, claimed, loop>> /\ phase' = "none"
        /\ dpc' \in {dpc, "blocking", "removing"}
    BY <1>14 DEF EndTurn, Settle, rowVars
  <2>. QED  BY <2>1, RowsStay DEF WillSend
<1>15. CASE DispatchStart
  BY <1>15, RowsStay DEF DispatchStart, rowVars, dispatchVars, turnVars, runVars, WillSend
<1>16. CASE DispatchPoll
  <2>1. UNCHANGED <<queue, status, log, retried, claimed, loop>> /\ dpc' \in {"start", "off", "claiming"}
    BY <1>16 DEF DispatchPoll, Return, rowVars, runVars
  <2>. QED  BY <2>1, RowsStay DEF WillSend
<1>17. CASE DispatchClaim
  <2>1. UNCHANGED <<log, retried, loop, claimed, phase>> /\ dpc = "claiming"
    BY <1>17 DEF DispatchClaim, runVars, turnVars
  <2>2. loop = "idle" /\ claimed = <<>>
    BY <2>1 DEF Exclusion
  <2>3. CASE UNCHANGED <<queue, status>> /\ dpc' \in {"start", "off"}
    BY <2>1, <2>3, RowsStay DEF WillSend
  <2>4. ASSUME NEW m \in Messages, Claim(m), held' = m, dpc' = "sending"
        PROVE  Delivering'
    <3>1. m \in Queued /\ Queued' = Queued \ {m} /\ \A n \in Queued' : m < n
      BY <2>4, OldestClaimed
    <3>2. Coming' = {m}
      BY <2>1, <2>2, <2>4, EmptyFacts DEF Coming, WillSend
    <3>. QED  BY <2>1, <3>1, <3>2 DEF Delivering, Follows
  <2>. QED  BY <1>17, <2>3, <2>4 DEF DispatchClaim, Return
<1>18. CASE DispatchSend
  <2>1. UNCHANGED <<queue, status, log, retried, held, claimed, loop>> /\ dpc = "sending"
    BY <1>18 DEF DispatchSend, rowVars, runVars
  <2>. QED  BY <2>1, RowsStay DEF WillSend
<1>19. CASE DispatchDefer
  <2>1. UNCHANGED <<log, retried, claimed, loop>> /\ dpc = "deferring" /\ dpc' \in {"start", "off"}
    BY <1>19 DEF DispatchDefer, Again, Return, runVars
  <2>2. CASE UNCHANGED <<queue, status>>
    BY <2>1, <2>2, RowsStay DEF WillSend
  <2>3. CASE Row(held) /\ Mark(held, "queued")
    <3>1. held \in Coming /\ claimed = <<>> /\ loop = "idle" /\ ~WillSend'
      BY <2>1, ComingFacts DEF WillSend
    <3>2. held \in Messages /\ Range(queue) \subseteq Messages
      BY <3>1, ComingFacts, ListFacts
    <3>3. /\ queue' = queue
          /\ \A n \in Messages : status'[n] = IF n = held THEN "queued" ELSE status[n]
      BY <2>3, <3>2, MarkFacts DEF RowStatuses, Statuses
    <3>4. Queued' \subseteq Queued \cup {held}
      BY <3>2, <3>3 DEF Queued
    <3>5. Coming' = {}
      BY <2>1, <3>1, EmptyFacts DEF Coming
    <3>. QED  BY <2>1, <3>1, <3>4, <3>5 DEF Delivering, Follows
  <2>. QED  BY <1>19, <2>2, <2>3 DEF DispatchDefer, Deferrable
<1>20. CASE DispatchBlock
  <2>1. UNCHANGED <<log, retried, claimed, loop>> /\ dpc' \in {"start", "off"}
    BY <1>20 DEF DispatchBlock, Return, runVars
  <2>2. CASE UNCHANGED <<queue, status>>
    BY <2>1, <2>2, RowsStay DEF WillSend
  <2>3. CASE Row(held) /\ Mark(held, "blocked")
    <3>1. held \in Messages
      BY <1>20, HeldFacts DEF DispatchBlock, Holding
    <3>. QED  BY <2>1, <2>3, <3>1, Blocked, NothingComes DEF WillSend
  <2>. QED  BY <1>20, <2>2, <2>3 DEF DispatchBlock
<1>21. CASE DispatchRemove
  <2>1. UNCHANGED <<log, retried, claimed, loop>> /\ dpc' \in {"start", "off"}
    BY <1>21 DEF DispatchRemove, Again, Return, runVars
  <2>2. CASE UNCHANGED <<queue, status>>
    BY <2>1, <2>2, RowsStay DEF WillSend
  <2>3. CASE Delete(held)
    <3>1. held \in Messages
      BY <1>21, HeldFacts DEF DispatchRemove, Holding
    <3>. QED  BY <2>1, <2>3, <3>1, Deleted, NothingComes DEF WillSend
  <2>. QED  BY <1>21, <2>2, <2>3 DEF DispatchRemove
<1>22. CASE AppendSteering
  BY <1>22, ListFacts DEF AppendSteering, AsAccepted
<1>23. CASE FollowUp
  BY <1>23, RowsStay DEF FollowUp, rowVars, dispatchVars, turnVars, WillSend
<1>24. CASE FollowUpClaim
  <2>1. /\ UNCHANGED <<log, retried, held, phase, dpc>> /\ loop = "claiming"
        /\ loop' \in {"claimed", "finishing", "emitting"}
    BY <1>24 DEF FollowUpClaim, Conclude, dispatchVars, turnVars
  <2>2. CASE UNCHANGED <<queue, status, claimed>>
    BY <2>1, <2>2, RowsStay DEF WillSend
  <2>3. ASSUME NEW m \in Messages, Claim(m), claimed' = Append(claimed, m)
        PROVE  Delivering'
    <3>1. m \in Queued /\ Queued' = Queued \ {m} /\ \A n \in Queued' : m < n
      BY <2>3, OldestClaimed
    <3>2. Coming = Range(claimed) /\ ~WillSend /\ ~WillSend'
      BY <2>1, ComingFacts DEF Coming, WillSend
    <3>3. claimed \in Seq(Messages)
      BY DEF TaskTypes, RunTypes
    <3>4. Coming' = Range(claimed) \cup {m}
      <4>1. Range(claimed') = Range(claimed) \cup {m}
        BY <2>3, <3>3, AppendFacts
      <4>. QED  BY <2>1, <3>2, <4>1 DEF Coming
    <3>5. \A j, k \in DOMAIN claimed' : j < k => Follows(claimed'[j], claimed'[k])
      BY <2>3, <3>1, <3>2, <3>3, Appended DEF Delivering
    <3>. QED  BY <2>1, <3>1, <3>2, <3>4, <3>5 DEF Delivering, Follows
  <2>. QED  BY <1>24, <2>2, <2>3 DEF FollowUpClaim
<1>25. CASE FollowUpDecide
  <2>1. UNCHANGED <<log, retried, held, phase, dpc>> /\ loop = "claimed"
    BY <1>25 DEF FollowUpDecide, dispatchVars, turnVars
  <2>2. CASE loop' \in {"emitting", "claiming"} /\ UNCHANGED <<queue, status, claimed>>
    BY <2>1, <2>2, RowsStay DEF WillSend
  <2>3. CASE EndRun /\ LoseSteering
    BY <2>1, <2>3, Dropped, NothingComes DEF EndRun, WillSend
  <2>4. ASSUME NEW s \in {"queued", "blocked"}, Row(Last(claimed)), Mark(Last(claimed), s),
               claimed' = Front(claimed), loop' # "admitting"
        PROVE  Delivering'
    <3>1. claimed \in Seq(Messages) /\ claimed # <<>>
      BY <2>1 DEF Exclusion, TaskTypes, RunTypes
    <3>2. Coming = Range(claimed) /\ ~WillSend /\ ~WillSend'
      BY <2>1, ComingFacts DEF Coming, WillSend
    <3>3. Last(claimed) \in Messages /\ Range(claimed) = Range(Front(claimed)) \cup {Last(claimed)}
      BY <3>1, FrontFacts
    <3>4. /\ queue' = queue
          /\ \A n \in Messages : status'[n] = IF n = Last(claimed) THEN s ELSE status[n]
      BY <2>4, <3>3, MarkFacts DEF RowStatuses, Statuses
    <3>5. Range(queue) \subseteq Messages
      BY ListFacts
    <3>6. Queued' \subseteq Queued \cup {Last(claimed)}
      BY <3>4, <3>5 DEF Queued
    <3>7. Coming' = Range(Front(claimed))
      BY <2>4, <3>2 DEF Coming
    <3>8. /\ \A j, k \in DOMAIN claimed' : j < k => Follows(claimed'[j], claimed'[k])
          /\ \A c \in Range(Front(claimed)) : Follows(c, Last(claimed))
      BY <2>4, <3>1, Fronted DEF Delivering
    <3>. QED  BY <2>1, <3>2, <3>3, <3>6, <3>7, <3>8 DEF Delivering, Follows
  <2>. QED  BY <1>25, <2>2, <2>3, <2>4 DEF FollowUpDecide, Deferrable, Conclude
<1>26. CASE FollowUpPersist
  <2>1. /\ UNCHANGED <<queue, status, retried, held, phase, dpc, claimed>> /\ loop = "emitting"
        /\ loop' = "admitting" /\ log' = Append(log, Head(claimed))
    BY <1>26 DEF FollowUpPersist, Deliver, dispatchVars, turnVars
  <2>2. claimed \in Seq(Messages) /\ claimed # <<>> /\ log \in Seq(Messages)
    BY <2>1 DEF Exclusion, TaskTypes, RunTypes
  <2>3. Coming = Range(claimed) /\ ~WillSend /\ ~WillSend' /\ Queued' = Queued
    BY <2>1, ComingFacts DEF Coming, WillSend, Queued
  <2>4. Head(claimed) \in Messages /\ Range(claimed) = Range(Tail(claimed)) \cup {Head(claimed)}
    BY <2>2, TailFacts
  <2>5. Coming' = Range(Tail(claimed))
    BY <2>1, <2>3 DEF Coming
  <2>6. Range(log') = Range(log) \cup {Head(claimed)}
    BY <2>1, <2>2, <2>4, AppendFacts
  <2>7. \A j, k \in DOMAIN log' : j < k => Follows(log'[j], log'[k])
    BY <2>1, <2>2, <2>3, <2>4, Appended DEF Delivering
  <2>8. \A c \in Range(Tail(claimed)) : Follows(Head(claimed), c)
    BY <2>2, Tailed DEF Delivering
  <2>. QED  BY <2>1, <2>3, <2>4, <2>5, <2>6, <2>7, <2>8 DEF Delivering, Follows
<1>27. CASE FollowUpAdmit
  <2>1. UNCHANGED <<log, retried, held, phase, dpc>> /\ loop = "admitting"
    BY <1>27 DEF FollowUpAdmit, dispatchVars, turnVars
  <2>2. CASE EndRun /\ LoseSteering
    BY <2>1, <2>2, Dropped, NothingComes DEF EndRun, WillSend
  <2>3. CASE Delete(Head(claimed)) /\ claimed' = Tail(claimed) /\ loop' \in {"idle", "emitting"}
    <3>1. claimed \in Seq(Messages) /\ claimed # <<>>
      BY <2>1 DEF Exclusion, TaskTypes, RunTypes
    <3>2. Coming = Range(Tail(claimed)) /\ ~WillSend /\ ~WillSend'
      BY <2>1, ComingFacts DEF WillSend
    <3>3. Coming' = Coming
      BY <2>3, <3>2 DEF Coming
    <3>4. Queued' \subseteq Queued
      <4>1. Head(claimed) \in Messages
        BY <3>1, TailFacts
      <4>. QED  BY <2>3, <4>1, Deleted
    <3>5. \A j, k \in DOMAIN claimed' : j < k => Follows(claimed'[j], claimed'[k])
      BY <2>3, <3>1, Tailed DEF Delivering
    <3>. QED  BY <2>1, <3>3, <3>4, <3>5 DEF Delivering, Follows
  <2>. QED  BY <1>27, <2>2, <2>3 DEF FollowUpAdmit
<1>28. CASE RunEnds
  <2>1. LoseSteering /\ claimed' = <<>> /\ loop' = "idle" /\ UNCHANGED <<log, retried, held, phase, dpc>>
    BY <1>28 DEF RunEnds, EndRun, dispatchVars, turnVars
  <2>. QED  BY <2>1, Dropped, NothingComes DEF WillSend
<1>29. CASE RunFails
  <2>1. LoseSteering /\ claimed' = <<>> /\ loop' = "idle" /\ UNCHANGED <<log, retried, held, phase, dpc>>
    BY <1>29 DEF RunFails, EndRun, dispatchVars, turnVars
  <2>. QED  BY <2>1, Dropped, NothingComes DEF WillSend
<1>30. CASE RunCancelled
  <2>1. LoseSteering /\ claimed' = <<>> /\ loop' = "idle" /\ UNCHANGED <<log, retried, held, phase, dpc>>
    BY <1>30 DEF RunCancelled, EndRun, dispatchVars, turnVars
  <2>. QED  BY <2>1, Dropped, NothingComes DEF WillSend
<1>31. CASE StopAwaited
  BY <1>31, RowsStay DEF StopAwaited, rowVars, dispatchVars, turnVars, runVars, WillSend
<1>32. CASE StopSaves
  <2>1. saved = <<>>
    BY ListFacts DEF AsAccepted
  <2>. QED  BY <1>32, <2>1, RowsStay DEF StopSaves, dispatchVars, turnVars, runVars, WillSend
<1>33. CASE StopLists
  BY <1>33, RowsStay DEF StopLists, rowVars, dispatchVars, turnVars, runVars, WillSend
<1>34. CASE StopBlocks
  <2>1. UNCHANGED <<log, retried, claimed, loop, held, phase, dpc>>
    BY <1>34 DEF StopBlocks, dispatchVars, turnVars, runVars
  <2>2. CASE UNCHANGED <<queue, status>>
    BY <2>1, <2>2, RowsStay DEF WillSend
  <2>3. CASE Row(Head(listed)) /\ Mark(Head(listed), "blocked") /\ Head(listed) \in Messages
    BY <2>1, <2>3, Blocked, NothingComes DEF WillSend
  <2>. QED  BY <1>34, <2>2, <2>3, ListFacts DEF StopBlocks
<1>35. CASE StopReturns
  BY <1>35, RowsStay DEF StopReturns, rowVars, dispatchVars, turnVars, runVars, WillSend
<1>36. ASSUME NEW x \in orphans, OrphanCommits(x)
      PROVE  Delivering'
  <2>1. UNCHANGED <<log, retried, claimed, loop, held, phase, dpc>>
    BY <1>36 DEF OrphanCommits, dispatchVars, turnVars
  <2>2. CASE UNCHANGED <<queue, status>>
    BY <2>1, <2>2, RowsStay DEF WillSend
  <2>3. CASE \E m \in Messages : Claim(m)
    <3>1. Queued' \subseteq Queued
      BY <2>3, OldestClaimed
    <3>. QED  BY <2>1, <3>1, NothingComes DEF WillSend
  <2>4. CASE x \in Messages /\ Delete(x)
    BY <2>1, <2>4, Deleted, NothingComes DEF WillSend
  <2>. QED  BY <1>36, <2>2, <2>3, <2>4 DEF OrphanCommits, TaskTypes, RunTypes
<1>37. CASE Restart
  <2>1. /\ queue' = queue /\ claimed' = <<>> /\ loop' = "idle" /\ dpc' = "start"
        /\ UNCHANGED <<log, retried>> /\ \A n \in Messages : status'[n] = Recovered(n)
    BY <1>37 DEF Restart, Again
  <2>2. Range(queue) \subseteq Messages
    BY ListFacts
  <2>3. Queued' \subseteq Queued
    BY <2>1, <2>2 DEF Queued, Recovered
  <2>. QED  BY <2>1, <2>3, NothingComes DEF WillSend
<1>38. CASE DrainSteering
  BY <1>38, RowsStay DEF DrainSteering, rowVars, dispatchVars, turnVars, WillSend
<1>. QED  BY <1>1, <1>2, <1>3, <1>4, <1>5, <1>6, <1>7, <1>8, <1>9, <1>10, <1>11, <1>12,
             <1>13, <1>14, <1>15, <1>16, <1>17, <1>18, <1>19, <1>20, <1>21, <1>22, <1>23,
             <1>24, <1>25, <1>26, <1>27, <1>28, <1>29, <1>30, <1>31, <1>32, <1>33, <1>34,
             <1>35, <1>36, <1>37, <1>38 DEF Next

LEMMA OrderedStep ==
    ASSUME Tasks, Ordered, Next
    PROVE  Ordered'
<1>1. Known'
  BY KnownStep DEF Ordered
<1>. SUFFICES ASSUME used'.steers = 0
              PROVE  AsAccepted' /\ Delivering'
  BY <1>1 DEF Ordered
<1>2. used.steers = 0
  BY UsedGrows, Bounds
<1>3. Known /\ AsAccepted /\ Delivering
  BY <1>2 DEF Ordered
<1>. QED  BY <1>3, AsAcceptedStep, DeliveringStep

-----------------------------------------------------------------------------
(* The theorems                                                             *)

LEMMA InductiveInit ==
    ASSUME Init
    PROVE  Inductive
<1>1. Tasks
  BY TasksInit
<1>2. Kept
  BY DEF Init, Kept
<1>3. RightsHold
  <2>. SUFFICES ASSUME NEW n \in Messages
                PROVE  Rights(n)
    BY DEF RightsHold
  <2>1. log = <<>> /\ claimed = <<>> /\ retried[n] = 0 /\ loop = "idle" /\ dpc = "off" /\ status[n] = "new"
    BY DEF Init
  <2>2. Deliveries(n) = 0 /\ Count(claimed, n) = 0
    BY <1>1, <2>1, CountFacts
  <2>3. InHand(n) = 0 /\ AtRow(n) = 1 /\ Admission(n) = 0
    BY <2>1 DEF InHand, Sending, WillSend, AtRow, Fresh, Admission, Admitting
  <2>. QED  BY <2>1, <2>2, <2>3 DEF Rights
<1>4. Barred
  BY EmptyFacts DEF Init, Barred, Pausing, SetAside
<1>5. Ordered
  <2>1. Queued = {} /\ Coming = {} /\ Range(log) = {} /\ Range(claimed) = {}
    BY EmptyFacts DEF Init, Queued, Coming, WillSend
  <2>2. Known
    BY <2>1 DEF Init, Known
  <2>3. AsAccepted
    BY DEF Init, AsAccepted
  <2>4. Delivering
    BY <2>1 DEF Init, Delivering
  <2>. QED  BY <2>2, <2>3, <2>4 DEF Ordered
<1>6. Owned
  <2>1. Queued = {} /\ Range(claimed) = {}
    BY EmptyFacts DEF Init, Queued
  <2>2. \A m \in Messages : m # 0
    BY MessageFacts
  <2>. QED  BY <2>1, <2>2, EmptyFacts DEF Init, Owned, InHands, Holding
<1>. QED  BY <1>1, <1>2, <1>3, <1>4, <1>5, <1>6 DEF Inductive

LEMMA InductiveUnchanged ==
    ASSUME Inductive, UNCHANGED vars
    PROVE  Inductive'
<1>. USE DEF vars, rowVars, dispatchVars, turnVars, runVars, stopVars
<1>1. Tasks'
  BY TasksUnchanged DEF Inductive
<1>2. Kept'
  BY DEF Inductive, Kept
<1>3. RightsHold'
  BY DEF Inductive, RightsHold, Rights, Deliveries, Count, InHand, Sending, WillSend, AtRow,
     Fresh,
     Admission, Admitting
<1>4. Barred'
  BY DEF Inductive, Barred, Pausing, SetAside, Paused, Unsent, WillSend
<1>5. Ordered'
  BY DEF Inductive, Ordered, Known, AsAccepted, Delivering, Queued, Coming, WillSend, Follows
<1>6. Owned'
  BY DEF Inductive, Owned, Undisturbed, InHands, Queued
<1>. QED  BY <1>1, <1>2, <1>3, <1>4, <1>5, <1>6 DEF Inductive

LEMMA InductiveStep ==
    ASSUME Inductive, [Next]_vars
    PROVE  Inductive'
<1>1. CASE UNCHANGED vars
  BY <1>1, InductiveUnchanged
<1>2. CASE Next
  BY <1>2, TasksStep, KeptStep, RightsStep, BarredStep, OrderedStep, OwnedStep DEF Inductive
<1>. QED  BY <1>1, <1>2

\* Wherever turns, dispatcher, loop, stops, orphaned writes and restarts meet, each
\* message is where the next of them needs it, and no two of them hold it.
THEOREM QueueInvariant == Spec => []Inductive
<1>1. Init => Inductive
  BY InductiveInit
<1>2. Inductive /\ [Next]_vars => Inductive'
  BY InductiveStep
<1>. QED  BY <1>1, <1>2, PTL DEF Spec

\* The rows, the dispatcher, the turn, the run and cancel_run have their types: a
\* row exists exactly for what is queued, dispatching or blocked.
THEOREM QueueTypesHold == Spec => []TypeOK
<1>1. Inductive => TypeOK
  <2>. SUFFICES ASSUME Inductive
                PROVE  TypeOK
    OBVIOUS
  <2>. USE DEF Inductive, Tasks, RowTypes, TaskTypes
  <2>1. \A s \in {log, steering, drained, claimed, saved, listed, queue} : Range(s) \subseteq Messages
    BY ListFacts
  <2>2. /\ IsInjective(queue) /\ status \in [Messages -> Statuses]
        /\ \A m \in Messages : Row(m) <=> status[m] \in {"queued", "dispatching", "blocked"}
    BY DEF QueueTypes, RowStatuses
  <2>3. /\ held \in Messages \cup {0}
        /\ held = 0 <=> dpc \in {"off", "start", "polling", "claiming"}
    BY DEF DispatchTypes, Waiting
  <2>4. /\ owner \in {"none", "user", "dispatcher"} /\ (owner = "none" <=> phase = "none")
        /\ runner \in {"none", "active", "done"} /\ orphans \subseteq Messages \cup {0}
    BY DEF TurnTypes, RunTypes
  <2>. QED  BY <2>1, <2>2, <2>3, <2>4 DEF TypeOK
<1>. QED  BY <1>1, QueueInvariant, PTL

\* No claim, deferral, stop, orphaned write or restart loses a message of the queue:
\* one that is gone was delivered to the conversation, or the user removed it.  And
\* steering that cancel_run took back from its run becomes a row.  (Steering that was
\* not taken back, drained or accepted too late, may be dropped: nothing is claimed
\* of it.)
THEOREM NoMessageIsLost == Spec => []NothingLost
<1>1. Inductive => NothingLost
  BY DEF Inductive, Kept, Tasks, Retaken, NothingLost
<1>. QED  BY <1>1, QueueInvariant, PTL

\* Dispatcher, native loop, a cancelled run's thread and the restarted daemon
\* deliver a message once between them, and once more for each retry.
THEOREM NoMessageIsRepeated == Spec => []DeliveredOncePerConfirmation
<1>1. Inductive => DeliveredOncePerConfirmation
  <2>. SUFFICES ASSUME Inductive, NEW m \in Messages
                PROVE  Deliveries(m) <= 1 + retried[m]
    BY DEF DeliveredOncePerConfirmation
  <2>1. Tasks /\ Rights(m)
    BY DEF Inductive, RightsHold
  <2>2. Admission(m) <= Count(claimed, m)
    BY <2>1, AdmittingIsClaimed
  <2>3. /\ Deliveries(m) \in Nat /\ Count(claimed, m) \in Nat /\ retried[m] \in Nat
        /\ InHand(m) \in Nat /\ AtRow(m) \in Nat /\ Admission(m) \in Nat
    BY <2>1, CountFacts, OneType
  <2>4. Deliveries(m) + Count(claimed, m) + InHand(m) + AtRow(m) <= 1 + retried[m] + Admission(m)
    BY <2>1 DEF Rights
  <2>. QED  BY <2>2, <2>3, <2>4
<1>. QED  BY <1>1, QueueInvariant, PTL

\* What cancel_run found pending is not sent, before or after it returns, until the
\* user retries it, unless blocking a row raised or the daemon restarted.
THEOREM StopsKeepMessages == Spec => []StopKeepsMessagesUnlessItRaises
<1>1. Inductive => StopKeepsMessagesUnlessItRaises
  BY DEF Inductive, Barred, SetAside, StopKeepsMessagesUnlessItRaises, StopKeepsMessages
<1>. QED  BY <1>1, QueueInvariant, PTL

\* The conversation receives messages in the order they were accepted, whoever
\* claims, defers and blocks them, but for retries and where steering was used.
THEOREM MessagesKeepTheirOrder == Spec => []DeliveredInOrder
<1>1. Inductive => DeliveredInOrder
  BY DEF Inductive, Ordered, Delivering, Follows, DeliveredInOrder
<1>. QED  BY <1>1, QueueInvariant, PTL

\* Until something fails or is stopped, a row marked dispatching is held by the
\* dispatcher or claimed by the loop, and so will be settled.
THEOREM DispatchingIsSettled == Spec => []DispatchingIsOwnedUndisturbed
<1>1. Inductive => DispatchingIsOwnedUndisturbed
  BY DEF Inductive, Owned, InHands, DispatchingIsOwnedUndisturbed, DispatchingIsOwned
<1>. QED  BY <1>1, QueueInvariant, PTL

\* Until something fails or is stopped, the dispatcher does not return while a
\* message waits: no wakeup is lost between its last look and its return.
THEOREM NothingIsStranded == Spec => []NothingStrandedUndisturbed
<1>1. Inductive => NothingStrandedUndisturbed
  BY DEF Inductive, Owned, InHands, NothingStrandedUndisturbed, NothingStranded
<1>. QED  BY <1>1, QueueInvariant, PTL
=============================================================================
