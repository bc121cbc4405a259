------------------------- MODULE EventReplayProofs --------------------------
(***************************************************************************)
(* Proofs about EventReplay, for any set of writers, any page size and any *)
(* bounds: the types, what the cursor and the handover promise, and the    *)
(* refinement of OrderedDelivery.                                          *)
(*                                                                         *)
(* The argument follows one event m that the client is to be given before  *)
(* another.  It is behind the client or in its hands (Covered), or ahead   *)
(* on the wire (Sent), or a subscription that is still replaying will put  *)
(* it there before its reply (Pledged).  A reply is sent when the pledge   *)
(* is kept, so it is followed by a stream without gaps.                    *)
(***************************************************************************)
EXTENDS EventReplay, SequenceTheorems, FiniteSetTheorems, TLAPS

Message == [kind : {"event", "reply"}, seq : Seqs \cup {0}]
IsEvent(i, m) == wire[i].kind = "event" /\ wire[i].seq = m
IsReply(i) == wire[i].kind = "reply"
NoReply == \A i \in DOMAIN wire : ~IsReply(i)

\* TypeOK, with the wire a sequence, and every seq that is held somewhere durable.
Types ==
    /\ committed \in Nat /\ orphans \in Nat /\ cancels \in 0 .. MaxCancels
    /\ orphans <= cancels
    /\ committed + orphans <= MaxSeq
    /\ wpc \in [Writers -> {"idle", "writing", "publishing"}]
    /\ unsent \in [Writers -> 0 .. committed]
    /\ sub \in {"none", "replaying", "live"}
    /\ handler \in {"none", "registered", "replaying", "replying"}
    /\ conn \in {"down", "up", "closing"}
    /\ mode \in {"off", "activating", "draining", "live", "fenced"}
    /\ pending \cup buffer \cup batch \cup unpublished \subseteq 1 .. committed
    /\ {cursor, target, high, replayed} \subseteq 0 .. committed
    /\ wire \in Seq(Message)
    /\ \A i \in DOMAIN wire : wire[i].seq <= committed
    /\ \A i \in DOMAIN wire : wire[i].kind = "event" => wire[i].seq > 0
    /\ delivered \in Seq(Nat)

\* The lock: one writer at a time, and room for what it writes.
Lock ==
    /\ \A w \in Writers : wpc[w] = "writing" => committed + orphans < MaxSeq
    /\ \A v, w \in Writers : wpc[v] # "idle" /\ wpc[w] # "idle" => v = w
    /\ \A w \in Writers : unsent[w] # 0 <=> wpc[w] = "publishing"
    /\ \A w \in Writers : unsent[w] # 0 => \A m \in pending : m < unsent[w]

\* Which states of the connection, the client, the subscription and its handler
\* go together.
Phases ==
    /\ mode = "off" <=> conn = "down"
    /\ conn = "down" => wire = <<>>
    /\ sub # "none" => conn = "up" /\ mode \in {"activating", "draining", "live"}
    /\ handler # "none" => sub # "none" /\ mode \in {"activating", "live"}
    /\ sub = "replaying" <=> handler \in {"registered", "replaying"}
    /\ handler = "replying" => sub = "live"
    /\ sub # "replaying" => pending = {}
    /\ buffer # {} => mode \in {"activating", "draining"}
    /\ batch # {} => mode = "draining"

\* A request has one reply, and the client awaits it.
OneReply ==
    /\ handler # "none" => NoReply
    /\ mode \in {"draining", "fenced"} => NoReply
    /\ \A i, j \in DOMAIN wire : IsReply(i) /\ IsReply(j) => i = j

\* Where an event is.
Covered(m) == m <= cursor \/ m \in unpublished \cup buffer \cup batch
Sent(m, i) == \E j \in DOMAIN wire : j < i /\ IsEvent(j, m)
Arrives(m) == \E j \in DOMAIN wire : IsEvent(j, m)
Pledged(m) ==
    /\ mode = "activating"
    /\ \/ handler = "registered"
       \/ handler = "replaying" /\ m <= high
       \/ handler = "replying" /\ m <= replayed
       \/ handler = "none" /\ \A i \in DOMAIN wire : IsReply(i) => m <= wire[i].seq

\* What the client receives and holds has no gap that nothing will fill.
WireOrder ==
    mode # "fenced" =>
        \A i \in DOMAIN wire : wire[i].kind = "event" =>
            \A m \in Seqs : m < wire[i].seq => Covered(m) \/ Sent(m, i) \/ Pledged(m)
BufferOrder == \A n \in buffer : \A m \in Seqs : m < n => Covered(m) \/ Pledged(m)
BatchOrder ==
    \A n \in batch : \A m \in Seqs : m < n => m <= cursor \/ m \in unpublished \cup batch
ReplyOrder ==
    mode = "activating" =>
        \A i \in DOMAIN wire : IsReply(i) =>
            \A m \in Seqs : m <= wire[i].seq => Covered(m) \/ Sent(m, i)
TargetOrder == mode = "draining" => \A m \in Seqs : m <= target => Covered(m)

\* What the server has sent, and what it holds back.
Replayed ==
    handler # "none" => \A m \in Seqs : m <= replayed => Covered(m) \/ Arrives(m)
HeldBack ==
    handler = "replaying" =>
        \A m \in Seqs : high < m /\ m <= committed =>
            m \in pending \cup unpublished \/ \E w \in Writers : unsent[w] = m
LiveComplete ==
    sub = "live" =>
        \A m \in Seqs : m <= committed =>
            Covered(m) \/ Arrives(m) \/ \E w \in Writers : unsent[w] = m

\* What the client was given.
LastGiven == IF delivered = <<>> THEN 0 ELSE delivered[Len(delivered)]
Given ==
    /\ LastGiven <= cursor
    /\ \A m \in Seqs : LastGiven < m /\ m <= cursor => m \in unpublished
    /\ \A m \in Seqs : m <= cursor => m \in unpublished \/ \E i \in DOMAIN delivered : delivered[i] = m

-----------------------------------------------------------------------------
(* Lemmas about the operators *)

LEMMA Bounds ==
    /\ MaxSeq \in Nat /\ MaxCancels \in Nat
    /\ BatchSize \in Nat \ {0}
  BY ReplayAssumption

LEMMA MaxOfTwo ==
    ASSUME NEW a \in Int, NEW b \in Int
    PROVE  Max({a, b}) = IF a >= b THEN a ELSE b
<1>1. PICK x \in {a, b} : \A y \in {a, b} : x >= y
  OBVIOUS
<1>2. Max({a, b}) \in {a, b} /\ \A y \in {a, b} : Max({a, b}) >= y
  BY <1>1 DEF Max
<1>. QED  BY <1>2

LEMMA MinOfTwo ==
    ASSUME NEW a \in Int, NEW b \in Int
    PROVE  Min({a, b}) = IF a <= b THEN a ELSE b
<1>1. PICK x \in {a, b} : \A y \in {a, b} : x <= y
  OBVIOUS
<1>2. Min({a, b}) \in {a, b} /\ \A y \in {a, b} : Min({a, b}) <= y
  BY <1>1 DEF Min
<1>. QED  BY <1>2

\* A page is the next seqs in order, at least one and none above the high water.
LEMMA PageIsNext ==
    ASSUME replayed \in Nat, high \in Nat, replayed < high
    PROVE  \E n \in Nat \ {0} :
             /\ Page = [i \in 1 .. n |-> replayed + i]
             /\ replayed + n <= high
             /\ Last(Page) = replayed + n
<1>. DEFINE n == Min({BatchSize, high - replayed})
<1>1. n \in Nat \ {0} /\ n <= high - replayed
  BY Bounds, MinOfTwo
<1>. HIDE DEF n
<1>2. Page = [i \in 1 .. n |-> replayed + i]
  BY DEF Page, n
<1>3. [i \in 1 .. n |-> replayed + i] \in [1 .. n -> Nat]
  BY <1>1
<1>4. Page \in Seq(Nat)
  BY <1>1, <1>2, <1>3, SeqDef
<1>5. Len(Page) = n
  BY <1>1, <1>2, <1>4, LenProperties
<1>6. Last(Page) = replayed + n
  BY <1>1, <1>2, <1>5 DEF Last
<1>. QED  BY <1>1, <1>2, <1>6

\* The wire followed by the events ns[1], ..., ns[n].
Pushes(ns, n) ==
    /\ wire' \in Seq(Message)
    /\ \A i \in DOMAIN wire : i \in Nat /\ i <= Len(wire)
    /\ \A i \in DOMAIN wire : i \in DOMAIN wire' /\ wire'[i] = wire[i]
    /\ \A i \in DOMAIN wire' :
         \/ i \in DOMAIN wire
         \/ \E k \in 1 .. n :
              i = Len(wire) + k /\ wire'[i].kind = "event" /\ wire'[i].seq = ns[k]
    /\ \A k \in 1 .. n :
         /\ Len(wire) + k \in DOMAIN wire'
         /\ wire'[Len(wire) + k].kind = "event" /\ wire'[Len(wire) + k].seq = ns[k]

LEMMA EventIsMessage ==
    ASSUME NEW n \in Seqs
    PROVE  Event(n) \in Message /\ Event(n).kind = "event" /\ Event(n).seq = n
  BY DEF Event, Message

LEMMA PushEvents ==
    ASSUME wire \in Seq(Message), NEW n \in Nat, NEW ns,
           \A k \in 1 .. n : ns[k] \in Seqs,
           wire' = wire \o [i \in 1 .. n |-> Event(ns[i])]
    PROVE  Pushes(ns, n)
<1>. DEFINE e == [i \in 1 .. n |-> Event(ns[i])]
<1>1. e \in [1 .. n -> Message]
  BY EventIsMessage
<1>2. e \in Seq(Message)
  BY <1>1, SeqDef
<1>3. Len(e) = n
  BY <1>1, <1>2, LenProperties
<1>4. \A k \in 1 .. n : e[k] = Event(ns[k])
  OBVIOUS
<1>5. \A k \in 1 .. n : e[k].kind = "event" /\ e[k].seq = ns[k]
  BY <1>4, EventIsMessage
<1>6. wire' = wire \o e
  OBVIOUS
<1>. HIDE DEF e
<1>7. /\ wire' \in Seq(Message)
      /\ Len(wire') = Len(wire) + n
      /\ \A i \in 1 .. Len(wire) + n :
           wire'[i] = IF i <= Len(wire) THEN wire[i] ELSE e[i - Len(wire)]
  <2>1. /\ wire \o e \in Seq(Message)
        /\ Len(wire \o e) = Len(wire) + Len(e)
        /\ \A i \in 1 .. Len(wire) + Len(e) :
             (wire \o e)[i] = IF i <= Len(wire) THEN wire[i] ELSE e[i - Len(wire)]
    BY <1>2, ConcatProperties
  <2>. QED  BY <1>3, <1>6, <2>1
<1>8. /\ Len(wire) \in Nat
      /\ DOMAIN wire = 1 .. Len(wire)
      /\ DOMAIN wire' = 1 .. (Len(wire) + n)
  BY <1>7, LenProperties
<1>9. \A i \in DOMAIN wire : i \in DOMAIN wire' /\ wire'[i] = wire[i]
  BY <1>7, <1>8
<1>10. \A k \in 1 .. n : Len(wire) + k \in DOMAIN wire' /\ wire'[Len(wire) + k] = e[k]
  <2>1. ASSUME NEW k \in 1 .. n
        PROVE  Len(wire) + k \in DOMAIN wire' /\ wire'[Len(wire) + k] = e[k]
    <3>1. Len(wire) + k \in 1 .. Len(wire) + n /\ ~(Len(wire) + k <= Len(wire))
      BY <1>8
    <3>2. (Len(wire) + k) - Len(wire) = k
      BY <1>8
    <3>. QED  BY <1>7, <1>8, <3>1, <3>2
  <2>. QED  BY <2>1
<1>11. \A i \in DOMAIN wire' :
         i \in DOMAIN wire \/ \E k \in 1 .. n : i = Len(wire) + k
  <2>1. ASSUME NEW i \in DOMAIN wire', i \notin DOMAIN wire
        PROVE  i - Len(wire) \in 1 .. n /\ i = Len(wire) + (i - Len(wire))
    BY <1>8, <2>1
  <2>. QED  BY <2>1
<1>12. \A i \in DOMAIN wire : i \in Nat /\ i <= Len(wire)
  BY <1>8
<1>13. \A k \in 1 .. n :
         /\ Len(wire) + k \in DOMAIN wire'
         /\ wire'[Len(wire) + k].kind = "event" /\ wire'[Len(wire) + k].seq = ns[k]
  BY <1>5, <1>10
<1>14. \A i \in DOMAIN wire' :
         \/ i \in DOMAIN wire
         \/ \E k \in 1 .. n :
              i = Len(wire) + k /\ wire'[i].kind = "event" /\ wire'[i].seq = ns[k]
  <2>1. SUFFICES ASSUME NEW i \in DOMAIN wire', i \notin DOMAIN wire
                 PROVE  \E k \in 1 .. n :
                          i = Len(wire) + k /\ wire'[i].kind = "event" /\ wire'[i].seq = ns[k]
    OBVIOUS
  <2>2. PICK k \in 1 .. n : i = Len(wire) + k
    BY <1>11, <2>1
  <2>. QED  BY <1>13, <2>2
<1>. QED  BY <1>7, <1>9, <1>12, <1>13, <1>14 DEF Pushes

\* A wire that stays as it is.
LEMMA PushNothing ==
    ASSUME wire \in Seq(Message), wire' = wire, NEW ns
    PROVE  Pushes(ns, 0)
  BY LenProperties DEF Pushes

LEMMA SentInFullPushes ==
    ASSUME wire \in Seq(Message), NEW n \in Nat, NEW ns, DOMAIN ns = 1 .. n,
           \A k \in 1 .. n : ns[k] \in Seqs,
           SentInFull(ns)
    PROVE  Pushes(ns, n) /\ conn' = conn
  BY PushEvents DEF SentInFull

LEMMA SentUntilFullPushes ==
    ASSUME wire \in Seq(Message), NEW n \in Nat, NEW ns, DOMAIN ns = 1 .. n,
           \A k \in 1 .. n : ns[k] \in Seqs,
           SentUntilFull(ns)
    PROVE  conn' = "closing" /\ \E l \in 1 .. n : Pushes(ns, l)
<1>1. PICK l \in 1 .. n : wire' = wire \o [i \in 1 .. l |-> Event(ns[i])]
  BY DEF SentUntilFull
<1>2. Pushes(ns, l)
  <2>1. l \in Nat /\ \A k \in 1 .. l : ns[k] \in Seqs
    OBVIOUS
  <2>. QED  BY <1>1, <2>1, PushEvents
<1>. QED  BY <1>2 DEF SentUntilFull

\* The first message is taken off the wire.
Pops ==
    /\ wire' \in Seq(Message)
    /\ 1 \in DOMAIN wire /\ Head(wire) = wire[1]
    /\ \A i \in DOMAIN wire : i \in Nat \ {0}
    /\ \A i \in DOMAIN wire : i # 1 => i - 1 \in DOMAIN wire' /\ wire'[i - 1] = wire[i]
    /\ \A i \in DOMAIN wire' : i \in Nat \ {0} /\ i + 1 \in DOMAIN wire /\ wire'[i] = wire[i + 1]

LEMMA TailPops ==
    ASSUME wire \in Seq(Message), wire # <<>>, wire' = Tail(wire)
    PROVE  Pops
<1>1. /\ wire' \in Seq(Message)
      /\ Len(wire') = Len(wire) - 1
      /\ \A i \in 1 .. Len(wire') : wire'[i] = wire[i + 1]
  BY HeadTailProperties
<1>2. /\ Len(wire) \in Nat \ {0}
      /\ DOMAIN wire = 1 .. Len(wire)
      /\ DOMAIN wire' = 1 .. Len(wire')
  BY <1>1, LenProperties, EmptySeq
<1>3. Head(wire) = wire[1]
  BY <1>2
<1>4. ASSUME NEW i \in DOMAIN wire, i # 1
      PROVE  i - 1 \in DOMAIN wire' /\ wire'[i - 1] = wire[i]
  <2>1. i - 1 \in 1 .. Len(wire') /\ (i - 1) + 1 = i
    BY <1>1, <1>2, <1>4
  <2>. QED  BY <1>1, <1>2, <2>1
<1>. QED  BY <1>1, <1>2, <1>3, <1>4 DEF Pops

\* An enumeration of finitely many numbers in ascending order.
LEMMA SortedEnumerates ==
    ASSUME NEW s, IsFiniteSet(s), NEW q \in Sorted(s)
    PROVE  \E n \in Nat :
             /\ DOMAIN q = 1 .. n /\ q \in Seq(s) /\ Len(q) = n
             /\ \A k \in 1 .. n : q[k] \in s
             /\ \A m \in s : \E k \in 1 .. n : q[k] = m
             /\ \A i, j \in 1 .. n : i < j => q[i] < q[j]
<1>. DEFINE n == Cardinality(s)
<1>1. n \in Nat
  BY FS_CardinalityType
<1>. HIDE DEF n
<1>2. /\ q \in [1 .. n -> s]
      /\ Range(q) = s
      /\ \A i, j \in 1 .. n : i < j => q[i] < q[j]
  BY DEF Sorted, n
<1>3. q \in Seq(s)
  BY <1>1, <1>2, SeqDef
<1>4. Len(q) = n
  BY <1>1, <1>2, <1>3, LenProperties
<1>5. \A m \in s : \E k \in 1 .. n : q[k] = m
  BY <1>2 DEF Range
<1>. QED  BY <1>1, <1>2, <1>3, <1>4, <1>5

-----------------------------------------------------------------------------
(* What the steps that send do *)

LEMMA PublishSends ==
    ASSUME Types, Lock, NEW w \in Writers, Publish(w)
    PROVE  /\ unsent[w] \in 1 .. committed
           /\ \/ sub = "none" /\ Pushes(<<unsent[w]>>, 0) /\ UNCHANGED <<serverVars, conn, wire>>
              \/ /\ sub = "replaying" /\ Pushes(<<unsent[w]>>, 0)
                 /\ pending' = pending \cup {unsent[w]}
                 /\ UNCHANGED <<sub, handler, high, replayed, conn, wire>>
              \/ /\ sub = "live" /\ Pushes(<<unsent[w]>>, 1)
                 /\ UNCHANGED <<serverVars, conn>>
              \/ /\ sub = "live" /\ Pushes(<<unsent[w]>>, 1)
                 /\ conn' = "closing" /\ DropSubscription /\ UNCHANGED <<high, replayed>>
<1>. DEFINE u == unsent[w]
<1>1. u \in 1 .. committed /\ u \in Seqs
  BY Bounds DEF Types, Lock, Publish, Seqs
<1>2. wire \in Seq(Message)
  BY DEF Types
<1>3. DOMAIN <<u>> = 1 .. 1 /\ \A k \in 1 .. 1 : <<u>>[k] \in Seqs
  BY <1>1
<1>4. wire' = wire => Pushes(<<u>>, 0)
  BY <1>2, PushNothing
<1>5. SentInFull(<<u>>) => Pushes(<<u>>, 1) /\ conn' = conn
  BY <1>2, <1>3, SentInFullPushes
<1>6. SentUntilFull(<<u>>) => Pushes(<<u>>, 1) /\ conn' = "closing"
  <2>1. SUFFICES ASSUME SentUntilFull(<<u>>)
                 PROVE  Pushes(<<u>>, 1) /\ conn' = "closing"
    OBVIOUS
  <2>2. conn' = "closing" /\ \E l \in 1 .. 1 : Pushes(<<u>>, l)
    BY <1>2, <1>3, <2>1, SentUntilFullPushes
  <2>. QED  BY <2>2
<1>. HIDE DEF u
<1>7. \/ sub = "none" /\ UNCHANGED <<serverVars, conn, wire>>
      \/ /\ sub = "replaying" /\ pending' = pending \cup {u}
         /\ UNCHANGED <<sub, handler, high, replayed, conn, wire>>
      \/ sub = "live" /\ SentInFull(<<u>>) /\ UNCHANGED serverVars
      \/ /\ sub = "live" /\ SentUntilFull(<<u>>)
         /\ DropSubscription /\ UNCHANGED <<high, replayed>>
  BY DEF Publish, u, serverVars, linkVars
<1>8. /\ u \in 1 .. committed
      /\ \/ sub = "none" /\ Pushes(<<u>>, 0) /\ UNCHANGED <<serverVars, conn, wire>>
         \/ /\ sub = "replaying" /\ Pushes(<<u>>, 0) /\ pending' = pending \cup {u}
            /\ UNCHANGED <<sub, handler, high, replayed, conn, wire>>
         \/ sub = "live" /\ Pushes(<<u>>, 1) /\ UNCHANGED <<serverVars, conn>>
         \/ /\ sub = "live" /\ Pushes(<<u>>, 1)
            /\ conn' = "closing" /\ DropSubscription /\ UNCHANGED <<high, replayed>>
  BY <1>1, <1>4, <1>5, <1>6, <1>7
<1>. QED  BY <1>8 DEF u

LEMMA ReplayBatchSends ==
    ASSUME Types, ReplayBatch
    PROVE  \E n \in Nat \ {0} :
             /\ replayed + n <= high
             /\ \A k \in 1 .. n : Page[k] = replayed + k
             /\ Pushes(Page, n)
             /\ \/ /\ replayed' = replayed + n
                   /\ UNCHANGED <<sub, pending, handler, conn>>
                \/ conn' = "closing" /\ DropSubscription /\ UNCHANGED replayed
<1>1. /\ replayed \in Nat /\ high \in Nat /\ replayed < high
      /\ committed \in Nat /\ high <= committed /\ committed <= MaxSeq
      /\ wire \in Seq(Message)
  BY Bounds DEF Types, ReplayBatch
<1>2. PICK n \in Nat \ {0} :
        /\ Page = [i \in 1 .. n |-> replayed + i]
        /\ replayed + n <= high
        /\ Last(Page) = replayed + n
  BY <1>1, PageIsNext
<1>3. DOMAIN Page = 1 .. n /\ \A k \in 1 .. n : Page[k] = replayed + k /\ Page[k] \in Seqs
  BY <1>1, <1>2, Bounds DEF Seqs
<1>4. CASE SentInFull(Page) /\ replayed' = Last(Page) /\ UNCHANGED <<sub, pending, handler>>
  <2>1. Pushes(Page, n) /\ conn' = conn
    BY <1>1, <1>3, <1>4, SentInFullPushes
  <2>. QED  BY <1>2, <1>3, <1>4, <2>1
<1>5. CASE SentUntilFull(Page) /\ DropSubscription /\ UNCHANGED replayed
  <2>1. conn' = "closing" /\ \E l \in 1 .. n : Pushes(Page, l)
    BY <1>1, <1>3, <1>5, SentUntilFullPushes
  <2>2. PICK l \in 1 .. n : Pushes(Page, l)
    BY <2>1
  <2>3. /\ l \in Nat \ {0} /\ replayed + l <= high
        /\ \A k \in 1 .. l : Page[k] = replayed + k
    BY <1>1, <1>2, <1>3
  <2>. QED  BY <1>5, <2>1, <2>2, <2>3
<1>. QED  BY <1>4, <1>5 DEF ReplayBatch

\* The held back events that finish_runtime_replay sends, up to the n-th.
HeldBackEvents(ns, n) ==
    /\ \A k \in 1 .. n : ns[k] \in pending /\ ns[k] > replayed
    /\ \A k \in 1 .. n : \A m \in pending :
         replayed < m /\ m < ns[k] => \E j \in 1 .. n : j < k /\ ns[j] = m

LEMMA FinishReplaySends ==
    ASSUME Types, FinishReplay
    PROVE  \E ns, n :
             /\ n \in Nat
             /\ HeldBackEvents(ns, n)
             /\ Pushes(ns, n)
             /\ \/ /\ sub' = "live" /\ pending' = {} /\ handler' = "replying"
                   /\ replayed <= replayed'
                   /\ replayed' = replayed \/ \E k \in 1 .. n : replayed' = ns[k]
                   /\ \A m \in pending : m > replayed =>
                        m <= replayed' /\ \E k \in 1 .. n : ns[k] = m
                   /\ UNCHANGED conn
                \/ conn' = "closing" /\ DropSubscription /\ UNCHANGED replayed
<1>. DEFINE s == {m \in pending : m > replayed}
<1>1. /\ replayed \in Nat /\ committed \in Nat /\ committed <= MaxSeq
      /\ pending \subseteq 1 .. committed
      /\ wire \in Seq(Message)
  BY Bounds DEF Types
<1>2. s \subseteq Seqs /\ IsFiniteSet(s)
  <2>1. s \in SUBSET (1 .. committed)
    BY <1>1
  <2>2. IsFiniteSet(1 .. committed)
    BY <1>1, FS_Interval
  <2>3. IsFiniteSet(s)
    BY <2>1, <2>2, FS_Subset
  <2>4. 1 .. committed \subseteq Seqs
    BY <1>1, Bounds DEF Seqs
  <2>. QED  BY <2>1, <2>3, <2>4
<1>3. PICK ns \in Sorted(s) :
        \/ /\ SentInFull(ns)
           /\ sub' = "live"
           /\ pending' = {}
           /\ handler' = "replying"
           /\ replayed' = IF ns = <<>> THEN replayed ELSE Last(ns)
        \/ SentUntilFull(ns) /\ DropSubscription /\ UNCHANGED replayed
  BY DEF FinishReplay, Held
<1>4. \A m : m \in s <=> m \in pending /\ m > replayed
  OBVIOUS
<1>. HIDE DEF s
<1>5. PICK n \in Nat :
        /\ DOMAIN ns = 1 .. n /\ ns \in Seq(s) /\ Len(ns) = n
        /\ \A k \in 1 .. n : ns[k] \in s
        /\ \A m \in s : \E k \in 1 .. n : ns[k] = m
        /\ \A i, j \in 1 .. n : i < j => ns[i] < ns[j]
  BY <1>2, SortedEnumerates
<1>6. \A k \in 1 .. n : ns[k] \in Seqs /\ ns[k] \in Nat
  <2>1. \A x \in Seqs : x \in Nat
    BY Bounds DEF Seqs
  <2>2. \A k \in 1 .. n : ns[k] \in Seqs
    BY <1>2, <1>5
  <2>. QED  BY <2>1, <2>2
<1>7. \A k \in 1 .. n : \A m \in pending :
        replayed < m /\ m < ns[k] => \E j \in 1 .. n : j < k /\ ns[j] = m
  <2>1. SUFFICES ASSUME NEW k \in 1 .. n, NEW m \in pending, replayed < m, m < ns[k]
                 PROVE  \E j \in 1 .. n : j < k /\ ns[j] = m
    OBVIOUS
  <2>2. m \in s /\ m \in Nat
    BY <1>1, <1>4, <2>1
  <2>3. PICK j \in 1 .. n : ns[j] = m
    BY <1>5, <2>2
  <2>4. ns[j] \in Nat /\ ns[k] \in Nat /\ ns[j] < ns[k]
    BY <1>6, <2>1, <2>3
  <2>5. ~(k < j) /\ k # j
    BY <1>5, <2>4
  <2>. QED  BY <2>3, <2>5
<1>8. \A l \in 1 .. n : HeldBackEvents(ns, l)
  <2>1. SUFFICES ASSUME NEW l \in 1 .. n
                 PROVE  HeldBackEvents(ns, l)
    OBVIOUS
  <2>2. \A k \in 1 .. l : k \in 1 .. n /\ \A j \in 1 .. n : j < k => j \in 1 .. l
    OBVIOUS
  <2>3. \A k \in 1 .. l : ns[k] \in pending /\ ns[k] > replayed
    BY <1>4, <1>5, <2>2
  <2>4. \A k \in 1 .. l : \A m \in pending :
          replayed < m /\ m < ns[k] => \E j \in 1 .. l : j < k /\ ns[j] = m
    BY <1>7, <2>2
  <2>. QED  BY <2>3, <2>4 DEF HeldBackEvents
<1>9. HeldBackEvents(ns, n)
  BY <1>4, <1>5, <1>7 DEF HeldBackEvents
<1>10. CASE /\ SentInFull(ns)
            /\ sub' = "live" /\ pending' = {} /\ handler' = "replying"
            /\ replayed' = IF ns = <<>> THEN replayed ELSE Last(ns)
  <2>1. Pushes(ns, n) /\ conn' = conn
    BY <1>1, <1>5, <1>6, <1>10, SentInFullPushes
  <2>2. CASE n = 0
    <3>1. s = {} /\ ns = <<>>
      BY <1>5, <2>2, EmptySeq
    <3>2. replayed' = replayed /\ \A m \in pending : ~(m > replayed)
      BY <1>4, <1>10, <3>1
    <3>. QED  BY <1>1, <1>9, <1>10, <2>1, <3>2
  <2>3. CASE n # 0
    <3>1. ns # <<>>
      BY <1>5, <2>3, EmptySeq
    <3>2. n \in 1 .. n /\ replayed' = ns[n]
      BY <1>5, <1>10, <2>3, <3>1 DEF Last
    <3>3. replayed' \in Nat /\ replayed' > replayed
      BY <1>4, <1>5, <1>6, <3>2
    <3>4. ASSUME NEW m \in pending, m > replayed
          PROVE  m <= replayed' /\ \E k \in 1 .. n : ns[k] = m
      <4>1. PICK k \in 1 .. n : ns[k] = m
        BY <1>4, <1>5, <3>4
      <4>2. k = n \/ k < n
        OBVIOUS
      <4>3. ns[k] <= ns[n]
        BY <1>5, <1>6, <3>2, <4>2
      <4>. QED  BY <3>2, <4>1, <4>3
    <3>5. /\ replayed <= replayed'
          /\ replayed' = replayed \/ \E k \in 1 .. n : replayed' = ns[k]
      BY <1>1, <3>2, <3>3
    <3>. QED  BY <1>9, <1>10, <2>1, <3>4, <3>5
  <2>. QED  BY <2>2, <2>3
<1>11. CASE SentUntilFull(ns) /\ DropSubscription /\ UNCHANGED replayed
  <2>1. conn' = "closing" /\ \E l \in 1 .. n : Pushes(ns, l)
    BY <1>1, <1>5, <1>6, <1>11, SentUntilFullPushes
  <2>2. PICK l \in 1 .. n : Pushes(ns, l)
    BY <2>1
  <2>3. l \in Nat /\ HeldBackEvents(ns, l)
    BY <1>8
  <2>. QED  BY <1>11, <2>1, <2>2, <2>3
<1>. QED  BY <1>3, <1>10, <1>11

\* The reply follows what is on the wire.
AppendsReply ==
    /\ wire' \in Seq(Message)
    /\ \A i \in DOMAIN wire : i \in Nat /\ i <= Len(wire)
    /\ \A i \in DOMAIN wire : i \in DOMAIN wire' /\ wire'[i] = wire[i]
    /\ \A i \in DOMAIN wire' : i \in DOMAIN wire \/ i = Len(wire) + 1
    /\ Len(wire) \in Nat /\ Len(wire) + 1 \in DOMAIN wire'
    /\ wire'[Len(wire) + 1].kind = "reply" /\ wire'[Len(wire) + 1].seq = replayed

LEMMA SendReplySends ==
    ASSUME Types, SendReply
    PROVE  AppendsReply
<1>1. wire \in Seq(Message) /\ replayed \in Seqs \cup {0}
  BY Bounds DEF Types, Seqs
<1>2. /\ Reply(replayed) \in Message
      /\ Reply(replayed).kind = "reply" /\ Reply(replayed).seq = replayed
  BY <1>1 DEF Reply, Message
<1>3. wire' = Append(wire, Reply(replayed))
  BY DEF SendReply
<1>. DEFINE r == Reply(replayed)
<1>. HIDE DEF r
<1>4. /\ Append(wire, r) \in Seq(Message)
      /\ Len(Append(wire, r)) = Len(wire) + 1
      /\ \A i \in 1 .. Len(wire) : Append(wire, r)[i] = wire[i]
      /\ Append(wire, r)[Len(wire) + 1] = r
  <2>1. r \in Message
    BY <1>2 DEF r
  <2>. QED  BY <1>1, <2>1, AppendProperties
<1>5. /\ wire' \in Seq(Message)
      /\ Len(wire') = Len(wire) + 1
      /\ \A i \in 1 .. Len(wire) : wire'[i] = wire[i]
      /\ wire'[Len(wire) + 1] = r
  BY <1>3, <1>4 DEF r
<1>6. /\ Len(wire) \in Nat
      /\ DOMAIN wire = 1 .. Len(wire)
      /\ DOMAIN wire' = 1 .. (Len(wire) + 1)
  BY <1>1, <1>5, LenProperties
<1>7. wire'[Len(wire) + 1].kind = "reply" /\ wire'[Len(wire) + 1].seq = replayed
  BY <1>2, <1>5 DEF r
<1>. QED  BY <1>5, <1>6, <1>7 DEF AppendsReply

-----------------------------------------------------------------------------
(* The types of the state *)

WireTypes ==
    /\ wire \in Seq(Message)
    /\ \A i \in DOMAIN wire : wire[i].seq <= committed
    /\ \A i \in DOMAIN wire : wire[i].kind = "event" => wire[i].seq > 0

WriterTypes ==
    /\ committed \in Nat /\ orphans \in Nat /\ cancels \in 0 .. MaxCancels
    /\ orphans <= cancels
    /\ committed + orphans <= MaxSeq
    /\ wpc \in [Writers -> {"idle", "writing", "publishing"}]
    /\ unsent \in [Writers -> 0 .. committed]
    /\ unpublished \subseteq 1 .. committed

ServerTypes ==
    /\ sub \in {"none", "replaying", "live"}
    /\ handler \in {"none", "registered", "replaying", "replying"}
    /\ pending \subseteq 1 .. committed
    /\ {high, replayed} \subseteq 0 .. committed

ClientTypes ==
    /\ conn \in {"down", "up", "closing"}
    /\ mode \in {"off", "activating", "draining", "live", "fenced"}
    /\ buffer \cup batch \subseteq 1 .. committed
    /\ {cursor, target} \subseteq 0 .. committed
    /\ delivered \in Seq(Nat)

LEMMA TypesInParts ==
    WireTypes' /\ WriterTypes' /\ ServerTypes' /\ ClientTypes' => Types'
  BY DEF Types, WireTypes, WriterTypes, ServerTypes, ClientTypes

\* What is typed stays so as committed grows.
LEMMA TypesStable ==
    ASSUME Types, committed' \in Nat, committed <= committed'
    PROVE  /\ UNCHANGED wire => WireTypes'
           /\ UNCHANGED serverVars => ServerTypes'
           /\ UNCHANGED <<clientVars, conn>> => ClientTypes'
<1>1. committed \in Nat /\ 1 .. committed \subseteq 1 .. committed' /\ 0 .. committed \subseteq 0 .. committed'
  BY DEF Types
<1>2. UNCHANGED wire => WireTypes'
  <2>1. SUFFICES ASSUME wire' = wire
                 PROVE  WireTypes'
    OBVIOUS
  <2>2. \A i \in DOMAIN wire : wire[i].seq \in Int
    <3>1. \A x \in Message : x.seq \in Int
      BY Bounds DEF Message, Seqs
    <3>2. \A i \in DOMAIN wire : wire[i] \in Message
      BY LenProperties DEF Types
    <3>. QED  BY <3>1, <3>2
  <2>. QED  BY <1>1, <2>1, <2>2 DEF Types, WireTypes
<1>3. UNCHANGED serverVars => ServerTypes'
  BY <1>1 DEF Types, ServerTypes, serverVars
<1>4. UNCHANGED <<clientVars, conn>> => ClientTypes'
  BY <1>1 DEF Types, ClientTypes, clientVars
<1>. QED  BY <1>2, <1>3, <1>4

LEMMA PushTypes ==
    ASSUME Types, NEW ns, NEW n \in Nat, Pushes(ns, n), UNCHANGED committed,
           \A k \in 1 .. n : ns[k] \in 1 .. committed
    PROVE  WireTypes'
<1>1. wire' \in Seq(Message)
  BY DEF Pushes
<1>2. ASSUME NEW i \in DOMAIN wire'
      PROVE  wire'[i].seq <= committed /\ (wire'[i].kind = "event" => wire'[i].seq > 0)
  <2>1. CASE i \in DOMAIN wire
    BY <2>1 DEF Types, Pushes
  <2>2. CASE \E k \in 1 .. n : wire'[i].seq = ns[k]
    <3>1. wire'[i].seq \in 1 .. committed
      BY <2>2
    <3>2. committed \in Nat
      BY DEF Types
    <3>. QED  BY <3>1, <3>2
  <2>. QED  BY <1>2, <2>1, <2>2 DEF Pushes
<1>. QED  BY <1>1, <1>2 DEF WireTypes

LEMMA DropTypes ==
    ASSUME Types, DropSubscription, UNCHANGED <<committed, high, replayed>>
    PROVE  ServerTypes'
  BY DEF Types, DropSubscription, ServerTypes

LEMMA PopTypes ==
    ASSUME Types, Pops, UNCHANGED committed
    PROVE  WireTypes'
<1>1. wire' \in Seq(Message)
  BY DEF Pops
<1>2. ASSUME NEW i \in DOMAIN wire'
      PROVE  wire'[i].seq <= committed /\ (wire'[i].kind = "event" => wire'[i].seq > 0)
  BY DEF Types, Pops
<1>. QED  BY <1>1, <1>2 DEF WireTypes

LEMMA TypesWriterStep ==
    ASSUME Types, Lock, NEW w \in Writers,
           Write(w) \/ Commit(w) \/ Publish(w) \/ CancelWriter(w)
    PROVE  Types'
<1>. USE Bounds
<1>1. CASE Write(w)
  <2>1. UNCHANGED <<committed, wire, serverVars, clientVars, conn>>
    BY <1>1 DEF Write, linkVars
  <2>2. WriterTypes'
    BY <1>1 DEF Write, Types, WriterTypes
  <2>3. committed' \in Nat /\ committed <= committed'
    BY <2>1 DEF Types
  <2>. QED  BY <2>1, <2>2, <2>3, TypesStable, TypesInParts
<1>2. CASE Commit(w)
  <2>1. UNCHANGED <<wire, serverVars, clientVars, conn>>
    BY <1>2 DEF Commit, linkVars
  <2>2. committed + orphans < MaxSeq
    BY <1>2 DEF Commit, Lock
  <2>3. committed' \in Nat /\ committed <= committed'
    BY <1>2 DEF Commit, Types
  <2>4. WriterTypes'
    BY <1>2, <2>2 DEF Commit, Types, WriterTypes
  <2>. QED  BY <2>1, <2>3, <2>4, TypesStable, TypesInParts
<1>3. CASE Publish(w)
  <2>1. UNCHANGED <<committed, clientVars>>
    BY <1>3 DEF Publish
  <2>2. WriterTypes'
    BY <1>3 DEF Publish, Types, WriterTypes
  <2>3. unsent[w] \in 1 .. committed
    BY <1>3, PublishSends
  <2>4. PICK n \in {0, 1} : Pushes(<<unsent[w]>>, n)
    BY <1>3, PublishSends
  <2>5. WireTypes'
    <3>1. \A k \in 1 .. n : <<unsent[w]>>[k] \in 1 .. committed
      BY <2>3
    <3>. QED  BY <2>1, <2>4, <3>1, PushTypes
  <2>6. ServerTypes'
    <3>1. \/ UNCHANGED serverVars
          \/ pending' = pending \cup {unsent[w]} /\ UNCHANGED <<sub, handler, high, replayed>>
          \/ DropSubscription /\ UNCHANGED <<high, replayed>>
      BY <1>3, PublishSends
    <3>2. CASE UNCHANGED serverVars
      BY <2>1, <3>2, TypesStable DEF Types
    <3>3. CASE /\ pending' = pending \cup {unsent[w]}
               /\ UNCHANGED <<sub, handler, high, replayed>>
      BY <2>1, <2>3, <3>3 DEF Types, ServerTypes
    <3>4. CASE DropSubscription /\ UNCHANGED <<high, replayed>>
      BY <2>1, <3>4, DropTypes
    <3>. QED  BY <3>1, <3>2, <3>3, <3>4
  <2>7. ClientTypes'
    <3>1. conn' \in {"down", "up", "closing"}
      BY <1>3, PublishSends DEF Types
    <3>. QED  BY <2>1, <3>1 DEF Types, ClientTypes, clientVars
  <2>. QED  BY <2>2, <2>5, <2>6, <2>7, TypesInParts
<1>4. CASE CancelWriter(w)
  <2>1. UNCHANGED <<committed, wire, serverVars, clientVars, conn>>
    BY <1>4 DEF CancelWriter, linkVars
  <2>2. unpublished' \subseteq 1 .. committed
    BY <1>4 DEF CancelWriter, Types
  <2>3. committed' + orphans' <= MaxSeq /\ orphans' \in Nat /\ orphans' <= cancels'
    BY <1>4 DEF CancelWriter, Types, Lock
  <2>4. WriterTypes'
    BY <1>4, <2>2, <2>3 DEF CancelWriter, Types, WriterTypes
  <2>5. committed' \in Nat /\ committed <= committed'
    BY <2>1 DEF Types
  <2>. QED  BY <2>1, <2>4, <2>5, TypesStable, TypesInParts
<1>. QED  BY <1>1, <1>2, <1>3, <1>4

LEMMA TypesOrphanCommit ==
    ASSUME Types, OrphanCommit
    PROVE  Types'
<1>1. UNCHANGED <<wire, serverVars, clientVars, conn>>
  BY DEF OrphanCommit, linkVars
<1>2. committed' \in Nat /\ committed <= committed'
  BY DEF OrphanCommit, Types
<1>3. WriterTypes'
  <2>1. /\ committed' = committed + 1 /\ orphans' = orphans - 1 /\ orphans > 0
        /\ unpublished' = unpublished \cup {committed + 1}
        /\ UNCHANGED <<wpc, unsent, cancels>>
    BY DEF OrphanCommit
  <2>2. unpublished' \subseteq 1 .. committed'
    BY <2>1 DEF Types
  <2>3. unsent' \in [Writers -> 0 .. committed']
    BY <2>1 DEF Types
  <2>4. orphans' \in Nat /\ orphans' <= cancels /\ committed' + orphans' <= MaxSeq
    BY <2>1, Bounds DEF Types
  <2>. QED  BY <1>2, <2>1, <2>2, <2>3, <2>4 DEF Types, WriterTypes
<1>. QED  BY <1>1, <1>2, <1>3, TypesStable, TypesInParts

LEMMA TypesServerStep ==
    ASSUME Types, ReadHighWater \/ ReplayBatch \/ FinishReplay \/ SendReply
    PROVE  Types'
<1>. USE Bounds
<1>1. UNCHANGED <<writerVars, clientVars>>
  BY DEF ReadHighWater, ReplayBatch, FinishReplay, SendReply
<1>2. WriterTypes' /\ UNCHANGED committed /\ committed' \in Nat /\ committed <= committed'
  BY <1>1 DEF Types, WriterTypes, writerVars
<1>3. conn' \in {"down", "up", "closing"} => ClientTypes'
  BY <1>1, <1>2 DEF Types, ClientTypes, clientVars
<1>4. CASE ReadHighWater
  <2>1. UNCHANGED <<wire, conn>> /\ ServerTypes'
    BY <1>2, <1>4 DEF ReadHighWater, Types, ServerTypes, linkVars
  <2>2. WireTypes' /\ ClientTypes'
    BY <1>1, <1>2, <2>1, TypesStable
  <2>. QED  BY <1>2, <2>1, <2>2, TypesInParts
<1>5. CASE ReplayBatch
  <2>1. PICK n \in Nat \ {0} :
          /\ replayed + n <= high
          /\ \A k \in 1 .. n : Page[k] = replayed + k
          /\ Pushes(Page, n)
          /\ \/ replayed' = replayed + n /\ UNCHANGED <<sub, pending, handler, conn>>
             \/ conn' = "closing" /\ DropSubscription /\ UNCHANGED replayed
    BY <1>5, ReplayBatchSends
  <2>2. UNCHANGED high
    BY <1>5 DEF ReplayBatch
  <2>3. \A k \in 1 .. n : Page[k] \in 1 .. committed
    BY <2>1 DEF Types
  <2>4. WireTypes'
    BY <1>2, <2>1, <2>3, PushTypes
  <2>5. ServerTypes'
    <3>1. CASE replayed' = replayed + n /\ UNCHANGED <<sub, pending, handler, conn>>
      <4>1. replayed' \in 0 .. committed
        BY <2>1, <3>1 DEF Types
      <4>. QED  BY <1>2, <2>2, <3>1, <4>1 DEF Types, ServerTypes
    <3>2. CASE DropSubscription /\ UNCHANGED replayed
      BY <1>2, <2>2, <3>2, DropTypes
    <3>. QED  BY <2>1, <3>1, <3>2
  <2>6. ClientTypes'
    BY <1>3, <2>1 DEF Types
  <2>. QED  BY <1>2, <2>4, <2>5, <2>6, TypesInParts
<1>6. CASE FinishReplay
  <2>1. PICK ns, n :
          /\ n \in Nat
          /\ HeldBackEvents(ns, n)
          /\ Pushes(ns, n)
          /\ \/ /\ sub' = "live" /\ pending' = {} /\ handler' = "replying"
                /\ replayed' = replayed \/ \E k \in 1 .. n : replayed' = ns[k]
                /\ UNCHANGED conn
             \/ conn' = "closing" /\ DropSubscription /\ UNCHANGED replayed
    BY <1>6, FinishReplaySends
  <2>2. UNCHANGED high
    BY <1>6 DEF FinishReplay
  <2>3. \A k \in 1 .. n : ns[k] \in 1 .. committed
    BY <2>1 DEF Types, HeldBackEvents
  <2>4. WireTypes'
    BY <1>2, <2>1, <2>3, PushTypes
  <2>5. ServerTypes'
    <3>1. CASE /\ sub' = "live" /\ pending' = {} /\ handler' = "replying"
               /\ replayed' = replayed \/ \E k \in 1 .. n : replayed' = ns[k]
      <4>1. replayed' \in 0 .. committed
        BY <2>3, <3>1 DEF Types
      <4>. QED  BY <1>2, <2>2, <3>1, <4>1 DEF Types, ServerTypes
    <3>2. CASE DropSubscription /\ UNCHANGED replayed
      BY <1>2, <2>2, <3>2, DropTypes
    <3>. QED  BY <2>1, <3>1, <3>2
  <2>6. ClientTypes'
    BY <1>3, <2>1 DEF Types
  <2>. QED  BY <1>2, <2>4, <2>5, <2>6, TypesInParts
<1>7. CASE SendReply
  <2>1. AppendsReply
    BY <1>7, SendReplySends
  <2>2. WireTypes'
    <3>1. wire' \in Seq(Message)
      BY <2>1 DEF AppendsReply
    <3>2. ASSUME NEW i \in DOMAIN wire'
          PROVE  wire'[i].seq <= committed /\ (wire'[i].kind = "event" => wire'[i].seq > 0)
      <4>1. CASE i \in DOMAIN wire
        BY <2>1, <4>1 DEF Types, AppendsReply
      <4>2. CASE i = Len(wire) + 1
        <5>1. wire'[i].kind = "reply" /\ wire'[i].seq = replayed
          BY <2>1, <4>2 DEF AppendsReply
        <5>. QED  BY <5>1 DEF Types
      <4>. QED  BY <2>1, <3>2, <4>1, <4>2 DEF AppendsReply
    <3>. QED  BY <1>2, <3>1, <3>2 DEF WireTypes
  <2>3. ServerTypes' /\ UNCHANGED conn
    BY <1>2, <1>7 DEF SendReply, Types, ServerTypes
  <2>4. ClientTypes'
    BY <1>3, <2>3 DEF Types
  <2>. QED  BY <1>2, <2>2, <2>3, <2>4, TypesInParts
<1>. QED  BY <1>4, <1>5, <1>6, <1>7

\* What the client makes of the first message.
LEMMA FirstMessage ==
    ASSUME Types, wire # <<>>
    PROVE  /\ 1 \in DOMAIN wire /\ Head(wire) = wire[1]
           /\ Head(wire).seq \in 0 .. committed
           /\ Head(wire).kind = "event" => Head(wire).seq \in 1 .. committed
<1>1. Tail(wire) \in Seq(Message) /\ 1 \in DOMAIN wire /\ Head(wire) = wire[1]
  BY LenProperties, EmptySeq, HeadTailProperties DEF Types
<1>2. wire[1].seq \in Nat
  <2>1. wire[1] \in Message
    BY <1>1, LenProperties DEF Types
  <2>. QED  BY <2>1, Bounds DEF Message, Seqs
<1>. QED  BY <1>1, <1>2 DEF Types

LEMMA DeliverTypes ==
    ASSUME Types, NEW n \in 1 .. committed, DeliverNow(n)
    PROVE  delivered' \in Seq(Nat) /\ cursor' = n
  BY AppendProperties DEF Types, DeliverNow

LEMMA TypesClientStep ==
    ASSUME Types,
           \/ Connect \/ Disconnect \/ ReceiveEvent \/ ReceiveReply \/ TakeBatch
           \/ DeliverBatched \/ FinishActivation \/ FailActivation \/ Reactivate
    PROVE  Types'
<1>. USE Bounds
<1>1. UNCHANGED writerVars
  BY DEF Connect, Disconnect, ReceiveEvent, ReceiveReply, TakeBatch, DeliverBatched,
         FinishActivation, FailActivation, Reactivate
<1>2. WriterTypes' /\ UNCHANGED committed /\ committed' \in Nat /\ committed <= committed'
  BY <1>1 DEF Types, WriterTypes, writerVars
<1>3. wire' = <<>> => WireTypes'
  BY EmptySeq DEF WireTypes
<1>4. SubscribeFrom(cursor) => ServerTypes'
  BY <1>2 DEF SubscribeFrom, Types, ServerTypes
<1>5. CASE Connect
  BY <1>2, <1>3, <1>4, <1>5, TypesInParts DEF Connect, Types, ClientTypes
<1>6. CASE Disconnect
  <2>1. ServerTypes'
    BY <1>2, <1>6, DropTypes DEF Disconnect
  <2>. QED  BY <1>2, <1>3, <1>6, <2>1, TypesInParts DEF Disconnect, Types, ClientTypes
<1>7. CASE ReceiveEvent
  <2>1. wire # <<>> /\ Head(wire).kind = "event" /\ wire' = Tail(wire)
    BY <1>7 DEF ReceiveEvent
  <2>2. WireTypes'
    BY <1>2, <2>1, TailPops, PopTypes DEF Types
  <2>3. UNCHANGED <<serverVars, conn, mode, target, batch>>
    BY <1>7 DEF ReceiveEvent
  <2>4. PICK n \in 1 .. committed : n = Head(wire).seq
    BY <2>1, FirstMessage
  <2>5. \/ UNCHANGED <<cursor, buffer, delivered>>
        \/ buffer' = buffer \cup {n} /\ UNCHANGED <<cursor, delivered>>
        \/ DeliverNow(n) /\ UNCHANGED buffer
    BY <1>7, <2>4 DEF ReceiveEvent
  <2>6. ClientTypes'
    <3>1. CASE UNCHANGED <<cursor, buffer, delivered>>
      BY <1>2, <2>3, <3>1 DEF Types, ClientTypes
    <3>2. CASE buffer' = buffer \cup {n} /\ UNCHANGED <<cursor, delivered>>
      BY <1>2, <2>3, <3>2 DEF Types, ClientTypes
    <3>3. CASE DeliverNow(n) /\ UNCHANGED buffer
      <4>1. delivered' \in Seq(Nat) /\ cursor' = n
        BY <3>3, DeliverTypes
      <4>. QED  BY <1>2, <2>3, <3>3, <4>1 DEF Types, ClientTypes
    <3>. QED  BY <2>5, <3>1, <3>2, <3>3
  <2>7. ServerTypes'
    BY <1>2, <2>3, TypesStable
  <2>. QED  BY <1>2, <2>2, <2>6, <2>7, TypesInParts
<1>8. CASE ReceiveReply
  <2>1. wire # <<>> /\ wire' = Tail(wire)
    BY <1>8 DEF ReceiveReply
  <2>2. WireTypes'
    BY <1>2, <2>1, TailPops, PopTypes DEF Types
  <2>3. ServerTypes'
    BY <1>2, <1>8, TypesStable DEF ReceiveReply
  <2>4. Head(wire).seq \in 0 .. committed
    BY <2>1, FirstMessage
  <2>5. ClientTypes'
    BY <1>2, <1>8, <2>4 DEF ReceiveReply, Types, ClientTypes
  <2>. QED  BY <1>2, <2>2, <2>3, <2>5, TypesInParts
<1>9. CASE TakeBatch
  <2>1. UNCHANGED <<wire, serverVars>> /\ ClientTypes'
    BY <1>2, <1>9 DEF TakeBatch, Types, ClientTypes, linkVars
  <2>. QED  BY <1>2, <2>1, TypesStable, TypesInParts
<1>10. CASE DeliverBatched
  <2>1. UNCHANGED <<wire, serverVars, conn, mode, target, buffer>>
    BY <1>10 DEF DeliverBatched, linkVars
  <2>2. PICK n \in batch :
          /\ batch' = batch \ {n}
          /\ IF Seen(n) THEN UNCHANGED <<cursor, delivered>> ELSE DeliverNow(n)
    BY <1>10 DEF DeliverBatched
  <2>3. n \in 1 .. committed
    BY DEF Types
  <2>4. delivered' \in Seq(Nat) /\ cursor' \in 0 .. committed
    BY <2>2, <2>3, DeliverTypes DEF Types
  <2>5. ClientTypes'
    BY <1>2, <2>1, <2>2, <2>4 DEF Types, ClientTypes
  <2>. QED  BY <1>2, <2>1, <2>5, TypesStable, TypesInParts
<1>11. CASE FinishActivation
  <2>1. UNCHANGED <<wire, serverVars, conn, target, buffer, batch, delivered>>
    BY <1>11 DEF FinishActivation, linkVars
  <2>2. mode' = "live" /\ cursor' \in 0 .. committed
    BY <1>11, MaxOfTwo DEF FinishActivation, Types
  <2>3. ClientTypes'
    BY <1>2, <2>1, <2>2 DEF Types, ClientTypes
  <2>. QED  BY <1>2, <2>1, <2>3, TypesStable, TypesInParts
<1>12. CASE FailActivation
  <2>1. ServerTypes'
    BY <1>2, <1>12, DropTypes DEF FailActivation
  <2>2. UNCHANGED wire /\ ClientTypes'
    BY <1>2, <1>12 DEF FailActivation, Types, ClientTypes, linkVars
  <2>. QED  BY <1>2, <2>1, <2>2, TypesStable, TypesInParts
<1>13. CASE Reactivate
  <2>1. ServerTypes'
    BY <1>4, <1>13 DEF Reactivate
  <2>2. UNCHANGED wire /\ ClientTypes'
    BY <1>2, <1>13 DEF Reactivate, Types, ClientTypes, linkVars
  <2>. QED  BY <1>2, <2>1, <2>2, TypesStable, TypesInParts
<1>. QED  BY <1>5, <1>6, <1>7, <1>8, <1>9, <1>10, <1>11, <1>12, <1>13

-----------------------------------------------------------------------------
(* The lock and the phases *)

LEMMA LockStep ==
    ASSUME Types, Lock, Phases, [Next]_vars
    PROVE  Lock'
<1>. USE Bounds
<1>1. CASE UNCHANGED <<committed, orphans, wpc, unsent>> /\ pending' \subseteq pending
  BY <1>1 DEF Lock
<1>2. ASSUME NEW w \in Writers, Write(w)
      PROVE  Lock'
  BY <1>2 DEF Write, Lock, LockFree, Types, serverVars
<1>3. ASSUME NEW w \in Writers, Commit(w)
      PROVE  Lock'
  <2>1. /\ wpc[w] = "writing" /\ wpc' = [wpc EXCEPT ![w] = "publishing"]
        /\ unsent' = [unsent EXCEPT ![w] = committed + 1]
        /\ UNCHANGED <<orphans, pending>>
    BY <1>3 DEF Commit, serverVars
  <2>2. \A v \in Writers : v # w => wpc[v] = "idle"
    BY <2>1 DEF Lock, Types
  <2>3. \A m \in pending : m < committed + 1
    BY DEF Types
  <2>4. \A v \in Writers : v # w => wpc'[v] = "idle" /\ unsent'[v] = 0
    BY <2>1, <2>2 DEF Lock, Types
  <2>5. wpc'[w] = "publishing" /\ unsent'[w] = committed + 1 /\ unsent'[w] # 0
    BY <2>1 DEF Types
  <2>. QED  BY <2>1, <2>3, <2>4, <2>5 DEF Lock
<1>4. ASSUME NEW w \in Writers, Publish(w)
      PROVE  Lock'
  <2>1. /\ wpc[w] = "publishing"
        /\ unsent' = [unsent EXCEPT ![w] = 0]
        /\ UNCHANGED <<committed, orphans>>
    BY <1>4 DEF Publish
  <2>2. PICK next \in {"idle", "writing"} :
          /\ next = "writing" => committed + orphans < MaxSeq
          /\ wpc' = [wpc EXCEPT ![w] = next]
    BY <1>4 DEF Publish
  <2>3. \A v \in Writers : v # w => wpc'[v] = "idle" /\ unsent'[v] = 0
    BY <2>1, <2>2 DEF Lock, Types
  <2>4. wpc'[w] = next /\ unsent'[w] = 0
    BY <2>1, <2>2 DEF Types
  <2>. QED  BY <2>1, <2>2, <2>3, <2>4 DEF Lock
<1>5. ASSUME NEW w \in Writers, CancelWriter(w)
      PROVE  Lock'
  <2>1. /\ wpc[w] # "idle" /\ wpc' = [wpc EXCEPT ![w] = "idle"]
        /\ unsent' = [unsent EXCEPT ![w] = 0]
    BY <1>5 DEF CancelWriter
  <2>2. \A v \in Writers : wpc'[v] = "idle" /\ unsent'[v] = 0
    BY <2>1 DEF Lock, Types
  <2>. QED  BY <2>2 DEF Lock
<1>6. CASE OrphanCommit
  <2>1. /\ committed' + orphans' = committed + orphans
        /\ UNCHANGED <<wpc, unsent, pending>>
    BY <1>6 DEF OrphanCommit, serverVars, Types
  <2>. QED  BY <2>1 DEF Lock
<1>7. CASE \/ ReadHighWater \/ ReplayBatch \/ FinishReplay \/ SendReply
           \/ Connect \/ Disconnect \/ ReceiveEvent \/ ReceiveReply \/ TakeBatch
           \/ DeliverBatched \/ FinishActivation \/ FailActivation \/ Reactivate
  <2>1. UNCHANGED writerVars
    BY <1>7 DEF ReadHighWater, ReplayBatch, FinishReplay, SendReply, Connect, Disconnect,
        ReceiveEvent, ReceiveReply, TakeBatch, DeliverBatched, FinishActivation,
        FailActivation, Reactivate
  <2>2. UNCHANGED pending \/ pending' = {}
    BY <1>7 DEF ReadHighWater, ReplayBatch, FinishReplay, SendReply, Connect, Disconnect,
        ReceiveEvent, ReceiveReply, TakeBatch, DeliverBatched, FinishActivation,
        FailActivation, Reactivate, DropSubscription, SubscribeFrom, serverVars
  <2>. QED  BY <1>1, <2>1, <2>2 DEF writerVars
<1>8. CASE UNCHANGED vars
  BY <1>1, <1>8 DEF vars, writerVars, serverVars
<1>. QED  BY <1>2, <1>3, <1>4, <1>5, <1>6, <1>7, <1>8 DEF Next

LEMMA PhasesStep ==
    ASSUME Types, Lock, Phases, OneReply, [Next]_vars
    PROVE  Phases'
<1>1. CASE UNCHANGED <<serverVars, conn, wire, mode, buffer, batch>>
  BY <1>1 DEF Phases, serverVars
<1>2. CASE OrphanCommit \/ \E w \in Writers : Write(w) \/ Commit(w) \/ CancelWriter(w)
  BY <1>1, <1>2 DEF Write, Commit, CancelWriter, OrphanCommit, linkVars, clientVars
<1>3. ASSUME NEW w \in Writers, Publish(w)
      PROVE  Phases'
  <2>1. UNCHANGED <<mode, buffer, batch>>
    BY <1>3 DEF Publish, clientVars
  <2>2. \/ UNCHANGED <<serverVars, conn, wire>>
        \/ sub = "replaying" /\ UNCHANGED <<sub, handler, conn, wire>>
        \/ sub = "live" /\ UNCHANGED <<serverVars, conn>>
        \/ sub = "live" /\ conn' = "closing" /\ DropSubscription
    BY <1>3, PublishSends
  <2>. QED  BY <1>1, <2>1, <2>2 DEF Phases, DropSubscription, serverVars
<1>4. CASE ReadHighWater
  BY <1>4 DEF ReadHighWater, Phases, linkVars, clientVars
<1>5. CASE ReplayBatch
  <2>1. UNCHANGED <<mode, buffer, batch>> /\ handler = "replaying"
    BY <1>5 DEF ReplayBatch, clientVars
  <2>2. \/ UNCHANGED <<sub, pending, handler, conn>>
        \/ conn' = "closing" /\ DropSubscription
    BY <1>5, ReplayBatchSends
  <2>. QED  BY <2>1, <2>2 DEF Phases, DropSubscription
<1>6. CASE FinishReplay
  <2>1. UNCHANGED <<mode, buffer, batch>> /\ handler = "replaying"
    BY <1>6 DEF FinishReplay, clientVars
  <2>2. \/ sub' = "live" /\ pending' = {} /\ handler' = "replying" /\ UNCHANGED conn
        \/ conn' = "closing" /\ DropSubscription
    BY <1>6, FinishReplaySends
  <2>. QED  BY <2>1, <2>2 DEF Phases, DropSubscription
<1>7. CASE SendReply
  BY <1>7 DEF SendReply, Phases, clientVars
<1>8. CASE Connect
  BY <1>8 DEF Connect, SubscribeFrom, Phases
<1>9. CASE Disconnect
  BY <1>9 DEF Disconnect, DropSubscription, Phases
<1>10. CASE ReceiveEvent
  <2>1. UNCHANGED <<serverVars, conn, mode, batch>> /\ wire # <<>>
    BY <1>10 DEF ReceiveEvent
  <2>2. buffer' = buffer \/ mode \in {"activating", "draining"}
    BY <1>10 DEF ReceiveEvent
  <2>. QED  BY <2>1, <2>2 DEF Phases, serverVars
<1>11. CASE ReceiveReply
  <2>1. UNCHANGED <<serverVars, conn, buffer, batch>> /\ wire # <<>>
    BY <1>11 DEF ReceiveReply
  <2>2. mode' = mode \/ (mode = "activating" /\ mode' = "draining")
    BY <1>11 DEF ReceiveReply
  <2>3. handler = "none"
    <3>1. 1 \in DOMAIN wire /\ IsReply(1)
      BY <1>11, FirstMessage DEF ReceiveReply, IsReply
    <3>. QED  BY <3>1 DEF OneReply, NoReply
  <2>. QED  BY <2>1, <2>2, <2>3 DEF Phases, serverVars
<1>12. CASE TakeBatch
  BY <1>12 DEF TakeBatch, Phases, serverVars, linkVars
<1>13. CASE DeliverBatched
  BY <1>13 DEF DeliverBatched, Phases, serverVars, linkVars
<1>14. CASE FinishActivation
  BY <1>14 DEF FinishActivation, Drained, Phases, serverVars, linkVars
<1>15. CASE FailActivation
  BY <1>15 DEF FailActivation, DropSubscription, Phases, linkVars
<1>16. CASE Reactivate
  BY <1>16 DEF Reactivate, SubscribeFrom, Phases, linkVars
<1>17. CASE UNCHANGED vars
  BY <1>1, <1>17 DEF vars, linkVars, clientVars
<1>. QED  BY <1>2, <1>3, <1>4, <1>5, <1>6, <1>7, <1>8, <1>9, <1>10, <1>11, <1>12, <1>13,
             <1>14, <1>15, <1>16, <1>17 DEF Next

LEMMA PushReplies ==
    ASSUME NEW ns, NEW n \in Nat, Pushes(ns, n)
    PROVE  /\ \A i \in DOMAIN wire' :
                wire'[i].kind = "reply" => i \in DOMAIN wire /\ wire'[i] = wire[i] /\ IsReply(i)
           /\ NoReply => NoReply'
<1>1. ASSUME NEW i \in DOMAIN wire', wire'[i].kind = "reply"
      PROVE  i \in DOMAIN wire /\ wire'[i] = wire[i] /\ IsReply(i)
  BY <1>1 DEF Pushes, IsReply
<1>. QED  BY <1>1 DEF NoReply, IsReply

LEMMA PopReplies ==
    ASSUME Pops
    PROVE  /\ \A i \in DOMAIN wire' :
                IsReply(i)' => i + 1 \in DOMAIN wire /\ IsReply(i + 1)
           /\ NoReply => NoReply'
  BY DEF Pops, NoReply, IsReply

LEMMA OneReplyPushes ==
    ASSUME NEW ns, NEW n \in Nat, Pushes(ns, n), OneReply, UNCHANGED mode,
           handler' # "none" => handler # "none"
    PROVE  OneReply'
<1>1. handler' # "none" => NoReply'
  BY PushReplies DEF OneReply
<1>2. mode' \in {"draining", "fenced"} => NoReply'
  BY PushReplies DEF OneReply
<1>3. \A i, j \in DOMAIN wire' : IsReply(i)' /\ IsReply(j)' => i = j
  BY PushReplies DEF OneReply, IsReply
<1>. QED  BY <1>1, <1>2, <1>3 DEF OneReply

LEMMA OneReplyPops ==
    ASSUME OneReply, Pops, UNCHANGED handler,
           mode' \in {"draining", "fenced"} => NoReply'
    PROVE  OneReply'
<1>1. handler' # "none" => NoReply'
  BY PopReplies DEF OneReply
<1>2. ASSUME NEW i \in DOMAIN wire', NEW j \in DOMAIN wire', IsReply(i)', IsReply(j)'
      PROVE  i = j
  <2>1. i + 1 = j + 1
    BY <1>2, PopReplies DEF OneReply
  <2>. QED  BY <2>1 DEF Pops
<1>. QED  BY <1>1, <1>2 DEF OneReply

LEMMA OneReplyStep ==
    ASSUME Types, Lock, Phases, OneReply, [Next]_vars
    PROVE  OneReply'
<1>1. wire \in Seq(Message)
  BY DEF Types
<1>2. CASE UNCHANGED <<wire, handler, mode>>
  BY <1>2 DEF OneReply, NoReply, IsReply
<1>3. CASE wire' = <<>>
  BY <1>3 DEF OneReply, NoReply, IsReply
<1>4. CASE OrphanCommit \/ \E w \in Writers : Write(w) \/ Commit(w) \/ CancelWriter(w)
  BY <1>2, <1>4 DEF Write, Commit, CancelWriter, OrphanCommit, linkVars, clientVars, serverVars
<1>5. ASSUME NEW w \in Writers, Publish(w)
      PROVE  OneReply'
  <2>1. UNCHANGED mode
    BY <1>5 DEF Publish, clientVars
  <2>2. PICK n \in {0, 1} : Pushes(<<unsent[w]>>, n)
    BY <1>5, PublishSends
  <2>3. handler' = handler \/ handler' = "none"
    BY <1>5, PublishSends DEF DropSubscription, serverVars
  <2>. QED  BY <2>1, <2>2, <2>3, OneReplyPushes
<1>6. CASE ReadHighWater
  <2>1. handler = "registered" /\ UNCHANGED <<wire, mode>>
    BY <1>6 DEF ReadHighWater, linkVars, clientVars
  <2>. QED  BY <2>1 DEF OneReply, NoReply, IsReply
<1>7. CASE ReplayBatch
  <2>1. UNCHANGED mode
    BY <1>7 DEF ReplayBatch, clientVars
  <2>2. PICK n \in Nat : Pushes(Page, n)
    BY <1>7, ReplayBatchSends
  <2>3. handler' = handler \/ handler' = "none"
    BY <1>7, ReplayBatchSends DEF DropSubscription
  <2>. QED  BY <2>1, <2>2, <2>3, OneReplyPushes
<1>8. CASE FinishReplay
  <2>1. UNCHANGED mode /\ handler = "replaying"
    BY <1>8 DEF FinishReplay, clientVars
  <2>2. PICK ns, n : n \in Nat /\ Pushes(ns, n)
    BY <1>8, FinishReplaySends
  <2>. QED  BY <2>1, <2>2, OneReplyPushes
<1>9. CASE SendReply
  <2>1. handler = "replying" /\ handler' = "none" /\ UNCHANGED mode /\ NoReply
    BY <1>9 DEF SendReply, clientVars, OneReply
  <2>2. AppendsReply
    BY <1>9, SendReplySends
  <2>3. mode \notin {"draining", "fenced"}
    BY <2>1 DEF Phases
  <2>4. \A i \in DOMAIN wire' : IsReply(i)' => i = Len(wire) + 1
    BY <2>1, <2>2 DEF AppendsReply, NoReply, IsReply
  <2>. QED  BY <2>1, <2>3, <2>4 DEF OneReply
<1>10. CASE Connect \/ Disconnect
  BY <1>3, <1>10 DEF Connect, Disconnect
<1>11. CASE ReceiveEvent
  <2>1. Pops /\ UNCHANGED <<mode, handler>>
    BY <1>1, <1>11, TailPops DEF ReceiveEvent, serverVars
  <2>2. mode' \in {"draining", "fenced"} => NoReply'
    BY <2>1, PopReplies DEF OneReply
  <2>. QED  BY <2>1, <2>2, OneReplyPops
<1>12. CASE ReceiveReply
  <2>1. Pops /\ UNCHANGED handler /\ wire[1].kind = "reply" /\ 1 \in DOMAIN wire
    BY <1>1, <1>12, TailPops DEF ReceiveReply, serverVars, Pops
  <2>2. NoReply'
    <3>1. ASSUME NEW i \in DOMAIN wire', IsReply(i)'
          PROVE  FALSE
      <4>1. i + 1 \in DOMAIN wire /\ IsReply(i + 1) /\ i \in Nat \ {0}
        BY <2>1, <3>1, PopReplies DEF Pops
      <4>2. IsReply(1)
        BY <2>1 DEF IsReply
      <4>3. i + 1 = 1
        BY <2>1, <4>1, <4>2 DEF OneReply
      <4>. QED  BY <4>1, <4>3
    <3>. QED  BY <3>1 DEF NoReply
  <2>. QED  BY <2>1, <2>2, OneReplyPops
<1>13. CASE TakeBatch \/ DeliverBatched
  BY <1>2, <1>13 DEF TakeBatch, DeliverBatched, linkVars, serverVars
<1>14. CASE FinishActivation
  BY <1>14 DEF FinishActivation, linkVars, serverVars, OneReply, NoReply, IsReply
<1>15. CASE FailActivation
  BY <1>15 DEF FailActivation, DropSubscription, linkVars, OneReply, NoReply, IsReply
<1>16. CASE Reactivate
  BY <1>16 DEF Reactivate, SubscribeFrom, linkVars, OneReply, NoReply, IsReply
<1>17. CASE UNCHANGED vars
  BY <1>2, <1>17 DEF vars, linkVars, clientVars, serverVars
<1>. QED  BY <1>4, <1>5, <1>6, <1>7, <1>8, <1>9, <1>10, <1>11, <1>12, <1>13, <1>14, <1>15,
             <1>16, <1>17 DEF Next

-----------------------------------------------------------------------------
(* The order of the stream, over the steps that send *)

Order == WireOrder /\ BufferOrder /\ BatchOrder /\ ReplyOrder /\ TargetOrder
Sending == Replayed /\ HeldBack /\ LiveComplete

LEMMA PushSent ==
    ASSUME NEW ns, NEW n \in Nat, Pushes(ns, n)
    PROVE  /\ \A i \in DOMAIN wire : \A m : Sent(m, i) => Sent(m, i)'
           /\ \A m : Arrives(m) => Arrives(m)'
           /\ \A k \in 1 .. n : \A m : m = ns[k] => Arrives(m)'
           /\ \A k \in 1 .. n : \A i : i = Len(wire) + k =>
                /\ \A m : Arrives(m) => Sent(m, i)'
                /\ \A j \in 1 .. n : \A m : j < k /\ m = ns[j] => Sent(m, i)'
<1>1. \A i \in DOMAIN wire : i \in DOMAIN wire' /\ wire'[i] = wire[i]
  BY DEF Pushes
<1>2. \A i \in DOMAIN wire : \A m : Sent(m, i) => Sent(m, i)'
  BY <1>1 DEF Sent, IsEvent
<1>3. \A m : Arrives(m) => Arrives(m)'
  BY <1>1 DEF Arrives, IsEvent
<1>4. \A k \in 1 .. n : \A i : i = Len(wire) + k =>
        i \in DOMAIN wire' /\ wire'[i].kind = "event" /\ wire'[i].seq = ns[k]
  BY DEF Pushes
<1>5. \A k \in 1 .. n : \A m : m = ns[k] => Arrives(m)'
  BY <1>4 DEF Arrives, IsEvent
<1>6. \A i \in DOMAIN wire' : i \in Nat
  BY LenProperties DEF Pushes
<1>7. ASSUME NEW k \in 1 .. n, NEW i, i = Len(wire) + k, NEW m, Arrives(m)
      PROVE  Sent(m, i)'
  <2>1. PICK j \in DOMAIN wire : IsEvent(j, m)
    BY <1>7 DEF Arrives
  <2>2. j \in DOMAIN wire' /\ IsEvent(j, m)'
    BY <1>1, <2>1 DEF IsEvent
  <2>3. i \in DOMAIN wire' /\ i \in Nat
    BY <1>4, <1>6, <1>7
  <2>. QED  BY <1>7, <2>2, <2>3 DEF Sent, Pushes
<1>8. ASSUME NEW k \in 1 .. n, NEW i, i = Len(wire) + k,
             NEW j \in 1 .. n, NEW m, j < k, m = ns[j]
      PROVE  Sent(m, i)'
  <2>1. PICK h : h = Len(wire) + j
    OBVIOUS
  <2>2. h \in DOMAIN wire' /\ IsEvent(h, m)'
    BY <1>4, <1>8, <2>1 DEF IsEvent
  <2>3. h < i
    BY <1>8, <2>1 DEF Pushes
  <2>. QED  BY <2>2, <2>3 DEF Sent
<1>. QED  BY <1>2, <1>3, <1>5, <1>7, <1>8

\* A step that leaves the client alone and sends what has no gap before it.
Streams(ns, n) ==
    /\ n \in Nat /\ Pushes(ns, n)
    /\ UNCHANGED <<mode, cursor, target, buffer, batch>>
    /\ unpublished \subseteq unpublished'
    /\ \A m \in 1 .. committed : Pledged(m) => Pledged(m)'
    /\ \A k \in 1 .. n : \A m \in Seqs :
         m < ns[k] => Covered(m) \/ Arrives(m) \/ \E j \in 1 .. n : j < k /\ ns[j] = m

LEMMA CoveredStays ==
    ASSUME UNCHANGED <<cursor, buffer, batch>>, unpublished \subseteq unpublished'
    PROVE  \A m : Covered(m) => Covered(m)'
  BY DEF Covered

LEMMA OrderStreams ==
    ASSUME Types, Order, NEW ns, NEW n, Streams(ns, n)
    PROVE  Order'
<1>1. n \in Nat /\ Pushes(ns, n)
  BY DEF Streams
<1>2. /\ UNCHANGED <<mode, cursor, target, buffer, batch>>
      /\ unpublished \subseteq unpublished'
      /\ \A m \in 1 .. committed : Pledged(m) => Pledged(m)'
  BY DEF Streams
<1>3. \A m : Covered(m) => Covered(m)'
  BY <1>2, CoveredStays
<1>4. /\ \A i \in DOMAIN wire : \A m : Sent(m, i) => Sent(m, i)'
      /\ \A k \in 1 .. n : \A i : i = Len(wire) + k =>
           /\ \A m : Arrives(m) => Sent(m, i)'
           /\ \A j \in 1 .. n : \A m : j < k /\ m = ns[j] => Sent(m, i)'
  BY <1>1, PushSent
<1>5. \A i \in DOMAIN wire : wire[i].seq \in 0 .. committed
  <2>1. \A i \in DOMAIN wire : wire[i] \in Message /\ wire[i].seq <= committed
    BY LenProperties DEF Types
  <2>. QED  BY <2>1, Bounds DEF Message, Seqs, Types
<1>6. \A c \in 0 .. committed : \A m \in Seqs : m < c => m \in 1 .. committed
  BY Bounds DEF Seqs, Types
<1>7. WireOrder'
  <2>1. SUFFICES ASSUME mode # "fenced", NEW i \in DOMAIN wire', wire'[i].kind = "event",
                        NEW m \in Seqs, m < wire'[i].seq
                 PROVE  Covered(m)' \/ Sent(m, i)' \/ Pledged(m)'
    BY <1>2 DEF WireOrder
  <2>2. CASE i \in DOMAIN wire
    <3>1. wire[i].kind = "event" /\ m < wire[i].seq /\ m \in 1 .. committed
      BY <1>1, <1>5, <1>6, <2>1, <2>2 DEF Pushes
    <3>2. Covered(m) \/ Sent(m, i) \/ Pledged(m)
      BY <2>1, <2>2, <3>1 DEF Order, WireOrder
    <3>. QED  BY <1>2, <1>3, <1>4, <2>2, <3>1, <3>2
  <2>3. CASE \E k \in 1 .. n : i = Len(wire) + k /\ wire'[i].seq = ns[k]
    <3>1. PICK k \in 1 .. n : i = Len(wire) + k /\ wire'[i].seq = ns[k]
      BY <2>3
    <3>2. Covered(m) \/ Arrives(m) \/ \E j \in 1 .. n : j < k /\ ns[j] = m
      BY <2>1, <3>1 DEF Streams
    <3>. QED  BY <1>3, <1>4, <3>1, <3>2
  <2>. QED  BY <1>1, <2>1, <2>2, <2>3 DEF Pushes
<1>8. BufferOrder'
  <2>1. \A x \in buffer : x \in 0 .. committed
    BY DEF Types
  <2>. QED  BY <1>2, <1>3, <1>6, <2>1 DEF Order, BufferOrder
<1>9. BatchOrder'
  BY <1>2 DEF Order, BatchOrder
<1>10. ReplyOrder'
  <2>1. \A i \in DOMAIN wire' :
          IsReply(i)' => i \in DOMAIN wire /\ wire'[i] = wire[i] /\ IsReply(i)
    BY <1>1, PushReplies DEF IsReply
  <2>. QED  BY <1>2, <1>3, <1>4, <2>1 DEF Order, ReplyOrder
<1>11. TargetOrder'
  BY <1>2, <1>3 DEF Order, TargetOrder
<1>. QED  BY <1>7, <1>8, <1>9, <1>10, <1>11 DEF Order

\* A subscription that is dropped has no reply to come, so what it pledged stays.
LEMMA DropKeepsPledges ==
    ASSUME NEW ns, NEW n \in Nat, Pushes(ns, n), OneReply, UNCHANGED mode, DropSubscription
    PROVE  \A m : Pledged(m) => Pledged(m)'
<1>1. handler # "none" => NoReply'
  BY PushReplies DEF OneReply
<1>2. ASSUME handler = "none", NEW m, \A i \in DOMAIN wire : IsReply(i) => m <= wire[i].seq
      PROVE  \A i \in DOMAIN wire' : IsReply(i)' => m <= wire'[i].seq
  BY <1>2, PushReplies DEF IsReply
<1>3. handler' = "none"
  BY DEF DropSubscription
<1>4. ASSUME NEW m, Pledged(m)
      PROVE  Pledged(m)'
  <2>1. mode' = "activating"
    BY <1>4 DEF Pledged
  <2>2. \A i \in DOMAIN wire' : IsReply(i)' => m <= wire'[i].seq
    <3>1. CASE handler # "none"
      BY <1>1, <3>1 DEF NoReply
    <3>2. CASE handler = "none"
      BY <1>2, <1>4, <3>2 DEF Pledged
    <3>. QED  BY <3>1, <3>2
  <2>. QED  BY <1>3, <2>1, <2>2 DEF Pledged
<1>. QED  BY <1>4

\* One whose handler stays where it is keeps its pledge.
LEMMA SamePledges ==
    ASSUME NEW ns, NEW n \in Nat, Pushes(ns, n), UNCHANGED <<mode, handler, high>>,
           replayed \in Nat, replayed' \in Nat, replayed <= replayed',
           handler = "replying" => replayed' = replayed
    PROVE  \A m : Pledged(m) => Pledged(m)'
<1>1. \A i \in DOMAIN wire' :
        IsReply(i)' => i \in DOMAIN wire /\ wire'[i] = wire[i] /\ IsReply(i)
  BY PushReplies DEF IsReply
<1>. QED  BY <1>1 DEF Pledged

\* What is on the wire or in the client's hands is not lost by a push.
LEMMA DeliveryStays ==
    ASSUME NEW ns, NEW n \in Nat, Pushes(ns, n),
           UNCHANGED <<cursor, buffer, batch>>, unpublished \subseteq unpublished'
    PROVE  \A m : Covered(m) \/ Arrives(m) => Covered(m)' \/ Arrives(m)'
  BY CoveredStays, PushSent

\* A write, a commit and a cancellation send nothing.
LEMMA OrderWriterStep ==
    ASSUME Types, Lock, Order, Sending, NEW w \in Writers,
           Write(w) \/ Commit(w) \/ CancelWriter(w)
    PROVE  Order' /\ Sending'
<1>1. /\ UNCHANGED <<wire, mode, cursor, target, buffer, batch>>
      /\ UNCHANGED <<sub, pending, handler, high, replayed>>
      /\ unpublished \subseteq unpublished'
  BY DEF Write, Commit, CancelWriter, linkVars, clientVars, serverVars
<1>2. Pushes(<<>>, 0)
  BY <1>1, PushNothing DEF Types
<1>3. replayed \in Nat
  BY DEF Types
<1>4. \A m : Pledged(m) => Pledged(m)'
  BY <1>1, <1>2, <1>3, SamePledges
<1>5. Streams(<<>>, 0)
  BY <1>1, <1>2, <1>4 DEF Streams
<1>6. Order'
  BY <1>5, OrderStreams
<1>7. \A m : Covered(m) \/ Arrives(m) => Covered(m)' \/ Arrives(m)'
  BY <1>1, <1>2, DeliveryStays
<1>8. \A m \in Seqs : m <= committed' =>
        \/ m <= committed /\ (unsent[w] = m => m \in unpublished' \/ unsent'[w] = m)
        \/ unsent'[w] = m
  BY Bounds DEF Write, Commit, CancelWriter, Types, Lock, Seqs
<1>9. \A v \in Writers : v # w => unsent'[v] = unsent[v]
  BY DEF Write, Commit, CancelWriter, Types
<1>10. Replayed'
  BY <1>1, <1>7 DEF Sending, Replayed
<1>11. HeldBack'
  <2>1. SUFFICES ASSUME handler = "replaying", NEW m \in Seqs, high < m, m <= committed'
                 PROVE  m \in pending \cup unpublished' \/ \E v \in Writers : unsent'[v] = m
    BY <1>1 DEF HeldBack
  <2>2. CASE m <= committed /\ (unsent[w] = m => m \in unpublished' \/ unsent'[w] = m)
    <3>1. m \in pending \cup unpublished \/ \E v \in Writers : unsent[v] = m
      BY <2>1, <2>2 DEF Sending, HeldBack
    <3>. QED  BY <1>1, <1>9, <2>2, <3>1
  <2>. QED  BY <1>8, <2>1, <2>2
<1>12. LiveComplete'
  <2>1. SUFFICES ASSUME sub = "live", NEW m \in Seqs, m <= committed'
                 PROVE  Covered(m)' \/ Arrives(m)' \/ \E v \in Writers : unsent'[v] = m
    BY <1>1 DEF LiveComplete
  <2>2. CASE m <= committed /\ (unsent[w] = m => m \in unpublished' \/ unsent'[w] = m)
    <3>1. Covered(m) \/ Arrives(m) \/ \E v \in Writers : unsent[v] = m
      BY <2>1, <2>2 DEF Sending, LiveComplete
    <3>2. m \in unpublished' => Covered(m)'
      BY DEF Covered
    <3>. QED  BY <1>7, <1>9, <2>2, <3>1, <3>2
  <2>. QED  BY <1>8, <2>1, <2>2
<1>. QED  BY <1>6, <1>10, <1>11, <1>12 DEF Sending

LEMMA OrderOrphanCommit ==
    ASSUME Types, Order, Sending, OrphanCommit
    PROVE  Order' /\ Sending'
<1>1. /\ UNCHANGED <<wire, mode, cursor, target, buffer, batch, unsent>>
      /\ UNCHANGED <<sub, pending, handler, high, replayed>>
      /\ unpublished' = unpublished \cup {committed + 1} /\ committed' = committed + 1
  BY DEF OrphanCommit, linkVars, clientVars, serverVars
<1>2. Pushes(<<>>, 0)
  BY <1>1, PushNothing DEF Types
<1>3. replayed \in Nat
  BY DEF Types
<1>4. \A m : Pledged(m) => Pledged(m)'
  BY <1>1, <1>2, <1>3, SamePledges
<1>5. Streams(<<>>, 0)
  BY <1>1, <1>2, <1>4 DEF Streams
<1>6. Order'
  BY <1>5, OrderStreams
<1>7. \A m : Covered(m) \/ Arrives(m) => Covered(m)' \/ Arrives(m)'
  BY <1>1, <1>2, DeliveryStays
<1>8. \A m \in Seqs : m <= committed' => m <= committed \/ m \in unpublished'
  BY <1>1 DEF Types, Seqs
<1>9. \A m \in unpublished' : Covered(m)'
  BY DEF Covered
<1>10. Replayed'
  BY <1>1, <1>7 DEF Sending, Replayed
<1>11. HeldBack'
  BY <1>1, <1>8 DEF Sending, HeldBack
<1>12. LiveComplete'
  BY <1>1, <1>7, <1>8, <1>9 DEF Sending, LiveComplete
<1>. QED  BY <1>6, <1>10, <1>11, <1>12 DEF Sending

LEMMA OrderPublish ==
    ASSUME Types, Lock, Phases, OneReply, Order, Sending, NEW w \in Writers, Publish(w)
    PROVE  Order' /\ Sending'
<1>. DEFINE u == unsent[w]
<1>1. /\ UNCHANGED <<mode, cursor, target, buffer, batch, committed, unpublished>>
      /\ \A v \in Writers : v # w => unsent[v] = 0
      /\ u \in 1 .. committed /\ replayed \in Nat
  <2>1. UNCHANGED <<clientVars, committed, unpublished>> /\ wpc[w] = "publishing"
    BY DEF Publish
  <2>2. \A v \in Writers : v # w => wpc[v] = "idle"
    BY <2>1 DEF Lock
  <2>3. \A v \in Writers : v # w => unsent[v] = 0
    BY <2>2 DEF Lock
  <2>4. u \in 1 .. committed
    BY PublishSends
  <2>. QED  BY <2>1, <2>3, <2>4 DEF clientVars, Types
<1>2. \/ Pushes(<<u>>, 0) /\ sub = "none" /\ UNCHANGED serverVars
      \/ /\ Pushes(<<u>>, 0) /\ sub = "replaying"
         /\ pending' = pending \cup {u} /\ UNCHANGED <<sub, handler, high, replayed>>
      \/ Pushes(<<u>>, 1) /\ sub = "live" /\ UNCHANGED serverVars
      \/ /\ Pushes(<<u>>, 1) /\ sub = "live"
         /\ DropSubscription /\ UNCHANGED <<high, replayed>>
  BY PublishSends
<1>3. PICK n \in {0, 1} : Pushes(<<u>>, n) /\ (n = 1 => sub = "live") /\ (sub = "live" => n = 1)
  BY <1>2
<1>4. \A m : Pledged(m) => Pledged(m)'
  <2>1. CASE UNCHANGED <<handler, high, replayed>>
    BY <1>1, <1>3, <2>1, SamePledges
  <2>2. CASE DropSubscription
    BY <1>1, <1>3, <2>2, DropKeepsPledges
  <2>. QED  BY <1>2, <2>1, <2>2 DEF serverVars
<1>5. \A m \in Seqs : sub = "live" /\ m <= committed =>
        Covered(m) \/ Arrives(m) \/ m = u
  <2>1. SUFFICES ASSUME NEW m \in Seqs, sub = "live", m <= committed
                 PROVE  Covered(m) \/ Arrives(m) \/ m = u
    OBVIOUS
  <2>2. Covered(m) \/ Arrives(m) \/ \E v \in Writers : unsent[v] = m
    BY <2>1 DEF Sending, LiveComplete
  <2>3. m # 0
    BY Bounds DEF Seqs
  <2>. QED  BY <1>1, <2>2, <2>3
<1>. HIDE DEF u
<1>6. \A k \in 1 .. n : \A m \in Seqs : m < <<u>>[k] => Covered(m) \/ Arrives(m)
  <2>1. SUFFICES ASSUME n = 1, NEW m \in Seqs, m < u
                 PROVE  Covered(m) \/ Arrives(m)
    <3>1. \A k \in 1 .. 1 : <<u>>[k] = u
      OBVIOUS
    <3>. QED  BY <3>1
  <2>2. sub = "live" /\ m <= committed /\ m # u
    BY <1>1, <1>3, <2>1, Bounds DEF Types, Seqs
  <2>. QED  BY <1>5, <2>2
<1>7. Streams(<<u>>, n)
  BY <1>1, <1>3, <1>4, <1>6 DEF Streams
<1>8. Order'
  BY <1>7, OrderStreams
<1>9. \A m : Covered(m) \/ Arrives(m) => Covered(m)' \/ Arrives(m)'
  BY <1>1, <1>3, DeliveryStays
<1>10. n = 1 => \A m : m = u => Arrives(m)'
  <2>1. \A k \in 1 .. n : \A m : m = <<u>>[k] => Arrives(m)'
    BY <1>3, PushSent
  <2>. QED  BY <2>1
<1>11. Replayed'
  BY <1>2, <1>9 DEF Sending, Replayed, serverVars, DropSubscription
<1>12. HeldBack'
  <2>1. SUFFICES ASSUME handler' = "replaying", NEW m \in Seqs, high' < m, m <= committed
                 PROVE  m \in pending' \cup unpublished
    BY <1>1 DEF HeldBack
  <2>2. /\ handler = "replaying" /\ high' = high /\ pending' = pending \cup {u}
    BY <1>2, <2>1 DEF serverVars, DropSubscription, Phases
  <2>3. m \in pending \cup unpublished \/ \E v \in Writers : unsent[v] = m
    BY <2>1, <2>2 DEF Sending, HeldBack
  <2>4. m # 0
    BY Bounds DEF Seqs
  <2>. QED  BY <1>1, <2>2, <2>3, <2>4 DEF u
<1>13. LiveComplete'
  <2>1. SUFFICES ASSUME sub' = "live", NEW m \in Seqs, m <= committed
                 PROVE  Covered(m)' \/ Arrives(m)'
    BY <1>1 DEF LiveComplete
  <2>2. sub = "live"
    BY <1>2, <2>1 DEF serverVars, DropSubscription
  <2>. QED  BY <1>3, <1>5, <1>9, <1>10, <2>1, <2>2
<1>. QED  BY <1>8, <1>11, <1>12, <1>13 DEF Sending

LEMMA OrderReadHighWater ==
    ASSUME Types, Order, Sending, ReadHighWater
    PROVE  Order' /\ Sending'
<1>1. /\ UNCHANGED <<wire, mode, cursor, target, buffer, batch>>
      /\ UNCHANGED <<committed, unpublished, sub, replayed, unsent>>
      /\ handler = "registered" /\ handler' = "replaying" /\ high' = committed
  BY DEF ReadHighWater, linkVars, clientVars, writerVars
<1>2. Pushes(<<>>, 0)
  BY <1>1, PushNothing DEF Types
<1>3. \A m \in 1 .. committed : Pledged(m) => Pledged(m)'
  BY <1>1 DEF Pledged
<1>4. Streams(<<>>, 0)
  BY <1>1, <1>2, <1>3 DEF Streams
<1>5. Order'
  BY <1>4, OrderStreams
<1>6. \A m : Covered(m) \/ Arrives(m) => Covered(m)' \/ Arrives(m)'
  BY <1>1, <1>2, DeliveryStays
<1>7. Replayed' /\ LiveComplete'
  BY <1>1, <1>6 DEF Sending, Replayed, LiveComplete
<1>8. HeldBack'
  BY <1>1, Bounds DEF HeldBack, Types, Seqs
<1>. QED  BY <1>5, <1>7, <1>8 DEF Sending

LEMMA OrderReplayBatch ==
    ASSUME Types, Phases, OneReply, Order, Sending, ReplayBatch
    PROVE  Order' /\ Sending'
<1>1. /\ UNCHANGED <<mode, cursor, target, buffer, batch>>
      /\ UNCHANGED <<committed, unpublished, unsent, high>>
      /\ handler = "replaying" /\ replayed \in Nat
  BY DEF ReplayBatch, clientVars, writerVars, Types
<1>2. PICK n \in Nat \ {0} :
        /\ replayed + n <= high
        /\ \A k \in 1 .. n : Page[k] = replayed + k
        /\ Pushes(Page, n)
        /\ \/ replayed' = replayed + n /\ UNCHANGED <<sub, pending, handler, conn>>
           \/ conn' = "closing" /\ DropSubscription /\ UNCHANGED replayed
  BY ReplayBatchSends
<1>3. \A m : Pledged(m) => Pledged(m)'
  <2>1. CASE replayed' = replayed + n /\ UNCHANGED <<sub, pending, handler, conn>>
    BY <1>1, <1>2, <2>1, SamePledges
  <2>2. CASE DropSubscription
    BY <1>1, <1>2, <2>2, DropKeepsPledges
  <2>. QED  BY <1>2, <2>1, <2>2
<1>4. \A m \in Seqs : m <= replayed => Covered(m) \/ Arrives(m)
  BY <1>1 DEF Sending, Replayed
<1>5. \A m \in Seqs : replayed < m => m = replayed + (m - replayed) /\ m - replayed \in Nat \ {0}
  BY <1>1, Bounds DEF Seqs
<1>6. ASSUME NEW k \in 1 .. n, NEW m \in Seqs, m < Page[k]
      PROVE  Covered(m) \/ Arrives(m) \/ \E j \in 1 .. n : j < k /\ Page[j] = m
  <2>1. CASE m <= replayed
    BY <1>4, <2>1
  <2>2. CASE replayed < m
    <3>1. m < replayed + k
      BY <1>2, <1>6
    <3>2. m - replayed \in 1 .. n /\ m - replayed < k
      BY <1>1, <1>2, <1>5, <2>2, <3>1, Bounds DEF Seqs
    <3>3. Page[m - replayed] = m
      BY <1>2, <1>5, <2>2, <3>2
    <3>. QED  BY <3>2, <3>3
  <2>. QED  BY <1>1, <2>1, <2>2, Bounds DEF Seqs
<1>7. Streams(Page, n)
  BY <1>1, <1>2, <1>3, <1>6 DEF Streams
<1>8. Order'
  BY <1>7, OrderStreams
<1>9. \A m : Covered(m) \/ Arrives(m) => Covered(m)' \/ Arrives(m)'
  BY <1>1, <1>2, DeliveryStays
<1>10. CASE conn' = "closing" /\ DropSubscription
  BY <1>8, <1>10 DEF Sending, Replayed, HeldBack, LiveComplete, DropSubscription
<1>11. CASE replayed' = replayed + n /\ UNCHANGED <<sub, pending, handler, conn>>
  <2>1. \A k \in 1 .. n : \A m : m = Page[k] => Arrives(m)'
    BY <1>2, PushSent
  <2>2. ASSUME NEW m \in Seqs, m <= replayed'
        PROVE  Covered(m)' \/ Arrives(m)'
    <3>1. CASE m <= replayed
      BY <1>4, <1>9, <3>1
    <3>2. CASE replayed < m
      <4>1. m - replayed \in 1 .. n
        BY <1>1, <1>11, <1>5, <2>2, <3>2, Bounds DEF Seqs
      <4>2. Page[m - replayed] = m
        BY <1>2, <1>5, <3>2, <4>1
      <4>. QED  BY <2>1, <4>1, <4>2
    <3>. QED  BY <1>1, <3>1, <3>2, Bounds DEF Seqs
  <2>3. Replayed'
    BY <2>2 DEF Replayed
  <2>4. HeldBack'
    BY <1>1, <1>11 DEF Sending, HeldBack
  <2>5. LiveComplete'
    BY <1>1, <1>11 DEF Phases, LiveComplete
  <2>. QED  BY <1>8, <2>3, <2>4, <2>5 DEF Sending
<1>. QED  BY <1>2, <1>10, <1>11

LEMMA OrderFinishReplay ==
    ASSUME Types, Lock, Phases, OneReply, Order, Sending, FinishReplay
    PROVE  Order' /\ Sending'
<1>1. /\ UNCHANGED <<mode, cursor, target, buffer, batch>>
      /\ UNCHANGED <<committed, unpublished, unsent, high>>
      /\ handler = "replaying" /\ replayed \in Nat /\ high \in Nat /\ high <= replayed
  BY DEF FinishReplay, clientVars, writerVars, Types
<1>2. PICK ns, n :
        /\ n \in Nat
        /\ HeldBackEvents(ns, n)
        /\ Pushes(ns, n)
        /\ \/ /\ sub' = "live" /\ pending' = {} /\ handler' = "replying"
              /\ replayed <= replayed'
              /\ replayed' = replayed \/ \E k \in 1 .. n : replayed' = ns[k]
              /\ \A m \in pending : m > replayed =>
                   m <= replayed' /\ \E k \in 1 .. n : ns[k] = m
              /\ UNCHANGED conn
           \/ conn' = "closing" /\ DropSubscription /\ UNCHANGED replayed
  BY FinishReplaySends
<1>3. \A k \in 1 .. n : ns[k] \in pending /\ ns[k] > replayed /\ ns[k] \in 1 .. committed
  BY <1>2 DEF HeldBackEvents, Types
<1>4. \A m \in 1 .. committed : Pledged(m) => Pledged(m)'
  <2>1. CASE sub' = "live" /\ handler' = "replying" /\ replayed <= replayed'
    <3>1. replayed' \in Nat
      BY <1>1, <1>2, <1>3, <2>1 DEF DropSubscription
    <3>2. \A m : Pledged(m) => mode' = "activating" /\ m <= high
      BY <1>1 DEF Pledged
    <3>3. \A m \in 1 .. committed : m <= high => m <= replayed'
      BY <1>1, <2>1, <3>1
    <3>. QED  BY <2>1, <3>2, <3>3 DEF Pledged
  <2>2. CASE DropSubscription
    BY <1>1, <1>2, <2>2, DropKeepsPledges
  <2>. QED  BY <1>2, <2>1, <2>2
<1>5. \A m \in Seqs : m <= replayed => Covered(m) \/ Arrives(m)
  BY <1>1 DEF Sending, Replayed
<1>6. \A m \in Seqs : replayed < m /\ m <= committed =>
        m \in pending \/ m \in unpublished \/ \E w \in Writers : unsent[w] = m
  BY <1>1, Bounds DEF Sending, HeldBack, Seqs
<1>7. ASSUME NEW k \in 1 .. n, NEW m \in Seqs, m < ns[k]
      PROVE  Covered(m) \/ Arrives(m) \/ \E j \in 1 .. n : j < k /\ ns[j] = m
  <2>1. CASE m <= replayed
    BY <1>5, <2>1
  <2>2. CASE replayed < m
    <3>1. m \in Nat /\ m <= committed /\ committed \in Nat
      BY <1>3, <1>7, Bounds DEF Seqs, Types
    <3>2. ~ \E w \in Writers : unsent[w] = m
      <4>1. SUFFICES ASSUME NEW w \in Writers, unsent[w] = m
                     PROVE  FALSE
        OBVIOUS
      <4>2. unsent[w] # 0
        BY <4>1, Bounds DEF Seqs
      <4>3. ns[k] < m
        BY <1>3, <4>1, <4>2 DEF Lock
      <4>. QED  BY <1>3, <1>7, <3>1, <4>3
    <3>3. m \in pending \/ m \in unpublished
      BY <1>6, <2>2, <3>1, <3>2
    <3>. QED  BY <1>2, <1>7, <2>2, <3>3 DEF HeldBackEvents, Covered
  <2>. QED  BY <1>1, <2>1, <2>2, Bounds DEF Seqs
<1>8. Streams(ns, n)
  BY <1>1, <1>2, <1>4, <1>7 DEF Streams
<1>9. Order'
  BY <1>8, OrderStreams
<1>10. \A m : Covered(m) \/ Arrives(m) => Covered(m)' \/ Arrives(m)'
  BY <1>1, <1>2, DeliveryStays
<1>11. CASE conn' = "closing" /\ DropSubscription
  BY <1>9, <1>11 DEF Sending, Replayed, HeldBack, LiveComplete, DropSubscription
<1>12. CASE /\ sub' = "live" /\ pending' = {} /\ handler' = "replying"
            /\ replayed <= replayed'
            /\ replayed' = replayed \/ \E k \in 1 .. n : replayed' = ns[k]
            /\ \A m \in pending : m > replayed =>
                 m <= replayed' /\ \E k \in 1 .. n : ns[k] = m
  <2>1. \A k \in 1 .. n : \A m : m = ns[k] => Arrives(m)'
    BY <1>2, PushSent
  <2>2. \A m \in Seqs : m \in unpublished => Covered(m)'
    BY <1>1 DEF Covered
  <2>3. \A m \in Seqs : m <= replayed => Covered(m)' \/ Arrives(m)'
    BY <1>5, <1>10
  <2>4. \A m \in pending : m > replayed => Arrives(m)'
    BY <1>12, <2>1
  <2>5. ASSUME NEW m \in Seqs, m <= committed
        PROVE  Covered(m)' \/ Arrives(m)' \/ \E w \in Writers : unsent'[w] = m
    <3>1. m <= replayed \/ m > replayed
      BY <1>1, Bounds DEF Seqs
    <3>. QED  BY <1>1, <1>6, <2>2, <2>3, <2>4, <2>5, <3>1
  <2>6. ASSUME NEW m \in Seqs, m <= replayed'
        PROVE  Covered(m)' \/ Arrives(m)'
    <3>1. CASE m <= replayed
      BY <2>3, <3>1
    <3>2. CASE \E k \in 1 .. n : replayed' = ns[k]
      <4>1. PICK k \in 1 .. n : replayed' = ns[k]
        BY <3>2
      <4>2. m = ns[k] \/ m < ns[k]
        BY <1>3, <2>6, <4>1, Bounds DEF Seqs
      <4>. QED  BY <1>7, <1>10, <2>1, <4>2
    <3>. QED  BY <1>12, <2>6, <3>1, <3>2
  <2>7. Replayed' /\ HeldBack' /\ LiveComplete'
    BY <1>1, <1>12, <2>5, <2>6 DEF Replayed, HeldBack, LiveComplete
  <2>. QED  BY <1>9, <2>7 DEF Sending
<1>. QED  BY <1>2, <1>11, <1>12

LEMMA OrderSendReply ==
    ASSUME Types, Phases, OneReply, Order, Sending, SendReply
    PROVE  Order' /\ Sending'
<1>1. /\ UNCHANGED <<mode, cursor, target, buffer, batch>>
      /\ UNCHANGED <<committed, unpublished, unsent, sub, pending, high, replayed>>
      /\ handler = "replying" /\ handler' = "none" /\ NoReply
  BY DEF SendReply, clientVars, writerVars, OneReply
<1>2. AppendsReply
  BY SendReplySends
<1>3. \A i \in DOMAIN wire :
        /\ i \in Nat /\ i <= Len(wire) /\ Len(wire) \in Nat
        /\ i \in DOMAIN wire' /\ wire'[i] = wire[i]
  BY <1>2 DEF AppendsReply
<1>4. \A m : Covered(m) => Covered(m)'
  BY <1>1, CoveredStays
<1>5. /\ \A i \in DOMAIN wire : \A m : Sent(m, i) => Sent(m, i)'
      /\ \A m : Arrives(m) => Arrives(m)'
  BY <1>3 DEF Sent, Arrives, IsEvent
<1>6. \A m : \A i : Arrives(m) /\ i = Len(wire) + 1 => Sent(m, i)'
  BY <1>3 DEF Sent, Arrives, IsEvent
<1>7. \A i \in DOMAIN wire' : IsReply(i)' => i = Len(wire) + 1 /\ wire'[i].seq = replayed
  BY <1>1, <1>2 DEF AppendsReply, NoReply, IsReply
<1>8. \A m : Pledged(m) => Pledged(m)'
  BY <1>1, <1>7 DEF Pledged
<1>9. WireOrder'
  <2>1. \A i \in DOMAIN wire' :
          wire'[i].kind = "event" => i \in DOMAIN wire /\ wire'[i] = wire[i]
    BY <1>2 DEF AppendsReply
  <2>. QED  BY <1>1, <1>4, <1>5, <1>8, <2>1 DEF Order, WireOrder
<1>10. BufferOrder' /\ BatchOrder'
  BY <1>1, <1>4, <1>8 DEF Order, BufferOrder, BatchOrder
<1>11. ReplyOrder'
  <2>1. \A m \in Seqs : \A i : m <= replayed /\ i = Len(wire) + 1 => Covered(m)' \/ Sent(m, i)'
    BY <1>1, <1>4, <1>6 DEF Sending, Replayed
  <2>. QED  BY <1>7, <2>1 DEF ReplyOrder
<1>12. TargetOrder'
  BY <1>1, <1>4 DEF Order, TargetOrder
<1>13. Replayed' /\ HeldBack' /\ LiveComplete'
  BY <1>1, <1>4, <1>5 DEF Sending, Replayed, HeldBack, LiveComplete
<1>. QED  BY <1>9, <1>10, <1>11, <1>12, <1>13 DEF Order, Sending

-----------------------------------------------------------------------------
(* The order of the stream, over the client's steps *)

LEMMA PopSent ==
    ASSUME Pops
    PROVE  /\ \A i \in DOMAIN wire' : \A m :
                Sent(m, i + 1) => Sent(m, i)' \/ IsEvent(1, m)
           /\ \A m : Arrives(m) => Arrives(m)' \/ IsEvent(1, m)
           /\ \A m : ~Sent(m, 1)
<1>1. ASSUME NEW i \in DOMAIN wire', NEW m, Sent(m, i + 1), ~IsEvent(1, m)
      PROVE  Sent(m, i)'
  <2>1. PICK j \in DOMAIN wire : j < i + 1 /\ IsEvent(j, m)
    BY <1>1 DEF Sent
  <2>2. /\ i \in Nat \ {0} /\ j \in Nat \ {0} /\ j # 1
        /\ j - 1 \in DOMAIN wire' /\ wire'[j - 1] = wire[j]
    BY <1>1, <2>1 DEF Pops
  <2>3. j - 1 < i /\ IsEvent(j - 1, m)'
    BY <2>1, <2>2 DEF IsEvent
  <2>. QED  BY <2>2, <2>3 DEF Sent
<1>2. ASSUME NEW m, Arrives(m), ~IsEvent(1, m)
      PROVE  Arrives(m)'
  <2>1. PICK j \in DOMAIN wire : IsEvent(j, m)
    BY <1>2 DEF Arrives
  <2>2. j # 1 /\ j - 1 \in DOMAIN wire' /\ wire'[j - 1] = wire[j]
    BY <1>2, <2>1 DEF Pops
  <2>. QED  BY <2>1, <2>2 DEF Arrives, IsEvent
<1>3. \A m : ~Sent(m, 1)
  BY DEF Sent, Pops
<1>. QED  BY <1>1, <1>2, <1>3

\* The server and the log do not move when the client does something on its own.
LEMMA ClientAlone ==
    ASSUME Types, Order, Sending,
           UNCHANGED <<writerVars, serverVars, wire, mode, target>>,
           \A m \in Seqs : Covered(m) => Covered(m)'
    PROVE  WireOrder' /\ ReplyOrder' /\ TargetOrder' /\ Sending'
<1>1. /\ UNCHANGED <<committed, unsent, unpublished>>
      /\ UNCHANGED <<sub, pending, handler, high, replayed>>
  BY DEF writerVars, serverVars
<1>2. /\ \A m, i : Sent(m, i) => Sent(m, i)'
      /\ \A m : Arrives(m) => Arrives(m)'
      /\ \A m : Pledged(m) => Pledged(m)'
  BY <1>1 DEF Sent, Arrives, Pledged, IsEvent, IsReply
<1>3. WireOrder'
  BY <1>2 DEF Order, WireOrder
<1>4. ReplyOrder'
  BY <1>2 DEF Order, ReplyOrder, IsReply
<1>5. TargetOrder'
  BY DEF Order, TargetOrder
<1>6. Replayed' /\ HeldBack' /\ LiveComplete'
  BY <1>1, <1>2 DEF Sending, Replayed, HeldBack, LiveComplete
<1>. QED  BY <1>3, <1>4, <1>5, <1>6 DEF Sending

\* Event n is delivered, and only given up ones are between the cursor and it.
Delivers(n) ==
    /\ n \in 1 .. committed /\ cursor < n
    /\ DeliverNow(n)
    /\ UNCHANGED <<committed, unpublished>>
    /\ \A m \in Seqs : cursor < m /\ m < n => m \in unpublished

LEMMA LastGivenType ==
    ASSUME Types
    PROVE  LastGiven \in Nat
<1>1. delivered \in Seq(Nat)
  BY DEF Types
<1>2. delivered # <<>> => Len(delivered) \in 1 .. Len(delivered)
  BY <1>1, EmptySeq
<1>3. delivered # <<>> => delivered[Len(delivered)] \in Nat
  BY <1>1, <1>2, ElementOfSeq
<1>. QED  BY <1>3 DEF LastGiven

LEMMA DeliverGiven ==
    ASSUME Types, Given, NEW n, Delivers(n)
    PROVE  Given'
<1>1. /\ delivered' = Append(delivered, n) /\ cursor' = n
      /\ delivered \in Seq(Nat) /\ n \in Nat /\ cursor \in Nat
      /\ unpublished' = unpublished
  BY DEF Delivers, DeliverNow, Types
<1>2. /\ delivered' \in Seq(Nat) /\ delivered' # <<>>
      /\ Len(delivered') = Len(delivered) + 1
      /\ \A i \in 1 .. Len(delivered) : delivered'[i] = delivered[i]
      /\ delivered'[Len(delivered) + 1] = n
  BY <1>1, AppendProperties
<1>3. /\ DOMAIN delivered = 1 .. Len(delivered) /\ Len(delivered) \in Nat
      /\ DOMAIN delivered' = 1 .. (Len(delivered) + 1)
  BY <1>1, <1>2, LenProperties
<1>4. LastGiven' = n
  BY <1>2 DEF LastGiven
<1>5. ASSUME NEW m \in Seqs, m <= n
      PROVE  m \in unpublished \/ \E i \in DOMAIN delivered' : delivered'[i] = m
  <2>1. CASE m = n
    <3>1. Len(delivered) + 1 \in DOMAIN delivered'
      BY <1>3
    <3>. QED  BY <1>2, <2>1, <3>1
  <2>2. CASE m <= cursor
    <3>1. m \in unpublished \/ \E i \in DOMAIN delivered : delivered[i] = m
      BY <2>2 DEF Given
    <3>. QED  BY <1>2, <1>3, <3>1
  <2>3. CASE cursor < m /\ m < n
    BY <2>3 DEF Delivers
  <2>. QED  BY <1>1, <1>5, <2>1, <2>2, <2>3, Bounds DEF Seqs
<1>6. \A m \in Seqs : ~(n < m /\ m <= n)
  BY <1>1, Bounds DEF Seqs
<1>. QED  BY <1>1, <1>4, <1>5, <1>6 DEF Given

LEMMA GivenStays ==
    ASSUME Given, UNCHANGED <<cursor, delivered>>, unpublished \subseteq unpublished'
    PROVE  Given'
  BY DEF Given, LastGiven

\* An event that a live client receives is the next one.
LEMMA LiveDelivers ==
    ASSUME Types, Phases, Order, ReceiveEvent
    PROVE  UNCHANGED <<cursor, delivered>> \/ \E n : Delivers(n)
<1>1. UNCHANGED <<committed, unpublished>> /\ wire # <<>> /\ wire' = Tail(wire)
  BY DEF ReceiveEvent, writerVars
<1>2. Pops
  BY <1>1, TailPops DEF Types
<1>3. PICK n \in 1 .. committed : n = Head(wire).seq
  BY <1>1, FirstMessage DEF ReceiveEvent
<1>4. 1 \in DOMAIN wire /\ wire[1].kind = "event" /\ wire[1].seq = n
  BY <1>2, <1>3 DEF Pops, ReceiveEvent
<1>5. CASE mode = "live" /\ ~(n <= cursor) /\ DeliverNow(n)
  <2>1. \A m \in Seqs : m < n => m <= cursor \/ m \in unpublished
    <3>1. \A m \in Seqs : m < n => Covered(m) \/ Pledged(m)
      BY <1>2, <1>4, <1>5, PopSent DEF Order, WireOrder
    <3>. QED  BY <1>5, <3>1 DEF Covered, Pledged, Phases
  <2>2. n \in Nat /\ cursor \in Nat
    BY DEF Types
  <2>3. \A m \in Seqs : cursor < m /\ m < n => m \in unpublished
    BY <2>1, <2>2, Bounds DEF Seqs
  <2>. QED  BY <1>1, <1>5, <2>2, <2>3 DEF Delivers
<1>. QED  BY <1>3, <1>5 DEF ReceiveEvent, Seen

LEMMA OrderReceiveEvent ==
    ASSUME Types, Phases, Order, Sending, Given, ReceiveEvent
    PROVE  Order' /\ Sending' /\ Given'
<1>1. /\ UNCHANGED <<mode, target, batch, committed, unsent, unpublished>>
      /\ UNCHANGED <<sub, pending, handler, high, replayed>>
      /\ wire # <<>> /\ wire' = Tail(wire)
  BY DEF ReceiveEvent, writerVars, serverVars
<1>2. Pops
  BY <1>1, TailPops DEF Types
<1>3. PICK n \in 1 .. committed : n = Head(wire).seq
  BY <1>1, FirstMessage DEF ReceiveEvent
<1>4. 1 \in DOMAIN wire /\ wire[1].kind = "event" /\ wire[1].seq = n
  BY <1>2, <1>3 DEF Pops, ReceiveEvent
<1>5. \A m : IsEvent(1, m) => m = n
  BY <1>4 DEF IsEvent
<1>6. \/ (mode = "fenced" \/ n <= cursor) /\ UNCHANGED <<cursor, buffer, delivered>>
      \/ /\ mode \in {"activating", "draining"} /\ ~(n <= cursor)
         /\ buffer' = buffer \cup {n} /\ UNCHANGED <<cursor, delivered>>
      \/ mode = "live" /\ ~(n <= cursor) /\ DeliverNow(n) /\ UNCHANGED buffer
  BY <1>3 DEF ReceiveEvent, Seen
<1>7. n \in Nat /\ cursor \in Nat /\ cursor <= cursor' /\ cursor' \in Nat
  BY <1>6 DEF DeliverNow, Types
<1>8. \A m \in 0 .. committed : Covered(m) => Covered(m)'
  BY <1>1, <1>6, <1>7 DEF Covered, Types
<1>9. mode # "fenced" => Covered(n)'
  BY <1>6, <1>7 DEF Covered, DeliverNow
<1>10. \A m : Pledged(m) => Pledged(m)'
  <2>1. \A i \in DOMAIN wire' :
          IsReply(i)' => i + 1 \in DOMAIN wire /\ IsReply(i + 1) /\ wire'[i] = wire[i + 1]
    BY <1>2, PopReplies DEF Pops
  <2>. QED  BY <1>1, <2>1 DEF Pledged
<1>11. mode # "fenced" =>
         /\ \A m \in 0 .. committed : \A i \in DOMAIN wire' :
              Covered(m) \/ Sent(m, i + 1) => Covered(m)' \/ Sent(m, i)'
         /\ \A m \in 0 .. committed : Covered(m) \/ Arrives(m) => Covered(m)' \/ Arrives(m)'
  BY <1>2, <1>5, <1>8, <1>9, PopSent
<1>12. \A c \in 0 .. committed : \A m \in Seqs : m <= c => m \in 0 .. committed
  BY Bounds DEF Seqs, Types
<1>13. \A i \in DOMAIN wire' :
         i + 1 \in DOMAIN wire /\ wire'[i] = wire[i + 1] /\ wire[i + 1].seq \in 0 .. committed
  <2>1. \A i \in DOMAIN wire : wire[i] \in Message /\ wire[i].seq <= committed
    BY LenProperties DEF Types
  <2>2. \A i \in DOMAIN wire : wire[i].seq \in 0 .. committed
    BY <2>1, Bounds DEF Message, Seqs, Types
  <2>. QED  BY <1>2, <2>2 DEF Pops
<1>14. \A m \in Seqs : mode # "fenced" /\ m < n => Covered(m) \/ Pledged(m)
  BY <1>2, <1>4, PopSent DEF Order, WireOrder
<1>15. WireOrder'
  <2>1. SUFFICES ASSUME mode # "fenced", NEW i \in DOMAIN wire', wire'[i].kind = "event",
                        NEW m \in Seqs, m < wire'[i].seq
                 PROVE  Covered(m)' \/ Sent(m, i)' \/ Pledged(m)'
    BY <1>1 DEF WireOrder
  <2>2. Covered(m) \/ Sent(m, i + 1) \/ Pledged(m)
    BY <1>13, <2>1 DEF Order, WireOrder
  <2>3. m \in 0 .. committed
    BY <1>12, <1>13, <2>1, Bounds DEF Seqs, Types
  <2>. QED  BY <1>10, <1>11, <2>1, <2>2, <2>3
<1>16. BufferOrder'
  <2>1. SUFFICES ASSUME NEW x \in buffer', NEW m \in Seqs, m < x
                 PROVE  Covered(m)' \/ Pledged(m)'
    BY DEF BufferOrder
  <2>2. x \in 0 .. committed
    BY <1>6, <2>1 DEF Types
  <2>3. m \in 0 .. committed
    BY <1>12, <2>1, <2>2, Bounds DEF Seqs
  <2>4. Covered(m) \/ Pledged(m)
    <3>1. CASE x \in buffer
      BY <2>1, <3>1 DEF Order, BufferOrder
    <3>2. CASE x = n /\ mode # "fenced"
      BY <1>14, <2>1, <3>2
    <3>. QED  BY <1>6, <2>1, <3>1, <3>2
  <2>. QED  BY <1>8, <1>10, <2>3, <2>4
<1>17. BatchOrder'
  BY <1>1, <1>7, Bounds DEF Order, BatchOrder, Seqs
<1>18. ReplyOrder'
  <2>1. SUFFICES ASSUME mode = "activating", NEW i \in DOMAIN wire', IsReply(i)',
                        NEW m \in Seqs, m <= wire'[i].seq
                 PROVE  Covered(m)' \/ Sent(m, i)'
    BY <1>1 DEF ReplyOrder
  <2>2. m \in 0 .. committed
    BY <1>12, <1>13, <2>1
  <2>3. Covered(m) \/ Sent(m, i + 1)
    BY <1>13, <2>1 DEF Order, ReplyOrder, IsReply
  <2>. QED  BY <1>11, <2>1, <2>2, <2>3
<1>19. TargetOrder'
  <2>1. target \in 0 .. committed
    BY DEF Types
  <2>. QED  BY <1>1, <1>8, <1>12, <2>1 DEF Order, TargetOrder
<1>20. mode = "fenced" => handler = "none" /\ sub = "none"
  BY DEF Phases
<1>21. Replayed'
  <2>1. replayed \in 0 .. committed
    BY DEF Types
  <2>. QED  BY <1>1, <1>11, <1>12, <1>20, <2>1 DEF Sending, Replayed
<1>22. HeldBack'
  BY <1>1 DEF Sending, HeldBack
<1>23. LiveComplete'
  <2>1. committed \in 0 .. committed
    BY DEF Types
  <2>. QED  BY <1>1, <1>11, <1>12, <1>20, <2>1 DEF Sending, LiveComplete
<1>24. Given'
  BY <1>1, GivenStays, LiveDelivers, DeliverGiven
<1>. QED  BY <1>15, <1>16, <1>17, <1>18, <1>19, <1>21, <1>22, <1>23, <1>24 DEF Order, Sending

LEMMA OrderReceiveReply ==
    ASSUME Types, Phases, OneReply, Order, Sending, Given, ReceiveReply
    PROVE  Order' /\ Sending' /\ Given'
<1>1. /\ UNCHANGED <<cursor, buffer, batch, delivered, committed, unsent, unpublished>>
      /\ UNCHANGED <<sub, pending, handler, high, replayed>>
      /\ wire # <<>> /\ wire' = Tail(wire)
  BY DEF ReceiveReply, writerVars, serverVars
<1>2. Pops
  BY <1>1, TailPops DEF Types
<1>3. 1 \in DOMAIN wire /\ IsReply(1) /\ Head(wire) = wire[1]
  BY <1>2 DEF Pops, ReceiveReply, IsReply
<1>4. \A m : ~IsEvent(1, m)
  BY <1>3 DEF IsEvent, IsReply
<1>5. /\ \A m : Covered(m) => Covered(m)'
      /\ \A m : Arrives(m) => Arrives(m)'
      /\ \A m : \A i \in DOMAIN wire' : Sent(m, i + 1) => Sent(m, i)'
  BY <1>1, <1>2, <1>4, PopSent, CoveredStays
<1>6. handler = "none" /\ mode \notin {"draining", "fenced"}
  BY <1>3 DEF OneReply, NoReply
<1>7. \A i \in DOMAIN wire : IsReply(i) => i = 1
  BY <1>3 DEF OneReply
<1>8. \A i \in DOMAIN wire' : ~IsReply(i)' /\ i + 1 \in DOMAIN wire /\ wire'[i] = wire[i + 1]
  <2>1. ASSUME NEW i \in DOMAIN wire', IsReply(i)'
        PROVE  FALSE
    BY <1>2, <1>7, <2>1, PopReplies DEF Pops
  <2>. QED  BY <1>2, <2>1 DEF Pops
<1>9. \A m \in Seqs : Pledged(m) => Covered(m)
  <2>1. SUFFICES ASSUME NEW m \in Seqs, Pledged(m)
                 PROVE  Covered(m)
    OBVIOUS
  <2>2. mode = "activating" /\ m <= wire[1].seq
    BY <1>3, <1>6, <2>1 DEF Pledged
  <2>3. Covered(m) \/ Sent(m, 1)
    BY <1>3, <2>2 DEF Order, ReplyOrder
  <2>. QED  BY <1>2, <2>3, PopSent
<1>10. \/ mode = "activating" /\ mode' = "draining" /\ target' = wire[1].seq
       \/ mode # "activating" /\ UNCHANGED <<mode, target>>
  BY <1>3 DEF ReceiveReply
<1>11. WireOrder'
  <2>1. SUFFICES ASSUME NEW i \in DOMAIN wire', wire'[i].kind = "event",
                        NEW m \in Seqs, m < wire'[i].seq
                 PROVE  Covered(m)' \/ Sent(m, i)'
    BY DEF WireOrder
  <2>2. Covered(m) \/ Sent(m, i + 1) \/ Pledged(m)
    BY <1>6, <1>8, <2>1 DEF Order, WireOrder
  <2>. QED  BY <1>5, <1>9, <2>2
<1>12. BufferOrder' /\ BatchOrder'
  BY <1>1, <1>5, <1>9 DEF Order, BufferOrder, BatchOrder
<1>13. ReplyOrder'
  BY <1>8 DEF ReplyOrder
<1>14. TargetOrder'
  <2>1. \A m \in Seqs : mode = "activating" /\ m <= wire[1].seq => Covered(m)
    BY <1>2, <1>3, PopSent DEF Order, ReplyOrder
  <2>. QED  BY <1>5, <1>6, <1>10, <2>1 DEF TargetOrder
<1>15. Replayed' /\ HeldBack' /\ LiveComplete'
  BY <1>1, <1>5 DEF Sending, Replayed, HeldBack, LiveComplete
<1>16. Given'
  BY <1>1, GivenStays
<1>. QED  BY <1>11, <1>12, <1>13, <1>14, <1>15, <1>16 DEF Order, Sending

LEMMA OrderTakeBatch ==
    ASSUME Types, Phases, Order, Sending, Given, TakeBatch
    PROVE  Order' /\ Sending' /\ Given'
<1>1. /\ mode = "draining" /\ batch = {} /\ batch' = buffer /\ buffer' = {}
      /\ UNCHANGED <<mode, cursor, target, delivered, writerVars, serverVars, wire>>
      /\ UNCHANGED unpublished
  BY DEF TakeBatch, linkVars, writerVars
<1>2. \A m : Covered(m) => Covered(m)'
  BY <1>1 DEF Covered
<1>3. WireOrder' /\ ReplyOrder' /\ TargetOrder' /\ Sending'
  BY <1>1, <1>2, ClientAlone
<1>4. BufferOrder'
  BY <1>1 DEF BufferOrder
<1>5. BatchOrder'
  <2>1. \A m : ~Pledged(m)
    BY <1>1 DEF Pledged
  <2>. QED  BY <1>1, <2>1 DEF Order, BufferOrder, BatchOrder, Covered
<1>6. Given'
  BY <1>1, GivenStays
<1>. QED  BY <1>3, <1>4, <1>5, <1>6 DEF Order

\* The least event of the batch is the next one, or one delivered already.
LEMMA BatchDelivers ==
    ASSUME Types, Order, DeliverBatched
    PROVE  \E n \in batch :
             /\ batch' = batch \ {n}
             /\ \/ n <= cursor /\ UNCHANGED <<cursor, delivered>>
                \/ Delivers(n)
<1>1. PICK n \in batch :
        /\ \A m \in batch : n <= m
        /\ batch' = batch \ {n}
        /\ IF n <= cursor THEN UNCHANGED <<cursor, delivered>> ELSE DeliverNow(n)
  BY DEF DeliverBatched, Seen
<1>2. n \in 1 .. committed /\ n \in Nat /\ cursor \in Nat
  BY DEF Types
<1>3. UNCHANGED <<committed, unpublished>>
  BY DEF DeliverBatched, writerVars
<1>4. ASSUME NEW m \in Seqs, cursor < m, m < n
      PROVE  m \in unpublished
  <2>1. m \notin batch /\ ~(m <= cursor)
    BY <1>1, <1>2, <1>4, Bounds DEF Seqs
  <2>. QED  BY <1>4, <2>1 DEF Order, BatchOrder
<1>5. ~(n <= cursor) => Delivers(n)
  BY <1>1, <1>2, <1>3, <1>4 DEF Delivers
<1>. QED  BY <1>1, <1>5

LEMMA OrderDeliverBatched ==
    ASSUME Types, Phases, Order, Sending, Given, DeliverBatched
    PROVE  Order' /\ Sending' /\ Given'
<1>1. /\ mode = "draining"
      /\ UNCHANGED <<mode, target, buffer, writerVars, serverVars, wire, unpublished>>
  BY DEF DeliverBatched, linkVars, writerVars
<1>2. PICK n \in batch :
        /\ batch' = batch \ {n}
        /\ \/ n <= cursor /\ UNCHANGED <<cursor, delivered>>
           \/ Delivers(n)
  BY BatchDelivers
<1>3. n \in 1 .. committed /\ n \in Nat /\ cursor \in Nat
  BY <1>2 DEF Types
<1>4. n <= cursor' /\ cursor <= cursor' /\ cursor' \in Nat
  BY <1>2, <1>3 DEF Delivers, DeliverNow
<1>5. \A m \in Seqs : Covered(m) => Covered(m)'
  BY <1>1, <1>2, <1>3, <1>4, Bounds DEF Covered, Seqs
<1>6. \A m : ~Pledged(m)
  BY <1>1 DEF Pledged
<1>7. WireOrder' /\ ReplyOrder' /\ TargetOrder' /\ Sending'
  BY <1>1, <1>5, ClientAlone
<1>8. BufferOrder'
  BY <1>1, <1>5, <1>6 DEF Order, BufferOrder
<1>9. BatchOrder'
  <2>1. SUFFICES ASSUME NEW x \in batch, NEW m \in Seqs, m < x
                 PROVE  m <= cursor' \/ m \in unpublished \cup (batch \ {n})
    BY <1>1, <1>2 DEF BatchOrder
  <2>2. m <= cursor \/ m \in unpublished \cup batch
    BY <2>1 DEF Order, BatchOrder
  <2>. QED  BY <1>3, <1>4, <2>2, Bounds DEF Seqs
<1>10. Given'
  BY <1>1, <1>2, GivenStays, DeliverGiven
<1>. QED  BY <1>7, <1>8, <1>9, <1>10 DEF Order

LEMMA OrderFinishActivation ==
    ASSUME Types, Phases, Order, Sending, Given, FinishActivation
    PROVE  Order' /\ Sending' /\ Given'
<1>1. /\ mode = "draining" /\ mode' = "live" /\ buffer = {} /\ batch = {}
      /\ cursor' = Max({cursor, target})
      /\ UNCHANGED <<target, buffer, batch, delivered, wire, unpublished, committed, unsent>>
      /\ UNCHANGED <<sub, pending, handler, high, replayed>>
  BY DEF FinishActivation, Drained, linkVars, writerVars, serverVars
<1>2. cursor \in Nat /\ target \in Nat
  BY DEF Types
<1>3. cursor <= cursor' /\ cursor' \in Nat /\ (cursor' = cursor \/ cursor' = target)
  BY <1>1, <1>2, MaxOfTwo
<1>4. \A m \in Seqs : Covered(m) => Covered(m)'
  BY <1>1, <1>2, <1>3, Bounds DEF Covered, Seqs
<1>5. /\ \A m, i : Sent(m, i) => Sent(m, i)'
      /\ \A m : Arrives(m) => Arrives(m)'
      /\ \A m : ~Pledged(m)
  BY <1>1 DEF Sent, Arrives, Pledged, IsEvent
<1>6. WireOrder'
  BY <1>1, <1>4, <1>5 DEF Order, WireOrder
<1>7. BufferOrder' /\ BatchOrder' /\ ReplyOrder' /\ TargetOrder'
  BY <1>1 DEF BufferOrder, BatchOrder, ReplyOrder, TargetOrder
<1>8. Replayed' /\ HeldBack' /\ LiveComplete'
  BY <1>1, <1>4, <1>5 DEF Sending, Replayed, HeldBack, LiveComplete
<1>9. \A m \in Seqs : cursor < m /\ m <= cursor' => m \in unpublished
  <2>1. SUFFICES ASSUME NEW m \in Seqs, cursor < m, m <= cursor'
                 PROVE  m \in unpublished
    OBVIOUS
  <2>2. m <= target /\ ~(m <= cursor)
    BY <1>2, <1>3, <2>1, Bounds DEF Seqs
  <2>3. Covered(m)
    BY <1>1, <2>2 DEF Order, TargetOrder
  <2>. QED  BY <1>1, <2>2, <2>3 DEF Covered
<1>10. Given'
  <2>1. LastGiven' = LastGiven /\ LastGiven <= cursor
    BY <1>1 DEF Given, LastGiven
  <2>2. LastGiven \in Nat
    BY LastGivenType
  <2>3. LastGiven <= cursor'
    BY <1>2, <1>3, <2>1, <2>2
  <2>4. \A m \in Seqs : m <= cursor \/ cursor < m
    BY <1>2, Bounds DEF Seqs
  <2>. QED  BY <1>1, <1>9, <2>1, <2>3, <2>4 DEF Given
<1>. QED  BY <1>6, <1>7, <1>8, <1>10 DEF Order, Sending

LEMMA OrderReset ==
    ASSUME Types, Phases, OneReply, Order, Sending, Given,
           Connect \/ Disconnect \/ FailActivation \/ Reactivate
    PROVE  Order' /\ Sending' /\ Given'
<1>1. UNCHANGED <<cursor, delivered, committed, unsent, unpublished>>
  BY DEF Connect, Disconnect, FailActivation, Reactivate, writerVars
<1>2. Given'
  BY <1>1, GivenStays
<1>3. buffer' = {} /\ batch' = {}
  BY DEF Connect, Disconnect, FailActivation, Reactivate, Phases
<1>4. BufferOrder' /\ BatchOrder'
  BY <1>3 DEF BufferOrder, BatchOrder
<1>5. mode' # "draining"
  BY DEF Connect, Disconnect, FailActivation, Reactivate
<1>6. TargetOrder'
  BY <1>5 DEF TargetOrder
<1>7. wire' = <<>> \/ mode' = "fenced" => WireOrder' /\ ReplyOrder'
  BY DEF WireOrder, ReplyOrder
<1>8. DropSubscription => Sending'
  BY DEF DropSubscription, Sending, Replayed, HeldBack, LiveComplete
<1>9. SubscribeFrom(cursor) => Sending'
  BY <1>1 DEF SubscribeFrom, Sending, Replayed, HeldBack, LiveComplete, Covered
<1>10. CASE Connect
  BY <1>2, <1>4, <1>6, <1>7, <1>9, <1>10 DEF Connect, Order
<1>11. CASE Disconnect
  BY <1>2, <1>4, <1>6, <1>7, <1>8, <1>11 DEF Disconnect, Order
<1>12. CASE FailActivation
  BY <1>2, <1>4, <1>6, <1>7, <1>8, <1>12 DEF FailActivation, Order
<1>13. CASE Reactivate
  <2>1. /\ mode = "fenced" /\ UNCHANGED wire
        /\ mode' = "activating" /\ handler' = "registered" /\ SubscribeFrom(cursor)
    BY <1>13 DEF Reactivate, SubscribeFrom, linkVars
  <2>2. WireOrder'
    BY <2>1 DEF WireOrder, Pledged
  <2>3. ReplyOrder'
    BY <2>1 DEF OneReply, NoReply, ReplyOrder, IsReply
  <2>. QED  BY <1>2, <1>4, <1>6, <1>9, <2>1, <2>2, <2>3 DEF Order
<1>. QED  BY <1>10, <1>11, <1>12, <1>13

-----------------------------------------------------------------------------
(* The invariant *)

Inductive == Types /\ Lock /\ Phases /\ OneReply /\ Order /\ Sending /\ Given

LEMMA InvariantInit == Init => Inductive
<1>. SUFFICES ASSUME Init
              PROVE  Inductive
  OBVIOUS
<1>. USE Bounds DEF Init
<1>1. wire = <<>> /\ delivered = <<>> /\ DOMAIN wire = {}
  OBVIOUS
<1>2. wire \in Seq(Message) /\ delivered \in Seq(Nat)
  BY <1>1, EmptySeq
<1>3. Types
  BY <1>1, <1>2 DEF Types
<1>4. Lock
  BY DEF Lock
<1>5. Phases
  BY DEF Phases
<1>6. OneReply
  BY <1>1 DEF OneReply, NoReply
<1>7. Order
  BY <1>1 DEF Order, WireOrder, BufferOrder, BatchOrder, ReplyOrder, TargetOrder
<1>8. Sending
  BY DEF Sending, Replayed, HeldBack, LiveComplete
<1>9. Given
  BY DEF Given, LastGiven, Seqs
<1>. QED  BY <1>3, <1>4, <1>5, <1>6, <1>7, <1>8, <1>9 DEF Inductive

LEMMA ServerGiven ==
    ASSUME Given,
           \/ OrphanCommit \/ ReadHighWater \/ ReplayBatch \/ FinishReplay \/ SendReply
           \/ \E w \in Writers : Write(w) \/ Commit(w) \/ Publish(w) \/ CancelWriter(w)
    PROVE  Given'
<1>1. UNCHANGED clientVars /\ unpublished \subseteq unpublished'
  BY DEF OrphanCommit, ReadHighWater, ReplayBatch, FinishReplay, SendReply,
         Write, Commit, Publish, CancelWriter, writerVars
<1>. QED  BY <1>1, GivenStays DEF clientVars

LEMMA StutterKeeps ==
    ASSUME Inductive, UNCHANGED vars
    PROVE  Types' /\ Order' /\ Sending' /\ Given'
<1>1. /\ UNCHANGED <<committed, wpc, unsent, orphans, unpublished, cancels>>
      /\ UNCHANGED <<sub, pending, handler, high, replayed>>
      /\ UNCHANGED <<wire, conn, mode, cursor, target, buffer, batch, delivered>>
  BY DEF vars, writerVars, serverVars, linkVars, clientVars
<1>2. Types'
  BY <1>1 DEF Inductive, Types
<1>3. UNCHANGED <<writerVars, serverVars, wire, mode, target>>
  BY <1>1 DEF writerVars, serverVars
<1>4. \A m : Covered(m) => Covered(m)'
  BY <1>1, CoveredStays
<1>5. WireOrder' /\ ReplyOrder' /\ TargetOrder' /\ Sending'
  BY <1>3, <1>4, ClientAlone DEF Inductive
<1>6. \A m : Pledged(m) => Pledged(m)'
  BY <1>1 DEF Pledged, IsReply
<1>7. BufferOrder' /\ BatchOrder'
  BY <1>1, <1>4, <1>6 DEF Inductive, Order, BufferOrder, BatchOrder
<1>8. Given'
  BY <1>1, GivenStays DEF Inductive
<1>. QED  BY <1>2, <1>5, <1>7, <1>8 DEF Order

LEMMA InvariantStep == Inductive /\ [Next]_vars => Inductive'
<1>1. SUFFICES ASSUME Inductive, [Next]_vars
               PROVE  Inductive'
  OBVIOUS
<1>2. Types /\ Lock /\ Phases /\ OneReply /\ Order /\ Sending /\ Given
  BY <1>1 DEF Inductive
<1>3. Lock' /\ Phases' /\ OneReply'
  BY <1>1, <1>2, LockStep, PhasesStep, OneReplyStep
<1>4. CASE \E w \in Writers : Write(w) \/ Commit(w) \/ Publish(w) \/ CancelWriter(w)
  <2>1. PICK w \in Writers : Write(w) \/ Commit(w) \/ Publish(w) \/ CancelWriter(w)
    BY <1>4
  <2>2. Types'
    BY <1>2, <2>1, TypesWriterStep
  <2>3. Order' /\ Sending'
    BY <1>2, <2>1, OrderWriterStep, OrderPublish
  <2>4. Given'
    BY <1>2, <1>4, ServerGiven
  <2>. QED  BY <1>3, <2>2, <2>3, <2>4 DEF Inductive
<1>5. CASE OrphanCommit
  <2>1. Types'
    BY <1>2, <1>5, TypesOrphanCommit
  <2>2. Order' /\ Sending' /\ Given'
    BY <1>2, <1>5, OrderOrphanCommit, ServerGiven
  <2>. QED  BY <1>3, <2>1, <2>2 DEF Inductive
<1>6. CASE ReadHighWater \/ ReplayBatch \/ FinishReplay \/ SendReply
  <2>1. Types' /\ Given'
    BY <1>2, <1>6, TypesServerStep, ServerGiven
  <2>2. Order' /\ Sending'
    BY <1>2, <1>6, OrderReadHighWater, OrderReplayBatch, OrderFinishReplay, OrderSendReply
  <2>. QED  BY <1>3, <2>1, <2>2 DEF Inductive
<1>7. CASE \/ Connect \/ Disconnect \/ ReceiveEvent \/ ReceiveReply \/ TakeBatch
           \/ DeliverBatched \/ FinishActivation \/ FailActivation \/ Reactivate
  <2>1. Types'
    BY <1>2, <1>7, TypesClientStep
  <2>2. Order' /\ Sending' /\ Given'
    BY <1>2, <1>7, OrderReset, OrderReceiveEvent, OrderReceiveReply, OrderTakeBatch,
       OrderDeliverBatched, OrderFinishActivation
  <2>. QED  BY <1>3, <2>1, <2>2 DEF Inductive
<1>8. CASE UNCHANGED vars
  BY <1>1, <1>3, <1>8, StutterKeeps DEF Inductive
<1>. QED  BY <1>1, <1>4, <1>5, <1>6, <1>7, <1>8 DEF Next

THEOREM StreamInvariant == Spec => []Inductive
<1>. QED  BY InvariantInit, InvariantStep, PTL DEF Spec

-----------------------------------------------------------------------------
(* The theorems *)

\* Every variable keeps its type.
THEOREM StreamTypes == Spec => []TypeOK
<1>1. Inductive => TypeOK
  <2>1. SUFFICES ASSUME Inductive
                 PROVE  TypeOK
    OBVIOUS
  <2>2. Types
    BY <2>1 DEF Inductive
  <2>3. committed \in 0 .. MaxSeq /\ orphans \in 0 .. MaxCancels
    BY <2>2, Bounds DEF Types
  <2>4. unsent \in [Writers -> Seqs \cup {0}] /\ {cursor, target, high, replayed} \subseteq Seqs \cup {0}
    <3>1. 0 .. committed \subseteq Seqs \cup {0}
      BY <2>3, Bounds DEF Seqs
    <3>. QED  BY <2>2, <3>1 DEF Types
  <2>5. \A m \in Range(wire) : m.kind \in {"event", "reply"} /\ m.seq \in Seqs \cup {0}
    <3>1. \A i \in DOMAIN wire : wire[i] \in Message
      BY <2>2, LenProperties DEF Types
    <3>. QED  BY <3>1 DEF Range, Message
  <2>. QED  BY <2>2, <2>3, <2>4, <2>5 DEF Types, TypeOK
<1>. QED  BY <1>1, StreamInvariant, PTL

\* What the client confirms with its cursor it was given, or no task will publish.
THEOREM StreamCursor == Spec => []CursorConfirmsDelivered
<1>1. Inductive => CursorConfirmsDelivered
  <2>1. SUFFICES ASSUME Inductive, NEW n \in 1 .. cursor
                 PROVE  n \in Range(delivered) \cup unpublished
    BY DEF CursorConfirmsDelivered
  <2>2. n \in Seqs /\ n <= cursor
    BY <2>1, Bounds DEF Inductive, Types, Seqs
  <2>. QED  BY <2>1, <2>2 DEF Inductive, Given, Range
<1>. QED  BY <1>1, StreamInvariant, PTL

\* The handover from replay to live delivery loses no event.
THEOREM StreamHandover == Spec => []HandoverLosesNothing
<1>1. Inductive => HandoverLosesNothing
  <2>1. SUFFICES ASSUME Inductive, sub = "live", NEW n \in 1 .. committed
                 PROVE  \/ n <= cursor
                        \/ n \in OnWire \cup buffer \cup batch \cup unpublished
                        \/ \E w \in Writers : unsent[w] = n
    BY DEF HandoverLosesNothing
  <2>2. n \in Seqs /\ n <= committed
    BY <2>1, Bounds DEF Inductive, Types, Seqs
  <2>3. Covered(n) \/ Arrives(n) \/ \E w \in Writers : unsent[w] = n
    BY <2>1, <2>2 DEF Inductive, Sending, LiveComplete
  <2>4. Arrives(n) => n \in OnWire
    BY DEF Arrives, IsEvent, OnWire, Range
  <2>. QED  BY <2>3, <2>4 DEF Covered
<1>. QED  BY <1>1, StreamInvariant, PTL

\* The stream implements ordered delivery: every step is one of OrderedDelivery's,
\* or leaves what it is about unchanged.
LEMMA DeliversInOrder ==
    ASSUME Types, Given, NEW n, Delivers(n)
    PROVE  Ordered!Next
<1>1. /\ n \in 1 .. committed /\ cursor < n /\ n \in Nat /\ cursor \in Nat
      /\ delivered' = Append(delivered, n)
      /\ UNCHANGED <<committed, unpublished>>
      /\ \A m \in Seqs : cursor < m /\ m < n => m \in unpublished
      /\ committed <= MaxSeq
  BY Bounds DEF Delivers, DeliverNow, Types
<1>2. LastGiven \in Nat /\ LastGiven <= cursor
  BY LastGivenType DEF Given
<1>3. Ordered!LastDelivered = LastGiven
  BY DEF Ordered!LastDelivered, Ordered!Last, LastGiven
<1>4. ASSUME NEW m \in (LastGiven + 1) .. (n - 1)
      PROVE  m \in unpublished
  <2>1. m \in Seqs /\ LastGiven < m /\ m < n
    BY <1>1, <1>2, <1>4, Bounds DEF Seqs, Types
  <2>2. m <= cursor \/ cursor < m
    BY <1>1, <2>1, Bounds DEF Seqs
  <2>. QED  BY <1>1, <2>1, <2>2 DEF Given
<1>5. Ordered!Deliver(n)
  BY <1>1, <1>2, <1>3, <1>4 DEF Ordered!Deliver
<1>. QED  BY <1>1, <1>5 DEF Ordered!Next

LEMMA StepInOrder ==
    ASSUME Inductive, [Next]_vars
    PROVE  Ordered!Next \/ UNCHANGED <<committed, unpublished, delivered>>
<1>1. Types /\ Lock /\ Phases /\ Order /\ Given
  BY DEF Inductive
<1>2. ASSUME NEW w \in Writers, Commit(w)
      PROVE  Ordered!Next
  <2>1. committed' = committed + 1 /\ UNCHANGED <<unpublished, delivered>>
    BY <1>2 DEF Commit, clientVars
  <2>. QED  BY <2>1 DEF Ordered!Next, Ordered!Commit
<1>3. ASSUME NEW w \in Writers, CancelWriter(w)
      PROVE  Ordered!Next \/ UNCHANGED <<committed, unpublished, delivered>>
  <2>1. /\ unpublished' = unpublished \cup ({unsent[w]} \ {0})
        /\ UNCHANGED <<committed, delivered>>
    BY <1>3 DEF CancelWriter, clientVars
  <2>2. unsent[w] \in 0 .. committed /\ committed \in Nat
    BY <1>1 DEF Types
  <2>3. CASE unsent[w] = 0
    BY <2>1, <2>3
  <2>4. CASE unsent[w] # 0
    <3>1. unsent[w] \in 1 .. committed
      BY <2>2, <2>4
    <3>2. Ordered!GiveUp(unsent[w])
      BY <2>1, <2>4 DEF Ordered!GiveUp
    <3>. QED  BY <3>1, <3>2 DEF Ordered!Next
  <2>. QED  BY <2>3, <2>4
<1>4. CASE OrphanCommit
  <2>1. Ordered!CommitUnpublished
    BY <1>4 DEF OrphanCommit, Ordered!CommitUnpublished, clientVars
  <2>. QED  BY <2>1 DEF Ordered!Next
<1>5. CASE ReceiveEvent
  <2>1. UNCHANGED <<committed, unpublished>>
    BY <1>5 DEF ReceiveEvent, writerVars
  <2>. QED  BY <1>1, <1>5, <2>1, LiveDelivers, DeliversInOrder
<1>6. CASE DeliverBatched
  <2>1. UNCHANGED <<committed, unpublished>>
    BY <1>6 DEF DeliverBatched, writerVars
  <2>. QED  BY <1>1, <1>6, <2>1, BatchDelivers, DeliversInOrder
<1>7. CASE \E w \in Writers : Write(w) \/ Publish(w)
  BY <1>7 DEF Write, Publish, clientVars
<1>8. CASE \/ ReadHighWater \/ ReplayBatch \/ FinishReplay \/ SendReply
           \/ Connect \/ Disconnect \/ ReceiveReply \/ TakeBatch
           \/ FinishActivation \/ FailActivation \/ Reactivate
  <2>1. UNCHANGED writerVars /\ UNCHANGED delivered
    BY <1>8 DEF ReadHighWater, ReplayBatch, FinishReplay, SendReply, Connect, Disconnect,
        ReceiveReply, TakeBatch, FinishActivation, FailActivation, Reactivate, clientVars
  <2>. QED  BY <2>1 DEF writerVars
<1>9. CASE UNCHANGED vars
  BY <1>9 DEF vars, writerVars, clientVars
<1>. QED  BY <1>2, <1>3, <1>4, <1>5, <1>6, <1>7, <1>8, <1>9 DEF Next

THEOREM StreamOrder == Spec => ImplementsOrderedDelivery
<1>1. Init => Ordered!Init
  BY DEF Init, Ordered!Init
<1>2. Inductive /\ [Next]_vars => [Ordered!Next]_<<committed, unpublished, delivered>>
  BY StepInOrder
<1>. QED  BY <1>1, <1>2, StreamInvariant, PTL DEF Spec, ImplementsOrderedDelivery, Ordered!Spec
=============================================================================
