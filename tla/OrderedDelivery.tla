-------------------------- MODULE OrderedDelivery --------------------------
(***************************************************************************)
(* What a client of a thread's event stream is promised: the committed     *)
(* events, each at most once, in the order of their seqs, none left out    *)
(* but those the server gave up publishing.                                *)
(***************************************************************************)
EXTENDS Integers, Sequences, SequencesExt

VARIABLES
    committed,   \* seq of the last durable event
    unpublished, \* durable events that the server gave up publishing
    delivered    \* the seqs given to the client's handler, in order

LastDelivered == IF delivered = <<>> THEN 0 ELSE Last(delivered)

Init == committed = 0 /\ unpublished = {} /\ delivered = <<>>

Commit == committed' = committed + 1 /\ UNCHANGED <<unpublished, delivered>>

CommitUnpublished ==
    /\ committed' = committed + 1
    /\ unpublished' = unpublished \cup {committed + 1}
    /\ UNCHANGED delivered

GiveUp(n) ==
    /\ unpublished' = unpublished \cup {n}
    /\ UNCHANGED <<committed, delivered>>

Deliver(n) ==
    /\ n > LastDelivered
    /\ (LastDelivered + 1) .. (n - 1) \subseteq unpublished
    /\ delivered' = Append(delivered, n)
    /\ UNCHANGED <<committed, unpublished>>

Next ==
    \/ Commit
    \/ CommitUnpublished
    \/ \E n \in 1 .. committed : GiveUp(n) \/ Deliver(n)

Spec == Init /\ [][Next]_<<committed, unpublished, delivered>>
=============================================================================
