----------------------------- MODULE WorkGraph ------------------------------
(***************************************************************************)
(* What a workflow promises of its graph, however often its daemon dies:   *)
(* work is done in the order the tree of steps demands, a step that is     *)
(* done stays done and is not worked on again, a branch takes one side     *)
(* only, and the workflow completes when its root has.                     *)
(***************************************************************************)
EXTENDS Integers, Sequences

CONSTANTS
    Nodes, Root, Workers, Kind, Kids,
    Below   \* the steps of each subtree

VARIABLES
    done,     \* steps that are completed
    skipped,  \* steps a branch has passed over
    busy,     \* workers whose process the daemon holds
    approved, \* workers whose verdict is recorded and approves
    finished \* the workflow is completed

vars == <<done, skipped, busy, approved, finished>>

KidSet(n) == {Kids[n][i] : i \in DOMAIN Kids[n]}
Open(n) == n \notin done \cup skipped

\* The siblings that precede n, and the side of a branch that n is not on.
Before(n) ==
    {m \in Nodes : \E p \in Nodes : \E i, j \in DOMAIN Kids[p] :
        Kind[p] \in {"sequence", "gate"} /\ i < j /\ m = Kids[p][i] /\ n = Kids[p][j]}
Opposite(n) ==
    {m \in Nodes \ {n} : \E p \in Nodes : Kind[p] = "branch" /\ {m, n} \subseteq KidSet(p)}

Above(n) == {a \in Nodes : n \in Below[a]}
Ready(n) ==
    \A a \in Above(n) : Before(a) \subseteq done
                        /\ \A o \in Opposite(a) : Below[o] \cap (done \cup busy) = {}

Earned(n) ==
    CASE Kind[n] = "worker" -> TRUE
      [] Kind[n] = "branch" -> \E k \in KidSet(n) : k \in done
      [] Kind[n] = "gate" -> KidSet(n) \subseteq done /\ Kids[n][2] \in approved
      [] OTHER -> KidSet(n) \subseteq done

Init == done = {} /\ skipped = {} /\ busy = {} /\ approved = {} /\ finished = FALSE

Begin(w) ==
    /\ w \notin busy /\ busy' = busy \cup {w} /\ UNCHANGED <<done, skipped, approved, finished>>
    /\ Open(w) /\ Ready(w)

\* Processes end, or are let go of, one by one or all at once with the daemon.
End == busy' \subseteq busy /\ UNCHANGED <<done, skipped, approved, finished>>

\* A verdict stands once it is recorded.
Approve(w) ==
    /\ approved' = approved \cup {w} /\ UNCHANGED <<done, skipped, busy, finished>>
    /\ Open(w) /\ w \notin busy

Complete(n) ==
    /\ Open(n) /\ done' = done \cup {n} /\ UNCHANGED <<skipped, busy, approved, finished>>
    /\ n \notin busy /\ Ready(n) /\ Earned(n)

Skip(n) ==
    /\ Open(n) /\ skipped' = skipped \cup {n} /\ UNCHANGED <<done, busy, approved, finished>>
    /\ n \notin busy
    /\ \E a \in Above(n) : Opposite(a) # {} /\ Below[a] \cap (done \cup busy) = {}

Finish == finished' /\ UNCHANGED <<done, skipped, busy, approved>> /\ Root \in done

Next == End \/ Finish \/ (\E n \in Nodes : Complete(n) \/ Skip(n)) \/ (\E w \in Workers : Begin(w) \/ Approve(w))

Spec == Init /\ [][Next]_vars
=============================================================================
