-------------------------- MODULE AtomicWorkspace --------------------------
(***************************************************************************)
(* What a file transaction promises its caller, whatever crashes, fails or *)
(* edits the workspace meanwhile: the requested files change together or   *)
(* not at all, a call that reports failure has changed nothing, and no     *)
(* change made by someone else before the commit is overwritten.           *)
(*                                                                         *)
(* A file edited by someone else while its commit is being installed is    *)
(* Unknown until that transaction is settled: the code does not claim to   *)
(* keep such an edit.                                                      *)
(***************************************************************************)
EXTENDS Naturals

CONSTANTS
    Paths,   \* the files
    Values,  \* what a file can hold, its absence included
    Unknown  \* an edit that raced an installation; not one of Values

VARIABLES
    contents, \* each file as its reader will find it once recovery has run
    status,   \* of the one call at a time: "free", "open" or "applied"
    edits,    \* how often another program has edited a file
    request   \* the open call's [from, to], functions over the same files

vars == <<contents, status, edits, request>>

NoRequest == [from |-> [p \in {} |-> p], to |-> [p \in {} |-> p]]

\* Any files, read and to be written.
Requests ==
    LET Some == UNION {[P -> Values] : P \in SUBSET Paths}
    IN  {r \in [from : Some, to : Some] : DOMAIN r.from = DOMAIN r.to}

Init ==
    /\ contents \in [Paths -> Values]
    /\ status = "free"
    /\ edits = 0
    /\ request = NoRequest

\* The next contents are those of c, except where the present ones are
\* Unknown: there anything may surface.
Become(c) ==
    /\ contents' \in [Paths -> Values \cup {Unknown}]
    /\ \A p \in Paths : contents[p] = Unknown \/ contents'[p] = c[p]

Request ==
    /\ status = "free"
    /\ status' = "open"
    /\ request' \in Requests
    /\ Become(contents)
    /\ UNCHANGED edits

\* All requested files take their new contents at once, and only if each is
\* still what the caller had read.
Commit ==
    /\ status = "open"
    /\ \A p \in DOMAIN request.from : contents[p] \in {request.from[p], Unknown}
    /\ status' = "applied"
    /\ request' = NoRequest
    /\ Become([p \in Paths |->
           IF p \in DOMAIN request.to THEN request.to[p] ELSE contents[p]])
    /\ UNCHANGED edits

\* Success is reported of an applied call and failure of an unapplied one; a
\* crash ends a call without a report.
End ==
    /\ status # "free"
    /\ status' = "free"
    /\ request' = NoRequest
    /\ Become(contents)
    /\ UNCHANGED edits

Edit ==
    /\ \E p \in Paths, v \in Values \cup {Unknown} :
           Become([contents EXCEPT ![p] = v])
    /\ edits' = edits + 1
    /\ UNCHANGED <<status, request>>

\* What became of a raced edit comes to light.
Settle ==
    /\ Become(contents)
    /\ UNCHANGED <<status, edits, request>>

Next == Request \/ Commit \/ End \/ Edit \/ Settle

Spec == Init /\ [][Next]_vars
=============================================================================
