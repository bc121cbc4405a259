----------------------------- MODULE MCWorkflow -----------------------------
(* Workflow on a small instance, for TLC: a retried worker beside a review  *)
(* gate, then a branch on what the worker said.                             *)
EXTENDS Workflow

CONSTANTS root, both, again, ask, gate, write, review, choose, yes, no, goal

Tree == [n \in {root, both, again, gate, choose} |->
    CASE n = root -> [kind |-> "sequence", kids |-> <<both, choose>>]
      [] n = both -> [kind |-> "parallel", kids |-> <<again, gate>>]
      [] n = again -> [kind |-> "retry", kids |-> <<ask>>]
      [] n = gate -> [kind |-> "gate", kids |-> <<write, review>>]
      [] n = choose -> [kind |-> "branch", kids |-> <<yes, no>>]]
TreeWorkers == {ask, write, review, yes, no}
TreeNodes == TreeWorkers \cup DOMAIN Tree
TreeKind == [n \in TreeNodes |-> IF n \in TreeWorkers THEN "worker" ELSE Tree[n].kind]
TreeKids == [n \in TreeNodes |-> IF n \in TreeWorkers THEN <<>> ELSE Tree[n].kids]
TreeAnswers == [w \in TreeWorkers |-> IF w \in {ask, review} THEN BOOLEAN ELSE {FALSE}]
TreeCost == [w \in TreeWorkers |-> IF w = yes THEN 2 ELSE 1]
AskedNode == [n \in {choose} |-> ask]
AtMost2 == [n \in TreeNodes |-> 2]

\* The branch asks a step of what its sequence completes before it.
ASSUME InstanceAssumption == SourcesPrecede
=============================================================================
