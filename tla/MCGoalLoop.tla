---------------------------- MODULE MCGoalLoop ----------------------------
EXTENDS GoalLoop
=============================================================================
