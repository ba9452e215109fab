----------------------------- MODULE MCGoalSeek -----------------------------
EXTENDS GoalSeek

MCInputs == {-3, 0, 4}
MCOutputs == {-3, -2, 0, 2}
=============================================================================
