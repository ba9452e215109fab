\* Bounds up to seven apart and a bracket that grows twice, three halvings, so
\* that brackets narrow to neighbours and wider ones do not; an output of 0 is
\* on the goal, and with a tolerance of 0 the others are all off it.
SPECIFICATION SeekSpec
CONSTANTS
  Inputs <- MCInputs
  Outputs <- MCOutputs
  NonNumeric = NonNumeric
  Tolerance = 0
  MaxIter = 3
  BracketAttempts = 2
INVARIANTS
  GoalStaysInside
  OnlyJumpsAreMissed
