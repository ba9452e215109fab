------------------------------ MODULE GoalSeek ------------------------------
(***************************************************************************)
(* goal_seek (rosetta/analytics/goal_seek.py): the value of one input cell *)
(* that makes a target cell reach a goal, by bisection.                    *)
(*                                                                         *)
(* Outputs are written as their distance from the goal, so the goal is 0.  *)
(* The target's formula is any function: `asked' holds what it has         *)
(* answered, and a point that was not asked yet may answer anything.       *)
(* Inputs are integers, the granularity that a float has in the code; the  *)
(* midpoint of two neighbours is then one of them, as it is for floats.    *)
(***************************************************************************)
EXTENDS Integers

CONSTANTS
  Inputs,           \* values the input cell and the caller's bounds may have
  Outputs,          \* distances from the goal that the target may evaluate to
  NonNumeric,       \* the outcome of an evaluation that is not a number
  Tolerance,        \* tolerance * max(1, |goal|), in the same unit
  MaxIter,          \* max_iter, _MAX_ITER
  BracketAttempts   \* _BRACKET_ATTEMPTS

ASSUME SeekAssumption ==
  /\ Inputs \subseteq Int
  /\ Outputs \subseteq Int
  /\ NonNumeric \notin Int
  /\ Tolerance \in Nat
  /\ MaxIter \in Nat
  /\ BracketAttempts \in Nat

VARIABLES
  stage,    \* "start", "bracket", "grow", "verify", "bisect" or "done"
  x0,       \* base_input
  asked,    \* the target's outputs so far: f of every input tried
  tried,    \* the inputs in the trajectory
  lo, hi,   \* the bracket
  step,     \* half the width of an automatic bracket
  rounds,   \* attempts made while growing, then iterations of the bisection
  ends,     \* the bracket the bisection began with
  reply     \* the envelope returned: its kind and its solved_input

seekVars == <<stage, x0, asked, tried, lo, hi, step, rounds, ends, reply>>

Outcomes == Outputs \cup {NonNumeric}
NoReply == [kind |-> "none", at |-> 0]

Abs(a) == IF a < 0 THEN -a ELSE a
Opposite(a, b) == (a < 0 /\ b > 0) \/ (a > 0 /\ b < 0)
SameSide(a, b) == (a < 0 /\ b < 0) \/ (a > 0 /\ b > 0)

\* f(x): the evaluator answers the same input in the same way each time.
Extensions(points) ==
  {[x \in DOMAIN asked \cup points |->
      IF x \in DOMAIN asked THEN asked[x] ELSE new[x]] :
   new \in [points \ DOMAIN asked -> Outcomes]}

ReplyWith(kind, x) ==
  /\ reply' = [kind |-> kind, at |-> x]
  /\ stage' = "done"

-----------------------------------------------------------------------------

SeekInit ==
  /\ stage = "start"
  /\ x0 \in Inputs
  /\ asked = [x \in {} |-> NonNumeric]
  /\ tried = {}
  /\ lo = x0 /\ hi = x0
  /\ step = 0
  /\ rounds = 0
  /\ ends = <<x0, x0>>
  /\ reply = NoReply

\* A name that no cell or named range has, or an input that is not a number.
UnknownName ==
  /\ stage = "start"
  /\ ReplyWith("error", x0)
  /\ UNCHANGED <<x0, asked, tried, lo, hi, step, rounds, ends>>

\* The target at the input's present value, and the first trajectory entry.
Baseline ==
  /\ stage = "start"
  /\ asked' \in Extensions({x0})
  /\ IF asked'[x0] = NonNumeric
       THEN ReplyWith("error", x0) /\ UNCHANGED tried
       ELSE /\ tried' = {x0}
            /\ stage' = "bracket"
            /\ UNCHANGED reply
  /\ UNCHANGED <<x0, lo, hi, step, rounds, ends>>

\* The caller's two bounds, sorted.
GivenBounds ==
  /\ stage = "bracket"
  /\ \E a, b \in Inputs :
       /\ a <= b
       /\ lo' = a /\ hi' = b
       /\ asked' \in Extensions({a, b})
  /\ IF NonNumeric \in {asked'[lo'], asked'[hi']}
       THEN ReplyWith("error", x0)
       ELSE stage' = "verify" /\ UNCHANGED reply
  /\ UNCHANGED <<x0, tried, step, rounds, ends>>

\* lo = x0 - step, hi = x0 + step, and the target at both.
Around(s) ==
  /\ step' = s
  /\ lo' = x0 - s
  /\ hi' = x0 + s
  /\ asked' \in Extensions({x0 - s, x0 + s})

\* No bounds: a quarter of the input on both sides of it, and never nothing.
AutoBracket ==
  /\ stage = "bracket"
  /\ Around(IF Abs(x0) \div 4 > 1 THEN Abs(x0) \div 4 ELSE 1)
  /\ stage' = "grow"
  /\ UNCHANGED <<x0, tried, rounds, ends, reply>>

Bracketed ==
  /\ NonNumeric \notin {asked[lo], asked[hi]}
  /\ ~SameSide(asked[lo], asked[hi])

\* One round of _auto_bracket's loop: leave it, or double the bracket.
Grow ==
  /\ stage = "grow"
  /\ rounds < BracketAttempts
  /\ ~Bracketed
  /\ Around(2 * step)
  /\ rounds' = rounds + 1
  /\ UNCHANGED <<stage, x0, tried, ends, reply>>

\* _auto_bracket has returned what it reached.
Grown ==
  /\ stage = "grow"
  /\ Bracketed \/ rounds = BracketAttempts
  /\ IF NonNumeric \in {asked[lo], asked[hi]}
       THEN ReplyWith("unsolved", x0)
       ELSE stage' = "verify" /\ UNCHANGED reply
  /\ UNCHANGED <<x0, asked, tried, lo, hi, step, rounds, ends>>

\* Mutant: no straddle test.
VerifyNothing ==
  /\ stage = "verify"
  /\ ends' = <<lo, hi>>
  /\ rounds' = 0
  /\ stage' = "bisect"
  /\ UNCHANGED <<x0, asked, tried, lo, hi, step, reply>>

\* The straddle test: two ends on one side of the goal are refused.
Verify ==
  /\ stage = "verify"
  /\ IF SameSide(asked[lo], asked[hi])
       THEN ReplyWith("unsolved", x0) /\ UNCHANGED <<rounds, ends>>
       ELSE /\ ends' = <<lo, hi>>
            /\ rounds' = 0
            /\ stage' = "bisect"
            /\ UNCHANGED reply
  /\ UNCHANGED <<x0, asked, tried, lo, hi, step>>

\* Mutant: the sign test against the high end.
HalveByHighEnd(mid, output) ==
  IF Opposite(asked[hi], output)
    THEN hi' = mid /\ UNCHANGED lo
    ELSE lo' = mid /\ UNCHANGED hi

\* Which half is kept: the sign test against the low end.
Halve(mid, output) ==
  IF Opposite(asked[lo], output)
    THEN hi' = mid /\ UNCHANGED lo
    ELSE lo' = mid /\ UNCHANGED hi

\* One iteration of the bisection.
Bisect ==
  /\ stage = "bisect"
  /\ rounds < MaxIter
  /\ LET mid == (lo + hi) \div 2 IN
       /\ asked' \in Extensions({mid})
       /\ IF asked'[mid] = NonNumeric
            THEN ReplyWith("error", mid) /\ UNCHANGED <<tried, lo, hi, rounds>>
            ELSE /\ tried' = tried \cup {mid}
                 /\ rounds' = rounds + 1
                 /\ IF Abs(asked'[mid]) <= Tolerance
                      THEN ReplyWith("solved", mid) /\ UNCHANGED <<lo, hi>>
                      ELSE Halve(mid, asked'[mid]) /\ UNCHANGED <<stage, reply>>
  /\ UNCHANGED <<x0, step, ends>>

\* max_iter without convergence: the closest entry of the trajectory, with a
\* warning and still "solved": True.
BestOf(points) ==
  {x \in points : \A y \in points : Abs(asked[x]) <= Abs(asked[y])}

GiveUp ==
  /\ stage = "bisect"
  /\ rounds = MaxIter
  /\ \E x \in BestOf(tried) : ReplyWith("estimate", x)
  /\ UNCHANGED <<x0, asked, tried, lo, hi, step, rounds, ends>>

Done == stage = "done" /\ UNCHANGED seekVars

SeekNext ==
  \/ UnknownName \/ Baseline \/ GivenBounds \/ AutoBracket \/ Grow \/ Grown
  \/ Verify \/ Bisect \/ GiveUp \/ Done

SeekSpec == SeekInit /\ [][SeekNext]_seekVars

-----------------------------------------------------------------------------

\* The types of the search's variables.
SeekTypeOK ==
  /\ stage \in {"start", "bracket", "grow", "verify", "bisect", "done"}
  /\ {x0, lo, hi, step} \subseteq Int
  /\ DOMAIN asked \subseteq Int
  /\ \A x \in DOMAIN asked : asked[x] \in Outcomes
  /\ tried \subseteq DOMAIN asked
  /\ rounds \in Nat
  /\ ends \in Int \X Int
  /\ reply.kind \in {"none", "error", "unsolved", "solved", "estimate"}
  /\ reply.at \in Int

\* The low end of the bracket that the bisection began with hits the goal.
\* The straddle test accepts it and the bisection then walks away from it.
LowEndHits == ends[1] \in DOMAIN asked /\ asked[ends[1]] = 0

\* The goal stays inside the bracket whatever the function is, from the
\* straddle test to the last iteration (goal_seek.py:98-130): its ends are on
\* opposite sides of the goal or the high end is on it, unless the low end
\* was on the goal when the bisection began.
GoalStaysInside ==
  stage = "bisect" /\ ~LowEndHits =>
    Opposite(asked[lo], asked[hi]) \/ asked[hi] = 0

\* An estimate (goal_seek.py:132) is no excuse for a continuous target: when
\* the iterations are enough to narrow the bracket to neighbours, the target
\* jumps over the goal between them or meets it at the high end.  The low end
\* on the goal is the one exception.
OnlyJumpsAreMissed ==
  /\ reply.kind = "estimate"
  /\ ends[2] - ends[1] <= 2 ^ MaxIter
  /\ ~LowEndHits
  => /\ hi - lo <= 1
     /\ Opposite(asked[lo], asked[hi]) \/ asked[hi] = 0
=============================================================================
