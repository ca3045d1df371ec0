------------------------------- MODULE MqUtil -------------------------------
(***************************************************************************)
(* mq.RandomAround: the random expiration of a retry, between the bounds   *)
(* of SetRandomRetryTime, which nothing checks.                            *)
(***************************************************************************)
EXTENDS Integers

CONSTANTS
  Half,  \* an int64 is from -Half to Half - 1: 2^63 in the code
  Exact  \* a float64 has every integer up to Exact: 2^53 in the code

PowersOfTwo == { n \in 1 .. 2 * Half : \A d \in 2 .. n : n % d = 0 => d % 2 = 0 }

ASSUME HalfAssumption == Half \in Nat /\ {Half, Exact} \subseteq PowersOfTwo /\ 1 < Exact /\ Exact < Half

VARIABLES
  bounds,   \* minRandomRetryTime and maxRandomRetryTime
  drawn     \* what RandomAround may return for them, or how it fails

utilVars == <<bounds, drawn>>

Least == -Half
Most  == Half - 1
Wrap(n) == ((n - Least) % (2 * Half)) + Least

UtilInit == bounds = [min |-> 0, max |-> 0] /\ drawn = [how |-> "none", values |-> {}]

---------------------------------------------------------------------------
(* float64(n) for n >= 0: the nearest of the multiples of unit, to even.   *)
Nearest(n, unit) ==
  LET down == n \div unit
      rest == 2 * (n % unit)
  IN  unit * (IF rest > unit \/ (rest = unit /\ down % 2 = 1) THEN down + 1 ELSE down)

Float(n) == Nearest(n, CHOOSE unit \in PowersOfTwo :
                         /\ n < unit * Exact
                         /\ unit = 1 \/ n * 2 >= unit * Exact)

(* int64(f): what a value out of range becomes depends on the machine.     *)
Truncated(f) == IF f <= Most THEN {f} ELSE {Least, Most}

---------------------------------------------------------------------------
(* Slips that the configuration is tested against: the upper bound is left *)
(* out of the draw.                                                        *)
SpanWithoutLast(max, low) == Wrap(max + low)

---------------------------------------------------------------------------
(* The argument of rand.Int.                                               *)
Span(max, low) == Wrap(Wrap(max + 1) + low)

(* rand.Int draws from 0 to below span, and panics if that is nothing.     *)
Draw(span, low) ==
  IF span <= 0 THEN [how |-> "panic", values |-> {}]
               ELSE [how |-> "nil", values |-> { Wrap(r - low) : r \in 0 .. span - 1 }]

RandomAround(min, max) ==
  /\ drawn.how = "none"
  /\ bounds' = [min |-> min, max |-> max]
  /\ \/ min > max /\ drawn' = [how |-> "error", values |-> {0}]
     \/ /\ 0 > min /\ min <= max
        /\ \E low \in Truncated(Float(-min)) : drawn' = Draw(Span(max, low), low)
     \/ 0 <= min /\ min <= max /\ drawn' = Draw(Span(max, -min), -min)

UtilNext == \E min, max \in Least .. Most : RandomAround(min, max)

UtilSpec == UtilInit /\ [][UtilNext]_utilVars

---------------------------------------------------------------------------
(* If the values from min to max can be counted in an int64 and a float64  *)
(* has -min exactly, RandomAround draws from just these values; it fails   *)
(* only for bounds in the wrong order, and panics only beyond.             *)
RandomInRange ==
  LET min == bounds.min
      max == bounds.max
  IN  drawn.how # "none" =>
        /\ drawn.how = "error" <=> min > max
        /\ min <= max /\ max - min < Most /\ -min <= Exact =>
             drawn = [how |-> "nil", values |-> min .. max]
=============================================================================
