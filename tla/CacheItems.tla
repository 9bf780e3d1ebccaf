----------------------------- MODULE CacheItems -----------------------------
(***************************************************************************)
(* The entries of core/cache: a value with an optional deadline.  A        *)
(* deadline is kept as the time left, in ticks, so that time is unbounded  *)
(* and the state space is not: it counts down and stops at -1, "After the  *)
(* deadline".  A second is Ticks ticks, because TTL truncates to seconds   *)
(* and the clock does not.                                                 *)
(***************************************************************************)
EXTENDS Integers, FiniteSets

CONSTANTS Key,        \* the keys callers use
          Text,       \* values IncrBy does not recognise as an integer
          Modulus,    \* integers wrap around at this width (2^64 in the code)
          Ticks,      \* ticks in a second
          MaxSeconds, \* largest expireSeconds argument of a caller
          None        \* no entry, or Go's nil

ASSUME KeyAssumption == IsFiniteSet(Key)
ASSUME WidthAssumption == Modulus \in Nat \ {0} /\ Ticks \in Nat \ {0}
ASSUME SecondsAssumption == MaxSeconds \in Nat

Number == 0..(Modulus - 1)
Value == Text \cup Number

\* expireSeconds is an int: zero and negative values are accepted.
Seconds == -1..MaxSeconds

Item == [value : Value, left : Int, hasExpire : BOOLEAN]

ASSUME NoneAssumption == None \notin Item \cup Value

Forever(v) == [value |-> v, left |-> 0, hasExpire |-> FALSE]

TimeLeft(s) == IF s < 0 THEN -1 ELSE s * Ticks

Until(v, s) == [value |-> v, left |-> TimeLeft(s), hasExpire |-> TRUE]

\* time.Now().After(expireAt): an entry is still readable at its deadline.
isExpired(it) == it.hasExpire /\ it.left < 0

\* One tick of the clock, seen by one entry.
Aged(it) == IF it.hasExpire /\ it.left >= 0 THEN [it EXCEPT !.left = @ - 1] ELSE it

AsNumber(v) == IF v \in Number THEN v ELSE 0

\* Mutant: the sum does not wrap.
UnwrappedSum(v, n) == AsNumber(v) + n

Sum(v, n) == (AsNumber(v) + n) % Modulus

Remaining(it) == IF it.hasExpire THEN it.left \div Ticks ELSE -1
=============================================================================
