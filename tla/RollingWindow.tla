--------------------------- MODULE RollingWindow ---------------------------
(***************************************************************************)
(* core/collection/rollingwindow.go: a ring of buckets that is brought up  *)
(* to date only when something is added.  In between, a reader leaves out  *)
(* the buckets that have expired by then.                                  *)
(*                                                                         *)
(* Time passes in ticks.  `elapsed` is the time since lastTime; more than  *)
(* size intervals make no difference, so that whole intervals beyond are   *)
(* taken off.  updateOffset reads the clock twice, first for the span and  *)
(* then for the new lastTime, up to Late ticks later.                      *)
(***************************************************************************)
EXTENDS Integers, FiniteSetsExt

CONSTANTS size, interval,  \* buckets, and ticks for each
          MaxEvents,       \* bound on the events of a bucket
          Late,            \* most ticks between the two readings of the clock
          MaxSwallowed     \* bound on the intervals that are lost this way

ASSUME RollingWindowAssumption ==
    /\ size \in Nat \ {0} /\ interval \in Nat \ {0}
    /\ MaxEvents \in Nat /\ Late \in Nat /\ MaxSwallowed \in Nat

VARIABLES buckets, offset, elapsed,
          ignoreCurrent,  \* IgnoreCurrentBucket() was given
          oldest, newest, \* ages in ticks of the first and the last event of each bucket
          swallowed       \* intervals that have passed and were not counted

windowVars == <<buckets, offset, elapsed, ignoreCurrent, oldest, newest, swallowed>>

Slot == 0 .. size - 1
Empty == [sum |-> 0, count |-> 0]
Cap == (size + MaxSwallowed + 1) * interval \* ages beyond are the same

WindowTypeOK ==
    /\ buckets \in [Slot -> {b \in [sum : 0 .. MaxEvents, count : 0 .. MaxEvents] : b.sum <= b.count}]
    /\ offset \in Slot
    /\ ignoreCurrent \in BOOLEAN
    /\ elapsed \in 0 .. (size + 1) * interval - 1
    /\ oldest \in [Slot -> 0 .. Cap] /\ newest \in [Slot -> 0 .. Cap]
    /\ swallowed \in 0 .. MaxSwallowed

span == IF elapsed \div interval < size THEN elapsed \div interval ELSE size

WindowInit ==
    /\ buckets = [i \in Slot |-> Empty]
    /\ offset = 0
    /\ elapsed = 0
    /\ ignoreCurrent \in BOOLEAN
    /\ oldest = [i \in Slot |-> 0] /\ newest = [i \in Slot |-> 0]
    /\ swallowed = 0
-----------------------------------------------------------------------------
\* The buckets that Reduce goes through.
Counted ==
    LET diff == IF span = 0 /\ ignoreCurrent THEN size - 1 ELSE size - span
    IN  {(offset + span + 1 + i) % size : i \in 0 .. diff - 1}

Reduce == [sum |-> MapThenSumSet(LAMBDA i : buckets[i].sum, Counted),
           count |-> MapThenSumSet(LAMBDA i : buckets[i].count, Counted)]

Older(ages, kept, ticks) ==
    [i \in Slot |-> IF kept[i] = Empty THEN 0
                    ELSE IF ages[i] + ticks < Cap THEN ages[i] + ticks ELSE Cap]

Pass ==
    /\ elapsed' = IF elapsed + 1 < (size + 1) * interval THEN elapsed + 1 ELSE size * interval
    /\ oldest' = Older(oldest, buckets, 1)
    /\ newest' = Older(newest, buckets, 1)
    /\ UNCHANGED <<buckets, offset, ignoreCurrent, swallowed>>

\* Mutant: the bucket that was current is reset instead of the last that expires.
ExpiredTooSoon == {(offset + i) % size : i \in 0 .. span - 1}

\* The buckets that updateOffset resets.
Expired == {(offset + i + 1) % size : i \in 0 .. span - 1}

\* Mutant: lastTime is set to the moment of the addition, not to the interval's begin.
Unaligned(late) == 0

\* now - lastTime, after lastTime has been aligned to the boundary of an interval.
Aligned(late) == (elapsed + late) % interval

\* Intervals that end between the two readings of the clock.
Lost(late) == IF span = size THEN 0 ELSE (elapsed + late) \div interval - span

Add(v, late) ==
    LET i == (offset + span) % size
        kept == [b \in Slot |-> IF b \in Expired THEN Empty ELSE buckets[b]]
    IN  /\ kept[i].count < MaxEvents
        /\ span = 0 => late = 0
        /\ swallowed + Lost(late) <= MaxSwallowed
        /\ buckets' = [kept EXCEPT ![i] = [sum |-> @.sum + v, count |-> @.count + 1]]
        /\ offset' = i
        /\ elapsed' = IF span = 0 THEN elapsed ELSE Aligned(late)
        /\ swallowed' = swallowed + Lost(late)
        /\ oldest' = Older(oldest, kept, late)
        /\ newest' = [Older(newest, kept, late) EXCEPT ![i] = 0]
        /\ UNCHANGED ignoreCurrent

WindowNext == Pass \/ \E v \in 0 .. 1, late \in 0 .. Late : Add(v, late)

WindowSpec == WindowInit /\ [][WindowNext]_windowVars
-----------------------------------------------------------------------------
OldIsForgotten ==
    \A i \in Counted : buckets[i].count > 0 => oldest[i] < (size + swallowed) * interval

YoungIsCounted ==
    \A i \in Slot \ Counted :
        \/ buckets[i].count = 0
        \/ newest[i] >= (size - 1) * interval
        \/ ignoreCurrent /\ i = offset

(***************************************************************************)
(* Whatever time has passed since the last addition, a reader counts       *)
(* nothing that is older than the window, but for one interval more for    *)
(* each that ended between the two readings of the clock in updateOffset   *)
(* (rollingwindow.go:81 and 93); and nothing is left out that is younger   *)
(* than the window less an interval, unless the current bucket is to be    *)
(* ignored.                                                                *)
(***************************************************************************)
WindowCountsRight ==
    /\ WindowTypeOK
    /\ OldIsForgotten
    /\ YoungIsCounted

\* The ring as the promise sees it: what has expired is nothing yet.
Abstract == INSTANCE EventWindow WITH
    Size <- size, MaxCount <- MaxEvents,
    events <- [a \in 0 .. size - 1 |-> IF a < span THEN Empty ELSE buckets[(offset - (a - span)) % size]]

(***************************************************************************)
(* The ring implements the promise: time that passes moves the events on   *)
(* by one interval or changes nothing, and an addition, late or not,       *)
(* changes the newest interval only.                                       *)
(***************************************************************************)
WindowImplementsPromise == Abstract!EventsSpec
=============================================================================
