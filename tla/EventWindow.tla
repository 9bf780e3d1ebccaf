---------------------------- MODULE EventWindow ----------------------------
(***************************************************************************)
(* What core/collection/rollingwindow.go promises: the events of the last  *)
(* Size intervals, by the number of intervals that have begun since.       *)
(***************************************************************************)
EXTENDS Integers

CONSTANTS Size,    \* intervals (buckets) of the window
          MaxCount \* bound on the events of one interval

ASSUME EventWindowAssumption == Size \in Nat \ {0} /\ MaxCount \in Nat

VARIABLE events \* events[a]: number and sum of the events of a intervals ago

Ages == 0 .. Size - 1
NoEvents == [sum |-> 0, count |-> 0]
Bucket == {b \in [sum : 0 .. MaxCount, count : 0 .. MaxCount] : b.sum <= b.count}

EventsTypeOK == events \in [Ages -> Bucket]

EventsInit == events = [a \in Ages |-> NoEvents]

\* Mutant: the oldest interval stays in the window.
TickKeeps == events' = [a \in Ages |-> IF a = 0 THEN NoEvents
                                       ELSE IF a = Size - 1 /\ events[a].count > events[a - 1].count THEN events[a]
                                       ELSE events[a - 1]]

\* An interval begins, and the oldest drops out.
Tick == events' = [a \in Ages |-> IF a = 0 THEN NoEvents ELSE events[a - 1]]

\* The value 0 or 1 is added, a failure or a success.
Record(v) ==
    /\ events[0].count < MaxCount
    /\ events' = [events EXCEPT ![0] = [sum |-> @.sum + v, count |-> @.count + 1]]

EventsNext == Tick \/ \E v \in 0 .. 1 : Record(v)

EventsSpec == EventsInit /\ [][EventsNext]_events
=============================================================================
