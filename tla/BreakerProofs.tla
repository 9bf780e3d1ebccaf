-------------------------- MODULE BreakerProofs ------------------------------
(***************************************************************************)
(* Proofs about the circuit breaker: the rolling window, which implements  *)
(* EventWindow, the breaker that decides by it, and the registry of        *)
(* breakers.                                                               *)
(***************************************************************************)
EXTENDS RollingWindow, Breaker, BreakerRegistry, FiniteSetTheorems, TLAPS
-----------------------------------------------------------------------------
(* The rolling window.  A bucket that lies d places behind the current one   *)
(* has events that are at most d intervals older than the window was when it *)
(* was brought up to date, and at least d - 1 intervals.                     *)

Back(i) == IF i <= offset THEN offset - i ELSE offset - i + size

\* What is due to be reset lies so far behind that the ring comes round to it.
Due(i) == Back(i) + span >= size

AgesAreKnown ==
    \A i \in Slot : buckets[i].count > 0 =>
        /\ ~Due(i) => oldest[i] <= elapsed + (Back(i) + swallowed) * interval
        /\ \/ newest[i] >= elapsed + (Back(i) - 1) * interval
           \/ newest[i] >= size * interval

WindowInv == WindowTypeOK /\ AgesAreKnown

LEMMA Ring ==
    \A s \in Nat \ {0}, x \in Int :
        /\ 0 <= x /\ x < s => x % s = x
        /\ s <= x /\ x < 2 * s => x % s = x - s
        /\ 2 * s <= x /\ x < 3 * s => x % s = x - 2 * s
        /\ 0 - s <= x /\ x < 0 => x % s = x + s
  OBVIOUS

LEMMA Intervals ==
    \A t \in Nat \ {0}, x \in Nat :
        /\ x \div t \in Nat /\ x % t \in 0 .. t - 1
        /\ x = t * (x \div t) + (x % t)
        /\ (x + 1) \div t \in {x \div t, x \div t + 1}
        /\ \A y \in Nat : (x < y * t <=> x \div t < y) /\ (y <= x => y \div t <= x \div t)
  OBVIOUS

LEMMA Whole ==
    ASSUME NEW x \in Nat, NEW y \in Nat
    PROVE  x < y * interval <=> x \div interval < y
  BY RollingWindowAssumption

\* How many intervals have passed.
LEMMA SpanIs ==
    ASSUME WindowTypeOK
    PROVE  /\ span \in 0 .. size /\ elapsed \in Nat /\ span * interval <= elapsed
           /\ span < size => elapsed < (span + 1) * interval /\ span = elapsed \div interval
           /\ span = 0 => elapsed < interval
<1>1. elapsed \in Nat /\ elapsed <= (size + 1) * interval - 1
  BY RollingWindowAssumption DEF WindowTypeOK
<1>2. elapsed \div interval \in Nat
  BY <1>1, Intervals, RollingWindowAssumption
<1>3. (elapsed \div interval) * interval <= elapsed /\ elapsed < ((elapsed \div interval) + 1) * interval
  BY <1>1, Intervals, RollingWindowAssumption
<1>4. \A q \in Nat : q >= size => q * interval >= size * interval
  BY RollingWindowAssumption
<1> QED
  BY <1>1, <1>2, <1>3, <1>4, RollingWindowAssumption DEF span

\* The slots, by their distance from the current one: they are reached by 1 .. size steps.
LEMMA Around ==
    ASSUME WindowTypeOK
    PROVE  /\ \A k \in 1 .. size : (offset + k) % size \in Slot /\ Back((offset + k) % size) = size - k
           /\ \A i \in Slot : /\ i \in Int /\ Back(i) \in 0 .. size - 1
                              /\ (offset + (size - Back(i))) % size = i
                              /\ Back(i) = 0 => i = offset
           /\ offset \in Slot /\ Back(offset) = 0
<1>0. /\ size \in Nat \ {0} /\ offset \in 0 .. size - 1 /\ Slot = 0 .. size - 1
      /\ \A x \in Int : /\ 0 <= x /\ x < size => x % size = x
                        /\ size <= x /\ x < 2 * size => x % size = x - size
  BY Ring, RollingWindowAssumption DEF WindowTypeOK, Slot
<1>1. ASSUME NEW k \in 1 .. size
      PROVE  (offset + k) % size \in Slot /\ Back((offset + k) % size) = size - k
  <2>1. CASE offset + k < size
    <3>1. (offset + k) % size = offset + k
      BY <1>0, <2>1
    <3> QED
      BY <1>0, <2>1, <3>1 DEF Back
  <2>2. CASE offset + k >= size
    <3>1. (offset + k) % size = offset + k - size
      BY <1>0, <2>2
    <3> QED
      BY <1>0, <2>2, <3>1 DEF Back
  <2> QED
    BY <1>0, <2>1, <2>2
<1>2. ASSUME NEW i \in Slot
      PROVE  /\ i \in Int /\ Back(i) \in 0 .. size - 1 /\ (offset + (size - Back(i))) % size = i
             /\ Back(i) = 0 => i = offset
  <2>1. CASE i <= offset
    <3>1. Back(i) = offset - i /\ offset + (size - Back(i)) = i + size
      BY <1>0, <2>1 DEF Back
    <3> QED
      BY <1>0, <2>1, <3>1
  <2>2. CASE i > offset
    <3>1. Back(i) = offset - i + size /\ offset + (size - Back(i)) = i
      BY <1>0, <2>2 DEF Back
    <3> QED
      BY <1>0, <2>2, <3>1
  <2> QED
    BY <1>0, <2>1, <2>2
<1>3. Back(offset) = 0
  BY <1>0 DEF Back
<1> QED
  BY <1>0, <1>1, <1>2, <1>3

LEMMA SlotsAre ==
    ASSUME WindowTypeOK
    PROVE  /\ \A i \in Slot : i \in Expired <=> Due(i)
           /\ \A i \in Counted : i \in Slot /\ ~Due(i)
           /\ \A i \in Slot \ Counted : Due(i) \/ (ignoreCurrent /\ i = offset)
<1> USE RollingWindowAssumption
<1>1. span \in 0 .. size /\ offset \in Int
  BY SpanIs DEF WindowTypeOK, Slot
<1>2. ASSUME NEW i \in Slot PROVE i \in Expired <=> Due(i)
  <2>1. ASSUME Due(i) PROVE i \in Expired
    <3>1. size - Back(i) - 1 \in 0 .. span - 1
      BY <1>1, <2>1, Around DEF Due
    <3>2. offset + (size - Back(i) - 1) + 1 = offset + (size - Back(i))
      BY <1>1, Around
    <3> QED
      BY <3>1, <3>2, Around DEF Expired
  <2>2. ASSUME i \in Expired PROVE Due(i)
    <3>1. PICK k \in 0 .. span - 1 : i = (offset + k + 1) % size
      BY <2>2 DEF Expired
    <3>2. k + 1 \in 1 .. size /\ offset + k + 1 = offset + (k + 1)
      BY <1>1
    <3>3. Back(i) = size - (k + 1)
      BY <3>1, <3>2, Around
    <3> QED
      BY <1>1, <3>2, <3>3 DEF Due
  <2> QED
    BY <2>1, <2>2
<1> DEFINE diff == IF span = 0 /\ ignoreCurrent THEN size - 1 ELSE size - span
<1>3. Counted = {(offset + span + 1 + i) % size : i \in 0 .. diff - 1}
  BY DEF Counted
<1>4. ASSUME NEW i \in Counted PROVE i \in Slot /\ ~Due(i)
  <2>1. PICK k \in 0 .. diff - 1 : i = (offset + span + 1 + k) % size
    BY <1>3
  <2>2. span + 1 + k \in 1 .. size /\ offset + span + 1 + k = offset + (span + 1 + k) /\ span + 1 + k > span
    BY <1>1
  <2>3. i \in Slot /\ Back(i) = size - (span + 1 + k)
    BY <2>1, <2>2, Around
  <2> QED
    BY <1>1, <2>2, <2>3 DEF Due
<1>5. ASSUME NEW i \in Slot \ Counted, ~Due(i) PROVE ignoreCurrent /\ i = offset
  <2> DEFINE k == size - Back(i) - span - 1
  <2>1. k \in 0 .. size - span - 1 /\ offset + span + 1 + k = offset + (size - Back(i))
    BY <1>1, <1>5, Around DEF Due
  <2>2. (offset + span + 1 + k) % size = i
    BY <2>1, Around
  <2>3. k \notin 0 .. diff - 1
    BY <1>3, <1>5, <2>2
  <2>4. ignoreCurrent /\ Back(i) = 0
    BY <1>1, <2>1, <2>3, Around
  <2> QED
    BY <2>4, Around
<1> QED
  BY <1>2, <1>4, <1>5

\* Ages are kept within the cap.
LEMMA Aging ==
    ASSUME WindowTypeOK, NEW ages \in [Slot -> 0 .. Cap], NEW kept, NEW ticks \in Nat
    PROVE  /\ Cap \in Nat /\ size * interval <= Cap
           /\ Older(ages, kept, ticks) \in [Slot -> 0 .. Cap]
           /\ \A i \in Slot :
                  /\ ages[i] \in Nat /\ Older(ages, kept, ticks)[i] \in Nat
                  /\ Older(ages, kept, ticks)[i] <= ages[i] + ticks
                  /\ kept[i] = Empty => Older(ages, kept, ticks)[i] = 0
                  /\ kept[i] # Empty => \/ Older(ages, kept, ticks)[i] = ages[i] + ticks
                                        \/ Older(ages, kept, ticks)[i] = Cap
<1>1. Cap \in Nat /\ size * interval <= Cap
  BY RollingWindowAssumption DEF Cap
<1>2. ASSUME NEW i \in Slot
      PROVE  ages[i] \in 0 .. Cap /\ (IF kept[i] = Empty THEN 0
                    ELSE IF ages[i] + ticks < Cap THEN ages[i] + ticks ELSE Cap) \in 0 .. Cap
  BY <1>1
<1> QED
  BY <1>1, <1>2 DEF Older

\* Time that passes.
LEMMA PassKeeps == WindowInv /\ Pass => WindowInv'
<1> SUFFICES ASSUME WindowInv, Pass PROVE WindowInv'
  OBVIOUS
<1> USE RollingWindowAssumption
<1>1. WindowTypeOK /\ AgesAreKnown
  BY DEF WindowInv
<1>2. /\ elapsed \in 0 .. (size + 1) * interval - 1 /\ elapsed' \in 0 .. (size + 1) * interval - 1
      /\ elapsed' <= elapsed + 1 /\ (elapsed' = elapsed + 1 \/ elapsed' = size * interval)
  BY <1>1 DEF WindowTypeOK, Pass
<1>3. WindowTypeOK'
  <2>1. oldest' \in [Slot -> 0 .. Cap] /\ newest' \in [Slot -> 0 .. Cap]
    BY <1>1, Aging DEF Pass, WindowTypeOK
  <2> QED
    BY <1>1, <1>2, <2>1 DEF WindowTypeOK, Pass, Slot, Cap
<1>4. span' >= span /\ span \in 0 .. size /\ span' \in 0 .. size /\ (elapsed' = size * interval => span' = size)
  <2> DEFINE full == size * interval
             q == elapsed \div interval
             r == elapsed' \div interval
  <2>1. full \in Int /\ elapsed \in Nat /\ elapsed' \in Nat /\ size \in Nat
    BY <1>2
  <2>2. elapsed' >= elapsed => r >= q
    BY <2>1, Intervals
  <2>3. elapsed' < full <=> r < size
    BY <2>1, Whole
  <2>4. q \in Nat /\ r \in Nat
    BY <2>1, Intervals
  <2>5. elapsed' < elapsed => elapsed' = full
    BY <1>2
  <2>6. span = (IF q < size THEN q ELSE size) /\ span' = (IF r < size THEN r ELSE size)
    BY DEF span
  <2> HIDE DEF full, q, r
  <2>7. span' >= span /\ span \in 0 .. size /\ span' \in 0 .. size /\ (elapsed' = full => span' = size)
    BY <2>1, <2>2, <2>3, <2>4, <2>5, <2>6
  <2> QED
    BY <2>7 DEF full
<1>5. \A i \in Slot : Back(i)' = Back(i) /\ Back(i) \in 0 .. size - 1
  BY <1>1, Around DEF Back, Pass
<1>6. ASSUME NEW i \in Slot, (buckets[i].count > 0)'
      PROVE  /\ (~Due(i))' => (oldest[i] <= elapsed + (Back(i) + swallowed) * interval)'
             /\ (\/ newest[i] >= elapsed + (Back(i) - 1) * interval
                 \/ newest[i] >= size * interval)'
  <2> DEFINE d == Back(i)
  <2>1. d \in 0 .. size - 1 /\ Back(i)' = d /\ swallowed \in Nat /\ swallowed' = swallowed
    BY <1>1, <1>5 DEF WindowTypeOK, Pass
  <2>2. /\ buckets[i].count > 0 /\ buckets[i] # Empty
        /\ oldest \in [Slot -> 0 .. Cap] /\ newest \in [Slot -> 0 .. Cap]
        /\ oldest' = Older(oldest, buckets, 1) /\ newest' = Older(newest, buckets, 1)
    BY <1>1, <1>6 DEF Pass, Empty, WindowTypeOK
  <2>3. /\ ~Due(i) => oldest[i] <= elapsed + (d + swallowed) * interval
        /\ newest[i] >= elapsed + (d - 1) * interval \/ newest[i] >= size * interval
    BY <1>1, <2>2 DEF AgesAreKnown
  <2>4. /\ oldest[i] \in Nat /\ oldest'[i] \in Nat /\ oldest'[i] <= oldest[i] + 1
        /\ newest[i] \in Nat /\ (newest'[i] = newest[i] + 1 \/ newest'[i] = Cap)
        /\ Cap \in Nat /\ Cap >= size * interval
    BY <1>1, <2>2, Aging
  <2>5. ASSUME ~(Due(i)') PROVE oldest'[i] <= elapsed' + (d + swallowed) * interval
    <3>1. ~Due(i) /\ elapsed' # size * interval
      BY <1>4, <2>1, <2>5 DEF Due
    <3>2. (d + swallowed) * interval \in Int
      BY <2>1
    <3> QED
      BY <1>2, <2>3, <2>4, <3>1, <3>2
  <2>6. newest'[i] >= elapsed' + (d - 1) * interval \/ newest'[i] >= size * interval
    <3>1. (d - 1) * interval \in Int /\ size * interval \in Int
      BY <2>1
    <3> QED
      BY <1>2, <2>3, <2>4, <3>1
  <2> QED
    BY <2>1, <2>5, <2>6
<1> QED
  BY <1>3, <1>6 DEF WindowInv, AgesAreKnown, Pass, Slot

\* What an addition does to the ring: its head moves on by span, and so everything
\* that is not due is span further behind.
LEMMA HeadMoves ==
    ASSUME WindowTypeOK, NEW j, j = (offset + span) % size, offset' = j
    PROVE  /\ j \in Slot /\ Back(j)' = 0
           /\ span > 0 => Due(j)
           /\ span = 0 => j = offset
           /\ \A i \in Slot : ~Due(i) => Back(i)' = Back(i) + span
           /\ \A i \in Slot : Back(i)' = 0 => i = j
<1>0. /\ size \in Nat \ {0} /\ offset \in 0 .. size - 1 /\ Slot = 0 .. size - 1
      /\ \A x \in Int : /\ 0 <= x /\ x < size => x % size = x
                        /\ size <= x /\ x < 2 * size => x % size = x - size
  BY Ring, RollingWindowAssumption DEF WindowTypeOK, Slot
<1>1. span \in 0 .. size /\ j = (offset + span) % size
  BY SpanIs
<1>2. CASE offset + span < size
  <2>1. j = offset + span
    BY <1>0, <1>1, <1>2
  <2> QED
    BY <1>0, <1>1, <1>2, <2>1 DEF Back, Due
<1>3. CASE offset + span >= size
  <2>1. j = offset + span - size
    BY <1>0, <1>1, <1>3
  <2> QED
    BY <1>0, <1>1, <1>3, <2>1 DEF Back, Due
<1> QED
  BY <1>0, <1>1, <1>2, <1>3

\* The time that an addition takes off, in intervals.
LEMMA TimeTakenOff ==
    ASSUME WindowTypeOK, NEW late \in 0 .. Late, span = 0 => late = 0
    PROVE  /\ Lost(late) \in Nat
           /\ (IF span = 0 THEN elapsed ELSE Aligned(late)) \in 0 .. interval - 1
           /\ span < size => elapsed + late = (IF span = 0 THEN elapsed ELSE Aligned(late))
                                               + (span + Lost(late)) * interval
<1> DEFINE x == elapsed + late
           q == x \div interval
           r == x % interval
<1>1. elapsed \in Nat /\ late \in Nat /\ x \in Nat /\ interval \in Nat \ {0} /\ span \in 0 .. size /\ size \in Nat
  BY SpanIs, RollingWindowAssumption
<1>2. q \in Nat /\ r \in 0 .. interval - 1 /\ x = interval * q + r
  BY <1>1, Intervals
<1>3. span < size => span <= q
  <2>1. elapsed \div interval <= q
    <3>1. elapsed <= x
      BY <1>1
    <3> QED
      BY <1>1, <3>1, Intervals
  <2> QED
    BY <2>1, SpanIs
<1>4. span = 0 => elapsed < interval /\ x = elapsed
  BY <1>1, SpanIs
<1>5. span = 0 => q = 0
  <2>1. x < 1 * interval <=> q < 1
    BY <1>1, Whole
  <2> QED
    BY <1>1, <1>2, <1>4, <2>1
<1>6. Lost(late) = (IF span = size THEN 0 ELSE q - span) /\ Aligned(late) = r
  BY DEF Lost, Aligned
<1>7. span < size => x = r + (span + Lost(late)) * interval
  <2>1. interval * q = q * interval
    BY <1>1, <1>2
  <2>2. span < size => span + Lost(late) = q
    BY <1>1, <1>2, <1>6
  <2> QED
    BY <1>1, <1>2, <2>1, <2>2
<1>8. span = 0 => r = elapsed
  BY <1>1, <1>2, <1>4, <1>5
<1> HIDE DEF x, q, r
<1>9. Lost(late) \in Nat /\ (IF span = 0 THEN elapsed ELSE Aligned(late)) \in 0 .. interval - 1
  BY <1>1, <1>2, <1>3, <1>4, <1>6
<1>10. span < size => x = (IF span = 0 THEN elapsed ELSE Aligned(late)) + (span + Lost(late)) * interval
  <2>1. (IF span = 0 THEN elapsed ELSE Aligned(late)) = r
    BY <1>6, <1>8
  <2> QED
    BY <1>7, <2>1
<1> QED
  BY <1>9, <1>10 DEF x

\* An addition.
LEMMA AddKeeps ==
    ASSUME WindowInv, NEW v \in 0 .. 1, NEW late \in 0 .. Late, Add(v, late)
    PROVE  WindowInv'
<1> USE RollingWindowAssumption
<1>0. PICK j : j = (offset + span) % size
  OBVIOUS
<1> DEFINE kept == [b \in Slot |-> IF b \in Expired THEN Empty ELSE buckets[b]]
<1>1. WindowTypeOK /\ AgesAreKnown
  BY DEF WindowInv
<1>2. /\ kept[j].count < MaxEvents /\ (span = 0 => late = 0) /\ late \in Nat
      /\ swallowed + Lost(late) <= MaxSwallowed
      /\ buckets' = [kept EXCEPT ![j] = [sum |-> @.sum + v, count |-> @.count + 1]]
      /\ offset' = j
      /\ elapsed' = IF span = 0 THEN elapsed ELSE Aligned(late)
      /\ swallowed' = swallowed + Lost(late)
      /\ oldest' = Older(oldest, kept, late)
      /\ newest' = [Older(newest, kept, late) EXCEPT ![j] = 0]
      /\ UNCHANGED ignoreCurrent
  BY <1>0 DEF Add
<1>3. /\ Lost(late) \in Nat /\ elapsed' \in 0 .. interval - 1
      /\ span < size => elapsed + late = elapsed' + (span + Lost(late)) * interval
  BY <1>1, <1>2, TimeTakenOff
<1>4. /\ j \in Slot /\ Back(j)' = 0 /\ (span > 0 => Due(j)) /\ (span = 0 => j = offset)
      /\ \A i \in Slot : ~Due(i) => Back(i)' = Back(i) + span
      /\ \A i \in Slot : Back(i)' = 0 => i = j
  BY <1>0, <1>1, <1>2, HeadMoves
<1>5. span \in 0 .. size /\ elapsed \in Nat
  BY <1>1, SpanIs
<1>6. /\ \A b \in Slot : kept[b] \in {c \in [sum : 0 .. MaxEvents, count : 0 .. MaxEvents] : c.sum <= c.count}
      /\ \A b \in Slot : kept[b] = IF Due(b) THEN Empty ELSE buckets[b]
  BY <1>1, SlotsAre DEF WindowTypeOK, Empty
<1> HIDE DEF kept
<1>7. /\ oldest \in [Slot -> 0 .. Cap] /\ newest \in [Slot -> 0 .. Cap]
      /\ oldest' \in [Slot -> 0 .. Cap] /\ newest' \in [Slot -> 0 .. Cap] /\ Cap \in Nat
  <2>1. oldest \in [Slot -> 0 .. Cap] /\ newest \in [Slot -> 0 .. Cap]
    BY <1>1 DEF WindowTypeOK
  <2>2. /\ oldest' \in [Slot -> 0 .. Cap] /\ Cap \in Nat
        /\ Older(newest, kept, late) \in [Slot -> 0 .. Cap]
    BY <1>1, <1>2, <2>1, Aging
  <2>3. newest' \in [Slot -> 0 .. Cap]
    <3>1. 0 \in 0 .. Cap
      BY <2>2
    <3>2. newest' = [b \in Slot |-> IF b = j THEN 0 ELSE Older(newest, kept, late)[b]]
      BY <1>2, <2>2
    <3> QED
      BY <2>2, <3>1, <3>2
  <2> QED
    BY <2>1, <2>2, <2>3
<1>8. WindowTypeOK'
  <2>1. buckets' \in [Slot -> {b \in [sum : 0 .. MaxEvents, count : 0 .. MaxEvents] : b.sum <= b.count}]
    <3>1. [sum |-> kept[j].sum + v, count |-> kept[j].count + 1]
            \in {b \in [sum : 0 .. MaxEvents, count : 0 .. MaxEvents] : b.sum <= b.count}
      BY <1>2, <1>4, <1>6
    <3>2. buckets' = [b \in Slot |-> IF b = j THEN [sum |-> kept[j].sum + v, count |-> kept[j].count + 1]
                                     ELSE kept[b]]
      BY <1>2, <1>4 DEF kept
    <3> QED
      BY <1>6, <3>1, <3>2
  <2>2. elapsed' \in 0 .. (size + 1) * interval - 1
    <3>1. interval <= (size + 1) * interval
      OBVIOUS
    <3> QED
      BY <1>3, <3>1
  <2>3. swallowed' \in 0 .. MaxSwallowed
    BY <1>1, <1>2, <1>3 DEF WindowTypeOK
  <2> QED
    BY <1>1, <1>2, <1>4, <1>7, <2>1, <2>2, <2>3 DEF WindowTypeOK, Slot, Cap
<1>9. ASSUME NEW i \in Slot, (buckets[i].count > 0)'
      PROVE  /\ (~Due(i))' => (oldest[i] <= elapsed + (Back(i) + swallowed) * interval)'
             /\ (\/ newest[i] >= elapsed + (Back(i) - 1) * interval
                 \/ newest[i] >= size * interval)'
  <2>1. /\ oldest'[i] \in Nat /\ (kept[i] = Empty => oldest'[i] = 0)
        /\ oldest[i] \in Nat /\ oldest'[i] <= oldest[i] + late
    BY <1>1, <1>2, <1>7, Aging
  <2>2. swallowed \in Nat /\ swallowed' = swallowed + Lost(late) /\ swallowed' \in Nat
    BY <1>1, <1>2, <1>3 DEF WindowTypeOK
  <2>3. CASE i = j
    <3>1. newest'[i] = 0 /\ Back(i)' = 0
      BY <1>2, <1>4, <1>7, <2>3 DEF Older
    <3>2. (Back(i)' - 1) * interval = 0 - interval /\ (Back(i)' + swallowed') * interval = swallowed' * interval
      BY <2>2, <3>1
    <3>3. swallowed' * interval \in Nat
      BY <2>2
    <3>4. oldest'[i] <= elapsed' + swallowed' * interval
      <4>1. CASE span > 0
        BY <1>3, <1>4, <1>6, <2>1, <2>3, <3>3, <4>1
      <4>2. CASE span = 0
        <5>1. CASE buckets[i] = Empty
          BY <1>3, <1>6, <2>1, <3>3, <5>1
        <5>2. CASE buckets[i] # Empty
          <6>1. buckets[i].count > 0
            BY <1>1, <5>2 DEF WindowTypeOK, Empty
          <6>2. Back(i) = 0 /\ ~Due(i)
            BY <1>1, <1>4, <2>3, <4>2, Around DEF Due
          <6>3. oldest[i] <= elapsed + (Back(i) + swallowed) * interval
            BY <1>1, <6>1, <6>2 DEF AgesAreKnown
          <6>4. (Back(i) + swallowed) * interval = swallowed * interval
            BY <2>2, <6>2
          <6>5. elapsed' = elapsed /\ late = 0
            BY <1>2, <4>2
          <6>6. swallowed * interval <= swallowed' * interval
            <7>1. swallowed' * interval = swallowed * interval + Lost(late) * interval
              BY <1>3, <2>2
            <7>2. Lost(late) * interval \in Nat /\ swallowed * interval \in Nat
              BY <1>3, <2>2
            <7> QED
              BY <7>1, <7>2
          <6>7. swallowed * interval \in Int
            BY <2>2
          <6> QED
            BY <1>5, <2>1, <3>3, <6>3, <6>4, <6>5, <6>6, <6>7
        <5> QED
          BY <5>1, <5>2
      <4> QED
        BY <1>5, <4>1, <4>2
    <3>5. newest'[i] >= elapsed' + (Back(i)' - 1) * interval
      <4> DEFINE e == elapsed'
      <4>1. e \in 0 .. interval - 1
        BY <1>3
      <4> HIDE DEF e
      <4>2. e + (0 - interval) <= 0
        BY <4>1
      <4> QED
        BY <3>1, <3>2, <4>2 DEF e
    <3> QED
      BY <3>2, <3>4, <3>5
  <2>4. CASE i # j
    <3>1. buckets'[i] = kept[i]
      BY <1>2, <2>4 DEF kept
    <3>2. buckets[i].count > 0 /\ ~Due(i) /\ kept[i] # Empty
      BY <1>6, <1>9, <3>1 DEF Empty
    <3>3. Back(i) \in 0 .. size - 1 /\ span < size /\ Back(i)' = Back(i) + span
      BY <1>1, <1>4, <1>5, <3>2, Around DEF Due
    <3>4. /\ oldest[i] <= elapsed + (Back(i) + swallowed) * interval
          /\ newest[i] >= elapsed + (Back(i) - 1) * interval \/ newest[i] >= size * interval
      BY <1>1, <3>2 DEF AgesAreKnown
    <3>5. /\ newest[i] \in Nat /\ (newest'[i] = newest[i] + late \/ newest'[i] = Cap)
          /\ Cap >= size * interval
      <4>1. newest'[i] = Older(newest, kept, late)[i]
        BY <1>2, <2>4 DEF Older
      <4> QED
        BY <1>1, <1>2, <1>7, <3>2, <4>1, Aging
    <3> DEFINE L == Lost(late)
               d == Back(i)
    <3>6. /\ (d + swallowed) * interval + (span + L) * interval = (d + span + (swallowed + L)) * interval
          /\ (d - 1) * interval + (span + L) * interval = (d + span - 1) * interval + L * interval
          /\ L * interval \in Nat /\ (d + swallowed) * interval \in Int /\ (span + L) * interval \in Int
          /\ (d - 1) * interval \in Int /\ (d + span - 1) * interval \in Int /\ size * interval \in Int
      BY <1>3, <1>5, <2>2, <3>3
    <3>7. oldest'[i] <= elapsed' + (Back(i)' + swallowed') * interval
      <4>1. Back(i)' + swallowed' = d + span + (swallowed + L)
        BY <2>2, <3>3
      <4>2. oldest'[i] <= elapsed + late + (d + swallowed) * interval
        BY <1>2, <1>5, <2>1, <3>4, <3>6
      <4> QED
        BY <1>2, <1>3, <1>5, <2>1, <3>3, <3>6, <4>1, <4>2
    <3>8. newest'[i] >= elapsed' + (Back(i)' - 1) * interval \/ newest'[i] >= size * interval
      <4>1. Back(i)' - 1 = d + span - 1
        BY <1>5, <3>3
      <4> QED
        BY <1>2, <1>3, <1>5, <1>7, <3>3, <3>4, <3>5, <3>6, <4>1
    <3> QED
      BY <3>7, <3>8
  <2> QED
    BY <2>3, <2>4
<1> QED
  BY <1>8, <1>9 DEF WindowInv, AgesAreKnown, Slot

LEMMA WindowKeeps == WindowInv /\ [WindowNext]_windowVars => WindowInv'
<1>1. WindowInv /\ UNCHANGED windowVars => WindowInv'
  BY DEF windowVars, WindowInv, WindowTypeOK, AgesAreKnown, Due, Back, span, Slot, Cap
<1>2. ASSUME WindowInv, NEW v \in 0 .. 1, NEW late \in 0 .. Late, Add(v, late) PROVE WindowInv'
  BY <1>2, AddKeeps
<1> QED
  BY <1>1, <1>2, PassKeeps DEF WindowNext

LEMMA WindowStarts == WindowInit => WindowInv
<1> SUFFICES ASSUME WindowInit PROVE WindowInv
  OBVIOUS
<1> USE RollingWindowAssumption
<1>1. Cap \in Nat /\ (size + 1) * interval - 1 \in Nat
  <2>1. Cap \in Nat
    BY DEF Cap
  <2>2. (size + 1) * interval = size * interval + interval /\ size * interval \in Nat
    OBVIOUS
  <2> QED
    BY <2>1, <2>2
<1>2. \A i \in Slot : buckets[i] = Empty
  BY DEF WindowInit
<1>3. Empty \in {b \in [sum : 0 .. MaxEvents, count : 0 .. MaxEvents] : b.sum <= b.count}
  BY DEF Empty
<1>4. 0 \in Slot /\ 0 \in 0 .. Cap
  BY <1>1 DEF Slot
<1>5. WindowTypeOK
  BY <1>1, <1>3, <1>4 DEF WindowInit, WindowTypeOK
<1> QED
  BY <1>2, <1>5 DEF WindowInv, AgesAreKnown, Empty

\* What the ages say about the buckets that are counted and about those that are not.
LEMMA CountsAreRight == WindowInv => WindowCountsRight
<1> SUFFICES ASSUME WindowInv PROVE WindowCountsRight
  OBVIOUS
<1> USE RollingWindowAssumption
<1>1. WindowTypeOK /\ AgesAreKnown
  BY DEF WindowInv
<1>2. span \in 0 .. size /\ elapsed \in Nat /\ span * interval <= elapsed /\ swallowed \in Nat
      /\ (span < size => elapsed < (span + 1) * interval)
  BY <1>1, SpanIs DEF WindowTypeOK
<1>3. ASSUME NEW i \in Slot
      PROVE  i \in Int /\ Back(i) \in 0 .. size - 1 /\ oldest[i] \in Nat /\ newest[i] \in Nat
             /\ buckets[i].count \in Nat
  <2>1. Cap \in Nat
    BY DEF Cap
  <2> QED
    BY <1>1, <2>1, Around DEF WindowTypeOK
<1>4. ASSUME NEW i \in Counted, buckets[i].count > 0
      PROVE  oldest[i] < (size + swallowed) * interval
  <2> DEFINE d == Back(i)
             rest == size - 1 - d - span
  <2>1. i \in Slot /\ ~Due(i)
    BY <1>1, SlotsAre
  <2>2. d \in 0 .. size - 1 /\ rest \in Nat /\ span < size
    BY <1>2, <1>3, <2>1 DEF Due
  <2>3. oldest[i] <= elapsed + (d + swallowed) * interval
    BY <1>1, <1>4, <2>1 DEF AgesAreKnown
  <2>4. (span + 1) * interval + (d + swallowed) * interval + rest * interval = (size + swallowed) * interval
    BY <1>2, <2>2
  <2>5. rest * interval \in Nat /\ (span + 1) * interval \in Int /\ (d + swallowed) * interval \in Int
        /\ (size + swallowed) * interval \in Int
    BY <1>2, <2>2
  <2> QED
    BY <1>2, <1>3, <2>1, <2>2, <2>3, <2>4, <2>5
<1>5. ASSUME NEW i \in Slot \ Counted, buckets[i].count # 0, ~(ignoreCurrent /\ i = offset)
      PROVE  newest[i] >= (size - 1) * interval
  <2> DEFINE d == Back(i)
             more == d + span - size
  <2>1. Due(i)
    BY <1>1, <1>5, SlotsAre
  <2>2. d \in 0 .. size - 1 /\ more \in Nat
    BY <1>2, <1>3, <2>1 DEF Due
  <2>3. newest[i] >= elapsed + (d - 1) * interval \/ newest[i] >= size * interval
    BY <1>1, <1>3, <1>5 DEF AgesAreKnown
  <2>4. /\ span * interval + (d - 1) * interval = (size - 1) * interval + more * interval
        /\ size * interval = (size - 1) * interval + interval
    BY <1>2, <2>2
  <2>5. more * interval \in Nat /\ span * interval \in Int /\ (d - 1) * interval \in Int
        /\ (size - 1) * interval \in Int /\ size * interval \in Int
    BY <1>2, <2>2
  <2> QED
    BY <1>2, <1>3, <2>3, <2>4, <2>5
<1> QED
  BY <1>1, <1>4, <1>5 DEF WindowCountsRight, OldIsForgotten, YoungIsCounted

(***************************************************************************)
(* A reader of the window counts nothing that is older than the window and *)
(* leaves nothing out that is well within it, for any number of buckets,   *)
(* any interval and however late the clock is read again.                  *)
(***************************************************************************)
THEOREM TheWindowCountsRight == WindowSpec => []WindowCountsRight
<1>1. WindowSpec => []WindowInv
  BY WindowStarts, WindowKeeps, PTL DEF WindowSpec
<1> QED
  BY <1>1, CountsAreRight, PTL
-----------------------------------------------------------------------------
(* The ring is a refinement of EventWindow: the events of a intervals ago    *)
(* are in the bucket that lies a - span places behind the current one.       *)

Seen == [a \in 0 .. size - 1 |-> IF a < span THEN Empty ELSE buckets[(offset - (a - span)) % size]]

LEMMA Wrap ==
    ASSUME NEW x \in Int, 0 - size <= x, x < 2 * size
    PROVE  /\ x < 0 => x % size = x + size
           /\ 0 <= x /\ x < size => x % size = x
           /\ size <= x => x % size = x - size
<1>1. size \in Nat \ {0}
  BY RollingWindowAssumption
<1>2. CASE x < 0
  BY <1>1, <1>2, Ring
<1>3. CASE 0 <= x /\ x < size
  BY <1>1, <1>3, Ring
<1>4. CASE size <= x
  BY <1>1, <1>4, Ring
<1> QED
  BY <1>1, <1>2, <1>3, <1>4

LEMMA HeadPlace ==
    ASSUME NEW x \in Int, 0 <= x, x < 2 * size, NEW j, j = x % size
    PROVE  j \in 0 .. size - 1 /\ (j = x \/ j = x - size)
<1>1. size \in Nat \ {0}
  BY RollingWindowAssumption
<1>2. (x < size => x % size = x) /\ (size <= x => x % size = x - size)
  BY <1>1, Wrap
<1> QED
  BY <1>1, <1>2

\* The place of the events of a intervals ago, in the ring as an addition leaves it.
LEMMA PlaceOf ==
    ASSUME WindowTypeOK, NEW a \in 0 .. size - 1, NEW j, j = (offset + span) % size
    PROVE  /\ (offset - (a - span)) % size \in Slot
           /\ (j - a) % size = (offset - (a - span)) % size
           /\ Due((offset - (a - span)) % size) <=> a < span
           /\ (offset - (a - span)) % size = j <=> a = 0
<1>0. /\ size \in Nat \ {0} /\ offset \in 0 .. size - 1 /\ Slot = 0 .. size - 1 /\ a \in 0 .. size - 1
  BY RollingWindowAssumption DEF WindowTypeOK, Slot
<1>1. span \in 0 .. size
  BY SpanIs
<1> DEFINE x == offset - (a - span)
           y == j - a
           place == x % size
           other == y % size
<1>2. x \in Int /\ 0 - size < x /\ x < 2 * size /\ x = offset + span - a
  BY <1>0, <1>1
<1>3. j \in 0 .. size - 1 /\ (j = offset + span \/ j = (offset + span) - size)
  <2>1. offset + span \in Int /\ 0 <= offset + span /\ offset + span < 2 * size
    BY <1>0, <1>1
  <2> QED
    BY <2>1, HeadPlace
<1>4. y \in Int /\ 0 - size < y /\ y < size
  BY <1>0, <1>3
<1> HIDE DEF x, y
<1>5. place \in 0 .. size - 1 /\ (place = x \/ place = x - size \/ place = x + size)
  <2>1. /\ x < 0 => x % size = x + size
        /\ 0 <= x /\ x < size => x % size = x
        /\ size <= x => x % size = x - size
    BY <1>0, <1>2, Wrap
  <2> QED
    BY <1>0, <1>2, <2>1
<1>6. other \in 0 .. size - 1 /\ (other = y \/ other = y + size)
  <2>1. /\ y < 0 => y % size = y + size
        /\ 0 <= y /\ y < size => y % size = y
    BY <1>0, <1>4, Wrap
  <2> QED
    BY <1>0, <1>4, <2>1
<1> HIDE DEF place, other
<1>7. y = j - a
  BY DEF y
<1>8. other = place /\ (place = j <=> a = 0)
  BY <1>0, <1>1, <1>2, <1>3, <1>5, <1>6, <1>7
<1>9. Due(place) <=> a < span
  BY <1>0, <1>1, <1>2, <1>5 DEF Due, Back
<1> QED
  BY <1>0, <1>5, <1>8, <1>9 DEF place, other, x, y

LEMMA EmptyAtFirst == WindowInit => Abstract!EventsInit
<1> SUFFICES ASSUME WindowInit PROVE Abstract!EventsInit
  OBVIOUS
<1>1. WindowTypeOK
  BY WindowStarts DEF WindowInv
<1>2. Seen = [a \in 0 .. size - 1 |-> Empty]
  <2>1. ASSUME NEW a \in 0 .. size - 1 PROVE (IF a < span THEN Empty ELSE buckets[(offset - (a - span)) % size]) = Empty
    <3>1. PICK j : j = (offset + span) % size
      OBVIOUS
    <3>2. (offset - (a - span)) % size \in Slot
      BY <1>1, <3>1, PlaceOf
    <3> QED
      BY <3>2 DEF WindowInit
  <2> QED
    BY <2>1 DEF Seen
<1> QED
  BY <1>2 DEF Abstract!EventsInit, Abstract!Ages, Abstract!NoEvents, Seen, Empty

\* Time moves the events on by an interval, or nothing is seen of it.
LEMMA PassIsATick == WindowInv /\ Pass => Abstract!Tick \/ UNCHANGED Seen
<1> SUFFICES ASSUME WindowInv, Pass PROVE Abstract!Tick \/ UNCHANGED Seen
  OBVIOUS
<1> USE RollingWindowAssumption
<1>1. WindowTypeOK /\ buckets' = buckets /\ offset' = offset
  BY DEF WindowInv, Pass
<1>2. span \in 0 .. size /\ size \in Nat \ {0} /\ offset \in Int
  BY <1>1, SpanIs DEF WindowTypeOK, Slot
<1>3. span' = span \/ span' = span + 1
  <2> DEFINE full == size * interval
             q == elapsed \div interval
             r == elapsed' \div interval
  <2>1. full \in Nat /\ elapsed \in Nat /\ (elapsed' = elapsed + 1 \/ (elapsed' = full /\ elapsed + 1 >= full + interval))
    BY <1>1 DEF WindowTypeOK, Pass
  <2>2. elapsed + 1 >= full + interval => elapsed >= full
    BY <2>1
  <2>3. elapsed' = elapsed + 1 => r = q \/ r = q + 1
    BY <2>1, Intervals
  <2>4. (elapsed < full <=> q < size) /\ (elapsed' < full <=> r < size)
    BY <2>1, Whole
  <2>5. q \in Nat /\ r \in Nat
    <3>1. elapsed \in Nat /\ elapsed' \in Nat
      BY <2>1
    <3> QED
      BY <3>1, Intervals
  <2>6. span = (IF q < size THEN q ELSE size) /\ span' = (IF r < size THEN r ELSE size)
    BY DEF span
  <2> HIDE DEF full, q, r
  <2> QED
    BY <1>2, <2>1, <2>2, <2>3, <2>4, <2>5, <2>6
<1>4. Seen' = [a \in 0 .. size - 1 |-> IF a < span' THEN Empty ELSE buckets[(offset - (a - span')) % size]]
  BY <1>1 DEF Seen
<1>5. CASE span' = span
  BY <1>4, <1>5 DEF Seen
<1>6. CASE span' = span + 1
  <2>1. ASSUME NEW a \in 0 .. size - 1
        PROVE  Seen'[a] = IF a = 0 THEN Empty ELSE Seen[a - 1]
    <3>1. CASE a = 0
      BY <1>2, <1>4, <1>6, <3>1
    <3>2. CASE a # 0
      <4>1. a - 1 \in 0 .. size - 1 /\ (a < span' <=> a - 1 < span) /\ a - span' = (a - 1) - span
        BY <1>2, <1>6, <3>2
      <4> QED
        BY <1>4, <3>2, <4>1 DEF Seen
    <3> QED
      BY <3>1, <3>2
  <2>2. Seen' = [a \in 0 .. size - 1 |-> IF a = 0 THEN Empty ELSE Seen[a - 1]]
    BY <1>4, <2>1
  <2> QED
    BY <2>2 DEF Abstract!Tick, Abstract!Ages, Abstract!NoEvents, Seen, Empty
<1> QED
  BY <1>3, <1>5, <1>6

\* An addition is seen in the newest interval alone.
LEMMA AddIsARecord ==
    ASSUME WindowInv, NEW v \in 0 .. 1, NEW late \in 0 .. Late, Add(v, late)
    PROVE  Abstract!Record(v)
<1> USE RollingWindowAssumption
<1>0. PICK j : j = (offset + span) % size
  OBVIOUS
<1> DEFINE kept == [b \in Slot |-> IF b \in Expired THEN Empty ELSE buckets[b]]
<1>1. WindowTypeOK /\ kept[j].count < MaxEvents /\ (span = 0 => late = 0)
      /\ buckets' = [kept EXCEPT ![j] = [sum |-> @.sum + v, count |-> @.count + 1]]
      /\ offset' = j
      /\ elapsed' = IF span = 0 THEN elapsed ELSE Aligned(late)
  BY <1>0 DEF WindowInv, Add
<1>2. elapsed' \in 0 .. interval - 1
  BY <1>1, TimeTakenOff
<1>3. span' = 0
  <2> DEFINE e == elapsed'
             r == e \div interval
  <2>1. e \in Nat /\ e < 1 * interval
    BY <1>2
  <2>2. e < 1 * interval <=> r < 1
    BY <2>1, Whole
  <2>3. r \in Nat
    BY <2>1, Intervals
  <2> HIDE DEF r
  <2>4. r = 0
    BY <2>1, <2>2, <2>3
  <2> QED
    BY <2>4 DEF span, r
<1>4. span \in 0 .. size /\ size \in Nat \ {0} /\ j \in Slot
  BY <1>0, <1>1, SpanIs, HeadMoves
<1>5. ASSUME NEW a \in 0 .. size - 1
      PROVE  kept[(j - a) % size] = Seen[a] /\ (j - a) % size \in Slot /\ ((j - a) % size = j <=> a = 0)
  <2> DEFINE place == (offset - (a - span)) % size
  <2>1. place \in Slot /\ (j - a) % size = place /\ (Due(place) <=> a < span) /\ (place = j <=> a = 0)
    BY <1>0, <1>1, PlaceOf
  <2>2. place \in Expired <=> a < span
    BY <1>1, <2>1, SlotsAre
  <2>3. Seen[a] = IF a < span THEN Empty ELSE buckets[place]
    BY DEF Seen
  <2> HIDE DEF place
  <2> QED
    BY <2>1, <2>2, <2>3
<1> HIDE DEF kept
<1>6. Seen' = [a \in 0 .. size - 1 |-> buckets'[(j - a) % size]]
  <2>1. \A a \in 0 .. size - 1 : ~(a < 0) /\ a - 0 = a
    OBVIOUS
  <2>2. Seen' = [a \in 0 .. size - 1 |-> IF a < span' THEN Empty ELSE buckets'[(offset' - (a - span')) % size]]
    BY DEF Seen
  <2> QED
    BY <1>1, <1>3, <2>1, <2>2
<1>7. ASSUME NEW a \in 0 .. size - 1
      PROVE  Seen'[a] = IF a = 0 THEN [sum |-> Seen[0].sum + v, count |-> Seen[0].count + 1] ELSE Seen[a]
  BY <1>1, <1>4, <1>5, <1>6 DEF kept
<1>8. Seen' = [Seen EXCEPT ![0] = [sum |-> @.sum + v, count |-> @.count + 1]]
  <2>1. Seen' = [a \in 0 .. size - 1 |-> IF a = 0 THEN [sum |-> Seen[0].sum + v, count |-> Seen[0].count + 1]
                                         ELSE Seen[a]]
    BY <1>6, <1>7
  <2> QED
    BY <2>1 DEF Seen
<1>9. Seen[0].count < MaxEvents
  <2>1. 0 \in 0 .. size - 1 /\ (j - 0) % size = j
    BY <1>4, <1>5
  <2> QED
    BY <1>1, <1>5, <2>1
<1> QED
  BY <1>8, <1>9 DEF Abstract!Record, Seen, Empty

(***************************************************************************)
(* The ring implements the window of EventWindow: every step of the code   *)
(* is an interval that begins, an event that is recorded, or neither.      *)
(***************************************************************************)
THEOREM TheRingKeepsThePromise == WindowSpec => WindowImplementsPromise
<1>1. WindowSpec => []WindowInv
  BY WindowStarts, WindowKeeps, PTL DEF WindowSpec
<1>2. WindowInv /\ [WindowNext]_windowVars => [Abstract!EventsNext]_Seen
  <2>1. UNCHANGED windowVars => UNCHANGED Seen
    BY DEF windowVars, Seen, span
  <2>2. ASSUME WindowInv, NEW v \in 0 .. 1, NEW late \in 0 .. Late, Add(v, late) PROVE Abstract!EventsNext
    BY <2>2, AddIsARecord DEF Abstract!EventsNext
  <2> QED
    BY <2>1, <2>2, PassIsATick DEF WindowNext, Abstract!EventsNext
<1> QED
  BY <1>1, <1>2, EmptyAtFirst, PTL DEF WindowSpec, WindowImplementsPromise, Abstract!EventsSpec, Seen
-----------------------------------------------------------------------------
(* The breaker.  What a failure has left in the window lies no further back  *)
(* than lastFailure says: younger intervals hold successes only.             *)

YoungerSucceeded == \A a \in Ages : a < lastFailure => events[a].sum = events[a].count

\* Without a reason in the error window no failure has had one yet.
ReasonsComeFirst ==
    errWin.count = 0 => ~loud /\ \A c \in Caller : call[c] # "failing"

BreakerInv ==
    /\ BreakerTypeOK
    /\ YoungerSucceeded
    /\ LastReasonsFirst
    /\ ReasonsComeFirst

LEMMA BreakerStarts == BreakerInit => BreakerInv
<1> SUFFICES ASSUME BreakerInit PROVE BreakerInv
  OBVIOUS
<1> USE EventWindowAssumption, BreakerAssumption
<1>1. events = [a \in Ages |-> NoEvents] /\ NoEvents \in Bucket
  BY DEF BreakerInit, EventsInit, NoEvents, Bucket
<1>2. EventsTypeOK /\ YoungerSucceeded
  BY <1>1 DEF EventsTypeOK, YoungerSucceeded, NoEvents
<1>3. recent = <<>> /\ errWin.count = 0 /\ String = recent
  BY DEF BreakerInit, String
<1>4. recent \in [1 .. 0 -> Reason] /\ 0 \in 0 .. MaxReasons
  BY <1>3
<1>5. recent \in UNION {[1 .. n -> Reason] : n \in 0 .. MaxReasons}
  BY <1>4
<1>6. BreakerTypeOK
  <2>1. errWin \in [reasons : [Index -> Reason \cup {NoReason}], index : Index, count : 0 .. MaxReasons]
    <3>1. 0 \in Index /\ 0 \in 0 .. MaxReasons
      BY DEF Index
    <3> QED
      BY <3>1 DEF BreakerInit
  <2>2. call \in [Caller -> {"idle", "dropped", "running", "failing"}] 
    BY DEF BreakerInit
  <2>3. lastFailure = Size /\ Size \in 0 .. Size /\ loud = FALSE
    BY DEF BreakerInit
  <2> QED
    BY <1>2, <1>5, <2>1, <2>2, <2>3 DEF BreakerTypeOK
<1> QED
  BY <1>2, <1>3, <1>6 DEF BreakerInv, LastReasonsFirst, ReasonsComeFirst, BreakerInit

\* A bucket that gets an event is still a bucket.
LEMMA RecordIsTyped ==
    ASSUME EventsTypeOK, NEW v \in 0 .. 1, Record(v)
    PROVE  /\ EventsTypeOK'
           /\ \A a \in Ages : events'[a] = IF a = 0 THEN [sum |-> events[0].sum + v, count |-> events[0].count + 1]
                                           ELSE events[a]
<1> USE EventWindowAssumption
<1>1. 0 \in Ages /\ events \in [Ages -> Bucket]
  BY DEF Ages, EventsTypeOK
<1>2. [sum |-> events[0].sum + v, count |-> events[0].count + 1] \in Bucket
  <2>1. events[0] \in Bucket /\ events[0].count < MaxCount
    BY <1>1 DEF Record
  <2> QED
    BY <2>1 DEF Bucket
<1>3. events' = [a \in Ages |-> IF a = 0 THEN [sum |-> events[0].sum + v, count |-> events[0].count + 1]
                                ELSE events[a]]
  BY <1>1 DEF Record
<1> QED
  BY <1>1, <1>2, <1>3 DEF EventsTypeOK

\* Steps that leave the error window alone.
LEMMA NoReasonAdded ==
    ASSUME BreakerInv, UNCHANGED <<errWin, recent>>
    PROVE  LastReasonsFirst'
  BY DEF BreakerInv, LastReasonsFirst, String

LEMMA TimeKeeps == BreakerInv /\ Time => BreakerInv'
<1> SUFFICES ASSUME BreakerInv, Time PROVE BreakerInv'
  OBVIOUS
<1> USE EventWindowAssumption, BreakerAssumption
<1>1. /\ BreakerTypeOK /\ YoungerSucceeded /\ ReasonsComeFirst
      /\ events \in [Ages -> Bucket] /\ lastFailure \in 0 .. Size
      /\ events' = [a \in Ages |-> IF a = 0 THEN NoEvents ELSE events[a - 1]]
      /\ lastFailure' = (IF lastFailure < Size THEN lastFailure + 1 ELSE Size)
      /\ UNCHANGED <<call, errWin, recent, loud>>
  BY DEF BreakerInv, BreakerTypeOK, EventsTypeOK, Time, Tick
<1>2. \A a \in Ages : a # 0 => a - 1 \in Ages
  BY DEF Ages
<1>3. NoEvents \in Bucket
  BY DEF NoEvents, Bucket
<1>4. EventsTypeOK'
  BY <1>1, <1>2, <1>3 DEF EventsTypeOK
<1>5. YoungerSucceeded'
  <2>1. ASSUME NEW a \in Ages, a < lastFailure' PROVE events'[a].sum = events'[a].count
    <3>1. a # 0 => a - 1 < lastFailure
      BY <1>1, <2>1 DEF Ages
    <3> QED
      BY <1>1, <1>2, <3>1 DEF YoungerSucceeded, NoEvents
  <2> QED
    BY <2>1 DEF YoungerSucceeded
<1>6. BreakerTypeOK'
  BY <1>1, <1>4 DEF BreakerTypeOK
<1>7. ReasonsComeFirst'
  BY <1>1 DEF ReasonsComeFirst
<1> QED
  BY <1>1, <1>5, <1>6, <1>7, NoReasonAdded DEF BreakerInv

\* Drop and Admit.
LEMMA DecisionKeeps ==
    ASSUME BreakerInv, NEW c \in Caller, NEW pc \in {"dropped", "running"}, Proceed(c, pc),
           UNCHANGED <<events, errWin, recent, lastFailure, loud>>
    PROVE  BreakerInv'
<1>1. BreakerTypeOK'
  BY DEF BreakerInv, BreakerTypeOK, EventsTypeOK, Proceed
<1>2. YoungerSucceeded'
  BY DEF BreakerInv, YoungerSucceeded
<1>3. ReasonsComeFirst'
  BY DEF BreakerInv, ReasonsComeFirst, BreakerTypeOK, Proceed
<1> QED
  BY <1>1, <1>2, <1>3, NoReasonAdded DEF BreakerInv

LEMMA MarkKeeps ==
    ASSUME BreakerInv, NEW c \in Caller, markSuccess(c) \/ markFailure(c)
    PROVE  BreakerInv'
<1> USE EventWindowAssumption, BreakerAssumption
<1>1. EventsTypeOK /\ BreakerTypeOK /\ YoungerSucceeded /\ ReasonsComeFirst
  BY DEF BreakerInv, BreakerTypeOK
<1>2. call' \in [Caller -> {"idle", "dropped", "running", "failing"}]
      /\ \A d \in Caller : call'[d] = "failing" => call[d] = "failing"
  BY <1>1 DEF BreakerTypeOK, markSuccess, markFailure, Proceed
<1>3. UNCHANGED <<errWin, recent>>
  BY DEF markSuccess, markFailure
<1>4. CASE markSuccess(c)
  <2>1. Record(1) /\ UNCHANGED <<lastFailure, loud>>
    BY <1>4 DEF markSuccess
  <2>2. /\ EventsTypeOK'
        /\ \A a \in Ages : events'[a] = IF a = 0 THEN [sum |-> events[0].sum + 1, count |-> events[0].count + 1]
                                        ELSE events[a]
    BY <1>1, <2>1, RecordIsTyped
  <2>3. YoungerSucceeded'
    BY <1>1, <2>1, <2>2 DEF YoungerSucceeded
  <2>4. BreakerTypeOK' /\ ReasonsComeFirst'
    BY <1>1, <1>2, <1>3, <2>1, <2>2 DEF BreakerTypeOK, ReasonsComeFirst
  <2> QED
    BY <1>3, <2>3, <2>4, NoReasonAdded DEF BreakerInv
<1>5. CASE markFailure(c)
  <2>1. Record(0) /\ lastFailure' = 0 /\ loud' = (loud \/ call[c] = "failing")
    BY <1>5 DEF markFailure
  <2>2. EventsTypeOK'
    BY <1>1, <2>1, RecordIsTyped
  <2>3. YoungerSucceeded'
    BY <2>1 DEF YoungerSucceeded, Ages
  <2>4. BreakerTypeOK' /\ ReasonsComeFirst'
    BY <1>1, <1>2, <1>3, <2>1, <2>2 DEF BreakerTypeOK, ReasonsComeFirst
  <2> QED
    BY <1>3, <2>3, <2>4, NoReasonAdded DEF BreakerInv
<1> QED
  BY <1>4, <1>5

\* The place that was written last is the one before the index, and going back from
\* there the ring comes to the earlier ones.
LEMMA PlacesBack ==
    ASSUME NEW n \in Nat \ {0}, NEW x \in 0 .. n - 1, NEW i \in 1 .. n
    PROVE  /\ (x + 1) % n \in 0 .. n - 1
           /\ i = 1 => (((x + 1) % n) - i) % n = x
           /\ i # 1 => /\ (((x + 1) % n) - i) % n = (x - (i - 1)) % n
                       /\ (((x + 1) % n) - i) % n # x
           /\ (((x + 1) % n) - i) % n \in 0 .. n - 1
<1>1. \A y \in Int : /\ 0 <= y /\ y < n => y % n = y
                     /\ 0 - n <= y /\ y < 0 => y % n = y + n
  OBVIOUS
<1> DEFINE y == (x + 1) % n
           z == y - i
           w == x - (i - 1)
<1>2. n % n = 0
  OBVIOUS
<1>3. y = IF x + 1 = n THEN 0 ELSE x + 1
  BY <1>1, <1>2
<1> HIDE DEF y
<1>4. z \in Int /\ w \in Int /\ 0 - n <= z /\ z < n /\ 0 - n <= w /\ w < n
  BY <1>3
<1>5. z % n = (IF z < 0 THEN z + n ELSE z) /\ w % n = (IF w < 0 THEN w + n ELSE w)
  BY <1>1, <1>4
<1>6. /\ y \in 0 .. n - 1
      /\ i = 1 => z % n = x
      /\ i # 1 => z % n = w % n /\ z % n # x
      /\ z % n \in 0 .. n - 1
  BY <1>3, <1>4, <1>5
<1> QED
  BY <1>6 DEF y

LEMMA FailureKeeps ==
    ASSUME BreakerInv, NEW c \in Caller, NEW reason \in Reason, FailsWith(c, reason)
    PROVE  BreakerInv'
<1> USE EventWindowAssumption, BreakerAssumption
<1>1. /\ BreakerTypeOK /\ YoungerSucceeded /\ LastReasonsFirst
      /\ errWin \in [reasons : [Index -> Reason \cup {NoReason}], index : Index, count : 0 .. MaxReasons]
  BY DEF BreakerInv, BreakerTypeOK
<1> DEFINE n == errWin.count
           m == IF n < MaxReasons THEN n + 1 ELSE MaxReasons
           index == errWin.index
<1>2. /\ errWin'.reasons = [errWin.reasons EXCEPT ![index] = reason]
      /\ errWin'.index = (index + 1) % MaxReasons
      /\ errWin'.count = m
      /\ errWin' = [reasons |-> errWin'.reasons, index |-> errWin'.index, count |-> errWin'.count]
  BY DEF FailsWith, add
<1>3. n \in 0 .. MaxReasons /\ m \in 1 .. MaxReasons /\ index \in 0 .. MaxReasons - 1 /\ m <= n + 1
  BY <1>1 DEF Index
<1>4. recent \in Seq(Reason) /\ Len(recent) = n /\ \A i \in 1 .. n : recent[i] = errWin.reasons[(index - i) % MaxReasons]
  <2>1. recent = [i \in 1 .. n |-> errWin.reasons[(index - i) % MaxReasons]]
    BY <1>1 DEF LastReasonsFirst, String
  <2>2. \E k \in 0 .. MaxReasons : recent \in [1 .. k -> Reason]
    BY <1>1 DEF BreakerTypeOK
  <2>3. PICK k \in 0 .. MaxReasons : recent \in [1 .. k -> Reason]
    BY <2>2
  <2>4. recent \in Seq(Reason) /\ Len(recent) = k
    BY <2>3
  <2>5. DOMAIN recent = 1 .. n /\ DOMAIN recent = 1 .. k
    BY <2>1, <2>3
  <2>6. k = n
    BY <1>3, <2>3, <2>5
  <2> QED
    BY <2>1, <2>4, <2>6
<1>5. recent' = SubSeq(<<reason>> \o recent, 1, m)
  BY <1>4 DEF FailsWith
<1> HIDE DEF n, m, index
<1>6. /\ recent' = [i \in 1 .. m |-> IF i = 1 THEN reason ELSE recent[i - 1]]
      /\ recent' \in [1 .. m -> Reason]
  <2>1. <<reason>> \o recent \in Seq(Reason) /\ Len(<<reason>> \o recent) = n + 1
        /\ \A i \in 1 .. n + 1 : (<<reason>> \o recent)[i] = IF i = 1 THEN reason ELSE recent[i - 1]
    BY <1>3, <1>4
  <2>2. recent' = [i \in 1 .. m |-> (<<reason>> \o recent)[i]]
    BY <1>3, <1>5, <2>1
  <2>3. \A i \in 1 .. m : i \in 1 .. n + 1 /\ (i # 1 => i - 1 \in 1 .. n)
    BY <1>3
  <2>4. \A i \in 1 .. n : recent[i] \in Reason
    BY <1>3, <1>4
  <2> QED
    BY <2>1, <2>2, <2>3, <2>4
<1>7. errWin' \in [reasons : [Index -> Reason \cup {NoReason}], index : Index, count : 0 .. MaxReasons]
  <2>1. errWin'.index \in Index
    BY <1>2, <1>3, PlacesBack DEF Index
  <2>2. errWin'.reasons \in [Index -> Reason \cup {NoReason}]
    BY <1>1, <1>2
  <2> QED
    BY <1>2, <1>3, <2>1, <2>2
<1>8. LastReasonsFirst'
  <2>1. ASSUME NEW i \in 1 .. m
        PROVE  errWin'.reasons[(errWin'.index - i) % MaxReasons] = recent'[i]
    <3> DEFINE place == (errWin'.index - i) % MaxReasons
    <3>1. /\ i = 1 => place = index
          /\ i # 1 => place = (index - (i - 1)) % MaxReasons /\ place # index
          /\ place \in Index
      BY <1>2, <1>3, PlacesBack DEF Index
    <3>2. errWin.reasons \in [Index -> Reason \cup {NoReason}]
      BY <1>1
    <3>3. i # 1 => i - 1 \in 1 .. n
      BY <1>3
    <3> HIDE DEF place
    <3>4. errWin'.reasons[place] = IF i = 1 THEN reason ELSE recent[i - 1]
      BY <1>2, <1>4, <3>1, <3>2, <3>3
    <3> QED
      BY <1>6, <3>4 DEF place
  <2>2. String' = [i \in 1 .. m |-> errWin'.reasons[(errWin'.index - i) % MaxReasons]]
    BY <1>2 DEF String
  <2>3. recent' = [i \in 1 .. m |-> recent'[i]]
    BY <1>6
  <2> QED
    BY <2>1, <2>2, <2>3 DEF LastReasonsFirst
<1>9. BreakerTypeOK'
  <2>1. recent' \in UNION {[1 .. k -> Reason] : k \in 0 .. MaxReasons}
    BY <1>3, <1>6
  <2> QED
    BY <1>1, <1>7, <2>1 DEF BreakerTypeOK, EventsTypeOK, FailsWith, Proceed
<1>10. YoungerSucceeded'
  BY <1>1 DEF YoungerSucceeded, FailsWith
<1>11. ReasonsComeFirst'
  BY <1>2, <1>3 DEF ReasonsComeFirst
<1> QED
  BY <1>8, <1>9, <1>10, <1>11 DEF BreakerInv

LEMMA BreakerKeeps == BreakerInv /\ [BreakerNext]_breakerVars => BreakerInv'
<1>1. BreakerInv /\ UNCHANGED breakerVars => BreakerInv'
  BY DEF breakerVars, BreakerInv, BreakerTypeOK, EventsTypeOK, YoungerSucceeded, LastReasonsFirst, String,
         ReasonsComeFirst
<1>2. ASSUME BreakerInv, NEW c \in Caller, Drop(c) \/ Admit(c) PROVE BreakerInv'
  <2>1. PICK pc \in {"dropped", "running"} : Proceed(c, pc)
    BY <1>2 DEF Drop, Admit
  <2>2. UNCHANGED <<events, errWin, recent, lastFailure, loud>>
    BY <1>2 DEF Drop, Admit
  <2> QED
    BY <1>2, <2>1, <2>2, DecisionKeeps
<1>3. ASSUME BreakerInv, NEW c \in Caller, markSuccess(c) \/ markFailure(c) PROVE BreakerInv'
  BY <1>3, MarkKeeps
<1>4. ASSUME BreakerInv, NEW c \in Caller, NEW reason \in Reason, FailsWith(c, reason) PROVE BreakerInv'
  BY <1>4, FailureKeeps
<1> QED
  BY <1>1, <1>2, <1>3, <1>4, TimeKeeps DEF BreakerNext

\* The totals are numbers, and equal when every event is a success.
LEMMA Totals ==
    ASSUME EventsTypeOK
    PROVE  total \in Nat /\ (( \A a \in Ages : events[a].sum = events[a].count) => accepts = total)
<1> USE EventWindowAssumption
<1> DEFINE all == {e \in Ages \X (1 .. MaxCount) : e[2] <= events[e[1]].count}
           good == {e \in Ages \X (1 .. MaxCount) : e[2] <= events[e[1]].sum}
<1>1. IsFiniteSet(Ages) /\ IsFiniteSet(1 .. MaxCount)
  BY FS_Interval DEF Ages
<1>2. IsFiniteSet(Ages \X (1 .. MaxCount))
  BY <1>1, FS_Product
<1>3. IsFiniteSet(all)
  BY <1>2, FS_Subset
<1>4. Cardinality(all) \in Nat
  BY <1>3, FS_CardinalityType
<1>5. (\A a \in Ages : events[a].sum = events[a].count) => good = all
  OBVIOUS
<1> QED
  BY <1>4, <1>5 DEF total, accepts

(***************************************************************************)
(* Nothing is dropped without a failure in the window, and the message     *)
(* about it has the last reasons, newest first: for any window, any number *)
(* of callers and any number of reasons that are kept.                     *)
(***************************************************************************)
THEOREM DropsAreExplained == BreakerSpec => []FailuresExplainDrops
<1>1. BreakerSpec => []BreakerInv
  BY BreakerStarts, BreakerKeeps, PTL DEF BreakerSpec
<1>2. BreakerInv => FailuresExplainDrops
  <2> SUFFICES ASSUME BreakerInv PROVE FailuresExplainDrops
    OBVIOUS
  <2>1. BreakerTypeOK /\ EventsTypeOK /\ YoungerSucceeded /\ LastReasonsFirst /\ ReasonsComeFirst
        /\ lastFailure \in 0 .. Size
    BY DEF BreakerInv, BreakerTypeOK
  <2>2. DropNeedsFailure
    <3> SUFFICES ASSUME ~(lastFailure < Size) PROVE ~Droppable
      BY DEF DropNeedsFailure
    <3>1. \A a \in Ages : events[a].sum = events[a].count
      BY <2>1, EventWindowAssumption DEF YoungerSucceeded, Ages
    <3>2. accepts = total /\ total \in Nat
      BY <2>1, <3>1, Totals
    <3> HIDE DEF total, accepts
    <3> QED
      BY <3>2, BreakerAssumption DEF Droppable
  <2>3. EmptyWindowIsSilent
    <3>1. errWin.count \in Nat
      BY <2>1, BreakerAssumption DEF BreakerTypeOK
    <3>2. String = <<>> => errWin.count = 0
      BY <3>1 DEF String
    <3> QED
      BY <2>1, <3>2 DEF EmptyWindowIsSilent, ReasonsComeFirst
  <2> QED
    BY <2>1, <2>2, <2>3 DEF FailuresExplainDrops
<1> QED
  BY <1>1, <1>2, PTL
-----------------------------------------------------------------------------
(* Proofs about BreakerRegistry for any number of goroutines, services and   *)
(* breakers.                                                                 *)

\* A breaker that is registered, or that somebody has got, is that of one name.
\* Once got, it can only be replaced by the no-op.
OneNameEach ==
    /\ \A n, m \in Service : breakers[n] \in Made /\ breakers[n] = breakers[m] => n = m
    /\ \A g \in Getter : get[g].breaker \in Made =>
           /\ breakers[get[g].name] \in {get[g].breaker, NoOp}
           /\ \A n \in Service : breakers[n] = get[g].breaker => n = get[g].name

RegistryInv == OneBreakerPerName /\ OneNameEach

\* Getting the breaker that is registered, or missing it, changes no breaker.
LEMMA InvOfGetting ==
    ASSUME RegistryInv, UNCHANGED breakers, NEW g \in Getter, NEW n \in Service,
           NEW pc \in {"missed", "got"}, NEW b \in {breakers[n], Missing},
           get' = [get EXCEPT ![g] = [pc |-> pc, name |-> n, breaker |-> b]]
    PROVE  RegistryInv'
<1> USE RegistryAssumption DEF RegistryInv, OneBreakerPerName, RegistryTypeOK
<1>1. RegistryTypeOK'
  BY DEF RegistryTypeOK
<1>2. /\ get'[g].name = n /\ get'[g].breaker = b
      /\ \A h \in Getter \ {g} : get'[h] = get[h]
  OBVIOUS
<1>3. OneNameEach'
  BY <1>2 DEF OneNameEach
<1>4. \A h \in Getter, k \in Getter :
          get'[h].breaker \in Made /\ get'[k].breaker \in Made =>
              (get'[h].name = get'[k].name <=> get'[h].breaker = get'[k].breaker)
  BY <1>2 DEF OneNameEach
<1> QED
  BY <1>1, <1>3, <1>4

\* A breaker that nobody has is registered for a name that had none.
LEMMA InvOfMaking ==
    ASSUME RegistryInv, NEW g \in Getter, NEW n \in Service, breakers[n] = Missing, Make(g, n)
    PROVE  RegistryInv'
<1> USE RegistryAssumption DEF RegistryInv, OneBreakerPerName, RegistryTypeOK
<1>1. PICK b \in UnmadeBreakers : breakers' = [breakers EXCEPT ![n] = b] /\ Have(g, n, b)
  BY DEF Make
<1>2. b \in Made /\ (\A m \in Service : breakers[m] # b) /\ (\A h \in Getter : get[h].breaker # b)
  BY DEF UnmadeBreakers
<1>3. /\ breakers' \in [Service -> Made \cup {NoOp, Missing}] /\ breakers'[n] = b
      /\ \A m \in Service \ {n} : breakers'[m] = breakers[m]
  BY <1>1, <1>2
<1>4. /\ get'[g] = [pc |-> "got", name |-> n, breaker |-> b]
      /\ \A h \in Getter \ {g} : get'[h] = get[h]
  BY <1>1 DEF Have
<1>5. \A h \in Getter : get[h].breaker \in Made => get[h].name # n
  BY DEF OneNameEach
<1>6. RegistryTypeOK'
  BY <1>1, <1>2, <1>3 DEF Have
<1>7. OneNameEach'
  BY <1>2, <1>3, <1>4, <1>5 DEF OneNameEach
<1>8. \A h \in Getter, k \in Getter :
          get'[h].breaker \in Made /\ get'[k].breaker \in Made =>
              (get'[h].name = get'[k].name <=> get'[h].breaker = get'[k].breaker)
  BY <1>2, <1>4, <1>5
<1> QED
  BY <1>6, <1>7, <1>8

LEMMA RegistryInvStep == RegistryInv /\ [RegistryNext]_registryVars => RegistryInv'
<1> SUFFICES ASSUME RegistryInv, [RegistryNext]_registryVars PROVE RegistryInv'
  OBVIOUS
<1>1. ASSUME NEW g \in Getter, NEW n \in Service, GetBreaker(g, n)
      PROVE  RegistryInv'
  BY <1>1, InvOfGetting DEF GetBreaker, Have
<1>2. ASSUME NEW g \in Getter, Register(g)
      PROVE  RegistryInv'
  <2>1. get[g].name \in Service
    BY DEF RegistryInv, OneBreakerPerName, RegistryTypeOK
  <2> QED
    BY <1>2, <2>1, InvOfGetting, InvOfMaking DEF Register, Have
<1>3. ASSUME NEW n \in Service, NoBreakerFor(n)
      PROVE  RegistryInv'
  BY <1>3, RegistryAssumption
     DEF NoBreakerFor, RegistryInv, OneBreakerPerName, RegistryTypeOK, OneNameEach
<1>4. CASE UNCHANGED registryVars
  BY <1>4 DEF registryVars, RegistryInv, OneBreakerPerName, RegistryTypeOK, OneNameEach
<1> QED
  BY <1>1, <1>2, <1>3, <1>4 DEF RegistryNext

\* However many goroutines ask for breakers at once, all that get one for a
\* name share it, and nobody shares it under another name (GetBreaker of
\* breakers.go).
THEOREM BreakersAreShared == RegistrySpec => []OneBreakerPerName
<1>1. RegistryInit => RegistryInv
  BY RegistryAssumption DEF RegistryInit, RegistryInv, OneBreakerPerName, RegistryTypeOK, OneNameEach
<1>2. RegistryInv => OneBreakerPerName
  BY DEF RegistryInv
<1> QED
  BY <1>1, <1>2, RegistryInvStep, PTL DEF RegistrySpec
=============================================================================
