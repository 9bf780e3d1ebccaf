-------------------------- MODULE MemoryCacheProofs --------------------------
(* Proofs about core/cache for every set of keys, values and bounds.         *)
EXTENDS MemoryCache, FiniteSetTheorems, TLAPS

\* The items the methods build are items.
LEMMA ItemsAreItems ==
    /\ \A v \in Value : Forever(v) \in Item
    /\ \A v \in Value, s \in Seconds : Until(v, s) \in Item
    /\ \A it \in Item : Aged(it) \in Item
    /\ \A it \in Item, n \in Number : [it EXCEPT !.value = Sum(@, n)] \in Item
<1>1. \A v \in Value : Forever(v) \in Item
  BY DEF Forever, Item
<1>2. \A s \in Seconds : TimeLeft(s) \in Int
  BY WidthAssumption, SecondsAssumption DEF TimeLeft, Seconds
<1>3. \A v \in Value, s \in Seconds : Until(v, s) \in Item
  BY <1>2 DEF Until, Item
<1>4. \A it \in Item : Aged(it) \in Item
  BY DEF Aged, Item
<1>5. \A v \in Value, n \in Number : Sum(v, n) \in Number
  BY WidthAssumption DEF Sum, AsNumber, Number
<1>6. \A it \in Item, n \in Number : [it EXCEPT !.value = Sum(@, n)] \in Item
  BY <1>5 DEF Item, Value
<1> QED
  BY <1>1, <1>3, <1>4, <1>6

LEMMA NumbersAreValues == Number \subseteq Value
  BY DEF Value

LEMMA NoneIsNoItem == None \notin Item
  BY NoneAssumption

\* Type correctness: the map holds items and nothing else, whatever the
\* interleaving of calls, clock and cleaner.
THEOREM TypeCorrect == Spec => []TypeOK
<1>1. Init => TypeOK
  <2> SUFFICES ASSUME Init PROVE TypeOK
    OBVIOUS
  <2>1. data \in [Key -> Item \cup {None}]
    BY Zenon DEF Init
  <2>2. phase \in 0..(CleanTicks - 1)
    BY CleanAssumption DEF Init
  <2> QED
    BY <2>1, <2>2 DEF Init, TypeOK
<1>2. TypeOK /\ [Next]_vars => TypeOK'
  <2> SUFFICES ASSUME TypeOK, [Next]_vars PROVE TypeOK'
    OBVIOUS
  <2> USE DEF TypeOK, upkeep
  <2>1. ASSUME NEW k \in Key, Get(k) \/ GetString(k) \/ Exists(k) \/ TTL(k)
        PROVE  TypeOK'
    BY <2>1 DEF Get, GetString, Exists, TTL
  <2>2. ASSUME NEW k \in Key, NEW v \in Value, Set(k, v)
        PROVE  TypeOK'
    BY <2>2, ItemsAreItems DEF Set
  <2>3. ASSUME NEW k \in Key, NEW v \in Value, NEW s \in Seconds, Setex(k, v, s)
        PROVE  TypeOK'
    BY <2>3, ItemsAreItems DEF Setex
  <2>4. ASSUME NEW k \in Key, NEW s \in Seconds, Expire(k, s)
        PROVE  TypeOK'
    <3>1. CASE Present(k)
      <4>1. data[k] \in Item
        BY <3>1 DEF Present
      <4>2. Until(data[k].value, s) \in Item
        BY <4>1, ItemsAreItems DEF Item
      <4> QED
        BY <2>4, <3>1, <4>2 DEF Expire
    <3>2. CASE ~Present(k)
      BY <2>4, <3>2 DEF Expire
    <3> QED
      BY <3>1, <3>2
  <2>5. ASSUME NEW k \in Key, NEW n \in Number, IncrBy(k, n)
        PROVE  TypeOK'
    <3>1. CASE Live(k)
      <4>1. data[k] \in Item
        BY <3>1 DEF Live, Present
      <4> QED
        BY <2>5, <3>1, <4>1, ItemsAreItems DEF IncrBy
    <3>2. CASE ~Live(k)
      BY <2>5, <3>2, ItemsAreItems, NumbersAreValues DEF IncrBy
    <3> QED
      BY <3>1, <3>2
  <2>6. ASSUME NEW ks \in SUBSET Key, Del(ks) \/ KeysMatching(ks)
        PROVE  TypeOK'
    BY <2>6 DEF Del, KeysMatching
  <2>7. CASE Len \/ Flush \/ Close
    BY <2>7 DEF Len, Flush, Close
  <2>8. CASE Tick
    <3>1. phase' \in 0..(CleanTicks - 1)
      BY <2>8, CleanAssumption DEF Tick
    <3>2. data' \in [Key -> Item \cup {None}]
      BY <2>8, ItemsAreItems DEF Tick, Present
    <3>3. ticked' \in BOOLEAN
      BY <2>8 DEF Tick
    <3> QED
      BY <2>8, <3>1, <3>2, <3>3 DEF Tick
  <2>9. CASE deleteExpired \/ stopCleaner
    BY <2>9 DEF deleteExpired, stopCleaner
  <2>10. CASE UNCHANGED vars
    BY <2>10 DEF vars
  <2> QED
    BY <2>1, <2>2, <2>3, <2>4, <2>5, <2>6, <2>7, <2>8, <2>9, <2>10 DEF Next, Call
<1> QED
  BY <1>1, <1>2, PTL DEF Spec
-----------------------------------------------------------------------------
(* Refinement.  The mapping hides expired entries; the instance's copies of  *)
(* the operators on items are the same operators.                            *)
LEMMA SameOperators ==
    /\ Abs!Value = Value /\ Abs!Seconds = Seconds
    /\ Abs!Number = Number
    /\ \A v : Abs!Forever(v) = Forever(v)
    /\ \A v, s : Abs!Until(v, s) = Until(v, s)
    /\ \A it : Abs!isExpired(it) <=> isExpired(it)
    /\ \A it : Abs!Aged(it) = Aged(it)
    /\ \A v, n : Abs!Sum(v, n) = Sum(v, n)
    /\ \A it : Abs!Remaining(it) = Remaining(it)
  BY DEF Abs!Value, Value, Abs!Seconds, Seconds, Abs!Number, Number, Abs!Forever, Forever,
         Abs!Until, Until, Abs!TimeLeft, TimeLeft, Abs!isExpired, isExpired, Abs!Aged, Aged,
         Abs!Sum, Sum, Abs!AsNumber, AsNumber, Abs!Remaining, Remaining

LEMMA SameCardinality == \A S : Abs!Cardinality(S) = Cardinality(S)
  BY DEF Abs!Cardinality, Cardinality, Abs!IsFiniteSet, IsFiniteSet

\* What the mapping shows of a key, and that "has an entry" means "is live".
LEMMA ViewOfKey ==
    ASSUME TypeOK, NEW k \in Key
    PROVE  /\ Abs!Has(k) = Live(k)
           /\ Live(k) => view[k] = data[k] /\ data[k] \in Item
           /\ ~Live(k) => view[k] = None
  BY NoneIsNoItem DEF Abs!Has, view, Live, Present, TypeOK

\* Writing an item in the map shows as writing what is left of it in the view.
LEMMA ViewOfWrite ==
    ASSUME TypeOK, NEW k \in Key, NEW it \in Item, data' = [data EXCEPT ![k] = it]
    PROVE  view' = [view EXCEPT ![k] = Abs!Kept(it)]
<1>1. \A j \in Key : data'[j] = IF j = k THEN it ELSE data[j]
  BY DEF TypeOK
<1>2. \A j \in Key : view'[j] = IF j = k THEN Abs!Kept(it) ELSE view[j]
  BY <1>1, NoneIsNoItem, SameOperators DEF view, Live, Present, Abs!Kept
<1> QED
  BY <1>2 DEF view

LEMMA UnchangedView ==
    ASSUME UNCHANGED data
    PROVE  UNCHANGED view
  BY DEF view, Live, Present

LEMMA WritesAreKept ==
    /\ \A v \in Value : Abs!Kept(Forever(v)) = Forever(v)
    /\ \A it \in Item : \A v : ~isExpired(it) => Abs!Kept([it EXCEPT !.value = v]) = [it EXCEPT !.value = v]
  BY SameOperators DEF Abs!Kept, Forever, isExpired, Item

\* Every step of the cache is a step of the abstract cache, or hides from it.
LEMMA StepRefines ==
    ASSUME ExpireOnlyLive, TypeOK, [Next]_vars
    PROVE  [Abs!Next]_(Abs!avars)
<1>1. ASSUME NEW k \in Key, Get(k)
      PROVE  Abs!Get(k)
  BY <1>1, ViewOfKey, UnchangedView DEF Get, Abs!Get
<1>2. ASSUME NEW k \in Key, GetString(k)
      PROVE  Abs!GetString(k)
  BY <1>2, ViewOfKey, UnchangedView DEF GetString, Abs!GetString
<1>3. ASSUME NEW k \in Key, Exists(k)
      PROVE  Abs!Exists(k)
  BY <1>3, ViewOfKey, UnchangedView DEF Exists, Abs!Exists
<1>4. ASSUME NEW k \in Key, TTL(k)
      PROVE  Abs!TTL(k)
  BY <1>4, ViewOfKey, UnchangedView, SameOperators DEF TTL, Abs!TTL
<1>5. ASSUME NEW k \in Key, NEW v \in Value, Set(k, v)
      PROVE  Abs!Set(k, v)
  <2>1. Forever(v) \in Item /\ Abs!Kept(Forever(v)) = Forever(v)
    BY ItemsAreItems, WritesAreKept
  <2>2. view' = [view EXCEPT ![k] = Forever(v)]
    BY <1>5, <2>1, ViewOfWrite DEF Set
  <2> QED
    BY <1>5, <2>2, SameOperators DEF Set, Abs!Set
<1>6. ASSUME NEW k \in Key, NEW v \in Value, NEW s \in Seconds, Setex(k, v, s)
      PROVE  Abs!Setex(k, v, s)
  <2>1. view' = [view EXCEPT ![k] = Abs!Kept(Until(v, s))]
    BY <1>6, ViewOfWrite, ItemsAreItems DEF Setex
  <2> QED
    BY <1>6, <2>1, SameOperators DEF Setex, Abs!Setex
<1>7. ASSUME NEW k \in Key, NEW s \in Seconds, Expire(k, s)
      PROVE  Abs!Expire(k, s)
  <2>1. Present(k) = Live(k)
    BY <1>7 DEF Expire, Live, Expired, Present
  <2>2. ret' = <<"Expire", k, Abs!Has(k)>>
    BY <1>7, <2>1, ViewOfKey DEF Expire
  <2>3. CASE Live(k)
    <3>1. data[k] \in Item /\ view[k] = data[k]
      BY <2>3, ViewOfKey
    <3>2. Until(data[k].value, s) \in Item
      BY <3>1, ItemsAreItems DEF Item
    <3>3. view' = [view EXCEPT ![k] = Abs!Kept(Until(data[k].value, s))]
      BY <1>7, <2>1, <2>3, <3>2, ViewOfWrite DEF Expire
    <3> QED
      BY <2>2, <2>3, <3>1, <3>3, ViewOfKey, SameOperators DEF Abs!Expire
  <2>4. CASE ~Live(k)
    <3>1. view' = view
      BY <1>7, <2>1, <2>4, UnchangedView DEF Expire
    <3> QED
      BY <2>2, <2>4, <3>1, ViewOfKey DEF Abs!Expire
  <2> QED
    BY <2>3, <2>4
<1>8. ASSUME NEW k \in Key, NEW n \in Number, IncrBy(k, n)
      PROVE  Abs!IncrBy(k, n)
  <2>1. CASE Live(k)
    <3> DEFINE it == [data[k] EXCEPT !.value = Sum(@, n)]
    <3>1. data[k] \in Item /\ view[k] = data[k]
      BY <2>1, ViewOfKey
    <3>2. it \in Item
      BY <3>1, ItemsAreItems
    <3>3. Abs!Kept(it) = it
      BY <2>1, <3>1, WritesAreKept DEF Live
    <3>4. data' = [data EXCEPT ![k] = it] /\ ret' = <<"IncrBy", k, it.value>>
      BY <1>8, <2>1 DEF IncrBy
    <3>5. view' = [view EXCEPT ![k] = it]
      BY <3>2, <3>3, <3>4, ViewOfWrite
    <3>6. it = [view[k] EXCEPT !.value = Abs!Sum(@, n)]
      BY <3>1, SameOperators
    <3> QED
      BY <2>1, <3>4, <3>5, <3>6, ViewOfKey, Zenon DEF Abs!IncrBy
  <2>2. CASE ~Live(k)
    <3>1. data' = [data EXCEPT ![k] = Forever(n)] /\ ret' = <<"IncrBy", k, Forever(n).value>>
      BY <1>8, <2>2 DEF IncrBy
    <3>2. Forever(n) \in Item /\ Abs!Kept(Forever(n)) = Forever(n)
      BY ItemsAreItems, WritesAreKept, NumbersAreValues
    <3>3. view' = [view EXCEPT ![k] = Forever(n)]
      BY <3>1, <3>2, ViewOfWrite
    <3> QED
      BY <2>2, <3>1, <3>3, ViewOfKey, SameOperators DEF Abs!IncrBy
  <2> QED
    BY <2>1, <2>2
<1>9. ASSUME NEW ks \in SUBSET Key, Del(ks)
      PROVE  Abs!Del(ks)
  <2>1. view' = [k \in Key |-> IF k \in ks THEN None ELSE view[k]]
    BY <1>9 DEF Del, view, Live, Present
  <2> DEFINE present == {k \in ks : Present(k)}
             has == {k \in ks : Abs!Has(k)}
  <2>2. IsFiniteSet(ks) /\ IsFiniteSet(present) /\ Cardinality(present) <= Cardinality(ks)
    BY FS_Subset, KeyAssumption
  <2>3. has \subseteq present
    BY ViewOfKey DEF Live
  <2>4. IsFiniteSet(has) /\ Cardinality(has) <= Cardinality(present)
    BY <2>2, <2>3, FS_Subset
  <2>5. Cardinality(present) \in Cardinality(has) .. Cardinality(ks)
    BY <2>2, <2>4, FS_CardinalityType
  <2>6. ret' = <<"Del", ks, Cardinality(present)>>
    BY <1>9 DEF Del
  <2>7. \E n \in Cardinality(has) .. Cardinality(ks) : ret' = <<"Del", ks, n>>
    BY <2>5, <2>6
  <2> QED
    BY <2>1, <2>7, SameCardinality DEF Abs!Del
<1>10. ASSUME NEW ks \in SUBSET Key, KeysMatching(ks)
       PROVE  Abs!KeysMatching(ks)
  <2>1. {k \in ks : Live(k)} = {k \in ks : Abs!Has(k)}
    BY ViewOfKey
  <2> QED
    BY <1>10, <2>1, UnchangedView DEF KeysMatching, Abs!KeysMatching
<1>11. ASSUME Len PROVE Abs!Len
  <2>1. {k \in Key : Live(k)} = {k \in Key : Abs!Has(k)}
    BY ViewOfKey
  <2>2. ret' = <<"Len", Cardinality({k \in Key : Abs!Has(k)})>>
    BY <1>11, <2>1 DEF Len
  <2>3. UNCHANGED view
    BY <1>11, UnchangedView DEF Len
  <2> QED
    BY <2>2, <2>3, SameCardinality, Zenon DEF Abs!Len
<1>12. ASSUME Flush PROVE Abs!Flush
  BY <1>12 DEF Flush, Abs!Flush, view, Live, Present
<1>13. ASSUME Close PROVE Abs!Close
  BY <1>13, UnchangedView DEF Close, Abs!Close
<1>14. ASSUME Tick PROVE Abs!Tick
  <2>1. \A k \in Key : data'[k] = IF Present(k) THEN Aged(data[k]) ELSE None
    BY <1>14 DEF Tick
  <2>2. \A it \in Item : isExpired(it) => isExpired(Aged(it))
    BY DEF isExpired, Aged, Item
  <2>3. ASSUME NEW k \in Key
        PROVE  view'[k] = IF Abs!Has(k) THEN Abs!Kept(Abs!Aged(view[k])) ELSE None
    <3>1. CASE Live(k)
      <4>1. data[k] \in Item /\ view[k] = data[k]
        BY <3>1, ViewOfKey
      <4>2. data'[k] = Aged(data[k]) /\ Aged(data[k]) # None
        BY <2>1, <3>1, <4>1, ItemsAreItems, NoneIsNoItem DEF Live
      <4> QED
        BY <3>1, <4>1, <4>2, ViewOfKey, SameOperators DEF view, Live, Present, Abs!Kept
    <3>2. CASE ~Live(k)
      <4>1. Present(k) => data[k] \in Item /\ isExpired(data[k])
        BY <3>2 DEF Live, Present, TypeOK
      <4>2. view'[k] = None
        BY <2>1, <2>2, <4>1 DEF view, Live, Present
      <4> QED
        BY <3>2, <4>2, ViewOfKey
    <3> QED
      BY <3>1, <3>2
  <2>4. view' = [k \in Key |-> IF Abs!Has(k) THEN Abs!Kept(Abs!Aged(view[k])) ELSE None]
    BY <2>3 DEF view
  <2> QED
    BY <1>14, <2>4 DEF Tick, Abs!Tick
<1>15. ASSUME deleteExpired PROVE UNCHANGED Abs!avars
  <2>1. view' = view
    BY <1>15 DEF deleteExpired, view, Live, Expired, Present
  <2> QED
    BY <1>15, <2>1 DEF deleteExpired, Abs!avars
<1>16. ASSUME stopCleaner \/ UNCHANGED vars PROVE UNCHANGED Abs!avars
  BY <1>16, UnchangedView DEF stopCleaner, vars, Abs!avars
<1> QED
  BY <1>1, <1>2, <1>3, <1>4, <1>5, <1>6, <1>7, <1>8, <1>9, <1>10, <1>11, <1>12, <1>13,
     <1>14, <1>15, <1>16, SameOperators DEF Next, Call, Abs!Next, Abs!Call

\* The cache implements the abstract one for callers that do not Expire what
\* has expired already: lazy expiry and the cleaner cannot be observed.
THEOREM CacheRefinement ==
    ASSUME ExpireOnlyLive
    PROVE  Spec => ImplementsAbstractCache
<1>1. Init => Abs!Init
  BY DEF Init, Abs!Init, view, Live, Present
<1>2. TypeOK /\ [Next]_vars => [Abs!Next]_(Abs!avars)
  BY StepRefines
<1> QED
  BY <1>1, <1>2, TypeCorrect, PTL DEF Spec, Abs!Spec, ImplementsAbstractCache
=============================================================================
