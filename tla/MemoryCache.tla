---------------------------- MODULE MemoryCache ----------------------------
(***************************************************************************)
(* core/cache/cache.go: a map under one read-write lock, with lazy expiry  *)
(* and a goroutine that removes expired entries once a minute.  Every      *)
(* method holds the lock from its first line to its return, so a call is   *)
(* one step; the clock and the cleaner move between calls.  The functions  *)
(* of global.go and context.go, and the ...Ctx methods, only forward here. *)
(***************************************************************************)
EXTENDS CacheItems

CONSTANTS CleanTicks,    \* ticks between two ticks of the cleaner's ticker
          ExpireOnlyLive \* callers call Expire only on a key that has not expired

ASSUME CleanAssumption == CleanTicks \in Nat \ {0} /\ ExpireOnlyLive \in BOOLEAN

VARIABLES data,    \* the map: an item or None
          phase,   \* ticks since the ticker last fired
          ticked,  \* a tick waits in cleaner.C, a channel of capacity one
          cleaner, \* the cleaner goroutine is running
          closed,  \* stopCh is closed
          ret      \* name, arguments and result of the last call

vars == <<data, phase, ticked, cleaner, closed, ret>>
upkeep == <<phase, ticked, cleaner, closed>>

Present(k) == data[k] # None
Expired(k) == Present(k) /\ isExpired(data[k])
Live(k) == Present(k) /\ ~isExpired(data[k])

TypeOK ==
    /\ data \in [Key -> Item \cup {None}]
    /\ phase \in 0..(CleanTicks - 1)
    /\ ticked \in BOOLEAN
    /\ cleaner \in BOOLEAN
    /\ closed \in BOOLEAN

Init ==
    /\ data = [k \in Key |-> None]
    /\ phase = 0
    /\ ticked = FALSE
    /\ cleaner = TRUE
    /\ closed = FALSE
    /\ ret = <<"New">>
-----------------------------------------------------------------------------
Set(k, v) ==
    /\ data' = [data EXCEPT ![k] = Forever(v)]
    /\ ret' = <<"Set", k>>
    /\ UNCHANGED upkeep

Setex(k, v, s) ==
    /\ data' = [data EXCEPT ![k] = Until(v, s)]
    /\ ret' = <<"Setex", k>>
    /\ UNCHANGED upkeep

Get(k) ==
    /\ ret' = <<"Get", k, IF Live(k) THEN data[k].value ELSE None>>
    /\ UNCHANGED <<data, upkeep>>

GetString(k) ==
    /\ ret' = <<"GetString", k,
                IF Live(k) /\ data[k].value \in Text THEN data[k].value ELSE None>>
    /\ UNCHANGED <<data, upkeep>>

Exists(k) ==
    /\ ret' = <<"Exists", k, Live(k)>>
    /\ UNCHANGED <<data, upkeep>>

\* Counts every key that is in the map, expired or not.
Del(ks) ==
    /\ data' = [k \in Key |-> IF k \in ks THEN None ELSE data[k]]
    /\ ret' = <<"Del", ks, Cardinality({k \in ks : Present(k)})>>
    /\ UNCHANGED upkeep

\* Looks the key up without isExpired, unlike every other method.
Expire(k, s) ==
    /\ ExpireOnlyLive => ~Expired(k)
    /\ ret' = <<"Expire", k, Present(k)>>
    /\ data' = IF Present(k)
               THEN [data EXCEPT ![k] = Until(data[k].value, s)]
               ELSE data
    /\ UNCHANGED upkeep

TTL(k) ==
    /\ ret' = <<"TTL", k, IF Live(k) THEN Remaining(data[k]) ELSE -2>>
    /\ UNCHANGED <<data, upkeep>>

\* matching is the set of keys the pattern matches.
KeysMatching(matching) ==
    /\ ret' = <<"Keys", matching, {k \in matching : Live(k)}>>
    /\ UNCHANGED <<data, upkeep>>

Len ==
    /\ ret' = <<"Len", Cardinality({k \in Key : Live(k)})>>
    /\ UNCHANGED <<data, upkeep>>

\* Mutant: an expired entry is incremented instead of replaced.
IncrByStale(k, n) ==
    LET it == IF Present(k) THEN [data[k] EXCEPT !.value = Sum(@, n)] ELSE Forever(n)
    IN  /\ data' = [data EXCEPT ![k] = it]
        /\ ret' = <<"IncrBy", k, it.value>>
        /\ UNCHANGED upkeep

\* A live entry keeps its deadline; an absent or expired one starts afresh.
IncrBy(k, n) ==
    LET it == IF Live(k) THEN [data[k] EXCEPT !.value = Sum(@, n)] ELSE Forever(n)
    IN  /\ data' = [data EXCEPT ![k] = it]
        /\ ret' = <<"IncrBy", k, it.value>>
        /\ UNCHANGED upkeep

Flush ==
    /\ data' = [k \in Key |-> None]
    /\ ret' = <<"Flush">>
    /\ UNCHANGED upkeep

\* close(stopCh): closing it a second time panics.
Close ==
    /\ closed' = TRUE
    /\ ret' = <<"Close", IF closed THEN "panic" ELSE "ok">>
    /\ UNCHANGED <<data, phase, ticked, cleaner>>

Call ==
    \/ \E k \in Key :
        \/ Get(k) \/ GetString(k) \/ Exists(k) \/ TTL(k)
        \/ \E v \in Value : Set(k, v)
        \/ \E v \in Value, s \in Seconds : Setex(k, v, s)
        \/ \E s \in Seconds : Expire(k, s)
        \/ \E n \in Number : IncrBy(k, n)
    \/ \E ks \in SUBSET Key : Del(ks) \/ KeysMatching(ks)
    \/ Len
    \/ Flush
    \/ Close
-----------------------------------------------------------------------------
\* Time passes: entries age, and the ticker fires once per CleanTicks while it runs.
Tick ==
    /\ data' = [k \in Key |-> IF Present(k) THEN Aged(data[k]) ELSE None]
    /\ phase' = (phase + 1) % CleanTicks
    /\ ticked' = (ticked \/ (cleaner /\ phase' = 0))
    /\ UNCHANGED <<cleaner, closed, ret>>

\* Mutant: the cleaner returns after its first round.
deleteExpiredOnce ==
    /\ cleaner /\ ticked
    /\ data' = [k \in Key |-> IF Expired(k) THEN None ELSE data[k]]
    /\ ticked' = FALSE
    /\ cleaner' = FALSE
    /\ UNCHANGED <<phase, closed, ret>>

deleteExpired ==
    /\ cleaner /\ ticked
    /\ data' = [k \in Key |-> IF Expired(k) THEN None ELSE data[k]]
    /\ ticked' = FALSE
    /\ UNCHANGED <<phase, cleaner, closed, ret>>

stopCleaner ==
    /\ cleaner /\ closed
    /\ cleaner' = FALSE
    /\ UNCHANGED <<data, phase, ticked, closed, ret>>

Next == Call \/ Tick \/ deleteExpired \/ stopCleaner

Spec == Init /\ [][Next]_vars

\* The clock advances and a ready goroutine runs; nobody has to call anything.
Fairness == WF_vars(Tick) /\ WF_vars(deleteExpired) /\ WF_vars(stopCleaner)

FairSpec == Spec /\ Fairness
-----------------------------------------------------------------------------
(* What a reader can see of the map: the entries that have not expired. *)
view == [k \in Key |-> IF Live(k) THEN data[k] ELSE None]

Abs == INSTANCE AbstractCache WITH entries <- view

(***************************************************************************)
(* The cache with lazy expiry and a cleaner is indistinguishable, call by  *)
(* call, from one whose entries vanish at their deadline: no method's      *)
(* result and no later result tells whether the cleaner has run.           *)
(***************************************************************************)
ImplementsAbstractCache == Abs!Spec

(***************************************************************************)
(* Entries that nobody reads again do not stay: an expired entry is        *)
(* removed or replaced, unless the cache is closed (deleteExpired, the     *)
(* ticker).                                                                *)
(***************************************************************************)
ExpiredIsReclaimed == \A k \in Key : Expired(k) ~> (~Expired(k) \/ closed)
=============================================================================
