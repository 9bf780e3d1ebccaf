--------------------------- MODULE AbstractCache ---------------------------
(***************************************************************************)
(* What core/cache promises its callers: a map whose entries disappear     *)
(* the moment their deadline has passed.  There is no cleaner and no       *)
(* expired entry; every call is one atomic step that leaves its result in  *)
(* "ret".                                                                  *)
(***************************************************************************)
EXTENDS CacheItems

VARIABLES entries, \* entries[k]: the live entry of k, or None
          ret      \* name, arguments and result of the last call

avars == <<entries, ret>>

Has(k) == entries[k] # None

\* An entry given a deadline in the past is no entry at all.
Kept(it) == IF isExpired(it) THEN None ELSE it

Init ==
    /\ entries = [k \in Key |-> None]
    /\ ret = <<"New">>

Set(k, v) ==
    /\ entries' = [entries EXCEPT ![k] = Forever(v)]
    /\ ret' = <<"Set", k>>

Setex(k, v, s) ==
    /\ entries' = [entries EXCEPT ![k] = Kept(Until(v, s))]
    /\ ret' = <<"Setex", k>>

Get(k) ==
    /\ ret' = <<"Get", k, IF Has(k) THEN entries[k].value ELSE None>>
    /\ UNCHANGED entries

GetString(k) ==
    /\ ret' = <<"GetString", k,
                IF Has(k) /\ entries[k].value \in Text THEN entries[k].value ELSE None>>
    /\ UNCHANGED entries

Exists(k) ==
    /\ ret' = <<"Exists", k, Has(k)>>
    /\ UNCHANGED entries

\* The count may include keys that have disappeared already.
Del(ks) ==
    /\ entries' = [k \in Key |-> IF k \in ks THEN None ELSE entries[k]]
    /\ \E n \in Cardinality({k \in ks : Has(k)}) .. Cardinality(ks) :
           ret' = <<"Del", ks, n>>

Expire(k, s) ==
    /\ ret' = <<"Expire", k, Has(k)>>
    /\ entries' = IF Has(k)
                  THEN [entries EXCEPT ![k] = Kept(Until(entries[k].value, s))]
                  ELSE entries

TTL(k) ==
    /\ ret' = <<"TTL", k, IF Has(k) THEN Remaining(entries[k]) ELSE -2>>
    /\ UNCHANGED entries

KeysMatching(matching) ==
    /\ ret' = <<"Keys", matching, {k \in matching : Has(k)}>>
    /\ UNCHANGED entries

Len ==
    /\ ret' = <<"Len", Cardinality({k \in Key : Has(k)})>>
    /\ UNCHANGED entries

IncrBy(k, n) ==
    LET it == IF Has(k) THEN [entries[k] EXCEPT !.value = Sum(@, n)] ELSE Forever(n)
    IN  /\ entries' = [entries EXCEPT ![k] = it]
        /\ ret' = <<"IncrBy", k, it.value>>

Flush ==
    /\ entries' = [k \in Key |-> None]
    /\ ret' = <<"Flush">>

\* Closing stops the housekeeping only; a second Close panics.
Close ==
    /\ \E r \in {"ok", "panic"} : ret' = <<"Close", r>>
    /\ UNCHANGED entries

Tick ==
    /\ entries' = [k \in Key |-> IF Has(k) THEN Kept(Aged(entries[k])) ELSE None]
    /\ UNCHANGED ret

Call ==
    \/ \E k \in Key :
        \/ Get(k) \/ GetString(k) \/ Exists(k) \/ TTL(k)
        \/ \E v \in Value : Set(k, v)
        \/ \E v \in Value, s \in Seconds : Setex(k, v, s)
        \/ \E s \in Seconds : Expire(k, s)
        \/ \E n \in Number : IncrBy(k, n)
    \/ \E ks \in SUBSET Key : Del(ks) \/ KeysMatching(ks)
    \/ Len
    \/ Flush
    \/ Close

Next == Call \/ Tick

Spec == Init /\ [][Next]_avars
=============================================================================
