-------------------------- MODULE BreakerRegistry --------------------------
(***************************************************************************)
(* core/breaker/breakers.go: the breakers by name.  GetBreaker looks under *)
(* the read lock, and once more under the write lock before it makes one.  *)
(***************************************************************************)
EXTENDS Integers, FiniteSets

CONSTANTS Getter,  \* goroutines that call GetBreaker
          Service, \* names
          Made,    \* the breakers there may be
          NoOp,    \* the one of NoBreakerFor
          Missing

ASSUME RegistryAssumption == NoOp \notin Made /\ Missing \notin Made \cup {NoOp}

VARIABLES breakers, \* breakers[n]: the breaker that is registered
          get       \* get[g]: the name asked for, and what g has got

registryVars == <<breakers, get>>

RegistryTypeOK ==
    /\ breakers \in [Service -> Made \cup {NoOp, Missing}]
    /\ get \in [Getter -> [pc : {"idle", "missed", "got"}, name : Service,
                           breaker : Made \cup {NoOp, Missing}]]

RegistryInit ==
    /\ breakers = [n \in Service |-> Missing]
    /\ get \in [Getter -> {[pc |-> "idle", name |-> n, breaker |-> Missing] : n \in Service}]
-----------------------------------------------------------------------------
Have(g, n, b) == get' = [get EXCEPT ![g] = [pc |-> "got", name |-> n, breaker |-> b]]

GetBreaker(g, n) ==
    /\ get[g].pc # "missed"
    /\ IF breakers[n] # Missing THEN Have(g, n, breakers[n])
       ELSE get' = [get EXCEPT ![g] = [pc |-> "missed", name |-> n, breaker |-> Missing]]
    /\ UNCHANGED breakers

\* NewBreaker makes one that nobody has.
UnmadeBreakers == Made \ ({breakers[n] : n \in Service} \cup {get[g].breaker : g \in Getter})

Make(g, n) ==
    \E b \in UnmadeBreakers : breakers' = [breakers EXCEPT ![n] = b] /\ Have(g, n, b)

\* Mutant: a miss under the read lock is enough.
RegisterAnyway(g) == get[g].pc = "missed" /\ Make(g, get[g].name)

Register(g) ==
    /\ get[g].pc = "missed"
    /\ LET n == get[g].name
       IN  IF breakers[n] = Missing THEN Make(g, n)
           ELSE Have(g, n, breakers[n]) /\ UNCHANGED breakers

NoBreakerFor(n) ==
    /\ breakers' = [breakers EXCEPT ![n] = NoOp]
    /\ UNCHANGED get

RegistryNext ==
    \/ \E g \in Getter : Register(g) \/ \E n \in Service : GetBreaker(g, n)
    \/ \E n \in Service : NoBreakerFor(n)

RegistrySpec == RegistryInit /\ [][RegistryNext]_registryVars
-----------------------------------------------------------------------------
(***************************************************************************)
(* All who have got a breaker for one name share it, and share it with no  *)
(* other name, but for the no-op that NoBreakerFor puts in its place: the  *)
(* failures of a service are counted in one place.                         *)
(***************************************************************************)
OneBreakerPerName ==
    /\ RegistryTypeOK
    /\ \A g, h \in Getter :
           get[g].breaker \in Made /\ get[h].breaker \in Made =>
               (get[g].name = get[h].name <=> get[g].breaker = get[h].breaker)
=============================================================================
