----------------------------- MODULE MCToolkit -----------------------------
(***************************************************************************)
(* Four packages of core that have nothing to do with each other: each is  *)
(* explored with the others at rest.                                       *)
(***************************************************************************)
EXTENDS Resources, ConsistentHash, KeywordTrie, Mapping, TLC

VARIABLE moving \* the model that takes steps

vars == <<resourceVars, hashVars, trieVars, mappingVars, moving>>

\* Where the replicas of the nodes stand: `c` is between the points of `a`, and the
\* second replica of `a` is hashed as those of `b`.
MCHashFunc == [a |-> 0 :> 0 @@ 1 :> 2, b |-> 0 :> 2 @@ 1 :> 2, c |-> 0 :> 1 @@ 1 :> 1]

With(opts) == opts @@ [NoOptions EXCEPT !.tagged = TRUE]
Num(key, opts) == [key |-> key, kind |-> "number", sub |-> <<>>, opts |-> opts]
Struct(kind, sub, opts) == [key |-> "s", kind |-> kind, sub |-> sub, opts |-> opts]

\* Tags of a number that stand by themselves, and those that name the field `a`.
Plain == {NoOptions, With([optional |-> TRUE]), With([default |-> 2]), With([range |-> <<1, 2>>])}
Tags == Plain \cup
    {With([optional |-> TRUE, dep |-> "a"]), With([optional |-> TRUE, dep |-> "a", negated |-> TRUE]),
     With([optional |-> TRUE, dep |-> "a", range |-> <<1, 2>>]), With([inherit |-> TRUE]),
     With([default |-> 3, range |-> <<1, 2>>]), With([options |-> {2, 3}]),
     With([fromString |-> TRUE, options |-> {1, 2}]), With([env |-> 3, range |-> <<1, 3>>, optional |-> TRUE]),
     With([env |-> 3, range |-> <<1, 2>>, optional |-> TRUE])}

\* Structs of two numbers, and structs with one of these in them.
Structs ==
    {Struct(kind, sub, opts) :
        kind \in {"struct", "embedded"},
        sub \in {<<Num("a", o), Num("b", p)>> : o \in {With([optional |-> TRUE]), With([inherit |-> TRUE])}, p \in Tags},
        opts \in {NoOptions, With([optional |-> TRUE]), With([inherit |-> TRUE]), With([default |-> 2])}}
Nested ==
    {Struct(kind, <<Num("a", With([optional |-> TRUE])), s>>, opts) :
        kind \in {"struct", "embedded"},
        s \in {inner \in Structs : inner.sub[2].opts \in Plain}, opts \in {NoOptions, With([inherit |-> TRUE])}}

MCFields == <<{Num(key, opts) : key \in {"a", "b"}, opts \in Tags}, Structs, Nested>>
MCTypes ==
    {<<Num("a", o), Num("b", p)>> : o \in Plain, p \in Tags}
    \cup {<<Num("a", With([optional |-> TRUE])), s>> : s \in Structs \cup Nested}

Values == {Absent, Nil, Number(1), Number(3), JsonNumber(2), String(2), String(Unset)}
MapsTo(values, further) ==
    {[k \in {j \in {"a", "b", "s"} : v[j] # Absent} |-> v[k]] :
        v \in {[a |-> x, b |-> y, s |-> z] : x, y \in values, z \in further}}

Few == {Absent, Number(1), Number(3)}
Inner == {Absent} \cup {MapOf(m) : m \in MapsTo({Absent, Number(3)}, {Absent})}
MCMaps == MapsTo(Few, Inner)

\* The maps that have a struct: it is no map, a map of numbers, or one that has a struct itself.
MCInputs ==
    MapsTo(Values, {Absent})
    \cup MapsTo({Absent, Number(1)},
                {Nil, Number(1)} \cup {MapOf(m) : m \in MapsTo(Few, {Absent})
                                                        \cup MapsTo({Absent, Number(1)}, Inner)})

MCInit ==
    /\ moving \in {"resources", "hash", "trie", "mapping"}
    /\ ResourcesInit /\ HashInit
    /\ moving # "resources" => \A u, w \in User : user[u] = user[w]
    /\ IF moving = "trie" THEN TrieInit
       ELSE words = {} /\ mapping = <<>> /\ text = <<>> /\ scopes = {} /\ replaced = <<>>
    /\ IF moving = "mapping" THEN MappingInit
       ELSE type = <<>> /\ input = <<>> /\ outcome = Failed

MCNext ==
    /\ UNCHANGED moving
    /\ \/ moving = "resources" /\ ResourcesNext /\ UNCHANGED <<hashVars, trieVars, mappingVars>>
       \/ moving = "hash" /\ HashNext /\ UNCHANGED <<resourceVars, trieVars, mappingVars>>
       \/ moving = "trie" /\ Search /\ UNCHANGED <<resourceVars, hashVars, mappingVars>>
       \/ moving = "mapping" /\ Unmarshal /\ UNCHANGED <<resourceVars, hashVars, trieVars>>

\* At rest, no goroutine uses the resources, and their fairness asks for nothing.
MCSpec == MCInit /\ [][MCNext]_vars /\ ResourcesFairness
=============================================================================
