--------------------------- MODULE ConsistentHash ---------------------------
(***************************************************************************)
(* core/hash/consistenthash.go: the ring of virtual nodes.  AddWith-       *)
(* Replicas takes the lock twice, to remove the node and to add it again.  *)
(*                                                                         *)
(* The sorted slice of keys is the number of times that each point is in   *)
(* it, and the slice at a point of the ring the number of times that each  *)
(* node is in it: Get chooses from that one by a hash of its own.  Nodes   *)
(* may share a point: replica 11 of "node1" is hashed as replica 1 of      *)
(* "node11" is.                                                            *)
(***************************************************************************)
EXTENDS Integers, FiniteSets

CONSTANTS Node, Adder,
          replicas,  \* h.replicas
          Points,    \* hashes are 0 .. Points - 1
          hashFunc,  \* hashFunc[n][i]: the hash of the i-th replica of n
          MaxCopies, \* bound on the times that a point is in keys
          MaxRaced   \* bound on the nodes whose additions race

ASSUME HashAssumption ==
    /\ replicas \in Nat /\ Points \in Nat \ {0} /\ MaxCopies \in Nat /\ MaxRaced \in Nat
    /\ hashFunc \in [Node -> [0 .. replicas - 1 -> 0 .. Points - 1]]
    /\ "panic" \notin Node

VARIABLES keys,  \* keys[p]: how often the point p is in keys
          ring,  \* ring[p][n]: how often the node n is in the slice at p
          nodes,
          adder, \* adder[a]: a call of AddWithReplicas between its two locks
          last,  \* replicas that the last call for each node has asked for
          raced, \* nodes that were added twice between two removals
          robbed \* points where a removal took the keys of other nodes

hashVars == <<keys, ring, nodes, adder, last, raced, robbed>>

Point == 0 .. Points - 1
Idle == [pc |-> "idle"]
Adding(n, k) == [pc |-> "add", node |-> n, replicas |-> k]

HashTypeOK ==
    /\ keys \in [Point -> Nat]
    /\ ring \in [Point -> [Node -> Nat]]
    /\ nodes \subseteq Node /\ raced \subseteq Node /\ robbed \subseteq Point
    /\ adder \in [Adder -> {Idle} \cup {Adding(n, k) : n \in Node, k \in 0 .. replicas}]
    /\ last \in [Node -> 0 .. replicas]

HashInit ==
    /\ keys = [p \in Point |-> 0] /\ ring = [p \in Point |-> [n \in Node |-> 0]] /\ nodes = {}
    /\ adder = [a \in Adder |-> Idle]
    /\ last = [n \in Node |-> 0] /\ raced = {} /\ robbed = {}
-----------------------------------------------------------------------------
Smallest(S) == CHOOSE p \in S : \A q \in S : p <= q

\* sort.Search, and once around the ring.
First(ks, hash) ==
    LET there == {p \in Point : ks[p] > 0}
    IN  Smallest(IF \E p \in there : p >= hash THEN {p \in there : p >= hash} ELSE there)

\* The nodes that Get chooses from by a second hash; "panic" when there is no key.
Candidates(ks, rg, hash) ==
    IF \A p \in Point, n \in Node : rg[p][n] = 0 THEN {}
    ELSE IF \A p \in Point : ks[p] = 0 THEN {"panic"}
    ELSE {n \in Node : rg[First(ks, hash)][n] > 0}

Get(hash) == Candidates(keys, ring, hash)

Hits(n, k, p) == Cardinality({i \in 0 .. k - 1 : hashFunc[n][i] = p})

\* Mutant: the key that sort.Search finds is taken out, whether it is the hash or not.
TakeNext(n) ==
    LET missed == {hashFunc[n][i] : i \in 0 .. replicas - 1} \cap {p \in Point : keys[p] = 0}
        next(p) == {q \in Point : q > p /\ keys[q] > 0}
        hit == {Smallest(next(p)) : p \in {q \in missed : next(q) # {}}}
    IN  [p \in Point |-> IF keys[p] > 0 /\ (p \in hit \/ Hits(n, replicas, p) > 0) THEN keys[p] - 1 ELSE keys[p]]

\* keys without one of the entries for each replica that n can have.
TakeKeys(n) ==
    [p \in Point |-> IF keys[p] > Hits(n, replicas, p) THEN keys[p] - Hits(n, replicas, p) ELSE 0]

\* Mutant: the node stays on the ring.
RemoveFromKeys(n) ==
    IF n \notin nodes THEN UNCHANGED <<keys, ring, nodes, raced, robbed>>
    ELSE /\ keys' = TakeKeys(n)
         /\ nodes' = nodes \ {n}
         /\ UNCHANGED <<ring, raced, robbed>>

\* Where others stand and n may have more replicas than it has.
Robs(n) ==
    {p \in Point : Hits(n, replicas, p) > ring[p][n] /\ \E m \in Node \ {n} : ring[p][m] > 0}

removeNode(n) ==
    IF n \notin nodes THEN UNCHANGED <<keys, ring, nodes, raced, robbed>>
    ELSE /\ keys' = TakeKeys(n)
         /\ ring' = [p \in Point |-> [ring[p] EXCEPT ![n] = 0]]
         /\ nodes' = nodes \ {n}
         /\ robbed' = robbed \cup Robs(n)
         /\ UNCHANGED raced

Remove(n) ==
    /\ removeNode(n)
    /\ last' = [last EXCEPT ![n] = 0]
    /\ UNCHANGED adder

\* AddWithReplicas, and Add and AddWithWeight, up to the second lock.
AddBegins(a, n, k) ==
    /\ adder[a] = Idle
    /\ removeNode(n)
    /\ adder' = [adder EXCEPT ![a] = Adding(n, k)]
    /\ UNCHANGED last

AddEnds(a) ==
    /\ adder[a].pc = "add"
    /\ LET n == adder[a].node
           k == adder[a].replicas
       IN  /\ \A p \in Point : keys[p] + Hits(n, k, p) <= MaxCopies
           /\ keys' = [p \in Point |-> keys[p] + Hits(n, k, p)]
           /\ ring' = [p \in Point |-> [ring[p] EXCEPT ![n] = @ + Hits(n, k, p)]]
           /\ nodes' = nodes \cup {n}
           /\ raced' = raced \cup ({n} \cap nodes) /\ Cardinality(raced') <= MaxRaced
           /\ last' = [last EXCEPT ![n] = k]
           /\ adder' = [adder EXCEPT ![a] = Idle]
           /\ UNCHANGED robbed

HashNext ==
    \/ \E n \in Node : Remove(n)
    \/ \E a \in Adder : AddEnds(a) \/ \E n \in Node, k \in 0 .. replicas : AddBegins(a, n, k)

HashSpec == HashInit /\ [][HashNext]_hashVars
-----------------------------------------------------------------------------
GetsAMember ==
    \A hash \in Point :
        /\ Get(hash) \subseteq nodes \cup {"panic"}
        /\ "panic" \in Get(hash) => robbed # {}

GetFindsOne ==
    raced = {} /\ (\E p \in Point, n \in Node : ring[p][n] > 0) => \A hash \in Point : Get(hash) # {}

LaterCallOverwrites ==
    \A n \in nodes \ raced, p \in Point : ring[p][n] = Hits(n, last[n], p)

(***************************************************************************)
(* Get never names a node that has been removed, even when two calls for   *)
(* one node have raced, and it only panics (consistenthash.go:110 divides  *)
(* by the number of keys) after a removal has taken keys that were another *)
(* node's.  Without a race it comes back empty-handed only when the ring   *)
(* is empty, and the later call overwrites the replicas of the former, as  *)
(* the comment at consistenthash.go:67 says.  (After a race, a key is left *)
(* over when the node is removed.)                                         *)
(***************************************************************************)
RingIsSound ==
    /\ HashTypeOK
    /\ GetsAMember
    /\ GetFindsOne
    /\ LaterCallOverwrites

(***************************************************************************)
(* A node that is added takes values from the others, and one that is      *)
(* removed leaves its values to them.  Between two nodes that stay a value *)
(* only moves where both share the point, before and after: there it is    *)
(* the number of nodes that chooses.  After a race, or a removal that took *)
(* keys of others, values may move anyhow.                                 *)
(***************************************************************************)
OthersStay ==
    [][\A hash \in Point :
           LET now == Get(hash)
               then == Candidates(keys', ring', hash)
           IN  raced' = {} /\ robbed' = {} =>
                   \A m \in now \cap nodes', w \in then \cap nodes : m = w \/ {m, w} \subseteq now \cap then]_hashVars
=============================================================================
