---------------------------- MODULE KeywordTrie ----------------------------
(***************************************************************************)
(* core/stringx: the trie of node.go, which finds every keyword in a text  *)
(* in one pass, and the replacer built on it.                              *)
(*                                                                         *)
(* A node is the word that leads to it, so that the root is <<>> and the   *)
(* depth is the length.  A scope is <<start, stop>> as in the code.        *)
(***************************************************************************)
EXTENDS Integers, Sequences, FiniteSets

CONSTANTS Rune, MaxWord, MaxWords, MaxText

VARIABLES words,   \* the keywords
          mapping, \* what the replacer puts in their place
          text,
          scopes,  \* what find has found in the text
          replaced \* what Replace makes of it

trieVars == <<words, mapping, text, scopes, replaced>>

Word == UNION {[1 .. n -> Rune] : n \in 1 .. MaxWord}
Text == UNION {[1 .. n -> Rune] : n \in 0 .. MaxText}

TrieInit ==
    /\ words \in {W \in SUBSET Word : Cardinality(W) \in 1 .. MaxWords}
    /\ mapping \in {[w \in words |-> Tail(w)], [w \in words |-> <<>>]}
    /\ text \in Text
    /\ scopes = {} /\ replaced = <<>>
-----------------------------------------------------------------------------
\* What add makes of the keywords.
trieNodes == {<<>>} \cup UNION {{SubSeq(w, 1, n) : n \in 1 .. Len(w)} : w \in words}
end(nd) == nd \in words
child(nd, char) == Append(nd, char)
parent(nd) == SubSeq(nd, 1, Len(nd) - 1)

\* Mutant: only the failure of the parent is tried.
FailOfParent ==
    LET fail[nd \in trieNodes] ==
            IF Len(nd) <= 1 THEN <<>>
            ELSE LET up == child(fail[parent(nd)], nd[Len(nd)])
                 IN  IF up \in trieNodes THEN up ELSE <<>>
    IN  fail

\* From each node above a depth, where the child for a rune fails to: up the
\* failures until one has such a child.
Climb(fail, char, depth) ==
    LET climb[cur \in {nd \in trieNodes : Len(nd) < depth}] ==
            IF cur = <<>> THEN <<>>
            ELSE IF child(fail[cur], char) \in trieNodes THEN child(fail[cur], char)
            ELSE climb[fail[cur]]
    IN  climb

\* build: the failure of a node, from those of the nodes that are less deep.
build ==
    LET fail[nd \in trieNodes] ==
            IF Len(nd) <= 1 THEN <<>> ELSE Climb(fail, nd[Len(nd)], Len(nd))[parent(nd)]
    IN  fail

\* From each node, where find goes on with a rune.
Follow(fail, char) ==
    LET go[cur \in trieNodes] ==
            IF child(cur, char) \in trieNodes THEN child(cur, char)
            ELSE IF cur = <<>> THEN <<>> ELSE go[fail[cur]]
    IN  go

\* The nodes find is at after each rune, from the one it begins with.
Visited(chars, fail) ==
    LET at[i \in 0 .. Len(chars)] == IF i = 0 THEN <<>> ELSE Follow(fail, chars[i])[at[i - 1]]
    IN  at

\* A node and all it fails to.
Chain(fail) ==
    LET chain[cur \in trieNodes] == IF cur = <<>> THEN {} ELSE {cur} \cup chain[fail[cur]]
    IN  chain

find(chars) ==
    LET fail == build
        at == Visited(chars, fail)
    IN  UNION {{<<i - Len(nd), i>> : nd \in {m \in Chain(fail)[at[i]] : end(m)}} : i \in 1 .. Len(chars)}

Before(s, t) == s[1] < t[1] \/ (s[1] = t[1] /\ s[2] > t[2])

\* Of the scopes in order, those that begin within one that has been replaced are skipped.
Behind(found, index) == {s \in found : s[1] >= index}
FirstScope(rest) == CHOOSE s \in rest : \A t \in rest \ {s} : Before(s, t)

\* What is written of a text from each index on.
Written(chars, found) ==
    LET write[index \in 0 .. Len(chars)] ==
            IF Behind(found, index) = {} THEN SubSeq(chars, index + 1, Len(chars))
            ELSE LET scp == FirstScope(Behind(found, index))
                 IN  SubSeq(chars, index + 1, scp[1])
                         \o (mapping[SubSeq(chars, scp[1] + 1, scp[2])] \o write[scp[2]])
    IN  write

doReplace(chars) == Written(chars, find(chars))[0]

\* replaceTimes is 2; a round that finds nothing writes the text again.
Replace(chars) == doReplace(doReplace(chars))

\* FindKeywords and Replace of one text.
Search ==
    /\ scopes' = find(text)
    /\ replaced' = Replace(text)
    /\ UNCHANGED <<words, mapping, text>>

TrieSpec == TrieInit /\ [][Search]_trieVars
-----------------------------------------------------------------------------
\* Every place of a text where a keyword stands.
Occurrences(chars) ==
    {s \in (0 .. Len(chars)) \X (0 .. Len(chars)) : SubSeq(chars, s[1] + 1, s[2]) \in words}

\* From left to right, the longest keyword that begins here is replaced.
Here(chars, i) == {j \in 0 .. Len(chars) : <<i, j>> \in Occurrences(chars)}
Longest(here) == CHOOSE j \in here : \A k \in here : k <= j

LeftmostLongest(chars) ==
    LET from[i \in 0 .. Len(chars)] ==
            IF i = Len(chars) THEN <<>>
            ELSE IF Here(chars, i) = {} THEN <<chars[i + 1]>> \o from[i + 1]
            ELSE LET stop == Longest(Here(chars, i))
                 IN  mapping[SubSeq(chars, i + 1, stop)] \o from[stop]
    IN  from[0]

(***************************************************************************)
(* One pass over the text finds every place of every keyword, those within *)
(* other keywords and those that overlap too, and nothing else.  Each of   *)
(* the two rounds of Replace puts what is to replace it, from left to      *)
(* right, in the place of the longest keyword, and then goes on behind it. *)
(***************************************************************************)
SearchIsRight ==
    [][scopes' = Occurrences(text) /\ replaced' = LeftmostLongest(LeftmostLongest(text))]_trieVars
=============================================================================
