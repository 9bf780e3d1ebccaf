------------------------------ MODULE Listings ------------------------------
(***************************************************************************)
(* The lists of the admin pages: a client reads a table page by page while *)
(* rows come and go.  Every response is made of two statements, the count  *)
(* and the page, and the client asks on until the count is reached.        *)
(*                                                                         *)
(* A row may become visible after one that was created later, since it is  *)
(* stamped before it is committed; the rows of one batch (subject/dao/     *)
(* subject.go:140) share their stamp.  The lists differ in their order,    *)
(* and in what they make of a page size they do not like.  Where two rows  *)
(* tie, each query puts them in whatever order it likes.  A filter (of     *)
(* user-subjects) only makes the table smaller.                            *)
(***************************************************************************)
EXTENDS Integers, FiniteSets

CONSTANTS Entry,       \* rows
          created,     \* created[e]: created_at of the row e
          DefaultSize, \* 10 for subjects and user-subjects, 20 for apps
          MaxLimit,    \* 100, for apps only
          MaxAsked     \* bound on the page size a client asks for

ASSUME ListingsAssumption ==
    /\ IsFiniteSet(Entry) /\ Entry # {} /\ created \in [Entry -> Nat]
    /\ DefaultSize \in Nat \ {0} /\ MaxLimit \in Nat /\ MaxLimit >= DefaultSize /\ MaxAsked \in Nat

VARIABLES list,  \* the table that is read
          table, \* table[e]: whether row e is there
          pager  \* the client

listVars == <<list, table, pager>>

\* asked: the page size the client asks for.  stable: the rows that have been there
\* since it began.  twice: the rows listed twice.  deleted: a row has been deleted
\* since.  grew: one was added between the last count and its page.  late: one was
\* added that was created before a row that had been listed.
ListTypeOK ==
    /\ list \in {"subjects", "userSubjects", "apps", "managers"}
    /\ table \in [Entry -> {"none", "live", "gone"}]
    /\ pager \in [pc : {"idle", "count", "page", "done"}, page : 1 .. Cardinality(Entry), asked : 0 .. MaxAsked,
                  total : 0 .. Cardinality(Entry), seen : SUBSET Entry, stable : SUBSET Entry,
                  twice : SUBSET Entry, deleted : BOOLEAN, grew : BOOLEAN, late : BOOLEAN]

Visible == {e \in Entry : table[e] = "live"}

ListInit ==
    /\ list \in {"subjects", "userSubjects", "apps", "managers"}
    /\ table \in [Entry -> {"none", "live"}]
    /\ pager = [pc |-> "idle", page |-> 1, asked |-> 0, total |-> 0, seen |-> {},
                stable |-> {}, twice |-> {}, deleted |-> FALSE, grew |-> FALSE, late |-> FALSE]
-----------------------------------------------------------------------------
\* The list of apps has both a default and a limit, that of managers no pages at all.
PageSize ==
    IF list = "managers" THEN Cardinality(Entry)
    ELSE IF pager.asked <= 0 THEN DefaultSize
    ELSE IF list = "apps" /\ pager.asked > MaxLimit THEN MaxLimit
    ELSE pager.asked

\* For apps the client computes the offset, from the size it asked for; the other
\* lists compute it themselves and say which size they have used.
Step == IF list = "apps" THEN pager.asked ELSE PageSize

Offset == (pager.page - 1) * Step

\* Mutant: apps with the newest first.
NewestFirst(f, e) == list \in {"apps", "userSubjects"} /\ created[f] > created[e]

\* Row f is listed before row e: apps with the oldest first, user-subjects with the newest.
InFront(f, e) ==
    \/ list = "apps" /\ created[f] < created[e]
    \/ list = "userSubjects" /\ created[f] > created[e]

\* Row e has a place behind the first Before(e) rows, among the first UpTo(e).
Before(e) == Cardinality({f \in Visible : InFront(f, e)})
UpTo(e) == Cardinality({f \in Visible : ~InFront(e, f)})

\* What LIMIT and OFFSET may select: of the rows that tie, as many as there are places
\* for them on the page.  In a list without an order all rows tie.
Pages ==
    {S \in SUBSET Visible :
        \A e \in Visible :
            Cardinality({f \in S : ~InFront(e, f) /\ ~InFront(f, e)})
                = Cardinality((Before(e) + 1 .. UpTo(e)) \cap (Offset + 1 .. Offset + PageSize))}

Insert(e) ==
    /\ table[e] = "none"
    /\ table' = [table EXCEPT ![e] = "live"]
    /\ pager' = [pager EXCEPT !.grew = @ \/ pager.pc = "page",
                              !.late = @ \/ \E f \in pager.seen : created[f] > created[e]]
    /\ UNCHANGED list

Delete(e) ==
    /\ table[e] = "live"
    /\ table' = [table EXCEPT ![e] = "gone"]
    /\ pager' = [pager EXCEPT !.deleted = TRUE, !.stable = @ \ {e}]
    /\ UNCHANGED list

Open(n) ==
    /\ pager.pc = "idle"
    /\ list = "apps" => n > 0
    /\ pager' = [pc |-> "count", page |-> 1, asked |-> n, total |-> 0, seen |-> {},
                 stable |-> Visible, twice |-> {}, deleted |-> FALSE, grew |-> FALSE,
                 late |-> FALSE]
    /\ UNCHANGED <<list, table>>

Count ==
    /\ pager.pc = "count"
    /\ pager' = [pager EXCEPT !.pc = "page", !.total = Cardinality(Visible), !.grew = FALSE]
    /\ UNCHANGED <<list, table>>

Find ==
    /\ pager.pc = "page"
    /\ \E items \in Pages :
           pager' = [pager EXCEPT !.pc = IF pager.page * Step >= pager.total THEN "done" ELSE "count",
                                  !.page = IF @ * Step >= pager.total THEN @ ELSE @ + 1,
                                  !.seen = @ \cup items,
                                  !.twice = @ \cup (items \cap pager.seen)]
    /\ UNCHANGED <<list, table>>

\* A statement fails; the client asks for the page again.
FindFails ==
    /\ pager.pc = "page"
    /\ pager' = [pager EXCEPT !.pc = "count"]
    /\ UNCHANGED <<list, table>>

ListNext ==
    \/ \E e \in Entry : Insert(e) \/ Delete(e)
    \/ \E n \in 0 .. MaxAsked : Open(n)
    \/ Count \/ Find \/ FindFails

ListSpec == ListInit /\ [][ListNext]_listVars
-----------------------------------------------------------------------------
\* No other row that is or was in the table has the stamp of e.
Alone(e) == \A f \in Entry \ {e} : created[f] = created[e] => table[f] = "none"

(***************************************************************************)
(* A client that has read all the pages of an ordered list has seen every  *)
(* row that was there all along and ties with no other.  What breaks this  *)
(* is a deletion, a row added between the last count and its page, and,    *)
(* for apps, a limit above the one that the server silently puts in its    *)
(* place (app.go:66).                                                      *)
(***************************************************************************)
PagesMissNothing ==
    /\ pager.pc = "done"
    /\ list \in {"apps", "userSubjects"}
    /\ list = "apps" => pager.asked <= MaxLimit
    /\ ~pager.deleted /\ ~pager.grew
    => \A e \in pager.stable : Alone(e) => e \in pager.seen

(***************************************************************************)
(* The pages are complete in this sense; and with the oldest first, new    *)
(* apps only come at the end, so that no app is listed twice, unless it    *)
(* ties with another or an app became visible after one that was created   *)
(* later.                                                                  *)
(***************************************************************************)
PagesAreSound ==
    /\ ListTypeOK
    /\ PagesMissNothing
    /\ list = "apps" /\ (\E e \in pager.twice : Alone(e)) => pager.late
=============================================================================
