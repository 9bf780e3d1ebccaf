--------------------------- MODULE HandlersProofs -----------------------------
(***************************************************************************)
(* Proofs about the handlers that keep tables and lists of their own, and  *)
(* about the server that calls them.                                       *)
(***************************************************************************)
EXTENDS Subjects, StudentLinks, Listings, Server, ShutdownListeners, FiniteSetTheorems, TLAPS
-----------------------------------------------------------------------------
(* Proofs about Subjects for any number of handlers, subjects and names.     *)

\* What a handler has counted holds until a rival writes: nobody else has the
\* name it wants.
CountsHold ==
    \A w \in Writer : ~work[w].rival =>
        /\ work[w].pc = "add" => work[w].name \in Name /\ Named(work[w].name) = {}
        /\ work[w].pc = "update" /\ work[w].name # None => Named(work[w].name) \subseteq {work[w].id}

\* A handler that is about to write knows what to write.
WorkIsComplete ==
    \A w \in Writer :
        /\ work[w].pc = "add" => work[w].name \in Name
        /\ work[w].pc \in {"count", "update"} => work[w].id \in SubjectId
        /\ work[w].pc = "add" => work[w].id = None

SubjectsInv == SubjectsTypeOK /\ WorkIsComplete /\ CountsHold

Work == [pc : {"idle", "count", "add", "update"}, id : SubjectId \cup {None},
         name : Name \cup {None}, rival : BOOLEAN]

\* A handler that starts, stops or goes on without writing keeps the invariant,
\* if what it says it has counted is so.
LEMMA InvOfOthers ==
    ASSUME SubjectsInv, UNCHANGED subjects, NEW w \in Writer, NEW job \in Work,
           work' = [work EXCEPT ![w] = job],
           job.pc = "add" => job.name \in Name /\ job.id = None /\ Named(job.name) = {},
           job.pc \in {"count", "update"} => job.id \in SubjectId,
           job.pc = "update" /\ job.name # None /\ ~job.rival => Named(job.name) \subseteq {job.id}
    PROVE  SubjectsInv'
  BY DEF SubjectsInv, SubjectsTypeOK, WorkIsComplete, CountsHold, Named, Known, Work

\* A write keeps the invariant: those that want the name it writes have a rival from
\* now on, and no other name comes to be used.
LEMMA InvOfPut ==
    ASSUME SubjectsInv, NEW w \in Writer, NEW i \in SubjectId, NEW n \in Name, Put(w, i, n)
    PROVE  SubjectsInv'
<1>1. subjects' = [subjects EXCEPT ![i] = [name |-> n, live |-> TRUE]]
  BY DEF Put
<1>2. SubjectsTypeOK'
  <2>1. AtRest \in Work
    BY DEF AtRest, Work
  <2>2. \A v \in Writer : [work[v] EXCEPT !.rival =
            @ \/ (work[v].pc \in {"add", "update"} /\ work[v].name = n /\ work[v].id # i)] \in Work
    BY Zenon DEF SubjectsInv, SubjectsTypeOK, Work
  <2>3. work' \in [Writer -> Work]
    BY <2>1, <2>2 DEF Put
  <2> QED
    BY <1>1, <2>3 DEF SubjectsInv, SubjectsTypeOK, Row, Work
<1>3. WorkIsComplete'
  BY DEF Put, AtRest, SubjectsInv, SubjectsTypeOK, WorkIsComplete
<1>4. CountsHold'
  <2> DEFINE NowNamed(m) == {j \in SubjectId : /\ subjects'[j] # None /\ subjects'[j].live
                                               /\ subjects'[j].name = m}
  <2> SUFFICES ASSUME NEW v \in Writer, ~work'[v].rival
               PROVE  /\ work'[v].pc = "add" => work'[v].name \in Name /\ NowNamed(work'[v].name) = {}
                      /\ work'[v].pc = "update" /\ work'[v].name # None
                            => NowNamed(work'[v].name) \subseteq {work'[v].id}
    BY DEF CountsHold, Named, Known
  <2> SUFFICES ASSUME v # w
               PROVE  /\ work'[v].pc = "add" => work'[v].name \in Name /\ NowNamed(work'[v].name) = {}
                      /\ work'[v].pc = "update" /\ work'[v].name # None
                            => NowNamed(work'[v].name) \subseteq {work'[v].id}
    BY DEF Put, AtRest
  <2>1. work[v] \in Work
    BY DEF SubjectsInv, SubjectsTypeOK, Work
  <2>2. work'[v] = [work[v] EXCEPT !.rival =
                      @ \/ (work[v].pc \in {"add", "update"} /\ work[v].name = n /\ work[v].id # i)]
    BY <2>1 DEF Put
  <2>3. /\ work'[v].pc = work[v].pc /\ work'[v].name = work[v].name /\ work'[v].id = work[v].id
        /\ ~work[v].rival
        /\ work[v].pc \in {"add", "update"} => ~(work[v].name = n /\ work[v].id # i)
    BY <2>1, <2>2 DEF Work
  <2>4. ASSUME NEW other \in Name, other # n PROVE NowNamed(other) \subseteq Named(other)
    BY <1>1, <2>4 DEF Named, Known, SubjectsInv, SubjectsTypeOK, Row
  <2>5. NowNamed(n) \subseteq Named(n) \cup {i}
    BY <1>1 DEF Named, Known, SubjectsInv, SubjectsTypeOK, Row
  <2> HIDE DEF NowNamed
  <2>6. CASE work[v].pc = "add"
    <3>1. work[v].name \in Name /\ Named(work[v].name) = {}
      BY <2>3, <2>6 DEF SubjectsInv, CountsHold
    <3>2. work[v].id # i
      BY <2>3, <2>6, SubjectsAssumption DEF SubjectsInv, WorkIsComplete
    <3> QED
      BY <2>3, <2>4, <2>6, <3>1, <3>2
  <2>7. CASE work[v].pc = "update" /\ work[v].name # None
    <3>1. work[v].name \in Name /\ Named(work[v].name) \subseteq {work[v].id}
      BY <2>1, <2>3, <2>7 DEF SubjectsInv, CountsHold, Work
    <3> QED
      BY <2>3, <2>4, <2>5, <2>7, <3>1
  <2> QED
    BY <2>3, <2>6, <2>7
<1> QED
  BY <1>2, <1>3, <1>4 DEF SubjectsInv

LEMMA SubjectsInvStep == SubjectsInv /\ [SubjectsNext]_subjectVars => SubjectsInv'
<1> SUFFICES ASSUME SubjectsInv, [SubjectsNext]_subjectVars PROVE SubjectsInv'
  OBVIOUS
<1>1. ASSUME NEW i \in SubjectId, DeleteSubject(i) PROVE SubjectsInv'
  <2>1. subjects' = [subjects EXCEPT ![i].live = FALSE] /\ UNCHANGED work
    BY <1>1 DEF DeleteSubject
  <2>2. subjects' \in [SubjectId -> Row \cup {None}]
    <3>1. subjects[i] \in Row /\ [subjects[i] EXCEPT !.live = FALSE] \in Row
      BY <1>1 DEF DeleteSubject, Known, SubjectsInv, SubjectsTypeOK, Row
    <3> QED
      BY <2>1, <3>1 DEF SubjectsInv, SubjectsTypeOK
  <2>3. \A n \in Name : Named(n)' \subseteq Named(n)
    BY <1>1, <2>1 DEF DeleteSubject, Known, Named, SubjectsInv, SubjectsTypeOK, Row
  <2>4. CountsHold'
    BY <2>1, <2>3 DEF SubjectsInv, SubjectsTypeOK, CountsHold
  <2> QED
    BY <2>1, <2>2, <2>4 DEF SubjectsInv, SubjectsTypeOK, WorkIsComplete
<1>2. ASSUME NEW w \in Writer, AddCounts(w) PROVE SubjectsInv'
  <2>1. PICK n \in Name : Named(n) = {} /\ Begin(w, "add", None, n)
    BY <1>2 DEF AddCounts
  <2>2. [pc |-> "add", id |-> None, name |-> n, rival |-> FALSE] \in Work
    BY DEF Work
  <2> QED
    BY <1>2, <2>1, <2>2, InvOfOthers DEF AddCounts, Begin
<1>3. ASSUME NEW w \in Writer, AddSubject(w) PROVE SubjectsInv'
  BY <1>3, InvOfPut DEF AddSubject, SubjectsInv, WorkIsComplete
<1>4. ASSUME NEW w \in Writer, UpdateFinds(w) PROVE SubjectsInv'
  <2>1. PICK i \in SubjectId, n \in Name \cup {None} :
            Begin(w, IF n = None THEN "update" ELSE "count", i, n)
    BY <1>4 DEF UpdateFinds
  <2>2. [pc |-> IF n = None THEN "update" ELSE "count", id |-> i, name |-> n, rival |-> FALSE] \in Work
    BY DEF Work
  <2> QED
    BY <1>4, <2>1, <2>2, InvOfOthers DEF UpdateFinds, Begin
<1>5. ASSUME NEW w \in Writer, UpdateCounts(w) PROVE SubjectsInv'
  <2>1. work' = [work EXCEPT ![w] = [work[w] EXCEPT !.pc = "update"]]
    BY <1>5 DEF UpdateCounts
  <2>2. [work[w] EXCEPT !.pc = "update"] \in Work
    BY DEF SubjectsInv, SubjectsTypeOK, Work
  <2>3. work[w].id \in SubjectId /\ Named(work[w].name) \subseteq {work[w].id}
    BY <1>5 DEF UpdateCounts, SubjectsInv, WorkIsComplete
  <2> QED
    BY <1>5, <2>1, <2>2, <2>3, InvOfOthers DEF UpdateCounts, Work
<1>6. ASSUME NEW w \in Writer, Leave(w), UNCHANGED subjects PROVE SubjectsInv'
  <2>1. AtRest \in Work
    BY DEF AtRest, Work
  <2> QED
    BY <1>6, <2>1, InvOfOthers DEF Leave, AtRest
<1>7. ASSUME NEW w \in Writer, UpdateSubject(w) PROVE SubjectsInv'
  BY <1>6, <1>7, InvOfPut DEF UpdateSubject, SubjectsInv, SubjectsTypeOK, WorkIsComplete
<1>8. CASE UNCHANGED subjectVars
  BY <1>8 DEF subjectVars, SubjectsInv, SubjectsTypeOK, WorkIsComplete, CountsHold, Named, Known
<1> QED
  BY <1>1, <1>2, <1>3, <1>4, <1>5, <1>6, <1>7, <1>8 DEF SubjectsNext, GiveUp

\* Two subjects come to have one name only through a writer that had counted
\* before another wrote, and no writer brings a deleted subject back
\* (AddSubject, UpdateSubject and DeleteSubject of subject.go).
THEOREM SubjectWritersKeepTheRules == SubjectsSpec => WritersKeepTheRules
<1> DEFINE Rules == SubjectsTypeOK' /\ NamesakesNeedARace /\ DeletedSubjectsStay
<1>1. SubjectsInit => SubjectsInv
  BY DEF SubjectsInit, AtRest, SubjectsInv, SubjectsTypeOK, WorkIsComplete, CountsHold
<1>2. SubjectsInv /\ [SubjectsNext]_subjectVars => [Rules]_subjectVars
  <2> SUFFICES ASSUME SubjectsInv, SubjectsNext PROVE Rules
    OBVIOUS
  <2>1. SubjectsTypeOK'
    BY SubjectsInvStep DEF SubjectsInv
  <2>2. ASSUME NEW w \in Writer, NEW i \in SubjectId, NEW n \in Name, Put(w, i, n),
               work[w].rival \/ Named(n) \subseteq {i}
        PROVE  NamesakesNeedARace
    <3>1. /\ subjects' = [subjects EXCEPT ![i] = [name |-> n, live |-> TRUE]]
          /\ work'[w].pc = "idle"
      BY <2>2 DEF Put, AtRest
    <3>2. CASE work[w].rival
      BY <3>1, <3>2 DEF NamesakesNeedARace
    <3>3. CASE Named(n) \subseteq {i}
      <4>1. Namesakes' \subseteq Namesakes
        BY <3>1, <3>3 DEF Namesakes, Named, Known, SubjectsInv, SubjectsTypeOK, Row
      <4> QED
        BY <4>1 DEF NamesakesNeedARace
    <3> QED
      BY <2>2, <3>2, <3>3
  <2>3. ASSUME NEW w \in Writer, NEW i \in SubjectId, NEW n \in Name, Put(w, i, n),
               subjects[i] = None \/ Known(i)
        PROVE  DeletedSubjectsStay
    BY <2>3 DEF Put, Known, DeletedSubjectsStay, SubjectsInv, SubjectsTypeOK, Row
  <2>4. ASSUME NEW i \in SubjectId, DeleteSubject(i)
        PROVE  NamesakesNeedARace /\ DeletedSubjectsStay
    BY <2>4 DEF DeleteSubject, Known, NamesakesNeedARace, Namesakes, DeletedSubjectsStay,
                SubjectsInv, SubjectsTypeOK, Row
  <2>5. ASSUME UNCHANGED subjects
        PROVE  NamesakesNeedARace /\ DeletedSubjectsStay
    BY <2>5 DEF Known, NamesakesNeedARace, Namesakes, DeletedSubjectsStay
  <2>6. ASSUME NEW w \in Writer, AddSubject(w)
        PROVE  NamesakesNeedARace /\ DeletedSubjectsStay
    BY <2>2, <2>3, <2>6 DEF AddSubject, SubjectsInv, WorkIsComplete, CountsHold
  <2>7. ASSUME NEW w \in Writer, UpdateSubject(w)
        PROVE  NamesakesNeedARace /\ DeletedSubjectsStay
    <3>1. CASE Known(work[w].id) /\ work[w].name # None
      <4>1. work[w].id \in SubjectId /\ work[w].name \in Name
        BY <2>7, <3>1 DEF UpdateSubject, SubjectsInv, SubjectsTypeOK, WorkIsComplete
      <4>2. work[w].rival \/ Named(work[w].name) \subseteq {work[w].id}
        BY <2>7, <3>1 DEF UpdateSubject, SubjectsInv, CountsHold
      <4> QED
        BY <2>2, <2>3, <2>7, <3>1, <4>1, <4>2 DEF UpdateSubject
    <3> QED
      BY <2>5, <2>7, <3>1 DEF UpdateSubject
  <2> QED
    BY <2>1, <2>4, <2>5, <2>6, <2>7
       DEF SubjectsNext, AddCounts, UpdateFinds, UpdateCounts, GiveUp
<1> QED
  BY <1>1, <1>2, SubjectsInvStep, PTL DEF SubjectsSpec, WritersKeepTheRules
-----------------------------------------------------------------------------
(* Links.  The request at work remembers what it has been told; that is      *)
(* compared with what there has been since it came in.                       *)

\* The links that are good for the student who asks.
GoodLinks == {l \in Links(bots) : l[2] \in taken[look.actor]}

\* While a request is at work, its history keeps up with the tables.
HistoryKeepsUp ==
    look.pc # "idle" =>
        /\ look.asked = look.actor /\ look.answer = {}
        /\ Links(bots) \subseteq look.had /\ taken[look.actor] \subseteq look.took
        /\ look.kept \subseteq GoodLinks

\* The names it goes on with were the student's, and those of the links kept so far.
NamesAreTaken ==
    look.pc = "apps" => look.names \subseteq look.took /\ \A l \in look.kept : l[2] \in look.names

LinksInv == LinksAreExact /\ HistoryKeepsUp /\ NamesAreTaken

LEMMA LinksStep == LinksInv /\ [LinksNext]_linkVars => LinksInv'
<1> SUFFICES ASSUME LinksInv, [LinksNext]_linkVars PROVE LinksInv'
  OBVIOUS
<1> USE StudentLinksAssumption
    DEF LinksInv, LinksAreExact, HistoryKeepsUp, NamesAreTaken, LinksTypeOK, GoodLinks
<1>1. ASSUME NEW t \in [Student -> SUBSET Topic], NEW b \in [Chatbot -> Topic \cup {NoApp}], Change(t, b)
      PROVE  LinksInv'
  <2>1. Links(b) \subseteq Chatbot \X Topic
    BY DEF Links
  <2>2. CASE look.pc = "idle"
    BY <1>1, <2>2 DEF Change
  <2>3. CASE look.pc # "idle"
    <3> DEFINE s == look.actor
               good == {l \in Links(b) : l[2] \in t[s]}
    <3>1. look' = [look EXCEPT !.took = @ \cup t[s], !.had = @ \cup Links(b), !.kept = @ \cap good]
          /\ taken' = t /\ bots' = b
      BY <1>1, <2>3 DEF Change
    <3>2. GoodLinks' = good
      BY <3>1 DEF Links
    <3>3. LinksAreExact' /\ NamesAreTaken'
      BY <2>1, <2>3, <3>1
    <3>4. HistoryKeepsUp'
      BY <2>3, <3>1, <3>2 DEF Links
    <3> QED
      BY <3>3, <3>4
  <2> QED
    BY <2>2, <2>3
<1>2. ASSUME NEW s \in Student, NEW n \in Topic, Enrol(s, n) \/ Unenrol(s, n)
      PROVE  LinksInv'
  BY <1>1, <1>2 DEF Enrol, Unenrol
<1>3. ASSUME NEW a \in Chatbot, NEW n \in Topic \cup {NoApp}, ChangeApp(a, n)
      PROVE  LinksInv'
  BY <1>1, <1>3 DEF ChangeApp
<1>4. ASSUME NEW actor \in Student, NEW s \in Student, GetSubjectLink(actor, s)
      PROVE  LinksInv'
  BY <1>4 DEF GetSubjectLink, Links
<1>5. CASE FindUser
  BY <1>5 DEF FindUser, Links
<1>6. CASE GetUserSubjects
  BY <1>6 DEF GetUserSubjects, Links
<1>7. CASE FindApps
  BY <1>7 DEF FindApps, Finish, Links
<1>8. CASE LookFails
  BY <1>8 DEF LookFails
<1>9. CASE UNCHANGED linkVars
  BY <1>9 DEF linkVars, Links
<1> QED
  BY <1>2, <1>3, <1>4, <1>5, <1>6, <1>7, <1>8, <1>9 DEF LinksNext

\* Whatever is enrolled, withdrawn, renamed or deleted between the two
\* statements of GetSubjectLink, the answer has only links that were there for
\* subjects the student took, and all that were good throughout.
THEOREM LinksStayExact == LinksSpec => []LinksAreExact
<1>1. LinksInit => LinksInv
  BY StudentLinksAssumption
     DEF LinksInit, LinksInv, LinksAreExact, HistoryKeepsUp, NamesAreTaken, LinksTypeOK
<1>2. LinksInv => LinksAreExact
  BY DEF LinksInv
<1> QED
  BY <1>1, <1>2, LinksStep, PTL DEF LinksSpec
-----------------------------------------------------------------------------
(* The lists.  A row that was there all along, ties with no other and has    *)
(* not been listed has its place behind the pages that were read; and an app *)
(* that was listed and ties with no other has its place in front of the next *)
(* page.  The place of such a row is the number of rows up to it.            *)

Reading == pager.pc \in {"count", "page"}

Asks ==
    /\ Reading /\ list = "apps" => pager.asked > 0
    /\ pager.seen \subseteq {e \in Entry : table[e] # "none"}

Ordered == list \in {"apps", "userSubjects"}

\* Pages that fit together: the next begins where the last has ended.
Fitting == Ordered /\ (list = "apps" => pager.asked <= MaxLimit)

UnseenAreAhead ==
    Reading /\ Fitting /\ ~pager.deleted =>
        /\ \A e \in pager.stable \ pager.seen : Alone(e) => e \in Visible /\ UpTo(e) > Offset
        /\ pager.pc = "page" /\ ~pager.grew => pager.total = Cardinality(Visible)

SeenAreBehind ==
    Reading /\ list = "apps" /\ ~pager.late => \A e \in pager.seen : Alone(e) => UpTo(e) <= Offset

ListInv == PagesAreSound /\ Asks /\ UnseenAreAhead /\ SeenAreBehind

LEMMA VisibleIsFinite ==
    ASSUME NEW S \in SUBSET Visible
    PROVE  /\ IsFiniteSet(S) /\ Cardinality(S) \in Nat
           /\ Cardinality(S) <= Cardinality(Visible) /\ Cardinality(Visible) <= Cardinality(Entry)
           /\ Cardinality(Visible) \in Nat /\ Cardinality(Entry) \in Nat
<1>1. IsFiniteSet(Entry) /\ Visible \subseteq Entry
  BY ListingsAssumption DEF Visible
<1>2. IsFiniteSet(Visible) /\ Cardinality(Visible) <= Cardinality(Entry)
  BY <1>1, FS_Subset
<1>3. IsFiniteSet(S) /\ Cardinality(S) <= Cardinality(Visible)
  BY <1>2, FS_Subset
<1> QED
  BY <1>1, <1>2, <1>3, FS_CardinalityType

LEMMA UpToIsNatural ==
    ASSUME NEW e
    PROVE  UpTo(e) \in Nat /\ UpTo(e) <= Cardinality(Visible)
<1>1. {f \in Visible : ~InFront(e, f)} \in SUBSET Visible
  OBVIOUS
<1> QED
  BY <1>1, VisibleIsFinite DEF UpTo

\* A row in the table has a place; more rows move none to the front, and later rows none.
LEMMA VisibleHasPlace ==
    ASSUME NEW e \in Visible
    PROVE  UpTo(e) > 0
<1> DEFINE S == {f \in Visible : ~InFront(e, f)}
<1>1. created[e] \in Nat
  BY ListingsAssumption DEF Visible
<1>2. e \in S
  BY <1>1 DEF InFront
<1>3. IsFiniteSet(S) /\ Cardinality(S) \in Nat
  BY VisibleIsFinite
<1>4. Cardinality(S) # 0
  BY <1>2, <1>3, FS_EmptySet
<1> QED
  BY <1>3, <1>4 DEF UpTo

LEMMA PlacesFollow ==
    ASSUME UNCHANGED list, NEW e
    PROVE  /\ Visible \subseteq Visible' => UpTo(e) <= UpTo(e)'
           /\ Visible' \subseteq Visible => UpTo(e)' <= UpTo(e)
           /\ (\A f \in Visible' \ Visible : InFront(e, f)) => UpTo(e)' <= UpTo(e)
<1> DEFINE S == {f \in Visible : ~InFront(e, f)}
           T == {f \in Visible' : ~InFront(e, f)}
<1>1. IsFiniteSet(S)
  BY VisibleIsFinite
<1>2. IsFiniteSet(T)
  BY ListingsAssumption, FS_Subset DEF Visible
<1>3. UpTo(e) = Cardinality(S) /\ UpTo(e)' = Cardinality(T)
  BY DEF UpTo, InFront
<1>4. Visible \subseteq Visible' => S \subseteq T
  OBVIOUS
<1>5. Visible' \subseteq Visible => T \subseteq S
  OBVIOUS
<1>6. (\A f \in Visible' \ Visible : InFront(e, f)) => T \subseteq S
  OBVIOUS
<1> HIDE DEF S, T
<1> QED
  BY <1>1, <1>2, <1>3, <1>4, <1>5, <1>6, FS_Subset

\* The sizes that pages have.
LEMMA Sizes ==
    ASSUME ListTypeOK, Asks, Reading
    PROVE  /\ PageSize \in Nat /\ Step \in Nat \ {0}
           /\ Fitting => PageSize = Step
           /\ list = "apps" => PageSize <= Step
<1>1. Cardinality(Entry) \in Nat \ {0}
  BY ListingsAssumption, FS_EmptySet, FS_CardinalityType
<1>2. pager.asked \in Nat
  BY DEF ListTypeOK
<1> QED
  BY <1>1, <1>2, ListingsAssumption DEF ListTypeOK, Asks, PageSize, Step, Fitting

LEMMA Products == \A p \in Nat \ {0}, s \in Nat \ {0} :
                     /\ (p - 1) * s \in Nat /\ (p - 1) * s + s = p * s
                     /\ p * s >= p /\ ((p + 1) - 1) * s = p * s
  OBVIOUS

\* A row that ties with no other is alone at its place.
LEMMA AloneHasOnePlace ==
    ASSUME Ordered, NEW e \in Visible, Alone(e)
    PROVE  /\ Before(e) + 1 = UpTo(e) /\ Before(e) \in Nat
           /\ \A f \in Visible : ~InFront(e, f) /\ ~InFront(f, e) <=> f = e
<1> DEFINE B == {f \in Visible : InFront(f, e)}
<1>1. \A f \in Visible : f \in Entry /\ created[f] \in Nat /\ table[f] # "none"
  BY ListingsAssumption DEF Visible
<1>2. \A f \in Visible : f # e => created[f] # created[e]
  BY <1>1 DEF Alone
<1>3. \A f \in Visible : /\ ~InFront(e, f) <=> InFront(f, e) \/ f = e
                         /\ InFront(f, e) => f # e
  BY <1>1, <1>2 DEF InFront, Ordered
<1>4. {f \in Visible : ~InFront(e, f)} = B \cup {e} /\ e \notin B
  BY <1>3
<1>5. IsFiniteSet(B) /\ Cardinality(B) \in Nat
  BY VisibleIsFinite
<1>6. Cardinality(B \cup {e}) = Cardinality(B) + 1
  BY <1>4, <1>5, FS_AddElement
<1> QED
  BY <1>3, <1>4, <1>5, <1>6 DEF Before, UpTo

\* What a page has: rows of the table, and of the rows that tie with no other those
\* whose place is on it.
LEMMA ItemsOfPages ==
    ASSUME NEW items \in Pages, Offset \in Nat, PageSize \in Nat
    PROVE  /\ items \subseteq Visible
           /\ \A e \in Visible : Ordered /\ Alone(e)
                 => (e \in items <=> Offset < UpTo(e) /\ UpTo(e) <= Offset + PageSize)
<1>1. items \subseteq Visible
  BY DEF Pages
<1>2. ASSUME NEW e \in Visible, Ordered, Alone(e)
      PROVE  e \in items <=> Offset < UpTo(e) /\ UpTo(e) <= Offset + PageSize
  <2> DEFINE Tied == {f \in items : ~InFront(e, f) /\ ~InFront(f, e)}
             Room == (Before(e) + 1 .. UpTo(e)) \cap (Offset + 1 .. Offset + PageSize)
  <2>1. Cardinality(Tied) = Cardinality(Room)
    BY DEF Pages
  <2>2. Tied = IF e \in items THEN {e} ELSE {}
    BY <1>1, <1>2, AloneHasOnePlace
  <2>3. UpTo(e) \in Nat /\ Before(e) + 1 = UpTo(e)
    BY <1>2, AloneHasOnePlace, UpToIsNatural
  <2>4. Room = IF Offset < UpTo(e) /\ UpTo(e) <= Offset + PageSize THEN {UpTo(e)} ELSE {}
    BY <2>3
  <2>5. Cardinality({e}) = 1 /\ Cardinality({UpTo(e)}) = 1 /\ Cardinality({}) = 0
    BY FS_Singleton, FS_EmptySet
  <2> HIDE DEF Tied, Room
  <2> QED
    BY <2>1, <2>2, <2>4, <2>5
<1> QED
  BY <1>1, <1>2

LEMMA FindKeeps ==
    ASSUME ListInv, Find
    PROVE  ListInv'
<1>0. ListTypeOK
  BY DEF ListInv, PagesAreSound
<1> USE DEF ListInv, PagesAreSound
<1>1. pager.pc = "page" /\ Reading /\ UNCHANGED <<list, table, Visible>>
  BY DEF Find, Reading, Visible
<1>2. PICK items \in Pages :
         pager' = [pager EXCEPT !.pc = IF pager.page * Step >= pager.total THEN "done" ELSE "count",
                                !.page = IF @ * Step >= pager.total THEN @ ELSE @ + 1,
                                !.seen = @ \cup items,
                                !.twice = @ \cup (items \cap pager.seen)]
  BY DEF Find
<1>3. /\ PageSize \in Nat /\ Step \in Nat \ {0}
      /\ Fitting => PageSize = Step
      /\ list = "apps" => PageSize <= Step
  BY <1>1, Sizes
<1>4. /\ pager.page \in Nat \ {0} /\ pager.total \in Nat /\ pager.total <= Cardinality(Entry)
      /\ Cardinality(Entry) \in Nat /\ pager.page <= Cardinality(Entry)
  <2>1. Cardinality(Entry) \in Nat
    BY ListingsAssumption, FS_CardinalityType
  <2> QED
    BY <2>1 DEF ListTypeOK
<1>5. /\ Offset \in Nat /\ Offset + Step = pager.page * Step /\ pager.page * Step >= pager.page
      /\ ((pager.page + 1) - 1) * Step = pager.page * Step /\ pager.page * Step \in Nat
  BY <1>3, <1>4, Products DEF Offset
<1>6. items \subseteq Visible /\ Visible \subseteq Entry
  BY <1>2 DEF Pages, Visible
<1>7. \A e : /\ UpTo(e)' = UpTo(e) /\ UpTo(e) \in Nat /\ UpTo(e) <= Cardinality(Visible)
             /\ Alone(e)' = Alone(e)
  <2>1. \A e : UpTo(e)' = UpTo(e) /\ Alone(e)' = Alone(e)
    BY <1>1 DEF UpTo, InFront, Alone
  <2> QED
    BY <2>1, UpToIsNatural
<1>8. Cardinality(Visible) \in Nat
  BY VisibleIsFinite
<1>9. pager'.pc = "count" => Offset' = Offset + Step /\ pager.page * Step < pager.total
  BY <1>1, <1>2, <1>4, <1>5 DEF Offset, Step, PageSize, ListTypeOK
<1>10. ListTypeOK'
  <2>1. pager.page * Step < pager.total => pager.page + 1 \in 1 .. Cardinality(Entry)
    BY <1>4, <1>5
  <2>2. pager'.page \in 1 .. Cardinality(Entry) /\ pager'.pc \in {"done", "count"}
    BY <1>2, <1>4, <1>5, <2>1 DEF ListTypeOK
  <2> HIDE DEF ListInv, PagesAreSound
  <2>3. pager' = [pager EXCEPT !.pc = pager'.pc, !.page = pager'.page,
                               !.seen = @ \cup items, !.twice = pager'.twice]
        /\ pager'.twice \subseteq Entry
    BY <1>2, <1>0, <1>6 DEF ListTypeOK
  <2> QED
    BY <1>1, <1>6, <1>0, <2>2, <2>3 DEF ListTypeOK
<1>11. Asks'
  BY <1>1, <1>2, <1>6 DEF Asks, ListTypeOK, Reading, Visible
<1>12. ASSUME Fitting, ~pager.deleted, NEW e \in pager.stable \ pager'.seen, Alone(e)
       PROVE  e \in Visible /\ UpTo(e) > Offset + Step
  <2>1. e \in Visible /\ UpTo(e) > Offset /\ e \notin items
    BY <1>1, <1>2, <1>12 DEF UnseenAreAhead, ListTypeOK
  <2>2. e \in items <=> Offset < UpTo(e) /\ UpTo(e) <= Offset + Step
    BY <1>2, <1>3, <1>5, <1>12, <2>1, ItemsOfPages DEF Fitting
  <2> QED
    BY <1>3, <1>5, <1>7, <2>1, <2>2
<1>13. UnseenAreAhead'
  <2> HIDE DEF ListInv, PagesAreSound
  <2>1. Fitting' = Fitting /\ pager'.deleted = pager.deleted /\ pager'.stable = pager.stable
        /\ pager'.pc # "page"
    <3>1. /\ pager'.deleted = pager.deleted /\ pager'.stable = pager.stable
          /\ pager'.asked = pager.asked /\ pager'.pc # "page"
      BY <1>0, <1>2 DEF ListTypeOK
    <3> QED
      BY <1>1, <3>1 DEF Fitting, Ordered
  <2> QED
    BY <1>1, <1>7, <1>9, <1>12, <2>1 DEF ListInv, PagesAreSound, UnseenAreAhead, Reading
<1>14. PagesMissNothing'
  <2> SUFFICES ASSUME pager'.pc = "done", Fitting, ~pager.deleted, ~pager.grew,
                      NEW e \in pager.stable \ pager'.seen, Alone(e)
               PROVE  FALSE
    BY <1>1, <1>2, <1>7 DEF PagesMissNothing, Fitting, Ordered, ListTypeOK
  <2>1. UpTo(e) > Offset + Step
    BY <1>12
  <2>2. pager.total = Cardinality(Visible) /\ pager.page * Step >= pager.total
    BY <1>1, <1>2 DEF UnseenAreAhead, ListTypeOK
  <2> QED
    BY <1>3, <1>4, <1>5, <1>7, <1>8, <2>1, <2>2
<1>15. ASSUME list = "apps", ~pager.late, NEW e \in pager'.seen, Alone(e)
       PROVE  ~(e \in items /\ e \in pager.seen) /\ UpTo(e) <= Offset + Step
  <2>1. e \in pager.seen \cup items
    BY <1>2, <1>15 DEF ListTypeOK
  <2>2. e \in items => Offset < UpTo(e) /\ UpTo(e) <= Offset + PageSize
    BY <1>2, <1>3, <1>5, <1>6, <1>15, ItemsOfPages DEF Ordered
  <2>3. e \in pager.seen => UpTo(e) <= Offset
    BY <1>1, <1>15 DEF SeenAreBehind
  <2> QED
    BY <1>3, <1>5, <1>7, <1>15, <2>1, <2>2, <2>3
<1>16. SeenAreBehind'
  <2>1. pager'.late = pager.late /\ pager'.pc \in {"count", "done"}
    BY <1>2 DEF ListTypeOK
  <2> QED
    BY <1>1, <1>7, <1>9, <1>15, <2>1 DEF SeenAreBehind, Reading
<1>17. list' = "apps" /\ (\E e \in pager'.twice : Alone(e)') => pager'.late
  <2> SUFFICES ASSUME list = "apps", ~pager.late, NEW e \in pager'.twice, Alone(e)
               PROVE  FALSE
    BY <1>1, <1>2, <1>7 DEF ListTypeOK
  <2>1. e \notin pager.twice
    OBVIOUS
  <2>2. e \in items /\ e \in pager.seen /\ e \in pager'.seen
    BY <1>2, <2>1 DEF ListTypeOK
  <2> QED
    BY <1>15, <2>2
<1> QED
  BY <1>10, <1>11, <1>13, <1>14, <1>16, <1>17

\* A row that appears does so behind all apps that were listed, unless it is late.
LEMMA InsertKeeps ==
    ASSUME ListInv, NEW e \in Entry, Insert(e)
    PROVE  ListInv'
<1> USE DEF ListInv, PagesAreSound
<1>1. /\ UNCHANGED list /\ table[e] = "none" /\ table' = [table EXCEPT ![e] = "live"]
      /\ pager' = [pager EXCEPT !.grew = @ \/ pager.pc = "page",
                                !.late = @ \/ \E f \in pager.seen : created[f] > created[e]]
  BY DEF Insert
<1>2. Visible' = Visible \cup {e} /\ e \notin Visible
  BY <1>1 DEF Visible, ListTypeOK
<1>3. ListTypeOK' /\ Asks'
  BY <1>1 DEF ListTypeOK, Asks, Reading
<1>4. Offset' = Offset /\ Fitting' = Fitting /\ Reading' = Reading
  BY <1>1 DEF Offset, Step, PageSize, Fitting, Ordered, Reading, ListTypeOK
<1>8. \A x \in Entry : Alone(x)' => Alone(x) /\ (x # e => created[x] # created[e])
  BY <1>1 DEF Alone, ListTypeOK
<1>5. UnseenAreAhead'
  <2> SUFFICES ASSUME Reading, Fitting, ~pager.deleted
               PROVE  /\ \A x \in pager.stable \ pager.seen :
                            Alone(x)' => x \in Visible' /\ UpTo(x)' > Offset
                      /\ pager.pc = "page" => pager'.grew
    BY <1>1, <1>4 DEF UnseenAreAhead, ListTypeOK
  <2>1. ASSUME NEW x \in pager.stable \ pager.seen, Alone(x)'
        PROVE  x \in Visible' /\ UpTo(x)' > Offset
    <3>1. x \in Visible /\ UpTo(x) > Offset
      BY <1>8, <2>1 DEF UnseenAreAhead, ListTypeOK
    <3>2. UpTo(x) <= UpTo(x)'
      BY <1>1, <1>2, PlacesFollow
    <3>3. UpTo(x) \in Nat /\ UpTo(x)' \in Nat /\ Offset \in Nat
      <4>1. UpTo(x)' \in Nat
        BY ListingsAssumption, FS_Subset, FS_CardinalityType DEF UpTo, Visible
      <4>2. Offset \in Nat
        BY Sizes, Products DEF Offset, ListTypeOK
      <4> QED
        BY <4>1, <4>2, UpToIsNatural
    <3> QED
      BY <1>2, <3>1, <3>2, <3>3
  <2> QED
    BY <1>1, <2>1 DEF ListTypeOK
<1>6. SeenAreBehind'
  <2> SUFFICES ASSUME Reading, list = "apps", ~pager'.late, NEW x \in pager.seen, Alone(x)'
               PROVE  UpTo(x)' <= Offset
    BY <1>1, <1>4 DEF SeenAreBehind, ListTypeOK
  <2>5. x \in Entry /\ x # e /\ created[x] \in Nat /\ created[e] \in Nat
    BY <1>1, ListingsAssumption DEF Asks, ListTypeOK
  <2>1. ~pager.late /\ ~(created[x] > created[e]) /\ created[x] # created[e] /\ Alone(x)
    BY <1>1, <1>8, <2>5 DEF ListTypeOK
  <2>6. InFront(x, e)
    BY <2>1, <2>5 DEF InFront
  <2>2. UpTo(x)' <= UpTo(x)
    BY <1>1, <1>2, <2>6, PlacesFollow
  <2>3. UpTo(x) <= Offset
    BY <2>1 DEF SeenAreBehind
  <2>4. UpTo(x) \in Nat /\ UpTo(x)' \in Nat /\ Offset \in Nat
    <3>1. UpTo(x)' \in Nat
      BY ListingsAssumption, FS_Subset, FS_CardinalityType DEF UpTo, Visible
    <3>2. Offset \in Nat
      BY Sizes, Products DEF Offset, ListTypeOK
    <3> QED
      BY <3>1, <3>2, UpToIsNatural
  <2> QED
    BY <2>2, <2>3, <2>4
<1>7. PagesMissNothing' /\ (list' = "apps" /\ (\E x \in pager'.twice : Alone(x)') => pager'.late)
  BY <1>1, <1>8 DEF PagesMissNothing, ListTypeOK
<1> QED
  BY <1>3, <1>5, <1>6, <1>7

\* A deletion moves rows to the front: the pages go on with nothing listed twice.
LEMMA DeleteKeeps ==
    ASSUME ListInv, NEW e \in Entry, Delete(e)
    PROVE  ListInv'
<1> USE DEF ListInv, PagesAreSound
<1>1. /\ UNCHANGED list /\ table[e] = "live" /\ table' = [table EXCEPT ![e] = "gone"]
      /\ pager' = [pager EXCEPT !.deleted = TRUE, !.stable = @ \ {e}]
  BY DEF Delete
<1>2. Visible' \subseteq Visible
  BY <1>1 DEF Visible, ListTypeOK
<1>3. ListTypeOK' /\ Asks' /\ pager'.deleted
  BY <1>1 DEF ListTypeOK, Asks, Reading
<1>4. Offset' = Offset /\ Reading' = Reading
  BY <1>1 DEF Offset, Step, PageSize, Reading, ListTypeOK
<1>6. \A x \in Entry : Alone(x)' => Alone(x)
  BY <1>1 DEF Alone, ListTypeOK
<1>5. SeenAreBehind'
  <2> SUFFICES ASSUME Reading, list = "apps", ~pager.late, NEW x \in pager.seen, Alone(x)'
               PROVE  UpTo(x)' <= Offset
    BY <1>1, <1>4 DEF SeenAreBehind, ListTypeOK
  <2>3. Alone(x)
    BY <1>6 DEF ListTypeOK
  <2>1. UpTo(x)' <= UpTo(x) /\ UpTo(x) <= Offset
    BY <1>1, <1>2, <2>3, PlacesFollow DEF SeenAreBehind
  <2>2. UpTo(x) \in Nat /\ UpTo(x)' \in Nat /\ Offset \in Nat
    <3>1. UpTo(x)' \in Nat
      BY ListingsAssumption, FS_Subset, FS_CardinalityType DEF UpTo, Visible
    <3>2. Offset \in Nat
      BY Sizes, Products DEF Offset, ListTypeOK
    <3> QED
      BY <3>1, <3>2, UpToIsNatural
  <2> QED
    BY <2>1, <2>2
<1> QED
  BY <1>1, <1>3, <1>5, <1>6 DEF UnseenAreAhead, PagesMissNothing, ListTypeOK

LEMMA OpenKeeps ==
    ASSUME ListInv, NEW n \in 0 .. MaxAsked, Open(n)
    PROVE  ListInv'
<1>1. /\ UNCHANGED <<list, table, Visible>> /\ (list = "apps" => n > 0)
      /\ pager' = [pc |-> "count", page |-> 1, asked |-> n, total |-> 0, seen |-> {},
                   stable |-> Visible, twice |-> {}, deleted |-> FALSE, grew |-> FALSE,
                   late |-> FALSE]
  BY DEF Open, Visible
<1>2. ListTypeOK'
  <2>1. 1 \in 1 .. Cardinality(Entry) /\ 0 \in 0 .. Cardinality(Entry)
    BY ListingsAssumption, FS_EmptySet, FS_CardinalityType
  <2> QED
    BY <1>1, <2>1 DEF ListInv, PagesAreSound, ListTypeOK, Visible
<1>3. Asks'
  BY <1>1 DEF Asks
<1>4. Offset' = 0
  <2>1. Step' \in Nat
    <3>1. Reading'
      BY <1>1 DEF Reading
    <3>2. Cardinality(Entry) \in Nat
      BY ListingsAssumption, FS_CardinalityType
    <3> QED
      BY <1>1, <3>2, ListingsAssumption DEF Step, PageSize
  <2>2. Offset' = (1 - 1) * Step'
    BY <1>1 DEF Offset
  <2>3. \A s \in Nat : (1 - 1) * s = 0
    OBVIOUS
  <2> QED
    BY <2>1, <2>2, <2>3
<1>5. UnseenAreAhead'
  <2>1. \A e \in Visible : UpTo(e)' > 0
    BY <1>1, VisibleHasPlace DEF UpTo, InFront
  <2> QED
    BY <1>1, <1>4, <2>1 DEF UnseenAreAhead
<1> QED
  BY <1>1, <1>2, <1>3, <1>5 DEF ListInv, PagesAreSound, PagesMissNothing, SeenAreBehind

LEMMA ListStep == ListInv /\ [ListNext]_listVars => ListInv'
<1> SUFFICES ASSUME ListInv, [ListNext]_listVars PROVE ListInv'
  OBVIOUS
<1>1. ASSUME Count PROVE ListInv'
  <2>1. /\ UNCHANGED <<list, table, Visible>> /\ Reading /\ Reading'
        /\ pager' = [pager EXCEPT !.pc = "page", !.total = Cardinality(Visible), !.grew = FALSE]
    BY <1>1 DEF Count, Visible, Reading, ListInv, PagesAreSound, ListTypeOK
  <2>2. Cardinality(Visible) \in 0 .. Cardinality(Entry)
    BY VisibleIsFinite
  <2>3. ListTypeOK' /\ Asks'
    BY <2>1, <2>2 DEF ListInv, PagesAreSound, ListTypeOK, Asks
  <2>4. Offset' = Offset /\ Fitting' = Fitting
        /\ \A e : UpTo(e)' = UpTo(e) /\ Alone(e)' = Alone(e)
    BY <2>1 DEF ListInv, PagesAreSound, ListTypeOK, Offset, Step, PageSize, Fitting, Ordered,
                UpTo, InFront, Alone
  <2> QED
    BY <2>1, <2>3, <2>4 DEF ListInv, PagesAreSound, ListTypeOK, PagesMissNothing, UnseenAreAhead, SeenAreBehind
<1>2. ASSUME FindFails PROVE ListInv'
  <2>1. /\ UNCHANGED <<list, table, Visible>> /\ Reading /\ Reading'
        /\ pager' = [pager EXCEPT !.pc = "count"]
    BY <1>2 DEF FindFails, Visible, Reading, ListInv, PagesAreSound, ListTypeOK
  <2>2. ListTypeOK' /\ Asks'
    BY <2>1 DEF ListInv, PagesAreSound, ListTypeOK, Asks
  <2>3. Offset' = Offset /\ Fitting' = Fitting
        /\ \A e : UpTo(e)' = UpTo(e) /\ Alone(e)' = Alone(e)
    BY <2>1 DEF ListInv, PagesAreSound, ListTypeOK, Offset, Step, PageSize, Fitting, Ordered,
                UpTo, InFront, Alone
  <2> QED
    BY <2>1, <2>2, <2>3 DEF ListInv, PagesAreSound, ListTypeOK, PagesMissNothing, UnseenAreAhead, SeenAreBehind
<1>3. CASE UNCHANGED listVars
  <2>1. UNCHANGED <<list, table, pager>> /\ \A e : UpTo(e)' = UpTo(e) /\ Alone(e)' = Alone(e)
    BY <1>3 DEF listVars, UpTo, InFront, Alone, Visible
  <2> QED
    BY <2>1 DEF ListInv, PagesAreSound, ListTypeOK, PagesMissNothing, Asks, UnseenAreAhead, SeenAreBehind,
                Fitting, Ordered, Reading, Visible, Offset, Step, PageSize
<1> QED
  BY <1>1, <1>2, <1>3, FindKeeps, InsertKeeps, DeleteKeeps, OpenKeeps DEF ListNext

\* A client that reads page by page misses no row that was there all along, and is
\* shown no app twice, but for the cases that PagesAreSound names.
THEOREM ListsAreSound == ListSpec => []PagesAreSound
<1>1. ListInit => ListInv
  <2> SUFFICES ASSUME ListInit PROVE ListInv
    OBVIOUS
  <2>1. 1 \in 1 .. Cardinality(Entry) /\ 0 \in 0 .. Cardinality(Entry) /\ 0 \in 0 .. MaxAsked
    BY ListingsAssumption, FS_EmptySet, FS_CardinalityType
  <2>2. table \in [Entry -> {"none", "live", "gone"}]
    BY DEF ListInit
  <2>3. ListTypeOK
    BY <2>1, <2>2 DEF ListInit, ListTypeOK
  <2> QED
    BY <2>3 DEF ListInit, ListInv, PagesAreSound, PagesMissNothing, Asks, UnseenAreAhead, SeenAreBehind, Reading
<1>2. ListInv => PagesAreSound
  BY DEF ListInv
<1> QED
  BY <1>1, <1>2, ListStep, PTL DEF ListSpec
-----------------------------------------------------------------------------
(* The server.  No request is handled before all tables have been made,      *)
(* because nothing serves before the last hook of the last app; and none is  *)
(* under way unless a port was opened.                                       *)

\* The hook h of the app i has been called.
Passed(h, i) == main \notin {"setup", "load"} \/ h < hook \/ (h = hook /\ i < app)

TablesFollow ==
    \A h \in 1 .. Len(Hooks), i \in 1 .. Len(apps) :
        apps[i] \in Migrates(Hooks[h]) /\ Passed(h, i) => apps[i] \in tables

InOrder ==
    /\ main = "setup" => hook = 1 /\ app = 1
    /\ main \in {"setup", "load", "listen"} => conn = "none"
    /\ main \in {"setup", "load", "listen", "spawn"} => http = "none" /\ mux = "none"
    /\ httpServer = "nil" => http \in {"none", "new"}

OnTheirWay ==
    \A r \in Request :
        /\ req[r].pc \in {"waiting", "matched", "handling"} => conn \in {"open", "closed"}
        /\ req[r].pc = "handling" => http \in {"serving", "over"}

\* Shutdown is only reached with a tracer: without one StopAgent panics, and cuts
\* every request off (TracerPanicked).
ServerInv == TypeOK /\ TablesFollow /\ InOrder /\ OnTheirWay /\ OnlyForceCutsOff

LEMMA InvMakesTables == ServerInv => HandlersFindTables
<1> SUFFICES ASSUME ServerInv, NEW r \in Request, req[r].pc = "handling"
             PROVE  Uses[req[r].app] \subseteq tables
  BY DEF HandlersFindTables
<1>1. main \notin {"setup", "load"}
  BY DEF ServerInv, OnTheirWay, InOrder
<1>2. {"fastgpt", "managers", "subject", "users"} \subseteq tables
  <2>1. \A h \in 1 .. 5, i \in 1 .. 5 : apps[i] \in Migrates(Hooks[h]) => apps[i] \in tables
    BY <1>1 DEF ServerInv, TablesFollow, Passed, Hooks, apps
  <2>2. apps[1] \in Migrates(Hooks[1]) /\ apps[2] \in Migrates(Hooks[2])
        /\ apps[4] \in Migrates(Hooks[2]) /\ apps[5] \in Migrates(Hooks[2])
    BY DEF Migrates, Hooks, apps
  <2>3. apps[1] = "fastgpt" /\ apps[2] = "managers" /\ apps[4] = "subject" /\ apps[5] = "users"
    BY DEF apps
  <2> QED
    BY <2>1, <2>2, <2>3
<1>3. req[r].app \in App
  BY DEF ServerInv, TypeOK
<1>4. req[r].app \in {"fastgpt", "managers", "ping", "subject", "users"}
  BY <1>3 DEF App, apps
<1> QED
  BY <1>2, <1>4 DEF Uses

\* The next hook, and what has been called then.
LEMMA HookPassed ==
    ASSUME ServerInv, main = "load", Advance
    PROVE  /\ hook' \in 1 .. Len(Hooks) /\ app' \in 1 .. Len(apps) /\ main' \in {"load", "listen"}
           /\ \A h \in 1 .. Len(Hooks), i \in 1 .. Len(apps) :
                  Passed(h, i)' => Passed(h, i) \/ (h = hook /\ i = app)
  BY DEF ServerInv, TypeOK, Advance, Goto, Passed, Hooks, apps

LEMMA ServerStep == ServerInv /\ [Next]_vars => ServerInv'
<1> SUFFICES ASSUME ServerInv, [Next]_vars PROVE ServerInv'
  OBVIOUS
<1> USE DEF ServerInv, Exit, Goto, loadVars, netVars, TracerPanicked
<1>1. CASE exit = "no" /\ setUp
  BY <1>1 DEF setUp, TypeOK, TablesFollow, Passed, InOrder, OnTheirWay, OnlyForceCutsOff
<1>2. CASE exit = "no" /\ loadApp
  <2>1. main = "load" /\ UNCHANGED <<netVars, health, req, forced>>
    BY <1>2 DEF loadApp
  <2>2. CASE Exit("failed") /\ UNCHANGED <<loadVars, main>>
    BY <1>2, <2>1, <2>2 DEF TypeOK, TablesFollow, Passed, InOrder, OnTheirWay, OnlyForceCutsOff
  <2>3. CASE /\ Advance
             /\ tables' = tables \cup ({apps[app]} \cap Migrates(Hooks[hook]))
             /\ routes' = routes \cup (IF Hooks[hook] = "Load" THEN {apps[app]} ELSE {})
             /\ UNCHANGED <<tp, exit>>
    <3>1. apps[app] \in App
      BY DEF TypeOK, App
    <3>2. TypeOK'
      BY <2>1, <2>3, <3>1, HookPassed DEF TypeOK
    <3>3. TablesFollow'
      BY <2>1, <2>3, HookPassed DEF TablesFollow
    <3>4. InOrder' /\ OnTheirWay' /\ OnlyForceCutsOff'
      BY <1>2, <2>1, <2>3, HookPassed DEF InOrder, OnTheirWay, OnlyForceCutsOff
    <3> QED
      BY <3>2, <3>3, <3>4
  <2> QED
    BY <1>2, <2>2, <2>3 DEF loadApp
<1>3. CASE exit = "no" /\ (Listen \/ Spawn \/ Notify \/ Kill \/ Signal)
  <2>1. TypeOK' /\ InOrder' /\ OnTheirWay' /\ OnlyForceCutsOff'
    <3>1. TypeOK'
      BY <1>3 DEF Listen, Spawn, Notify, Kill, Signal, TypeOK
    <3>2. InOrder'
      BY <1>3 DEF Listen, Spawn, Notify, Kill, Signal, InOrder
    <3>3. OnTheirWay' /\ OnlyForceCutsOff'
      BY <1>3 DEF Listen, Spawn, Notify, Kill, Signal, InOrder, OnTheirWay, OnlyForceCutsOff
    <3> QED
      BY <3>1, <3>2, <3>3
  <2>2. TablesFollow'
    BY <1>3 DEF Listen, Spawn, Notify, Kill, Signal, TablesFollow, Passed
  <2> QED
    BY <2>1, <2>2
<1>4. CASE exit = "no" /\ Goroutines
  <2>1. TypeOK' /\ InOrder' /\ OnTheirWay' /\ OnlyForceCutsOff'
    BY <1>4 DEF Goroutines, httpMade, httpServe, muxServe, TypeOK, InOrder, OnTheirWay, OnlyForceCutsOff
  <2>2. TablesFollow'
    BY <1>4 DEF Goroutines, httpMade, httpServe, muxServe, TablesFollow, Passed
  <2> QED
    BY <2>1, <2>2
<1>5. CASE exit = "no" /\ (StopAgent \/ Shutdown \/ Drained \/ Deadline)
  <2>1. TypeOK' /\ InOrder' /\ OnTheirWay' /\ OnlyForceCutsOff'
    <3>1. TypeOK'
      BY <1>5 DEF StopAgent, Shutdown, Drained, Deadline, TypeOK
    <3>2. InOrder'
      BY <1>5 DEF StopAgent, Shutdown, Drained, Deadline, InOrder
    <3>3. OnTheirWay'
      BY <1>5 DEF StopAgent, Shutdown, Drained, Deadline, InOrder, OnTheirWay
    <3>4. OnlyForceCutsOff'
      BY <1>5 DEF StopAgent, Shutdown, Drained, Deadline, InOrder, OnTheirWay, OnlyForceCutsOff, TypeOK
    <3> QED
      BY <3>1, <3>2, <3>3, <3>4
  <2>2. TablesFollow'
    BY <1>5 DEF StopAgent, Shutdown, Drained, Deadline, TablesFollow, Passed
  <2> QED
    BY <2>1, <2>2
<1>6. ASSUME NEW r \in Request, exit = "no", Connect(r) \/ Match(r) \/ Accept(r) \/ Answer(r)
      PROVE  ServerInv'
  <2>1. PICK p \in {"waiting", "matched", "handling", "answered", "refused"} :
            /\ req' = [req EXCEPT ![r].pc = p]
            /\ p \in {"waiting", "matched", "handling"} => conn \in {"open", "closed"}
            /\ p = "handling" => http = "serving"
    BY <1>6 DEF Connect, Match, Accept, Answer, Move, OnTheirWay
  <2>2. UNCHANGED <<main, loadVars, netVars, health, forced, exit>>
    BY <1>6 DEF Connect, Match, Accept, Answer, Move
  <2>3. TypeOK' /\ OnTheirWay'
    BY <2>1, <2>2 DEF TypeOK, OnTheirWay
  <2> QED
    BY <1>6, <2>2, <2>3 DEF TablesFollow, Passed, InOrder, OnlyForceCutsOff
<1>7. CASE UNCHANGED vars
  BY <1>7 DEF vars, TypeOK, TablesFollow, Passed, InOrder, OnTheirWay, OnlyForceCutsOff
<1> QED
  BY <1>1, <1>2, <1>3, <1>4, <1>5, <1>6, <1>7 DEF Next, Main

\* No request is handled before every table that it needs is there, and none is cut off
\* in the middle except by the deadline of Shutdown, by a signal that comes before
\* signal.Notify, or, where nothing has called StartAgent, by the panic of StopAgent.
THEOREM ServerServes == Spec => []RequestsAreServed
<1>1. Init => ServerInv
  <2> SUFFICES ASSUME Init PROVE ServerInv
    OBVIOUS
  <2>1. TypeOK
    <3>1. 1 \in 1 .. Len(Hooks) /\ 1 \in 1 .. Len(apps)
      BY DEF Hooks, apps
    <3>2. req \in [Request -> [pc : {"none", "waiting", "matched", "handling", "answered", "refused"}, app : App]]
      BY DEF Init
    <3> QED
      BY <3>1, <3>2 DEF Init, TypeOK
  <2>2. TablesFollow
    BY DEF Init, TablesFollow, Passed
  <2> QED
    BY <2>1, <2>2 DEF Init, ServerInv, InOrder, OnTheirWay, OnlyForceCutsOff
<1>2. ServerInv => RequestsAreServed
  BY InvMakesTables DEF ServerInv, RequestsAreServed
<1>3. ServerInv /\ [Next]_vars => ServerInv'
  BY ServerStep
<1> QED
  BY <1>1, <1>2, <1>3, PTL DEF Spec
-----------------------------------------------------------------------------
(* The shutdown listeners.  Until there is a second notification, the        *)
(* counter is the number of the listeners that are owed a call.              *)

Appended == \A c \in Component : c \in listeners => component[c] \notin {"new", "counted"}

CalledOnce ==
    /\ notified = 0 => ~lock /\ called = {}
    /\ ~lock => running = {}
    /\ notified <= 1 => running \cap called = {}

ListenersInv == ListenersTypeOK /\ Appended /\ CalledOnce /\ CountsTheOwed /\ WaitedMeansCalled

LEMMA Finite ==
    ASSUME NEW S \in SUBSET Component
    PROVE  IsFiniteSet(S) /\ Cardinality(S) \in Nat /\ Cardinality(S) <= Cardinality(Component)
BY ListenersAssumption, FS_Subset, FS_CardinalityType

LEMMA OneMore ==
    ASSUME NEW S \in SUBSET Component, NEW c \in Component, c \notin S
    PROVE  Cardinality(S \cup {c}) = Cardinality(S) + 1
BY Finite, FS_AddElement

LEMMA OneLess ==
    ASSUME NEW S \in SUBSET Component, NEW c \in S
    PROVE  Cardinality(S \ {c}) = Cardinality(S) - 1 /\ Cardinality(S) > 0
BY Finite, FS_RemoveElement, FS_EmptySet

LEMMA ListenersStart == ListenersInit => ListenersInv
<1> SUFFICES ASSUME ListenersInit PROVE ListenersInv
  OBVIOUS
<1>1. Owed = {}
  BY DEF ListenersInit, Owed
<1>2. ListenersTypeOK
  <2>1. 0 \in 0 .. MaxNotified
    BY ListenersAssumption
  <2>2. component \in [Component -> {"new", "counted", "added", "waiting", "woken", "released", "panicked"}]
    BY DEF ListenersInit
  <2>3. waitGroup \in Int /\ notified \in 0 .. MaxNotified
    BY <2>1 DEF ListenersInit
  <2>4. listeners \subseteq Component /\ running \subseteq listeners /\ called \subseteq listeners
    BY DEF ListenersInit
  <2>5. lock \in BOOLEAN
    BY DEF ListenersInit
  <2> QED
    BY <2>2, <2>3, <2>4, <2>5 DEF ListenersTypeOK
<1>3. CountsTheOwed
  BY <1>1, FS_EmptySet DEF ListenersInit, CountsTheOwed
<1> QED
  BY <1>2, <1>3 DEF ListenersInit, ListenersInv, Appended, CalledOnce, WaitedMeansCalled

\* A listener that is owed a call holds up everybody who waits.
LEMMA NobodyIsOwed ==
    ASSUME ListenersInv, notified <= 1, waitGroup = 0
    PROVE  Owed = {}
<1>1. IsFiniteSet(Owed) /\ Cardinality(Owed) = 0
  BY Finite DEF ListenersInv, CountsTheOwed, Owed
<1> QED
  BY <1>1, FS_EmptySet

\* Waking changes nobody but those that wait.
LEMMA Added ==
    ASSUME NEW delta \in {-1, 1}, NEW comp, Add(delta, comp),
           comp \in [Component -> {"new", "counted", "added", "waiting", "woken", "released", "panicked"}],
           waitGroup \in Int
    PROVE  /\ waitGroup' = waitGroup + delta /\ waitGroup' \in Int
           /\ component' \in [Component -> {"new", "counted", "added", "waiting", "woken", "released", "panicked"}]
           /\ \A c \in Component : component'[c] = comp[c] \/ (comp[c] = "waiting" /\ component'[c] = "woken")
  BY DEF Add

LEMMA ListenersStep == ListenersInv /\ [ListenersNext]_listenerVars => ListenersInv'
<1> SUFFICES ASSUME ListenersInv, [ListenersNext]_listenerVars PROVE ListenersInv'
  OBVIOUS
<1>1. Owed \in SUBSET Component /\ Cardinality(Owed) \in Nat /\ waitGroup \in Int /\ notified \in Nat
  BY Finite, ListenersAssumption DEF Owed, ListenersInv, ListenersTypeOK
<1> USE DEF ListenersInv, ListenersTypeOK, Appended, CalledOnce, CountsTheOwed, WaitedMeansCalled
<1>3. ASSUME NEW c \in Component, CountListener(c) PROVE ListenersInv'
  <2> DEFINE comp == [component EXCEPT ![c] = "counted"]
  <2>1. /\ component[c] = "new" /\ Add(1, comp)
        /\ UNCHANGED <<listeners, running, lock, notified, called>>
    BY <1>3 DEF CountListener
  <2>2. /\ comp \in [Component -> {"new", "counted", "added", "waiting", "woken", "released", "panicked"}]
        /\ comp[c] = "counted" /\ \A x \in Component : x # c => comp[x] = component[x]
    OBVIOUS
  <2> HIDE DEF comp
  <2>3. /\ waitGroup' = waitGroup + 1 /\ waitGroup' \in Int
        /\ component' \in [Component -> {"new", "counted", "added", "waiting", "woken", "released", "panicked"}]
        /\ \A x \in Component : component'[x] = comp[x] \/ (comp[x] = "waiting" /\ component'[x] = "woken")
    BY <1>1, <2>1, <2>2, Added
  <2>4. c \notin called /\ c \notin listeners /\ c \notin Owed
    BY <2>1 DEF Owed
  <2>5. Owed' = Owed \cup {c}
    BY <2>1, <2>2, <2>3, <2>4 DEF Owed
  <2>6. Cardinality(Owed') = Cardinality(Owed) + 1
    BY <1>1, <2>4, <2>5, OneMore
  <2>7. ListenersTypeOK' /\ Appended' /\ CalledOnce'
    BY <2>1, <2>2, <2>3, <2>4
  <2>8. WaitedMeansCalled' /\ CountsTheOwed'
    BY <1>1, <2>1, <2>2, <2>3, <2>6
  <2> QED
    BY <2>7, <2>8
<1>4. ASSUME NEW c \in Component, AddListener(c) \/ Wait(c) \/ Release(c)
      PROVE  ListenersInv'
  <2>1. Owed' = Owed /\ UNCHANGED <<waitGroup, running, lock, notified, called>>
    BY <1>4 DEF AddListener, Wait, Release, Become, Owed
  <2>2. ListenersTypeOK' /\ Appended'
    BY <1>4 DEF AddListener, Wait, Release, Become
  <2>3. WaitedMeansCalled'
    <3>1. CASE AddListener(c)
      BY <3>1 DEF AddListener, Become
    <3>2. CASE Wait(c) \/ Release(c)
      <4>1. waitGroup = 0 /\ notified <= 1 /\ component[c] # "new" => c \in called
        BY NobodyIsOwed DEF Owed
      <4> QED
        BY <3>2, <4>1 DEF Wait, Release, Become
    <3> QED
      BY <1>4, <3>1, <3>2
  <2> QED
    BY <2>1, <2>2, <2>3
<1>5. CASE NotifyBegins \/ NotifyEnds
  <2>1. Owed' = Owed /\ UNCHANGED <<waitGroup, component, called, listeners>>
    BY <1>5 DEF NotifyBegins, NotifyEnds, Owed
  <2>2. ListenersTypeOK'
    <3>1. lock' \in BOOLEAN
      BY <1>5 DEF NotifyBegins, NotifyEnds
    <3>2. notified' \in 0 .. MaxNotified
      BY <1>1, <1>5, ListenersAssumption DEF NotifyBegins, NotifyEnds
    <3> QED
      BY <1>5, <2>1, <3>1, <3>2 DEF NotifyBegins, NotifyEnds
  <2>3. notified' <= 1 => notified <= 1
    BY <1>1, <1>5 DEF NotifyBegins, NotifyEnds
  <2>4. CalledOnce'
    <3>1. CASE NotifyBegins
      BY <1>1, <3>1 DEF NotifyBegins
    <3>2. CASE NotifyEnds
      BY <1>1, <3>2 DEF NotifyEnds
    <3> QED
      BY <1>5, <3>1, <3>2
  <2> QED
    BY <2>1, <2>2, <2>3, <2>4
<1>6. ASSUME NEW c \in Component, Run(c) PROVE ListenersInv'
  <2>1. /\ c \in running /\ running' = running \ {c} /\ called' = called \cup {c} /\ Add(-1, component)
        /\ UNCHANGED <<listeners, lock, notified>>
    BY <1>6 DEF Run
  <2>2. /\ waitGroup' = waitGroup + (-1) /\ waitGroup' \in Int
        /\ component' \in [Component -> {"new", "counted", "added", "waiting", "woken", "released", "panicked"}]
        /\ \A x \in Component : component'[x] = component[x]
                                 \/ (component[x] = "waiting" /\ component'[x] = "woken")
    BY <1>1, <2>1, Added
  <2>3. Owed' = Owed \ {c}
    BY <2>1, <2>2 DEF Owed
  <2>4. notified <= 1 => c \in Owed
    BY <2>1 DEF Owed
  <2>5. c \in Owed => Cardinality(Owed') = Cardinality(Owed) - 1
    BY <1>1, <2>3, OneLess
  <2>6. CountsTheOwed'
    BY <1>1, <2>1, <2>2, <2>4, <2>5
  <2>7. ListenersTypeOK' /\ Appended' /\ CalledOnce' /\ WaitedMeansCalled'
    BY <2>1, <2>2
  <2> QED
    BY <2>6, <2>7
<1>7. CASE UNCHANGED listenerVars
  BY <1>7 DEF listenerVars, Owed
<1> QED
  BY <1>3, <1>4, <1>5, <1>6, <1>7 DEF ListenersNext

\* Until there is a second notification, the wait group of shutdown.go counts exactly the
\* listeners that have not been called, and whoever has waited has been called.
THEOREM WaitersHaveBeenCalled ==
    ListenersSpec => [](ListenersTypeOK /\ WaitedMeansCalled /\ CountsTheOwed)
<1>1. ListenersInit => ListenersInv
  BY ListenersStart
<1>2. ListenersInv /\ [ListenersNext]_listenerVars => ListenersInv'
  BY ListenersStep
<1>3. ListenersInv => ListenersTypeOK /\ WaitedMeansCalled /\ CountsTheOwed
  BY DEF ListenersInv
<1> QED
  BY <1>1, <1>2, <1>3, PTL DEF ListenersSpec
=============================================================================
