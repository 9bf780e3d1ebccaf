------------------------------ MODULE Subjects ------------------------------
(***************************************************************************)
(* The table of subjects and its three writers in internal/app/subject.    *)
(*                                                                         *)
(* The name of a subject is kept unique by counting before writing; the    *)
(* table has no unique index.  AddSubject counts and writes in separate    *)
(* statements.  UpdateSubject has a transaction around them, which at read *)
(* committed sees what others have committed in between; its last          *)
(* statement and its commit are one step, since nobody sees the one        *)
(* without the other.                                                      *)
(***************************************************************************)
EXTENDS Integers

CONSTANTS Writer,    \* handlers at work
          SubjectId, \* primary keys
          Name,
          None       \* no row; no new name, in an update of the link only

ASSUME SubjectsAssumption == SubjectId \subseteq Nat /\ None \notin SubjectId \cup Name

VARIABLES subjects, \* subjects[i]: a row, or None
          work      \* work[w]: how far the handler w has come

subjectVars == <<subjects, work>>

Row == [name : Name, live : BOOLEAN]

\* rival: since w counted, another subject has come by the name w wants.
SubjectsTypeOK ==
    /\ subjects \in [SubjectId -> Row \cup {None}]
    /\ work \in [Writer -> [pc : {"idle", "count", "add", "update"}, id : SubjectId \cup {None},
                            name : Name \cup {None}, rival : BOOLEAN]]

Known(i) == subjects[i] # None /\ subjects[i].live
Named(n) == {i \in SubjectId : Known(i) /\ subjects[i].name = n}

AtRest == [pc |-> "idle", id |-> None, name |-> None, rival |-> FALSE]

SubjectsInit ==
    /\ subjects = [i \in SubjectId |-> None]
    /\ work = [w \in Writer |-> AtRest]

Begin(w, pc, i, n) == work' = [work EXCEPT ![w] = [pc |-> pc, id |-> i, name |-> n, rival |-> FALSE]]
Leave(w) == work' = [work EXCEPT ![w] = AtRest]

\* w writes the name n into row i and is done; the others that want n have a rival.
Put(w, i, n) ==
    /\ subjects' = [subjects EXCEPT ![i] = [name |-> n, live |-> TRUE]]
    /\ work' = [v \in Writer |->
                   IF v = w THEN AtRest
                   ELSE [work[v] EXCEPT !.rival =
                            @ \/ (work[v].pc \in {"add", "update"} /\ work[v].name = n /\ work[v].id # i)]]
-----------------------------------------------------------------------------
AddCounts(w) ==
    /\ work[w].pc = "idle"
    /\ \E n \in Name : Named(n) = {} /\ Begin(w, "add", None, n)
    /\ UNCHANGED subjects

AddSubject(w) ==
    /\ work[w].pc = "add"
    /\ \E i \in SubjectId : subjects[i] = None /\ Put(w, i, work[w].name)

DeleteSubject(i) ==
    /\ Known(i)
    /\ subjects' = [subjects EXCEPT ![i].live = FALSE]
    /\ UNCHANGED work

\* The subject is found; with no new name there is nothing to count.
UpdateFinds(w) ==
    /\ work[w].pc = "idle"
    /\ \E i \in SubjectId, n \in Name \cup {None} :
           Known(i) /\ Begin(w, IF n = None THEN "update" ELSE "count", i, n)
    /\ UNCHANGED subjects

\* The name must not be that of another subject.
UpdateCounts(w) ==
    /\ work[w].pc = "count"
    /\ Named(work[w].name) \subseteq {work[w].id}
    /\ work' = [work EXCEPT ![w].pc = "update"]
    /\ UNCHANGED subjects

\* Mutant: the row that was found is written back whole.
UpdateByCopy(w) ==
    /\ work[w].pc = "update"
    /\ IF work[w].name # None THEN Put(w, work[w].id, work[w].name)
       ELSE Leave(w) /\ UNCHANGED subjects

\* A row that has been deleted in between is not updated, which is an error.
UpdateSubject(w) ==
    /\ work[w].pc = "update"
    /\ IF Known(work[w].id) /\ work[w].name # None THEN Put(w, work[w].id, work[w].name)
       ELSE Leave(w) /\ UNCHANGED subjects

\* A statement fails, or its check: the handler answers with an error.
GiveUp(w) ==
    /\ work[w].pc # "idle"
    /\ Leave(w)
    /\ UNCHANGED subjects

SubjectsNext ==
    \/ \E i \in SubjectId : DeleteSubject(i)
    \/ \E w \in Writer :
           \/ AddCounts(w) \/ AddSubject(w)
           \/ UpdateFinds(w) \/ UpdateCounts(w) \/ UpdateSubject(w) \/ GiveUp(w)

SubjectsSpec == SubjectsInit /\ [][SubjectsNext]_subjectVars
-----------------------------------------------------------------------------
Namesakes == {p \in SubjectId \X SubjectId :
                 p[1] # p[2] /\ Known(p[1]) /\ Known(p[2]) /\ subjects[p[1]].name = subjects[p[2]].name}

\* By this step two subjects come to have one name: the writer had counted before a
\* rival wrote.
NamesakesNeedARace ==
    Namesakes' \subseteq Namesakes \/ \E w \in Writer : work[w].rival /\ work'[w].pc = "idle"

DeletedSubjectsStay == \A i \in SubjectId : subjects[i] # None /\ ~Known(i) => subjects'[i] = subjects[i]

(***************************************************************************)
(* Two subjects come to have one name only through writers that overlap,   *)
(* and the transaction of UpdateSubject (subject.go:165) makes no          *)
(* difference.  A deleted subject stays as it was, also for an update that *)
(* found it alive: what UpdateSubject checks first is checked again by its *)
(* last statement.                                                         *)
(***************************************************************************)
WritersKeepTheRules ==
    [][SubjectsTypeOK' /\ NamesakesNeedARace /\ DeletedSubjectsStay]_subjectVars
=============================================================================
