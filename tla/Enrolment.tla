----------------------------- MODULE Enrolment -----------------------------
(***************************************************************************)
(* Which student takes which subject: the table user_subjects, written by  *)
(* the handlers of internal/app/subject, by the import of                  *)
(* internal/app/managers and by the upload of internal/app/users.          *)
(*                                                                         *)
(* One step is one statement.  A row that a transaction has deleted is     *)
(* locked until it commits; a new row is in nobody's way.  The unique      *)
(* index over user_id, subject_name and deleted_at refuses no live row     *)
(* (NULLs are distinct to Postgres), so ON CONFLICT DO NOTHING never finds *)
(* a conflict.  A user is named by its staff number.                       *)
(***************************************************************************)
EXTENDS Integers, FiniteSets, Functions

CONSTANTS Request, Upload, \* handlers of one row, handlers of spreadsheets
          Staff, Subject,
          Row,    \* primary keys of user_subjects, drawn afresh
          Sheet,  \* spreadsheets: functions from staff numbers to sets of subjects
          Import, \* imports: sets of pairs of a staff number and a subject
          None    \* no row; no user_id; no new value in an update

ASSUME EnrolmentAssumption ==
    /\ None \notin Staff \cup Subject \cup Row \cup Upload
    /\ Sheet \subseteq UNION {[S -> (SUBSET Subject) \ {{}}] : S \in (SUBSET Staff) \ {{}}}
    /\ Import \subseteq SUBSET (Staff \X Subject)

VARIABLES users,   \* staff numbers with a row in users
          rows,    \* rows[i]: a row of user_subjects, or None
          req,     \* handlers that are past their first query
          upload,  \* upload[u]: its spreadsheet and the rows its transaction deletes
          import   \* pairs of the import at work that are still to be inserted

vars == <<users, rows, req, upload, import>>

Entry == [staff : Staff, owner : Staff \cup {None}, subject : Subject, live : BOOLEAN]
NoSheet == <<>>

ASSUME NoneAssumption == None \notin Entry

TypeOK ==
    /\ users \subseteq Staff
    /\ rows \in [Row -> Entry \cup {None}]
    /\ req \in [Request -> [pc : {"idle", "subject", "insert", "save"}, row : Row \cup {None},
                            copy : Entry \cup {None}]]
    /\ upload \in [Upload -> [pc : {"idle", "delete", "wait", "create"},
                              sheet : Sheet \cup {NoSheet}, targets : SUBSET Row]]
    /\ import \subseteq Staff \X Subject

Idle == [pc |-> "idle", row |-> None, copy |-> None]
NoUpload == [pc |-> "idle", sheet |-> NoSheet, targets |-> {}]

Live(i) == rows[i] # None /\ rows[i].live
Free == {i \in Row : rows[i] = None}
Rows(s) == {i \in Row : Live(i) /\ rows[i].staff = s}

\* GetUserSubjects: what a student sees, before it is joined with the apps.
Taken(s) == {rows[i].subject : i \in Rows(s)}

\* Rows a transaction other than u's has deleted and not yet committed.
Locked(u) == UNION {upload[v].targets : v \in {w \in Upload \ {u} : upload[w].pc = "create"}}

\* The live rows of the students of u's sheet.
Listed(u) == UNION {Rows(s) : s \in DOMAIN upload[u].sheet}

NewEntry(s, owner, subject) == [staff |-> s, owner |-> owner, subject |-> subject, live |-> TRUE]

Init ==
    /\ users \in SUBSET Staff
    /\ rows = [i \in Row |-> None]
    /\ req = [r \in Request |-> Idle]
    /\ upload = [u \in Upload |-> NoUpload]
    /\ import = {}
-----------------------------------------------------------------------------
(* AddUserSubjectHandler *)

AddFindsUser(r, s, subject) ==
    /\ req[r].pc = "idle"
    /\ s \in users
    /\ req' = [req EXCEPT ![r] = [pc |-> "subject", row |-> None,
                                  copy |-> NewEntry(s, s, subject)]]
    /\ UNCHANGED <<users, rows, upload, import>>

\* The look-up of the subject, for a new row and for an update, finds it
\* (or not, see Fail: subjects and apps come and go all the time).
FindSubject(r) ==
    /\ req[r].pc = "subject"
    /\ req' = [req EXCEPT ![r].pc = IF req[r].row = None THEN "insert" ELSE "save"]
    /\ UNCHANGED <<users, rows, upload, import>>

\* Mutant: the insert takes over a deleted row.
AddOverDeleted(r) ==
    /\ req[r].pc = "insert"
    /\ \E i \in Row : ~Live(i) /\ rows' = [rows EXCEPT ![i] = req[r].copy]
    /\ req' = [req EXCEPT ![r] = Idle]
    /\ UNCHANGED <<users, upload, import>>

AddUserSubject(r) ==
    /\ req[r].pc = "insert"
    /\ \E i \in Free : rows' = [rows EXCEPT ![i] = req[r].copy]
    /\ req' = [req EXCEPT ![r] = Idle]
    /\ UNCHANGED <<users, upload, import>>

\* The database refuses a statement, or nothing was found: the handler answers with an error.
Fail(r) ==
    /\ req[r].pc # "idle"
    /\ req' = [req EXCEPT ![r] = Idle]
    /\ UNCHANGED <<users, rows, upload, import>>
-----------------------------------------------------------------------------
DeleteUserSubject(i) ==
    /\ Live(i) /\ i \notin Locked(None)
    /\ rows' = [rows EXCEPT ![i].live = FALSE]
    /\ UNCHANGED <<users, req, upload, import>>

\* Mutant: the row moves to another staff number and keeps its user_id.
MovedOnly(e, s) == IF s = None \/ s = e.staff THEN e ELSE [e EXCEPT !.staff = s]

\* The staff number and the user_id of a row change together.
Moved(e, s) == IF s = None \/ s = e.staff THEN e ELSE [e EXCEPT !.staff = s, !.owner = s]

Renamed(e, subject) == IF subject = None THEN e ELSE [e EXCEPT !.subject = subject]

\* UpdateUserSubjectHandler reads the row, looks the new user up (users are
\* never deleted, so when does not matter) and then the new subject.
UpdateReads(r, i, s, subject) ==
    /\ req[r].pc = "idle" /\ Live(i)
    /\ s \notin {None, rows[i].staff} => s \in users
    /\ LET copy == Renamed(Moved(rows[i], s), subject)
       IN  req' = [req EXCEPT ![r] =
                     [pc |-> IF copy.subject = rows[i].subject THEN "save" ELSE "subject",
                      row |-> i, copy |-> copy]]
    /\ UNCHANGED <<users, rows, upload, import>>

\* Save: UPDATE of every column of the live row; if it reached no row,
\* INSERT ON CONFLICT (id) DO UPDATE SET every column, deleted_at included.
\* Either way the row is what the handler read and changed, and it lives.
UpdateSaves(r) ==
    /\ req[r].pc = "save" /\ req[r].row \notin Locked(None)
    /\ rows' = [rows EXCEPT ![req[r].row] = req[r].copy]
    /\ req' = [req EXCEPT ![r] = Idle]
    /\ UNCHANGED <<users, upload, import>>
-----------------------------------------------------------------------------
(* HandleUploadUserXLSX and BatchSetUserSubjects *)

\* Students that are not there yet are created, one row at a time.
UploadUsers(u, sheet) ==
    /\ upload[u].pc = "idle"
    /\ users' = users \cup DOMAIN sheet
    /\ upload' = [upload EXCEPT ![u] = [pc |-> "delete", sheet |-> sheet, targets |-> {}]]
    /\ UNCHANGED <<rows, req, import>>

\* Mutant: the rows of the students are deleted for good before the new ones are created.
BatchDeleteAtOnce(u) ==
    /\ upload[u].pc = "delete"
    /\ rows' = [i \in Row |-> IF i \in Listed(u) THEN [rows[i] EXCEPT !.live = FALSE] ELSE rows[i]]
    /\ upload' = [upload EXCEPT ![u].pc = "create", ![u].targets = Listed(u)]
    /\ UNCHANGED <<users, req, import>>

\* The transaction deletes what it sees of each student; nobody else sees
\* that yet.  It waits for transactions that have deleted some of it before.
BatchDelete(u) ==
    /\ upload[u].pc = "delete"
    /\ upload' = [upload EXCEPT
                    ![u].pc = IF Listed(u) \cap Locked(u) = {} THEN "create" ELSE "wait",
                    ![u].targets = Listed(u)]
    /\ UNCHANGED <<users, rows, req, import>>

\* After the wait it looks again at the rows it saw, and at no others.
BatchResume(u) ==
    /\ upload[u].pc = "wait"
    /\ upload[u].targets \cap Locked(u) = {}
    /\ upload' = [upload EXCEPT ![u].pc = "create", ![u].targets = @ \cap Listed(u)]
    /\ UNCHANGED <<users, rows, req, import>>

\* It creates a row for each subject of the sheet and commits.
BatchCreate(u) ==
    LET sheet == upload[u].sheet
        new == UNION {{NewEntry(s, s, subject) : subject \in sheet[s]} : s \in DOMAIN sheet}
    IN  /\ upload[u].pc = "create"
        /\ \E f \in Injection(new, Free) :
               rows' = [i \in Row |->
                          IF i \in Range(f) THEN Inverse(f, new, Range(f))[i]
                          ELSE IF i \in upload[u].targets THEN [rows[i] EXCEPT !.live = FALSE]
                          ELSE rows[i]]
        /\ upload' = [upload EXCEPT ![u] = NoUpload]
        /\ UNCHANGED <<users, req, import>>

\* A statement fails or Postgres finds a deadlock: everything is rolled back.
BatchRollback(u) ==
    /\ upload[u].pc # "idle"
    /\ upload' = [upload EXCEPT ![u] = NoUpload]
    /\ UNCHANGED <<users, rows, req, import>>
-----------------------------------------------------------------------------
(* HandleImportStudentSubjectsExcel and ImportStudentSubjects *)

\* Every subject was found when it was looked up.
ImportChecks(items) ==
    /\ import = {}
    /\ import' = items
    /\ UNCHANGED <<users, rows, req, upload>>

\* Inserts the pairs one by one, without a user_id; one that fails is counted and left out.
ImportRow(item) ==
    /\ item \in import
    /\ import' = import \ {item}
    /\ \/ \E i \in Free : rows' = [rows EXCEPT ![i] = NewEntry(item[1], None, item[2])]
       \/ UNCHANGED rows
    /\ UNCHANGED <<users, req, upload>>

Next ==
    \/ \E r \in Request :
        \/ \E s \in Staff, subject \in Subject : AddFindsUser(r, s, subject)
        \/ FindSubject(r) \/ AddUserSubject(r) \/ Fail(r)
        \/ \E i \in Row, s \in Staff \cup {None}, subject \in Subject \cup {None} :
               UpdateReads(r, i, s, subject)
        \/ UpdateSaves(r)
    \/ \E i \in Row : DeleteUserSubject(i)
    \/ \E u \in Upload :
        \/ \E sheet \in Sheet : UploadUsers(u, sheet)
        \/ BatchDelete(u) \/ BatchResume(u) \/ BatchCreate(u) \/ BatchRollback(u)
    \/ \E items \in Import : ImportChecks(items)
    \/ \E item \in import : ImportRow(item)

Spec == Init /\ [][Next]_vars
-----------------------------------------------------------------------------
(***************************************************************************)
(* A row that names a user names the user of its staff number, whatever    *)
(* moved it there: no student's list shows up under another's user_id.     *)
(***************************************************************************)
RowsNameTheirUser ==
    \A i \in Row : Live(i) =>
        (rows[i].owner # None => rows[i].owner = rows[i].staff /\ rows[i].owner \in users)

(***************************************************************************)
(* An upload that lists a student never leaves it without a subject, not   *)
(* even for a moment or when it fails half way: a list becomes empty only  *)
(* when its last row is deleted or moved to another student.               *)
(***************************************************************************)
UploadNeverEmpties ==
    [][\A s \in Staff : Taken(s) # {} /\ Taken(s)' = {} =>
           \E i \in Rows(s) :
               rows' \in {[rows EXCEPT ![i].live = FALSE]} \cup
                         {[rows EXCEPT ![i] = req[r].copy] : r \in {q \in Request : req[q].row = i}}]_vars

(***************************************************************************)
(* Deleting a row is final unless an update had read it before: such an    *)
(* update, and nothing else, brings it back.                               *)
(***************************************************************************)
RevivedOnlyByStaleSave ==
    [][\A i \in Row : rows[i] # None /\ ~Live(i) /\ Live(i)' =>
           \E r \in Request : req[r].row = i /\ req[r].pc = "save" /\ req'[r] = Idle]_vars
=============================================================================
