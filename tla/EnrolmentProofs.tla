-------------------------- MODULE EnrolmentProofs --------------------------
(* Proofs about Enrolment for any number of handlers, uploads, students and  *)
(* rows.                                                                     *)
EXTENDS Enrolment, TLAPS

LEMMA DeletedEntry ==
    ASSUME NEW e \in Entry
    PROVE  /\ [e EXCEPT !.live = FALSE] \in Entry
           /\ [e EXCEPT !.live = FALSE].owner = e.owner
           /\ [e EXCEPT !.live = FALSE].staff = e.staff
  BY DEF Entry

\* The rows a committing upload creates.
NewRows(u) ==
    UNION {{NewEntry(s, s, subject) : subject \in upload[u].sheet[s]} : s \in DOMAIN upload[u].sheet}

LEMMA NewRowsAreOwned ==
    ASSUME NEW u \in Upload, NEW e \in NewRows(u)
    PROVE  \E s \in DOMAIN upload[u].sheet : \E subject \in upload[u].sheet[s] :
               e = NewEntry(s, s, subject)
  BY DEF NewRows

\* A sheet lists students and, for each of them, subjects.
LEMMA SheetShape ==
    ASSUME TypeOK, NEW u \in Upload, NEW s \in DOMAIN upload[u].sheet
    PROVE  s \in Staff /\ upload[u].sheet[s] \subseteq Subject
<1>1. upload[u].sheet \in Sheet \cup {NoSheet}
  BY DEF TypeOK
<1>2. CASE upload[u].sheet = NoSheet
  BY <1>2 DEF NoSheet
<1>3. CASE upload[u].sheet \in Sheet
  <2>1. PICK S \in (SUBSET Staff) \ {{}} : upload[u].sheet \in [S -> (SUBSET Subject) \ {{}}]
    BY <1>3, EnrolmentAssumption
  <2> QED
    BY <2>1
<1> QED
  BY <1>1, <1>2, <1>3

LEMMA NewRowsType ==
    ASSUME TypeOK, NEW u \in Upload
    PROVE  NewRows(u) \subseteq Entry
<1> SUFFICES ASSUME NEW e \in NewRows(u) PROVE e \in Entry
  OBVIOUS
<1>1. PICK s \in DOMAIN upload[u].sheet : \E subject \in upload[u].sheet[s] : e = NewEntry(s, s, subject)
  BY NewRowsAreOwned
<1> QED
  BY <1>1, SheetShape DEF NewEntry, Entry

\* What a commit leaves in a row: a new row, an old one that is deleted, or the row itself.
LEMMA CommittedRows ==
    ASSUME TypeOK, NEW u \in Upload, BatchCreate(u), NEW i \in Row
    PROVE  \/ rows'[i] \in NewRows(u) /\ rows[i] = None
           \/ rows'[i] = [rows[i] EXCEPT !.live = FALSE] /\ i \in upload[u].targets
           \/ rows'[i] = rows[i]
<1>1. PICK f \in Injection(NewRows(u), Free) :
         rows' = [j \in Row |->
                     IF j \in Range(f) THEN Inverse(f, NewRows(u), Range(f))[j]
                     ELSE IF j \in upload[u].targets THEN [rows[j] EXCEPT !.live = FALSE]
                     ELSE rows[j]]
  BY Zenon DEF BatchCreate, NewRows
<1>2. CASE i \in Range(f)
  <2>1. \E e \in NewRows(u) : f[e] = i
    BY <1>1, <1>2 DEF Range, Injection, IsInjective
  <2>2. Inverse(f, NewRows(u), Range(f))[i] \in NewRows(u)
    BY <1>2, <2>1 DEF Inverse
  <2>3. i \in Free
    BY <1>1, <1>2 DEF Range, Injection
  <2> QED
    BY <1>1, <1>2, <2>2, <2>3 DEF Free
<1>3. CASE i \notin Range(f)
  BY <1>1, <1>3
<1> QED
  BY <1>2, <1>3
-----------------------------------------------------------------------------
\* A deletion is only ever aimed at rows that exist.
TargetsExist == \A u \in Upload : \A i \in upload[u].targets : rows[i] # None

\* A handler that is to insert or save has something to write.
HandlersCarryRows ==
    \A r \in Request :
        /\ req[r].pc # "idle" => req[r].copy # None
        /\ req[r].pc = "save" => req[r].row # None

Shape == TypeOK /\ TargetsExist /\ HandlersCarryRows

LEMMA ShapeHolds == Spec => []Shape
<1>1. Init => Shape
  <2> SUFFICES ASSUME Init PROVE Shape
    OBVIOUS
  <2>1. TypeOK
    BY DEF Init, TypeOK, Idle, NoUpload
  <2> QED
    BY <2>1 DEF Init, Shape, TargetsExist, HandlersCarryRows, Idle, NoUpload
<1>2. Shape /\ [Next]_vars => Shape'
  <2> SUFFICES ASSUME Shape, [Next]_vars PROVE TypeOK' /\ TargetsExist' /\ HandlersCarryRows'
    BY DEF Shape
  <2> USE EnrolmentAssumption, NoneAssumption DEF Shape, TargetsExist, HandlersCarryRows
  <2>1. ASSUME NEW r \in Request, NEW s \in Staff, NEW subject \in Subject, AddFindsUser(r, s, subject)
        PROVE  TypeOK' /\ TargetsExist' /\ HandlersCarryRows'
    <3>1. NewEntry(s, s, subject) \in Entry
      BY DEF NewEntry, Entry
    <3> QED
      BY <2>1, <3>1 DEF AddFindsUser, TypeOK
  <2>2. ASSUME NEW r \in Request, FindSubject(r) \/ Fail(r)
        PROVE  TypeOK' /\ TargetsExist' /\ HandlersCarryRows'
    BY <2>2 DEF FindSubject, Fail, TypeOK, Idle
  <2>3. ASSUME NEW r \in Request, AddUserSubject(r) \/ UpdateSaves(r)
        PROVE  TypeOK' /\ TargetsExist' /\ HandlersCarryRows'
    <3>1. req[r].copy \in Entry
      BY <2>3 DEF AddUserSubject, UpdateSaves, TypeOK
    <3>2. /\ rows' \in [Row -> Entry \cup {None}]
          /\ \A i \in Row : rows[i] # None => rows'[i] # None
      BY <2>3, <3>1 DEF AddUserSubject, UpdateSaves, TypeOK
    <3>3. req' = [req EXCEPT ![r] = Idle] /\ UNCHANGED <<users, upload, import>>
      BY <2>3 DEF AddUserSubject, UpdateSaves
    <3>4. TypeOK'
      BY <3>2, <3>3 DEF TypeOK, Idle
    <3>5. TargetsExist' /\ HandlersCarryRows'
      BY <3>2, <3>3 DEF TypeOK, Idle
    <3> QED
      BY <3>4, <3>5
  <2>4. ASSUME NEW i \in Row, DeleteUserSubject(i)
        PROVE  TypeOK' /\ TargetsExist' /\ HandlersCarryRows'
    <3> DEFINE deleted == [rows[i] EXCEPT !.live = FALSE]
    <3>1. rows[i] \in Entry
      BY <2>4 DEF DeleteUserSubject, TypeOK, Live
    <3>2. deleted \in Entry
      BY <3>1, DeletedEntry
    <3>3. rows' = [rows EXCEPT ![i] = deleted] /\ UNCHANGED <<users, req, upload, import>>
      BY <2>4 DEF DeleteUserSubject
    <3> HIDE DEF deleted
    <3> QED
      BY <3>2, <3>3 DEF TypeOK
  <2>5. ASSUME NEW r \in Request, NEW i \in Row, NEW s \in Staff \cup {None},
               NEW subject \in Subject \cup {None}, UpdateReads(r, i, s, subject)
        PROVE  TypeOK' /\ TargetsExist' /\ HandlersCarryRows'
    <3>1. rows[i] \in Entry
      BY <2>5 DEF UpdateReads, TypeOK, Live
    <3>2. Renamed(Moved(rows[i], s), subject) \in Entry
      BY <3>1 DEF Renamed, Moved, Entry
    <3> QED
      BY <2>5, <3>2 DEF UpdateReads, TypeOK
  <2>6. ASSUME NEW u \in Upload, NEW sheet \in Sheet, UploadUsers(u, sheet)
        PROVE  TypeOK' /\ TargetsExist' /\ HandlersCarryRows'
    <3>1. PICK S \in (SUBSET Staff) \ {{}} : sheet \in [S -> (SUBSET Subject) \ {{}}]
      OBVIOUS
    <3>2. users' \subseteq Staff
      BY <2>6, <3>1 DEF UploadUsers, TypeOK
    <3> QED
      BY <2>6, <3>2 DEF UploadUsers, TypeOK
  <2>7. ASSUME NEW u \in Upload, BatchDelete(u) \/ BatchResume(u) \/ BatchRollback(u)
        PROVE  TypeOK' /\ TargetsExist' /\ HandlersCarryRows'
    <3>1. Listed(u) \subseteq Row /\ \A i \in Listed(u) : rows[i] # None
      BY DEF Listed, Rows, Live
    <3>2. ASSUME NEW pc \in {"create", "wait"}, NEW targets \in SUBSET Row,
                 targets \subseteq Listed(u) \cup upload[u].targets,
                 upload' = [upload EXCEPT ![u].pc = pc, ![u].targets = targets],
                 UNCHANGED <<users, rows, req, import>>
          PROVE  TypeOK' /\ TargetsExist' /\ HandlersCarryRows'
      <4> DEFINE State == [pc : {"idle", "delete", "wait", "create"},
                           sheet : Sheet \cup {NoSheet}, targets : SUBSET Row]
                 next == [upload[u] EXCEPT !.pc = pc, !.targets = targets]
      <4>a. upload \in [Upload -> State] /\ upload[u] \in State
        BY DEF TypeOK
      <4>b. next \in State
        BY ONLY <4>a, <3>2
      <4>c. upload' = [upload EXCEPT ![u] = next]
        BY ONLY <4>a, <3>2
      <4>d. upload' \in [Upload -> State]
        <5> HIDE DEF State, next
        <5> QED
          BY <4>a, <4>b, <4>c
      <4>1. TypeOK'
        BY <3>2, <4>d DEF TypeOK
      <4>2. \A i \in targets : rows[i] # None
        BY <3>1, <3>2
      <4>3. TargetsExist'
        BY <3>2, <4>2 DEF TypeOK
      <4> QED
        BY <3>2, <4>1, <4>3
    <3>3. CASE BatchDelete(u)
      <4>1. PICK pc \in {"create", "wait"} :
               upload' = [upload EXCEPT ![u].pc = pc, ![u].targets = Listed(u)]
        BY <3>3 DEF BatchDelete
      <4>2. Listed(u) \in SUBSET Row /\ Listed(u) \subseteq Listed(u) \cup upload[u].targets
        BY <3>1
      <4>3. UNCHANGED <<users, rows, req, import>>
        BY <3>3 DEF BatchDelete
      <4> QED
        BY <3>2, <4>1, <4>2, <4>3
    <3>4. CASE BatchResume(u)
      <4> DEFINE kept == upload[u].targets \cap Listed(u)
      <4>1. upload' = [upload EXCEPT ![u].pc = "create", ![u].targets = kept]
        BY <3>4 DEF BatchResume, TypeOK
      <4>2. kept \in SUBSET Row /\ kept \subseteq Listed(u) \cup upload[u].targets
        BY <3>1
      <4> HIDE DEF kept
      <4> QED
        BY <3>2, <3>4, <4>1, <4>2 DEF BatchResume
    <3>5. CASE BatchRollback(u)
      BY <3>5 DEF BatchRollback, TypeOK, NoUpload
    <3> QED
      BY <2>7, <3>3, <3>4, <3>5
  <2>8. ASSUME NEW u \in Upload, BatchCreate(u)
        PROVE  TypeOK' /\ TargetsExist' /\ HandlersCarryRows'
    <3>1. ASSUME NEW i \in Row
          PROVE  rows'[i] \in Entry \cup {None} /\ (rows[i] # None => rows'[i] # None)
      <4>1. CASE rows'[i] \in NewRows(u)
        BY <4>1, NewRowsType
      <4>2. CASE rows'[i] = [rows[i] EXCEPT !.live = FALSE] /\ i \in upload[u].targets
        <5>1. rows[i] \in Entry
          BY <4>2 DEF TypeOK
        <5> QED
          BY <4>2, <5>1, DeletedEntry
      <4> QED
        BY <2>8, <4>1, <4>2, CommittedRows DEF TypeOK
    <3>2. rows' = [i \in Row |-> rows'[i]]
      BY <2>8 DEF BatchCreate
    <3> QED
      BY <2>8, <3>1, <3>2 DEF BatchCreate, TypeOK, NoUpload
  <2>9. ASSUME NEW items \in Import, ImportChecks(items)
        PROVE  TypeOK' /\ TargetsExist' /\ HandlersCarryRows'
    BY <2>9 DEF ImportChecks, TypeOK
  <2>10. ASSUME NEW item \in import, ImportRow(item)
         PROVE  TypeOK' /\ TargetsExist' /\ HandlersCarryRows'
    <3>1. NewEntry(item[1], None, item[2]) \in Entry
      BY DEF TypeOK, NewEntry, Entry
    <3> QED
      BY <2>10, <3>1 DEF ImportRow, TypeOK
  <2>11. CASE UNCHANGED vars
    BY <2>11 DEF vars, TypeOK
  <2> QED
    BY <2>1, <2>2, <2>3, <2>4, <2>5, <2>6, <2>7, <2>8, <2>9, <2>10, <2>11 DEF Next
<1> QED
  BY <1>1, <1>2, PTL DEF Spec

\* Type correctness of the tables, the handlers and the uploads.
THEOREM EnrolmentTypeCorrect == Spec => []TypeOK
<1>1. Shape => TypeOK
  BY DEF Shape
<1> QED
  BY <1>1, ShapeHolds, PTL
-----------------------------------------------------------------------------
(* Owners.  What a row says of its owner is what a handler read, what an     *)
(* upload made or nothing (an import); users are never deleted.              *)

Owned(e) == e.owner # None => e.owner = e.staff /\ e.owner \in users

CopiesAreOwned == \A r \in Request : req[r].pc # "idle" => Owned(req[r].copy)
SheetsHaveUsers == \A u \in Upload : DOMAIN upload[u].sheet \subseteq users
RowsAreOwned == \A i \in Row : rows[i] # None => Owned(rows[i])

Ownership == CopiesAreOwned /\ SheetsHaveUsers /\ RowsAreOwned

LEMMA OwnershipStep == Shape /\ Ownership /\ [Next]_vars => Ownership'
<1> SUFFICES ASSUME Shape, Ownership, [Next]_vars PROVE Ownership'
  OBVIOUS
<1> USE DEF Shape, TargetsExist, HandlersCarryRows, Ownership, CopiesAreOwned, SheetsHaveUsers, RowsAreOwned, Owned
<1>1. ASSUME NEW r \in Request, NEW s \in Staff, NEW subject \in Subject, AddFindsUser(r, s, subject)
      PROVE  Ownership'
  BY <1>1 DEF AddFindsUser, NewEntry, TypeOK
<1>2. ASSUME NEW r \in Request, FindSubject(r) \/ Fail(r)
      PROVE  Ownership'
  BY <1>2 DEF FindSubject, Fail, TypeOK, Idle
<1>3. ASSUME NEW r \in Request, AddUserSubject(r) \/ UpdateSaves(r)
      PROVE  Ownership'
  <2>1. Owned(req[r].copy)
    BY <1>3 DEF AddUserSubject, UpdateSaves
  <2>2. PICK i \in Row : rows' = [rows EXCEPT ![i] = req[r].copy]
    BY <1>3 DEF AddUserSubject, UpdateSaves, Free, TypeOK
  <2>3. RowsAreOwned'
    BY <1>3, <2>1, <2>2 DEF AddUserSubject, UpdateSaves, TypeOK
  <2>4. CopiesAreOwned' /\ SheetsHaveUsers'
    BY <1>3 DEF AddUserSubject, UpdateSaves, TypeOK, Idle
  <2> QED
    BY <2>3, <2>4
<1>4. ASSUME NEW i \in Row, DeleteUserSubject(i)
      PROVE  Ownership'
  <2>1. rows[i] \in Entry
    BY <1>4 DEF DeleteUserSubject, TypeOK, Live
  <2>2. Owned([rows[i] EXCEPT !.live = FALSE])
    BY <2>1, <1>4 DEF DeleteUserSubject, Live, Entry
  <2>3. rows' = [rows EXCEPT ![i] = [rows[i] EXCEPT !.live = FALSE]]
    BY <1>4 DEF DeleteUserSubject
  <2> QED
    BY <1>4, <2>2, <2>3 DEF DeleteUserSubject, TypeOK
<1>5. ASSUME NEW r \in Request, NEW i \in Row, NEW s \in Staff \cup {None},
             NEW subject \in Subject \cup {None}, UpdateReads(r, i, s, subject)
      PROVE  Ownership'
  <2>1. rows[i] \in Entry /\ Owned(rows[i])
    BY <1>5 DEF UpdateReads, TypeOK, Live
  <2>2. Owned(Moved(rows[i], s)) /\ Moved(rows[i], s) \in Entry
    BY <1>5, <2>1 DEF UpdateReads, Moved, Entry
  <2>3. Owned(Renamed(Moved(rows[i], s), subject))
    BY <2>2 DEF Renamed, Entry
  <2> QED
    BY <1>5, <2>3 DEF UpdateReads, TypeOK
<1>6. ASSUME NEW u \in Upload, NEW sheet \in Sheet, UploadUsers(u, sheet)
      PROVE  Ownership'
  BY <1>6 DEF UploadUsers, TypeOK
<1>7. ASSUME NEW u \in Upload, BatchDelete(u) \/ BatchResume(u) \/ BatchRollback(u)
      PROVE  Ownership'
  BY <1>7 DEF BatchDelete, BatchResume, BatchRollback, TypeOK, NoUpload, NoSheet
<1>8. ASSUME NEW u \in Upload, BatchCreate(u)
      PROVE  Ownership'
  <2>1. ASSUME NEW i \in Row, rows'[i] # None
        PROVE  Owned(rows'[i])
    <3>1. CASE rows'[i] \in NewRows(u)
      BY <3>1, NewRowsAreOwned DEF NewEntry
    <3>2. CASE rows'[i] = [rows[i] EXCEPT !.live = FALSE] /\ i \in upload[u].targets
      BY <3>2 DEF TypeOK, Entry
    <3> QED
      BY <1>8, <2>1, <3>1, <3>2, CommittedRows
  <2>2. upload' = [upload EXCEPT ![u] = NoUpload] /\ UNCHANGED <<users, req, import>>
    BY <1>8 DEF BatchCreate
  <2> QED
    BY <2>1, <2>2 DEF TypeOK, NoUpload, NoSheet
<1>9. ASSUME NEW item \in import, ImportRow(item)
      PROVE  Ownership'
  BY <1>9 DEF ImportRow, NewEntry, TypeOK
<1>10. CASE UNCHANGED <<users, rows, req, upload>>
  BY <1>10
<1> QED
  BY <1>1, <1>2, <1>3, <1>4, <1>5, <1>6, <1>7, <1>8, <1>9, <1>10 DEF Next, ImportChecks, vars

\* Whoever adds, moves, imports and uploads at the same time, a row that
\* names a user names the user of its staff number, and that user exists.
THEOREM RowsKeepTheirUser == Spec => []RowsNameTheirUser
<1>1. Init => Ownership
  BY DEF Init, Ownership, CopiesAreOwned, SheetsHaveUsers, RowsAreOwned, Idle, NoUpload, NoSheet
<1>2. Ownership => RowsNameTheirUser
  BY DEF Ownership, RowsAreOwned, Owned, RowsNameTheirUser, Live
<1> QED
  BY <1>1, <1>2, OwnershipStep, ShapeHolds, PTL DEF Spec
-----------------------------------------------------------------------------
\* A deleted row lives again only through the save of an update that had
\* read it before (UpdateUserSubjectHandler).
THEOREM DeletionIsFinal == Spec => RevivedOnlyByStaleSave
<1> DEFINE Final == \A i \in Row : rows[i] # None /\ ~Live(i) /\ Live(i)' =>
                        \E r \in Request : req[r].row = i /\ req[r].pc = "save" /\ req'[r] = Idle
<1>1. Shape /\ [Next]_vars => [Final]_vars
  <2> SUFFICES ASSUME Shape, Next, NEW i \in Row, rows[i] # None, ~Live(i), Live(i)'
               PROVE  \E r \in Request : req[r].row = i /\ req[r].pc = "save" /\ req'[r] = Idle
    OBVIOUS
  <2> USE EnrolmentAssumption, NoneAssumption
  <2>1. ASSUME NEW r \in Request, AddUserSubject(r)
        PROVE  FALSE
    <3>1. rows'[i] = rows[i]
      BY <2>1 DEF AddUserSubject, Free, Shape, TypeOK
    <3> QED
      BY <3>1 DEF Live
  <2>2. ASSUME NEW r \in Request, UpdateSaves(r)
        PROVE  req[r].row = i /\ req[r].pc = "save" /\ req'[r] = Idle
    <3>1. req[r].row # i => rows'[i] = rows[i]
      BY <2>2 DEF UpdateSaves, Shape, TypeOK
    <3> QED
      BY <2>2, <3>1 DEF UpdateSaves, Live, Shape, TypeOK
  <2>3. ASSUME NEW j \in Row, DeleteUserSubject(j)
        PROVE  FALSE
    <3>1. i # j => rows'[i] = rows[i]
      BY <2>3 DEF DeleteUserSubject, Shape, TypeOK
    <3>2. i # j
      BY <2>3 DEF DeleteUserSubject
    <3> QED
      BY <3>1, <3>2 DEF Live
  <2>4. ASSUME NEW u \in Upload, BatchCreate(u)
        PROVE  FALSE
    <3>1. rows[i] \in Entry
      BY DEF Shape, TypeOK
    <3>2. rows'[i] = rows[i] \/ rows'[i] = [rows[i] EXCEPT !.live = FALSE]
      BY <2>4, CommittedRows DEF Shape
    <3>3. ~[rows[i] EXCEPT !.live = FALSE].live
      BY <3>1 DEF Entry
    <3> QED
      BY <3>2, <3>3 DEF Live
  <2>5. ASSUME NEW item \in import, ImportRow(item)
        PROVE  FALSE
    <3>1. rows'[i] = rows[i]
      BY <2>5 DEF ImportRow, Free, Shape, TypeOK
    <3> QED
      BY <3>1 DEF Live
  <2>6. CASE UNCHANGED rows
    BY <2>6 DEF Live
  <2> QED
    BY <2>1, <2>2, <2>3, <2>4, <2>5, <2>6
       DEF Next, AddFindsUser, FindSubject, Fail, UpdateReads, UploadUsers, BatchDelete,
           BatchResume, BatchRollback, ImportChecks
<1> QED
  BY <1>1, ShapeHolds, PTL DEF Spec, RevivedOnlyByStaleSave
-----------------------------------------------------------------------------
(* Lists that uploads replace.  Whether a commit may take a row away is      *)
(* decided when the transaction deletes it, and until then it is locked: it  *)
(* stays the live row of a student of the sheet, and no other transaction    *)
(* has it.                                                                   *)

TargetsAreListed ==
    \A u \in Upload : upload[u].pc = "create" =>
        \A i \in upload[u].targets : Live(i) /\ rows[i].staff \in DOMAIN upload[u].sheet

TargetsAreApart ==
    \A u, v \in Upload : u # v /\ upload[u].pc = "create" /\ upload[v].pc = "create" =>
        upload[u].targets \cap upload[v].targets = {}

Locks == TargetsAreListed /\ TargetsAreApart

LEMMA LockedRows ==
    ASSUME NEW u, NEW v \in Upload, v # u, upload[v].pc = "create"
    PROVE  upload[v].targets \subseteq Locked(u)
  BY DEF Locked

LEMMA LockedForAll ==
    ASSUME NEW i \in Row, i \notin Locked(None), NEW u \in Upload, upload[u].pc = "create"
    PROVE  i \notin upload[u].targets
<1>1. u # None
  BY EnrolmentAssumption
<1> QED
  BY <1>1, LockedRows

LEMMA ListedRows ==
    ASSUME NEW u \in Upload, NEW i \in Listed(u)
    PROVE  Live(i) /\ rows[i].staff \in DOMAIN upload[u].sheet
  BY DEF Listed, Rows

\* Steps that change no locked row and no upload keep the locks.
LEMMA LocksOfOthers ==
    ASSUME Shape, Locks, UNCHANGED upload,
           \A u \in Upload : upload[u].pc = "create" =>
               \A i \in upload[u].targets : rows'[i] = rows[i]
    PROVE  Locks'
<1>1. TargetsAreListed'
  BY DEF Locks, TargetsAreListed, Live
<1>2. TargetsAreApart'
  BY DEF Locks, TargetsAreApart
<1> QED
  BY <1>1, <1>2 DEF Locks

\* An upload gets the rows that it locks, and nobody else has one of them.
LEMMA LocksOfUpload ==
    ASSUME Shape, Locks, UNCHANGED rows, NEW u \in Upload,
           NEW job \in [pc : {"idle", "delete", "wait", "create"}, sheet : Sheet \cup {NoSheet},
                        targets : SUBSET Row],
           upload' = [upload EXCEPT ![u] = job],
           job.pc = "create" =>
               /\ job.targets \cap Locked(u) = {}
               /\ \A i \in job.targets : Live(i) /\ rows[i].staff \in DOMAIN job.sheet
    PROVE  Locks'
<1>1. upload'[u] = job /\ \A v \in Upload \ {u} : upload'[v] = upload[v]
  BY DEF Shape, TypeOK
<1>2. TargetsAreListed'
  BY <1>1 DEF Locks, TargetsAreListed, Live
<1>3. \A v \in Upload \ {u} : job.pc = "create" /\ upload[v].pc = "create" =>
          upload[v].targets \cap job.targets = {}
  BY LockedRows
<1>4. TargetsAreApart'
  BY <1>1, <1>3 DEF Locks, TargetsAreApart
<1> QED
  BY <1>2, <1>4 DEF Locks

LEMMA LocksStep == Shape /\ Locks /\ [Next]_vars => Locks'
<1> SUFFICES ASSUME Shape, Locks, [Next]_vars PROVE Locks'
  OBVIOUS
<1>1. ASSUME NEW r \in Request, AddUserSubject(r)
      PROVE  Locks'
  <2>1. \A u \in Upload : upload[u].pc = "create" => \A i \in upload[u].targets : rows'[i] = rows[i]
    BY <1>1 DEF AddUserSubject, Free, Locks, TargetsAreListed, Live, Shape, TypeOK
  <2> QED
    BY <1>1, <2>1, LocksOfOthers DEF AddUserSubject
<1>2. ASSUME NEW r \in Request, UpdateSaves(r)
      PROVE  Locks'
  <2>1. req[r].row \in Row /\ req[r].row \notin Locked(None)
    BY <1>2 DEF UpdateSaves, Shape, TypeOK, HandlersCarryRows
  <2>2. \A u \in Upload : upload[u].pc = "create" => req[r].row \notin upload[u].targets
    BY <2>1, LockedForAll
  <2>3. \A u \in Upload : upload[u].pc = "create" => \A i \in upload[u].targets : rows'[i] = rows[i]
    BY <1>2, <2>2 DEF UpdateSaves, Shape, TypeOK
  <2> QED
    BY <1>2, <2>3, LocksOfOthers DEF UpdateSaves
<1>3. ASSUME NEW j \in Row, DeleteUserSubject(j)
      PROVE  Locks'
  <2>1. \A u \in Upload : upload[u].pc = "create" => j \notin upload[u].targets
    BY <1>3, LockedForAll DEF DeleteUserSubject
  <2>2. \A u \in Upload : upload[u].pc = "create" => \A i \in upload[u].targets : rows'[i] = rows[i]
    BY <1>3, <2>1 DEF DeleteUserSubject, Shape, TypeOK
  <2> QED
    BY <1>3, <2>2, LocksOfOthers DEF DeleteUserSubject
<1>4. ASSUME NEW u \in Upload, NEW sheet \in Sheet, UploadUsers(u, sheet)
      PROVE  Locks'
  BY <1>4, LocksOfUpload DEF UploadUsers
<1>5. ASSUME NEW u \in Upload, BatchDelete(u)
      PROVE  Locks'
  <2> DEFINE job == [upload[u] EXCEPT !.pc = IF Listed(u) \cap Locked(u) = {} THEN "create" ELSE "wait",
                                      !.targets = Listed(u)]
  <2>1. upload' = [upload EXCEPT ![u] = job]
    BY <1>5 DEF BatchDelete
  <2>2. Listed(u) \subseteq Row
    BY DEF Listed, Rows
  <2>3. job \in [pc : {"idle", "delete", "wait", "create"}, sheet : Sheet \cup {NoSheet}, targets : SUBSET Row]
        /\ job.sheet = upload[u].sheet /\ job.targets = Listed(u)
        /\ (job.pc = "create" => Listed(u) \cap Locked(u) = {})
    BY <2>2 DEF Shape, TypeOK
  <2> HIDE DEF job
  <2> QED
    BY <1>5, <2>1, <2>3, ListedRows, LocksOfUpload DEF BatchDelete
<1>6. ASSUME NEW u \in Upload, BatchResume(u)
      PROVE  Locks'
  <2> DEFINE job == [upload[u] EXCEPT !.pc = "create", !.targets = upload[u].targets \cap Listed(u)]
  <2>1. upload' = [upload EXCEPT ![u] = job]
    BY <1>6 DEF BatchResume
  <2>2. job \in [pc : {"idle", "delete", "wait", "create"}, sheet : Sheet \cup {NoSheet}, targets : SUBSET Row]
        /\ job.sheet = upload[u].sheet /\ job.targets = upload[u].targets \cap Listed(u)
    BY DEF Shape, TypeOK
  <2>3. job.targets \cap Locked(u) = {}
    BY <1>6, <2>2 DEF BatchResume
  <2> HIDE DEF job
  <2> QED
    BY <1>6, <2>1, <2>2, <2>3, ListedRows, LocksOfUpload DEF BatchResume
<1>7. ASSUME NEW u \in Upload, BatchRollback(u)
      PROVE  Locks'
  BY <1>7, LocksOfUpload DEF BatchRollback, NoUpload
<1>8. ASSUME NEW u \in Upload, BatchCreate(u)
      PROVE  Locks'
  <2>1. upload[u].pc = "create" /\ upload' = [upload EXCEPT ![u] = NoUpload]
    BY <1>8 DEF BatchCreate
  <2>2. ASSUME NEW v \in Upload, upload'[v].pc = "create"
        PROVE  v # u /\ upload'[v] = upload[v]
    BY <2>1, <2>2 DEF NoUpload, Shape, TypeOK
  <2>3. ASSUME NEW v \in Upload, upload'[v].pc = "create", NEW i \in upload[v].targets
        PROVE  rows'[i] = rows[i]
    <3>1. i \in Row /\ i \notin upload[u].targets /\ rows[i] # None
      BY <2>1, <2>2, <2>3 DEF Locks, TargetsAreApart, Shape, TargetsExist, TypeOK
    <3> QED
      BY <1>8, <3>1, CommittedRows DEF Shape
  <2>4. TargetsAreListed'
    BY <2>2, <2>3 DEF Locks, TargetsAreListed, Live
  <2>5. TargetsAreApart'
    BY <2>2 DEF Locks, TargetsAreApart
  <2> QED
    BY <2>4, <2>5 DEF Locks
<1>9. ASSUME NEW item \in import, ImportRow(item)
      PROVE  Locks'
  <2>1. \A u \in Upload : upload[u].pc = "create" => \A i \in upload[u].targets : rows'[i] = rows[i]
    BY <1>9 DEF ImportRow, Free, Locks, TargetsAreListed, Live, Shape, TypeOK
  <2> QED
    BY <1>9, <2>1, LocksOfOthers DEF ImportRow
<1>10. CASE UNCHANGED <<rows, upload>>
  BY <1>10, LocksOfOthers
<1> QED
  BY <1>1, <1>2, <1>3, <1>4, <1>5, <1>6, <1>7, <1>8, <1>9, <1>10
     DEF Next, AddFindsUser, FindSubject, Fail, UpdateReads, ImportChecks, vars

\* Somebody whose row is still there, or has just come, has a subject.
LEMMA StillTaken ==
    ASSUME NEW s \in Staff, NEW i \in Row, rows'[i] # None, rows'[i].live, rows'[i].staff = s
    PROVE  Taken(s)' # {}
  BY DEF Taken, Rows, Live

\* Each student of a committed sheet has a new row.
LEMMA CommittedStudents ==
    ASSUME Shape, NEW u \in Upload, BatchCreate(u), NEW s \in DOMAIN upload[u].sheet
    PROVE  Taken(s)' # {}
<1>1. PICK f \in Injection(NewRows(u), Free) :
         rows' = [j \in Row |->
                     IF j \in Range(f) THEN Inverse(f, NewRows(u), Range(f))[j]
                     ELSE IF j \in upload[u].targets THEN [rows[j] EXCEPT !.live = FALSE]
                     ELSE rows[j]]
  BY Zenon DEF BatchCreate, NewRows
<1>2. s \in Staff /\ upload[u].sheet[s] # {}
  <2>1. upload[u].sheet \in Sheet \cup {NoSheet} /\ upload[u].sheet # NoSheet
    BY DEF Shape, TypeOK, NoSheet
  <2>2. PICK S \in (SUBSET Staff) \ {{}} : upload[u].sheet \in [S -> (SUBSET Subject) \ {{}}]
    BY <2>1, EnrolmentAssumption
  <2> QED
    BY <2>2
<1>3. PICK subject \in upload[u].sheet[s] : TRUE
  BY <1>2
<1> DEFINE e == NewEntry(s, s, subject)
           i == f[e]
<1>4. e \in NewRows(u)
  BY DEF NewRows
<1>5. f \in [NewRows(u) -> Free] /\ \A a, b \in NewRows(u) : f[a] = f[b] => a = b
  BY <1>1 DEF Injection, IsInjective
<1>6. i \in Range(f) /\ i \in Row /\ i \notin upload[u].targets
  BY <1>4, <1>5 DEF Range, Free, Shape, TargetsExist
<1>7. Inverse(f, NewRows(u), Range(f))[i] = e
  BY <1>4, <1>5, <1>6 DEF Inverse
<1>8. rows'[i] = e
  <2> HIDE DEF e, i
  <2> QED
    BY <1>1, <1>6, <1>7
<1>9. e \in Entry /\ e.live /\ e.staff = s
  BY <1>4, NewRowsType DEF Shape, NewEntry
<1> QED
  BY <1>2, <1>6, <1>8, <1>9, NoneAssumption, StillTaken

\* No student's list becomes empty because of an upload, whatever it overlaps
\* with and wherever it fails: only the deletion or the move of the last row
\* empties one (BatchSetUserSubjects).
THEOREM UploadsLeaveNoGap == Spec => UploadNeverEmpties
<1> DEFINE NoGap ==
        \A s \in Staff : Taken(s) # {} /\ Taken(s)' = {} =>
            \E i \in Rows(s) :
                rows' \in {[rows EXCEPT ![i].live = FALSE]} \cup
                          {[rows EXCEPT ![i] = req[r].copy] : r \in {q \in Request : req[q].row = i}}
<1>1. Init => Locks
  BY DEF Init, Locks, TargetsAreListed, TargetsAreApart, NoUpload
<1>2. Shape /\ Locks /\ [Next]_vars => [NoGap]_vars
  <2> SUFFICES ASSUME Shape, Locks, Next, NEW s \in Staff, Taken(s) # {}, Taken(s)' = {}
               PROVE  \E i \in Rows(s) :
                          rows' \in {[rows EXCEPT ![i].live = FALSE]} \cup
                                    {[rows EXCEPT ![i] = req[r].copy] : r \in {q \in Request : req[q].row = i}}
    OBVIOUS
  <2>1. PICK i \in Rows(s) : TRUE
    BY DEF Taken
  <2>2. i \in Row /\ rows[i] # None /\ rows[i].live /\ rows[i].staff = s /\ rows'[i] # rows[i]
    <3>1. i \in Row /\ rows[i] # None /\ rows[i].live /\ rows[i].staff = s
      BY <2>1 DEF Rows, Live
    <3> QED
      BY <3>1, StillTaken
  <2>3. ASSUME NEW r \in Request, AddUserSubject(r)
        PROVE  FALSE
    BY <2>2, <2>3 DEF AddUserSubject, Free, Shape, TypeOK
  <2>4. ASSUME NEW r \in Request, UpdateSaves(r)
        PROVE  req[r].row = i /\ rows' = [rows EXCEPT ![i] = req[r].copy]
    BY <2>2, <2>4 DEF UpdateSaves, Shape, TypeOK
  <2>5. ASSUME NEW j \in Row, DeleteUserSubject(j)
        PROVE  rows' = [rows EXCEPT ![i].live = FALSE]
    BY <2>2, <2>5 DEF DeleteUserSubject, Shape, TypeOK
  <2>6. ASSUME NEW u \in Upload, BatchCreate(u)
        PROVE  FALSE
    <3>1. s \notin DOMAIN upload[u].sheet
      BY <2>6, CommittedStudents
    <3>2. upload[u].pc = "create"
      BY <2>6 DEF BatchCreate
    <3>3. i \notin upload[u].targets
      BY <2>2, <3>1, <3>2 DEF Locks, TargetsAreListed
    <3> QED
      BY <2>2, <2>6, <3>3, CommittedRows DEF Shape
  <2>7. ASSUME NEW item \in import, ImportRow(item)
        PROVE  FALSE
    BY <2>2, <2>7 DEF ImportRow, Free, Shape, TypeOK
  <2>8. ~UNCHANGED rows
    BY <2>2
  <2>9. \/ \E r \in Request : UpdateSaves(r)
        \/ \E j \in Row : DeleteUserSubject(j)
    BY <2>3, <2>6, <2>7, <2>8
       DEF Next, AddFindsUser, FindSubject, Fail, UpdateReads, UploadUsers, BatchDelete,
           BatchResume, BatchRollback, ImportChecks
  <2> QED
    BY <2>1, <2>4, <2>5, <2>9
<1> QED
  BY <1>1, <1>2, LocksStep, ShapeHolds, PTL DEF Spec, UploadNeverEmpties
=============================================================================
