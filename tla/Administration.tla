--------------------------- MODULE Administration ---------------------------
(***************************************************************************)
(* The handlers of managers (internal/app/managers) and of FastGPT apps    *)
(* (internal/app/fastgpt/handler/v1/app.go).  All of them ask whether the  *)
(* caller is a manager, then look at the table, then write, each with a    *)
(* query of its own: no transaction spans two of them.                     *)
(*                                                                         *)
(* Both tables carry a unique index over a column and deleted_at.  Rows    *)
(* that live have deleted_at NULL, and NULLs are distinct to Postgres, so  *)
(* the index never refuses a live row and has no part in this module.      *)
(***************************************************************************)
EXTENDS Integers, FiniteSets

CONSTANTS Request, \* requests in flight
          Staff,   \* staff numbers
          AppId,   \* primary keys of fastgpt_apps, drawn afresh
          AppName,
          MaxRows, \* bound: live rows of one staff number in managers
          None     \* no app; no new name in an update

ASSUME AdministrationAssumption ==
    /\ MaxRows \in Nat \ {0}
    /\ None \notin AppName

VARIABLES managers, \* managers[s]: live rows with this staff_id
          apps,    \* apps[id]: name of the row and whether it lives; or None
          req      \* req[r]: the handler at work, how far it is, and its arguments

vars == <<managers, apps, req>>

ManagerOps == {"AddManager", "DeleteManager"}
Steps == {"authorise", "existing", "write"}
App == [name : AppName, live : BOOLEAN]

\* An update of an app without a name changes others of its fields.
ManagerCall == [pc : Steps, op : ManagerOps, actor : Staff, target : Staff]
CreateCall == [pc : Steps, op : {"CreateApp"}, actor : Staff, name : AppName]
AppCall == [pc : Steps, op : {"UpdateApp", "DeleteApp"}, actor : Staff, app : AppId,
            name : AppName \cup {None}]
Call == ManagerCall \cup CreateCall \cup AppCall
Idle == [pc |-> "idle"]

TypeOK ==
    /\ managers \in [Staff -> 0..MaxRows]
    /\ apps \in [AppId -> App \cup {None}]
    /\ req \in [Request -> Call \cup {Idle}]

IsManager(s) == managers[s] > 0
Live(id) == apps[id] # None /\ apps[id].live
LiveNamed(n) == {id \in AppId : Live(id) /\ apps[id].name = n}

At(r, step, op) == req[r].pc = step /\ req[r].op = op
Goto(r, step) == req' = [req EXCEPT ![r].pc = step]
Answer(r) == req' = [req EXCEPT ![r] = Idle]

\* The first managers were put into the table by hand.
Init ==
    /\ managers \in [Staff -> {0, 1}]
    /\ \E s \in Staff : IsManager(s)
    /\ apps = [id \in AppId |-> None]
    /\ req = [r \in Request |-> Idle]
-----------------------------------------------------------------------------
Receive(r) ==
    /\ req[r].pc = "idle"
    /\ \E call \in Call :
           call.pc = "authorise" /\ req' = [req EXCEPT ![r] = call]
    /\ UNCHANGED <<managers, apps>>

\* Mutant: a manager may name itself.
AnyTarget(r) == TRUE

\* The check that follows IsManager in the handlers of managers.
NotSelf(r) == req[r].op \in ManagerOps => req[r].actor # req[r].target

\* A failed count is taken for no rows.
Authorise(r) ==
    /\ req[r].pc = "authorise"
    /\ \/ IsManager(req[r].actor) /\ NotSelf(r) /\ Goto(r, "existing")
       \/ Answer(r)
    /\ UNCHANGED <<managers, apps>>

\* What each handler wants to find in its table before it writes.
Wanted(r) ==
    /\ req[r].op = "AddManager" => ~IsManager(req[r].target)
    /\ req[r].op = "DeleteManager" => IsManager(req[r].target)
    /\ req[r].op = "CreateApp" => LiveNamed(req[r].name) = {}
    /\ req[r].op \notin {"AddManager", "DeleteManager", "CreateApp"} => Live(req[r].app)

Existing(r) ==
    /\ req[r].pc = "existing"
    /\ \/ Wanted(r) /\ Goto(r, "write")
       \/ Answer(r)
    /\ UNCHANGED <<managers, apps>>

\* The database refuses the statement.
Refuse(r) ==
    /\ req[r].pc = "write"
    /\ Answer(r)
    /\ UNCHANGED <<managers, apps>>
-----------------------------------------------------------------------------
AddManager(r) ==
    /\ At(r, "write", "AddManager")
    /\ managers[req[r].target] < MaxRows
    /\ managers' = [managers EXCEPT ![req[r].target] = @ + 1]
    /\ Answer(r)
    /\ UNCHANGED apps

\* Deletes every row of the staff number; none at all is an error.
DeleteManager(r) ==
    /\ At(r, "write", "DeleteManager")
    /\ managers' = [managers EXCEPT ![req[r].target] = 0]
    /\ Answer(r)
    /\ UNCHANGED apps

CreateApp(r) ==
    /\ At(r, "write", "CreateApp")
    /\ \E id \in AppId :
           /\ apps[id] = None
           /\ apps' = [apps EXCEPT ![id] = [name |-> req[r].name, live |-> TRUE]]
    /\ Answer(r)
    /\ UNCHANGED managers

\* Mutant: the row is written whole, with Save, instead of Updates.
SaveApp(r) ==
    /\ At(r, "write", "UpdateApp")
    /\ apps' = IF req[r].name # None
               THEN [apps EXCEPT ![req[r].app] = [name |-> req[r].name, live |-> TRUE]]
               ELSE apps
    /\ Answer(r)
    /\ UNCHANGED managers

\* Updates reaches live rows only, and nobody looks at how many it reached.
UpdateApp(r) ==
    /\ At(r, "write", "UpdateApp")
    /\ apps' = IF Live(req[r].app) /\ req[r].name # None
               THEN [apps EXCEPT ![req[r].app].name = req[r].name]
               ELSE apps
    /\ Answer(r)
    /\ UNCHANGED managers

DeleteApp(r) ==
    /\ At(r, "write", "DeleteApp")
    /\ apps' = IF Live(req[r].app) THEN [apps EXCEPT ![req[r].app].live = FALSE] ELSE apps
    /\ Answer(r)
    /\ UNCHANGED managers

Next ==
    \E r \in Request :
        \/ Receive(r) \/ Authorise(r) \/ Existing(r) \/ Refuse(r)
        \/ AddManager(r) \/ DeleteManager(r)
        \/ CreateApp(r) \/ UpdateApp(r) \/ DeleteApp(r)

Spec == Init /\ [][Next]_vars
-----------------------------------------------------------------------------
(***************************************************************************)
(* Somebody can always administer the system: a manager cannot remove      *)
(* itself, so a deletion leaves at least the one who asked for it          *)
(* (managers.go:247).  Requests that overlap can break this; requests that *)
(* are handled one after the other cannot.                                 *)
(***************************************************************************)
SomeManagerRemains == \E s \in Staff : IsManager(s)

(***************************************************************************)
(* With requests that overlap the last manager is lost in one way only: a  *)
(* deletion is carried out for somebody who, since it was authorised, has  *)
(* itself been deleted.                                                    *)
(***************************************************************************)
LastManagerLostToDemoted ==
    [][SomeManagerRemains /\ ~SomeManagerRemains' =>
           \E r \in Request : At(r, "write", "DeleteManager") /\ ~IsManager(req[r].actor)]_vars

(***************************************************************************)
(* A deleted app stays as it was, also for an update or a second deletion  *)
(* that saw it alive: no request revives it or changes it.                 *)
(***************************************************************************)
DeletedAppsStayDeleted ==
    [][\A id \in AppId : apps[id] # None /\ ~Live(id) => apps'[id] = apps[id]]_vars

(***************************************************************************)
(* A staff number is entered once (managers.go:206 "检查用户名是否已存在").    *)
(* The look-up alone stands for it, so this too needs requests one by one. *)
(***************************************************************************)
OneRowPerManager == \A s \in Staff : managers[s] <= 1
=============================================================================
