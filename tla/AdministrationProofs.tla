------------------------ MODULE AdministrationProofs ------------------------
(* Proofs about Administration for any number of requests, staff and apps.   *)
EXTENDS Administration, TLAPS

\* What a request at work looks like, and what becomes of it.
LEMMA RequestShape ==
    ASSUME TypeOK, NEW r \in Request, req[r].pc # "idle"
    PROVE  /\ req[r] \in Call
           /\ req[r].op \in ManagerOps => req[r] \in ManagerCall
           /\ req[r].op = "CreateApp" => req[r] \in CreateCall
           /\ req[r].op \in {"UpdateApp", "DeleteApp"} => req[r] \in AppCall
  BY DEF TypeOK, Call, Idle, ManagerCall, CreateCall, AppCall, ManagerOps

LEMMA RequestType ==
    ASSUME TypeOK, NEW r \in Request,
           \/ Answer(r)
           \/ req[r].pc # "idle" /\ \E step \in Steps : Goto(r, step)
    PROVE  req' \in [Request -> Call \cup {Idle}]
<1>1. CASE Answer(r)
  BY <1>1 DEF TypeOK, Answer
<1>2. ASSUME req[r].pc # "idle", NEW step \in Steps, Goto(r, step)
      PROVE  req' \in [Request -> Call \cup {Idle}]
  <2>1. [req[r] EXCEPT !.pc = step] \in Call
    BY <1>2, RequestShape DEF Call, ManagerCall, CreateCall, AppCall
  <2> QED
    BY <1>2, <2>1 DEF TypeOK, Goto
<1> QED
  BY <1>1, <1>2

\* Type correctness: rows are counted, apps and requests keep their shape.
THEOREM AdministrationTypeCorrect == Spec => []TypeOK
<1>1. Init => TypeOK
  BY AdministrationAssumption DEF Init, TypeOK
<1>2. TypeOK /\ [Next]_vars => TypeOK'
  <2> SUFFICES ASSUME TypeOK, [Next]_vars PROVE TypeOK'
    OBVIOUS
  <2>1. ASSUME NEW r \in Request, Receive(r) PROVE TypeOK'
    BY <2>1 DEF Receive, TypeOK
  <2>2. ASSUME NEW r \in Request, Authorise(r) \/ Existing(r) \/ Refuse(r) PROVE TypeOK'
    <3>1. req' \in [Request -> Call \cup {Idle}]
      BY <2>2, RequestType DEF Authorise, Existing, Refuse, Steps
    <3> QED
      BY <2>2, <3>1 DEF Authorise, Existing, Refuse, TypeOK
  <2>3. ASSUME NEW r \in Request, AddManager(r) \/ DeleteManager(r) PROVE TypeOK'
    <3>1. req' \in [Request -> Call \cup {Idle}]
      BY <2>3, RequestType DEF AddManager, DeleteManager
    <3>2. req[r].target \in Staff
      BY <2>3, RequestShape DEF AddManager, DeleteManager, At, ManagerOps, ManagerCall
    <3>3. managers' \in [Staff -> 0..MaxRows]
      BY <2>3, <3>2, AdministrationAssumption DEF AddManager, DeleteManager, TypeOK
    <3> QED
      BY <2>3, <3>1, <3>3 DEF AddManager, DeleteManager, TypeOK
  <2>4. ASSUME NEW r \in Request, CreateApp(r) PROVE TypeOK'
    <3>1. req' \in [Request -> Call \cup {Idle}]
      BY <2>4, RequestType DEF CreateApp
    <3>2. req[r].name \in AppName
      BY <2>4, RequestShape DEF CreateApp, At, CreateCall
    <3> QED
      BY <2>4, <3>1, <3>2 DEF CreateApp, TypeOK, App
  <2>5. ASSUME NEW r \in Request, UpdateApp(r) \/ DeleteApp(r) PROVE TypeOK'
    <3>1. req' \in [Request -> Call \cup {Idle}]
      BY <2>5, RequestType DEF UpdateApp, DeleteApp
    <3>2. req[r].app \in AppId /\ req[r].name \in AppName \cup {None}
      BY <2>5, RequestShape DEF UpdateApp, DeleteApp, At, AppCall
    <3>3. apps' \in [AppId -> App \cup {None}]
      <4> DEFINE a == req[r].app
      <4>1. apps[a] # None => apps[a] \in App
        BY <3>2 DEF TypeOK
      <4>2. CASE UNCHANGED apps
        BY <4>2 DEF TypeOK
      <4>3. CASE /\ Live(a) /\ req[r].name # None
                 /\ apps' = [apps EXCEPT ![a].name = req[r].name]
        <5>1. [apps[a] EXCEPT !.name = req[r].name] \in App
          BY <3>2, <4>1, <4>3 DEF App, Live
        <5> QED
          BY <3>2, <4>3, <5>1 DEF TypeOK
      <4>4. CASE Live(a) /\ apps' = [apps EXCEPT ![a].live = FALSE]
        <5>1. [apps[a] EXCEPT !.live = FALSE] \in App
          BY <4>1, <4>4 DEF App, Live
        <5> QED
          BY <3>2, <4>4, <5>1 DEF TypeOK
      <4> QED
        BY <2>5, <4>2, <4>3, <4>4 DEF UpdateApp, DeleteApp
    <3> QED
      BY <2>5, <3>1, <3>3 DEF UpdateApp, DeleteApp, TypeOK
  <2>6. CASE UNCHANGED vars
    BY <2>6 DEF vars, TypeOK
  <2> QED
    BY <2>1, <2>2, <2>3, <2>4, <2>5, <2>6 DEF Next
<1> QED
  BY <1>1, <1>2, PTL DEF Spec
-----------------------------------------------------------------------------
(* Apps.  Only three actions write them, and two of them look at live rows.  *)

\* A deleted row of fastgpt_apps never changes again, whatever the requests
\* that saw it alive (UpdateFastgptApp, DeleteFastgptApp).
THEOREM DeletedAppsStay == Spec => DeletedAppsStayDeleted
<1> DEFINE Stay == \A id \in AppId : apps[id] # None /\ ~Live(id) => apps'[id] = apps[id]
<1>1. TypeOK /\ [Next]_vars => [Stay]_vars
  <2> SUFFICES ASSUME TypeOK, NEW r \in Request,
                      \/ Receive(r) \/ Authorise(r) \/ Existing(r) \/ Refuse(r)
                      \/ AddManager(r) \/ DeleteManager(r)
                      \/ CreateApp(r) \/ UpdateApp(r) \/ DeleteApp(r)
               PROVE  Stay
    BY DEF Next
  <2>1. CASE CreateApp(r)
    BY <2>1 DEF CreateApp, TypeOK
  <2>2. CASE UpdateApp(r) \/ DeleteApp(r)
    BY <2>2 DEF UpdateApp, DeleteApp, TypeOK
  <2>3. CASE UNCHANGED apps
    BY <2>3
  <2> QED
    BY <2>1, <2>2, <2>3 DEF Receive, Authorise, Existing, Refuse, AddManager, DeleteManager
<1> QED
  BY <1>1, AdministrationTypeCorrect, PTL DEF Spec, DeletedAppsStayDeleted
-----------------------------------------------------------------------------
(* Managers.  Past the check, a handler of managers acts for somebody else   *)
(* than its target; and the rows it looked at are what it wanted.            *)

PastCheck(r) == req[r].pc \in {"existing", "write"} /\ req[r].op \in ManagerOps

ActsOnOthers == \A r \in Request : PastCheck(r) => req[r].actor # req[r].target

LEMMA ActsOnOthersStep == TypeOK /\ ActsOnOthers /\ [Next]_vars => ActsOnOthers'
<1> SUFFICES ASSUME TypeOK, ActsOnOthers, [Next]_vars PROVE ActsOnOthers'
  OBVIOUS
<1> USE DEF ActsOnOthers, PastCheck
<1>1. ASSUME NEW r \in Request, Receive(r) PROVE ActsOnOthers'
  BY <1>1 DEF Receive, TypeOK
<1>2. ASSUME NEW r \in Request, Answer(r) PROVE ActsOnOthers'
  BY <1>2 DEF Answer, Idle, TypeOK
<1>3. ASSUME NEW r \in Request, Authorise(r), ~Answer(r) PROVE ActsOnOthers'
  <2>1. req[r].pc = "authorise" /\ NotSelf(r) /\ req' = [req EXCEPT ![r].pc = "existing"]
    BY <1>3 DEF Authorise, Goto
  <2>2. req[r] \in Call
    BY <2>1, RequestShape
  <2> QED
    BY <2>1, <2>2 DEF NotSelf, TypeOK, Call, ManagerCall, CreateCall, AppCall
<1>4. ASSUME NEW r \in Request, Existing(r), ~Answer(r) PROVE ActsOnOthers'
  <2>1. req[r].pc = "existing" /\ req' = [req EXCEPT ![r].pc = "write"]
    BY <1>4 DEF Existing, Goto
  <2>2. req[r] \in Call
    BY <2>1, RequestShape
  <2> QED
    BY <2>1, <2>2 DEF TypeOK, Call, ManagerCall, CreateCall, AppCall
<1>5. CASE UNCHANGED vars
  BY <1>5 DEF vars
<1> QED
  BY <1>1, <1>2, <1>3, <1>4, <1>5
     DEF Next, Refuse, AddManager, DeleteManager, CreateApp, UpdateApp, DeleteApp

\* However many requests overlap, the table of managers only becomes empty
\* when a deletion is carried out for a manager who is none any more
\* (HandleDeleteManager).
THEOREM LastManagerLost == Spec => LastManagerLostToDemoted
<1> DEFINE Demoted == SomeManagerRemains /\ ~SomeManagerRemains' =>
                          \E r \in Request : At(r, "write", "DeleteManager") /\ ~IsManager(req[r].actor)
<1>1. Init => ActsOnOthers
  BY DEF Init, ActsOnOthers, PastCheck, Idle
<1>2. TypeOK /\ ActsOnOthers /\ [Next]_vars => [Demoted]_vars
  <2> SUFFICES ASSUME TypeOK, ActsOnOthers, NEW r \in Request,
                      \/ Receive(r) \/ Authorise(r) \/ Existing(r) \/ Refuse(r)
                      \/ AddManager(r) \/ DeleteManager(r)
                      \/ CreateApp(r) \/ UpdateApp(r) \/ DeleteApp(r)
               PROVE  Demoted
    BY DEF Next
  <2>1. CASE AddManager(r)
    <3>1. req[r].target \in Staff
      BY <2>1, RequestShape DEF AddManager, At, ManagerOps, ManagerCall
    <3>2. managers'[req[r].target] > 0
      BY <2>1, <3>1 DEF AddManager, TypeOK
    <3> QED
      BY <3>1, <3>2 DEF SomeManagerRemains, IsManager
  <2>2. CASE DeleteManager(r)
    <3>1. req[r].actor \in Staff /\ req[r].target \in Staff /\ req[r].actor # req[r].target
      BY <2>2, RequestShape DEF DeleteManager, At, ManagerOps, ManagerCall, ActsOnOthers, PastCheck
    <3>2. managers'[req[r].actor] = managers[req[r].actor]
      BY <2>2, <3>1 DEF DeleteManager, TypeOK
    <3>3. IsManager(req[r].actor) => SomeManagerRemains'
      BY <3>1, <3>2 DEF SomeManagerRemains, IsManager
    <3> QED
      BY <2>2, <3>3 DEF DeleteManager
  <2>3. CASE UNCHANGED managers
    BY <2>3 DEF SomeManagerRemains, IsManager
  <2> QED
    BY <2>1, <2>2, <2>3 DEF Receive, Authorise, Existing, Refuse, CreateApp, UpdateApp, DeleteApp
<1> QED
  BY <1>1, <1>2, ActsOnOthersStep, AdministrationTypeCorrect, PTL DEF Spec, LastManagerLostToDemoted
-----------------------------------------------------------------------------
(* One request at a time: nothing changes between its queries.               *)

ChecksHold ==
    \A r \in Request : PastCheck(r) =>
        /\ IsManager(req[r].actor)
        /\ At(r, "write", "AddManager") => ~IsManager(req[r].target)

OneByOne == SomeManagerRemains /\ OneRowPerManager /\ ChecksHold

\* Requests that are handled one after the other leave somebody who can
\* administer the system, and enter nobody twice.
THEOREM OneByOneKeepsManagers ==
    ASSUME NEW only, Request = {only}
    PROVE  Spec => [](SomeManagerRemains /\ OneRowPerManager)
<1>1. Init => ActsOnOthers /\ OneByOne
  BY DEF Init, ActsOnOthers, PastCheck, Idle, OneByOne, SomeManagerRemains, OneRowPerManager, ChecksHold
<1>2. TypeOK /\ ActsOnOthers /\ OneByOne /\ [Next]_vars => OneByOne'
  <2> SUFFICES ASSUME TypeOK, ActsOnOthers, OneByOne, [Next]_vars PROVE OneByOne'
    OBVIOUS
  <2> USE DEF OneByOne, SomeManagerRemains, OneRowPerManager, IsManager, ChecksHold, PastCheck
  <2>1. CASE Receive(only)
    BY <2>1 DEF Receive, TypeOK
  <2>2. CASE Answer(only) /\ UNCHANGED managers
    BY <2>2 DEF Answer, Idle, TypeOK
  <2>3. CASE Authorise(only) /\ ~Answer(only)
    <3>1. req[only].pc = "authorise" /\ req' = [req EXCEPT ![only].pc = "existing"]
          /\ UNCHANGED managers /\ IsManager(req[only].actor)
      BY <2>3 DEF Authorise, Goto
    <3>2. req[only] \in Call
      BY <3>1, RequestShape
    <3>3. req'[only].actor = req[only].actor /\ req'[only].pc = "existing"
      BY <3>1, <3>2 DEF TypeOK, Call, ManagerCall, CreateCall, AppCall
    <3> QED
      BY <3>1, <3>3 DEF At
  <2>4. CASE Existing(only) /\ ~Answer(only)
    <3>1. req[only].pc = "existing" /\ req' = [req EXCEPT ![only].pc = "write"]
          /\ UNCHANGED managers /\ Wanted(only)
      BY <2>4 DEF Existing, Goto
    <3>2. req[only] \in Call
      BY <3>1, RequestShape
    <3>3. /\ req'[only].actor = req[only].actor
          /\ req'[only].op = req[only].op
          /\ req[only].op = "AddManager" => req'[only].target = req[only].target
      BY <3>1, <3>2 DEF TypeOK, Call, ManagerCall, CreateCall, AppCall
    <3>4. req[only].op = "AddManager" => ~IsManager(req[only].target)
      BY <3>1 DEF Wanted
    <3> QED
      BY <3>1, <3>3, <3>4 DEF At
  <2>5. CASE AddManager(only) \/ DeleteManager(only)
    <3>1. /\ req[only].actor \in Staff /\ req[only].target \in Staff
          /\ req[only].actor # req[only].target
          /\ IsManager(req[only].actor)
      BY <2>5, RequestShape DEF AddManager, DeleteManager, At, ManagerOps, ManagerCall, ActsOnOthers
    <3>2. AddManager(only) => managers[req[only].target] = 0
      BY <2>5, <3>1 DEF AddManager, At, ManagerOps, TypeOK
    <3>3. SomeManagerRemains' /\ OneRowPerManager'
      BY <2>5, <3>1, <3>2 DEF AddManager, DeleteManager, TypeOK
    <3>4. ChecksHold'
      BY <2>5 DEF AddManager, DeleteManager, Answer, Idle, TypeOK
    <3> QED
      BY <3>3, <3>4
  <2>6. CASE UNCHANGED vars
    BY <2>6 DEF vars, At
  <2> QED
    BY <2>1, <2>2, <2>3, <2>4, <2>5, <2>6
       DEF Next, Authorise, Existing, Refuse, CreateApp, UpdateApp, DeleteApp
<1>3. OneByOne => SomeManagerRemains /\ OneRowPerManager
  BY DEF OneByOne
<1> QED
  BY <1>1, <1>2, <1>3, ActsOnOthersStep, AdministrationTypeCorrect, PTL DEF Spec
=============================================================================
