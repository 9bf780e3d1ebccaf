----------------------------- MODULE ChatProxy -----------------------------
(***************************************************************************)
(* The requests that internal/app/fastgpt passes on to FastGPT with the    *)
(* API key of one of the apps, while managers add, change and delete apps  *)
(* (Administration has their handlers; here they are the statements that   *)
(* reach the table).                                                       *)
(*                                                                         *)
(* A handler looks the app up once, and the key it finds stays with the    *)
(* request until FastGPT has answered or the client of the request, which  *)
(* waits 30 s in all, has given up.  A call that was given up may still    *)
(* reach FastGPT.  FastGPT itself is external: it may do what it is asked  *)
(* or not, and answer with success or with an error.                       *)
(***************************************************************************)
EXTENDS Integers, FiniteSets

CONSTANTS Request, \* handlers at work
          AppId,   \* primary keys, in the order they are drawn
          Key, Share,
          Nil

ASSUME ChatProxyAssumption == AppId \subseteq Nat /\ Nil \notin AppId \cup Key \cup Share

VARIABLES apps, \* apps[i]: a row of fastgpt_apps, or Nil
          req   \* req[r]: the request r is about, or was about last

proxyVars == <<apps, req>>

App == [key : Key, share : Share, live : BOOLEAN]

\* kind: "body" and "query" are forwarded and read whole, "init" is HandleOutLinkInit,
\* "image" HandleGetImage, "stream" a chat completion that asks for a stream.
\* writes: the request changes something at FastGPT.  acted: how often it has.
\* valid: every key the app asked for has had since the request came in.
ReqType == [pc : {"idle", "find", "sent", "reply", "avatar", "abandoned"},
            kind : {"body", "query", "init", "image", "stream"},
            app : AppId \cup Share \cup {Nil}, writes : BOOLEAN, good : BOOLEAN,
            key : Key \cup {Nil}, valid : SUBSET Key,
            acted : 0 .. 2, answer : {"none", "ok", "cut", "fail"}]

ProxyTypeOK ==
    /\ apps \in [AppId -> App \cup {Nil}]
    /\ req \in [Request -> ReqType]

Live(i) == apps[i] # Nil /\ apps[i].live
WithShare(s) == {i \in AppId : Live(i) /\ apps[i].share = s}

\* The keys a look-up of app a (a primary key or a share) can find in table t.
KeysOf(t, a) ==
    {t[i].key : i \in {j \in AppId : t[j] # Nil /\ t[j].live /\ (j = a \/ t[j].share = a)}}

ProxyInit ==
    /\ apps = [i \in AppId |-> Nil]
    /\ req = [r \in Request |->
                 [pc |-> "idle", kind |-> "body", app |-> Nil, writes |-> FALSE, good |-> FALSE,
                  key |-> Nil, valid |-> {}, acted |-> 0, answer |-> "none"]]
-----------------------------------------------------------------------------
(* The table of apps *)

WriteApps(table) ==
    /\ apps' = table
    /\ req' = [r \in Request |-> IF req[r].pc = "idle" THEN req[r]
                                 ELSE [req[r] EXCEPT !.valid = @ \cup KeysOf(table, req[r].app)]]

CreateApp(i, k, s) ==
    /\ apps[i] = Nil
    /\ WriteApps([apps EXCEPT ![i] = [key |-> k, share |-> s, live |-> TRUE]])

UpdateApp(i, k, s) ==
    /\ Live(i)
    /\ WriteApps([apps EXCEPT ![i].key = k, ![i].share = s])

DeleteApp(i) ==
    /\ Live(i)
    /\ WriteApps([apps EXCEPT ![i].live = FALSE])
-----------------------------------------------------------------------------
(* The handlers: what each is asked for, and whether FastGPT changes anything *)

\* A request takes its course, or is refused at once for what it lacks.
Come(r, kind, a, writes) ==
    /\ req[r].pc = "idle"
    /\ \E complete \in BOOLEAN :
           req' = [req EXCEPT ![r] =
                      [pc |-> IF ~complete THEN "idle" ELSE IF kind = "image" THEN "sent" ELSE "find",
                       kind |-> kind, app |-> a, writes |-> writes, good |-> FALSE, key |-> Nil,
                       valid |-> KeysOf(apps, a), acted |-> 0,
                       answer |-> IF complete THEN "none" ELSE "fail"]]
    /\ UNCHANGED apps

HandleGetImage(r) == Come(r, "image", Nil, FALSE)
HandleChatCompletion(r) ==
    \E a \in AppId, kind \in {"body", "stream"} : Come(r, kind, a, TRUE)
HandleGetHistories(r) == \E a \in AppId : Come(r, "body", a, FALSE)
HandleUpdateHistory(r) == \E a \in AppId : Come(r, "body", a, TRUE)
HandleGetPaginationRecords(r) == \E a \in AppId : Come(r, "body", a, FALSE)
HandleCreateDataset(r) == \E a \in AppId : Come(r, "body", a, TRUE)
HandleListDatasets(r) == \E a \in AppId : Come(r, "body", a, FALSE)
HandleGetDatasetDetail(r) == \E a \in AppId : Come(r, "query", a, FALSE)
HandleDeleteDataset(r) == \E a \in AppId : Come(r, "query", a, TRUE)
HandleCreateCollectionText(r) == \E a \in AppId : Come(r, "body", a, TRUE)
HandleCreateCollectionLink(r) == \E a \in AppId : Come(r, "body", a, TRUE)
HandlePushData(r) == \E a \in AppId : Come(r, "body", a, TRUE)
HandleSearchTest(r) == \E a \in AppId : Come(r, "body", a, FALSE)
HandleOutLinkInit(r) == \E s \in Share : Come(r, "init", s, FALSE)
HandleOutLinkDelHistory(r) == \E a \in AppId : Come(r, "query", a, TRUE)
HandleGetCollectionQuote(r) == \E a \in AppId : Come(r, "body", a, FALSE)
-----------------------------------------------------------------------------
(* The course of a request *)

Goto(r, pc) == req' = [req EXCEPT ![r].pc = pc]
Answer(r, a) == req' = [req EXCEPT ![r].pc = "idle", ![r].answer = a]

\* Mutant: the look-up does not leave out the deleted apps.
UnscopedAppByID(a) == {i \in AppId : i = a /\ apps[i] # Nil}

GetAppByID(a) == {i \in AppId : i = a /\ Live(i)}

\* First: of several apps with the share, the one with the lowest primary key.
GetAppByShareID(s) == {i \in WithShare(s) : \A j \in WithShare(s) : i <= j}

\* The statement may also fail, which is answered like an app that is not there.
FindApp(r) ==
    /\ req[r].pc = "find"
    /\ \/ \E i \in IF req[r].kind = "init" THEN GetAppByShareID(req[r].app)
                                           ELSE GetAppByID(req[r].app) :
              /\ req[r].kind # "stream"
              /\ req' = [req EXCEPT ![r].pc = "sent", ![r].key = apps[i].key]
       \/ Answer(r, "fail")
    /\ UNCHANGED apps

Acts(r, times) == req[r].acted + (IF req[r].writes THEN times ELSE 0)

\* FastGPT has the call, does what it asks for or not, and begins to answer.
Arrive(r) ==
    /\ req[r].pc = "sent"
    /\ \/ req' = [req EXCEPT ![r].pc = "reply", ![r].good = TRUE, ![r].acted = Acts(r, 1)]
       \/ \E times \in 0 .. 1 :
              req' = [req EXCEPT ![r].pc = "reply", ![r].good = FALSE, ![r].acted = Acts(r, times)]
    /\ UNCHANGED apps

Refused(r) ==
    /\ req[r].pc = "sent"
    /\ Answer(r, "fail")
    /\ UNCHANGED apps

\* What a body that broke off leaves: an image has been announced by then.
Broken(r) == IF req[r].kind = "image" /\ req[r].good THEN "cut" ELSE "fail"

\* Mutant: a read that fails is tried once more from the start.
ReadRetried(r) ==
    /\ req[r].pc = "reply"
    /\ IF req[r].acted <= 1 THEN Goto(r, "sent") ELSE Answer(r, Broken(r))
    /\ UNCHANGED apps

ReadFails(r) ==
    /\ req[r].pc = "reply"
    /\ Answer(r, Broken(r))
    /\ UNCHANGED apps

\* Mutant: a client without a timeout, as the one for streams.
NeverTimesOut(r) == FALSE /\ UNCHANGED proxyVars

\* 30 s are over.  Before any answer, the call may still be on its way.
TimesOut(r) ==
    /\ req[r].pc \in {"sent", "reply"}
    /\ req' = [req EXCEPT ![r].pc = IF @ = "sent" THEN "abandoned" ELSE "idle",
                          ![r].answer = IF req[r].pc = "sent" THEN "fail" ELSE Broken(r)]
    /\ UNCHANGED apps

\* A call that was given up reaches FastGPT after all, or does not.
Late(r) ==
    /\ req[r].pc = "abandoned"
    /\ \E times \in 0 .. 1 : req' = [req EXCEPT ![r].pc = "idle", ![r].acted = Acts(r, times)]
    /\ UNCHANGED apps

Reply(r) ==
    /\ req[r].pc = "reply"
    /\ IF ~req[r].good THEN Answer(r, "fail")
       ELSE Answer(r, "ok") \/ (req[r].kind = "init" /\ Goto(r, "avatar"))
    /\ UNCHANGED apps

\* getHDUHelpUserAvatar: whatever comes of it within 5 s, the answer is sent.
Avatar(r) ==
    /\ req[r].pc = "avatar"
    /\ Answer(r, "ok")
    /\ UNCHANGED apps

Handle(r) ==
    \/ HandleGetImage(r) \/ HandleChatCompletion(r) \/ HandleGetHistories(r)
    \/ HandleUpdateHistory(r) \/ HandleGetPaginationRecords(r)
    \/ HandleCreateDataset(r) \/ HandleListDatasets(r) \/ HandleGetDatasetDetail(r)
    \/ HandleDeleteDataset(r) \/ HandleCreateCollectionText(r)
    \/ HandleCreateCollectionLink(r) \/ HandlePushData(r) \/ HandleSearchTest(r)
    \/ HandleOutLinkInit(r) \/ HandleOutLinkDelHistory(r) \/ HandleGetCollectionQuote(r)

ProxyNext ==
    \/ \E i \in AppId, k \in Key, s \in Share : CreateApp(i, k, s) \/ UpdateApp(i, k, s)
    \/ \E i \in AppId : DeleteApp(i)
    \/ \E r \in Request :
           \/ Handle(r) \/ FindApp(r) \/ Arrive(r) \/ Refused(r) \/ ReadFails(r)
           \/ TimesOut(r) \/ Late(r) \/ Reply(r) \/ Avatar(r)

\* The database answers, and both timeouts of 30 s and of 5 s run out.  Nothing
\* is assumed of FastGPT.
ProxyFairness == \A r \in Request : WF_proxyVars(FindApp(r)) /\ WF_proxyVars(TimesOut(r)) /\ WF_proxyVars(Avatar(r))

ProxySpec == ProxyInit /\ [][ProxyNext]_proxyVars /\ ProxyFairness
-----------------------------------------------------------------------------
(***************************************************************************)
(* FastGPT is called with a key that the app asked for has had since the   *)
(* request came in: never with that of an app that was deleted, or of a    *)
(* link that was withdrawn, before.                                        *)
(***************************************************************************)
KeyOfAskedApp ==
    /\ ProxyTypeOK
    /\ \A r \in Request : req[r].key # Nil => req[r].key \in req[r].valid

(***************************************************************************)
(* A success means that FastGPT has done what was asked exactly once, and  *)
(* a failure, a timeout with a late call included, never that it has done  *)
(* it more than once.  A 200 whose body lacks a part can only be that of   *)
(* an image, whose head is written before its body has been read           *)
(* (fastgpt.go:83); every other body is read whole first.                  *)
(***************************************************************************)
OkMeansDoneOnce ==
    \A r \in Request :
        /\ req[r].acted <= 1
        /\ req[r].answer = "ok" /\ req[r].writes => req[r].acted = 1
        /\ req[r].answer = "cut" => req[r].kind = "image"

InUse(k) == \E i \in AppId : Live(i) /\ apps[i].key = k

(***************************************************************************)
(* Every request is answered, even if FastGPT never says a word; and once  *)
(* a key is withdrawn and no app has it, the calls that still carry it     *)
(* come to an end, unless an app is given it again.                        *)
(***************************************************************************)
RequestsEnd ==
    /\ \A r \in Request : req[r].answer = "none" /\ req[r].pc # "idle" ~> req[r].answer # "none"
    /\ \A k \in Key :
           ~InUse(k) ~> InUse(k) \/ \A r \in Request : ~(req[r].pc \in {"sent", "reply"} /\ req[r].key = k)
=============================================================================
