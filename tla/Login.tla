------------------------------- MODULE Login -------------------------------
(***************************************************************************)
(* Logging in through HDUHelp: internal/app/users (handler/login.go,       *)
(* dao/users.go, and handler/upload.go as far as it creates users), with   *)
(* the marks in core/cache (its promise, AbstractCache) and the tables     *)
(* users and user_binds in Postgres.                                       *)
(*                                                                         *)
(* A request runs in its own goroutine; what is one step here is one call  *)
(* to the cache, to the provider or to the database.  A transaction takes  *)
(* effect when it commits: its inserts wait on the unique indexes for      *)
(* other transactions, and read committed shows it what is committed.      *)
(***************************************************************************)
EXTENDS Integers, FiniteSets

CONSTANTS Request,      \* callbacks of browsers
          Mark,         \* random marks; no two logins draw the same one
          Account,      \* the provider's user_id values
          Staff,        \* staff numbers
          UserId,       \* primary keys of users, drawn afresh
          staffOf,      \* the staff number the provider reports for an account
          Sheet,        \* staff numbers listed in uploaded spreadsheets
          MarkSeconds,  \* lifetime of a mark (15 minutes)
          CommitFails,  \* tx.Commit may fail; its error is not looked at
          Empty,        \* the value stored under a mark
          None          \* no row, no entry

ASSUME LoginAssumption ==
    /\ staffOf \in [Account -> Staff]
    /\ Sheet \subseteq Staff
    /\ MarkSeconds \in Nat \ {0}
    /\ CommitFails \in BOOLEAN
    /\ None \notin Mark \cup Account \cup Staff \cup UserId

VARIABLES entries, ret, \* the cache
          issued,       \* marks handed out so far
          consumed,     \* marks deleted by a callback (history)
          users,        \* users[id]: staff number of the row with this id, or None
          uploaded,     \* rows of users created by an upload (history)
          binds,        \* user_binds: who of the provider is which user
          tokens,       \* tokens that are out and have not expired
          req,          \* the callbacks in progress
          upload        \* the spreadsheet row in progress

table == <<users, uploaded, binds>>
marks == <<entries, ret, issued, consumed>>
vars == <<marks, table, tokens, req, upload>>

Cache == INSTANCE AbstractCache
           WITH Key <- Mark, Text <- {Empty}, Modulus <- 1, Ticks <- 1, MaxSeconds <- MarkSeconds

Bind == [account : Account, user : UserId]
Token == [uid : UserId, staff : Staff, refresh : BOOLEAN]
Steps == {"idle", "check", "delete", "validate", "lookup", "begin", "write", "token",
          "done", "failed"}

TypeOK ==
    /\ entries \in [Mark -> Cache!Item \cup {None}]
    /\ issued \subseteq Mark
    /\ consumed \subseteq Mark
    /\ users \in [UserId -> Staff \cup {None}]
    /\ uploaded \subseteq UserId
    /\ binds \subseteq Bind
    /\ tokens \subseteq Token
    /\ req \in [Request -> [pc : Steps, mark : Mark \cup {None},
                            account : Account \cup {None}, uid : UserId \cup {None}]]
    /\ upload \in [pc : {"idle", "write"}, staff : Staff \cup {None}, found : BOOLEAN]

At(r, step) == req[r].pc = step
Goto(r, step) == req' = [req EXCEPT ![r].pc = step]
GotoWith(r, step, id) == req' = [req EXCEPT ![r].pc = step, ![r].uid = id]

\* A callback that has begun knows its mark and account, one about to answer its user.
RequestsCarryAccounts ==
    \A r \in Request :
        /\ ~At(r, "idle") => req[r].mark \in issued /\ req[r].account \in Account
        /\ At(r, "token") => req[r].uid \in UserId

Init ==
    /\ Cache!Init
    /\ issued = {} /\ consumed = {}
    /\ users = [id \in UserId |-> None]
    /\ uploaded = {} /\ binds = {} /\ tokens = {}
    /\ req = [r \in Request |-> [pc |-> "idle", mark |-> None, account |-> None, uid |-> None]]
    /\ upload = [pc |-> "idle", staff |-> None, found |-> FALSE]
-----------------------------------------------------------------------------
\* Rows of the tables.
UsersWith(s) == {id \in UserId : users[id] = s}
FreshIds == {id \in UserId : users[id] = None}
BindsOf(a) == {b \in binds : b.account = a}
BindsTo(id) == {b \in binds : b.user = id}

-----------------------------------------------------------------------------
(* handler/login.go *)

HandleThirdPlatLogin(m) ==
    /\ m \notin issued
    /\ Cache!Setex(m, Empty, MarkSeconds)
    /\ issued' = issued \cup {m}
    /\ UNCHANGED <<consumed, table, tokens, req, upload>>

\* The provider sends the browser back with a mark and a code, which stands
\* for an account; a malformed request is answered at once.
HandleThirdPlatCallback(r, m, a) ==
    /\ At(r, "idle")
    /\ \E step \in {"check", "failed"} :
           req' = [req EXCEPT ![r] = [pc |-> step, mark |-> m, account |-> a, uid |-> None]]
    /\ UNCHANGED <<marks, table, tokens, upload>>

CheckMark(r) ==
    /\ At(r, "check")
    /\ Cache!Exists(req[r].mark)
    /\ IF Cache!Has(req[r].mark)
       THEN Goto(r, "delete") ELSE Goto(r, "failed")
    /\ UNCHANGED <<issued, consumed, table, tokens, upload>>

\* Mutant: the mark is looked at a second time instead of deleted.
KeepMark(r) ==
    /\ At(r, "delete")
    /\ Cache!Exists(req[r].mark)
    /\ consumed' = consumed \cup {req[r].mark}
    /\ Goto(r, "validate")
    /\ UNCHANGED <<issued, table, tokens, upload>>

\* The number of deleted keys is not looked at.
DeleteMark(r) ==
    /\ At(r, "delete")
    /\ Cache!Del({req[r].mark})
    /\ consumed' = consumed \cup {req[r].mark}
    /\ Goto(r, "validate")
    /\ UNCHANGED <<issued, table, tokens, upload>>

\* Two calls to the provider, each tried three times.
Validate(r) ==
    /\ At(r, "validate")
    /\ \E step \in {"lookup", "failed"} : Goto(r, step)
    /\ UNCHANGED <<marks, table, tokens, upload>>

\* A known account continues as its user; the update of attr may fail unseen.
LookupBind(r) ==
    /\ At(r, "lookup")
    /\ \/ \E b \in BindsOf(req[r].account) : GotoWith(r, "token", b.user)
       \/ BindsOf(req[r].account) = {} /\ Goto(r, "begin")
       \/ Goto(r, "failed")
    /\ UNCHANGED <<marks, table, tokens, upload>>
-----------------------------------------------------------------------------
(* dao/users.go: CreateWithBind *)

\* Mutant: First without its Where finds just any user.
BeginCreateAny(r) ==
    /\ At(r, "begin")
    /\ LET same == UserId \ FreshIds
       IN  \/ \E id \in same : GotoWith(r, "write", id)
           \/ same = {} /\ GotoWith(r, "write", None)
    /\ UNCHANGED <<marks, table, tokens, upload>>

BeginCreate(r) ==
    /\ At(r, "begin")
    /\ LET same == UsersWith(staffOf[req[r].account])
       IN  \/ \E id \in same : GotoWith(r, "write", id)
           \/ same = {} /\ GotoWith(r, "write", None)
    /\ UNCHANGED <<marks, table, tokens, upload>>

\* The staff number has a user: point whatever binds that user has at this account.
RebindUser(r) ==
    LET id == req[r].uid
        rebound == {[b EXCEPT !.account = req[r].account] : b \in BindsTo(id)}
    IN  /\ At(r, "write") /\ id # None
        /\ BindsOf(req[r].account) \subseteq BindsTo(id)
        /\ \/ binds' = (binds \ BindsTo(id)) \cup rebound
           \/ CommitFails /\ UNCHANGED binds
        /\ Goto(r, "token")
        /\ UNCHANGED <<marks, users, uploaded, tokens, upload>>

\* Mutant: the user is inserted outside the transaction and survives its rollback.
CreateUserAlone(r) ==
    LET a == req[r].account
    IN  /\ At(r, "write") /\ req[r].uid = None
        /\ UsersWith(staffOf[a]) = {}
        /\ \E id \in FreshIds :
               /\ users' = [users EXCEPT ![id] = staffOf[a]]
               /\ \/ binds' = binds \cup {[account |-> a, user |-> id]} /\ GotoWith(r, "token", id)
                  \/ UNCHANGED binds /\ Goto(r, "failed")
        /\ UNCHANGED <<marks, uploaded, tokens, upload>>

\* Mutant: the new rows are rolled back and the login goes on.
CreateUserUncommitted(r) ==
    /\ At(r, "write") /\ req[r].uid = None
    /\ UsersWith(staffOf[req[r].account]) = {} /\ BindsOf(req[r].account) = {}
    /\ \E id \in FreshIds : GotoWith(r, "token", id)
    /\ UNCHANGED <<marks, table, tokens, upload>>

CreateUser(r) ==
    LET a == req[r].account
    IN  /\ At(r, "write") /\ req[r].uid = None
        /\ UsersWith(staffOf[a]) = {} /\ BindsOf(a) = {}
        /\ \E id \in FreshIds :
               /\ \/ /\ users' = [users EXCEPT ![id] = staffOf[a]]
                     /\ binds' = binds \cup {[account |-> a, user |-> id]}
                  \/ CommitFails /\ UNCHANGED <<users, binds>>
               /\ GotoWith(r, "token", id)
        /\ UNCHANGED <<marks, uploaded, tokens, upload>>

\* A unique index or the database refuses a statement: everything is rolled back.
Rollback(r) ==
    /\ At(r, "write")
    /\ Goto(r, "failed")
    /\ UNCHANGED <<marks, table, tokens, upload>>
-----------------------------------------------------------------------------
TokenOf(r, refresh) ==
    [uid |-> req[r].uid, staff |-> staffOf[req[r].account], refresh |-> refresh]

IssueTokens(r) ==
    /\ At(r, "token")
    /\ tokens' = tokens \cup {TokenOf(r, FALSE), TokenOf(r, TRUE)}
    /\ Goto(r, "done")
    /\ UNCHANGED <<marks, table, upload>>

HandleRefreshToken(t) ==
    /\ t \in tokens /\ t.refresh
    /\ tokens' = tokens \cup {[t EXCEPT !.refresh = FALSE]}
    /\ UNCHANGED <<marks, table, req, upload>>

TokenExpires(t) ==
    /\ t \in tokens
    /\ tokens' = tokens \ {t}
    /\ UNCHANGED <<marks, table, req, upload>>
-----------------------------------------------------------------------------
(* handler/upload.go: the rows of a spreadsheet, one by one, no transaction. *)

UploadLookup(s) ==
    /\ upload.pc = "idle"
    /\ upload' = [pc |-> "write", staff |-> s, found |-> UsersWith(s) # {}]
    /\ UNCHANGED <<marks, table, tokens, req>>

\* A found user only has its name updated; a refused insert counts as failed.
UploadWrite ==
    /\ upload.pc = "write"
    /\ \/ /\ ~upload.found /\ UsersWith(upload.staff) = {}
          /\ \E id \in FreshIds :
                 /\ users' = [users EXCEPT ![id] = upload.staff]
                 /\ uploaded' = uploaded \cup {id}
       \/ UNCHANGED <<users, uploaded>>
    /\ upload' = [pc |-> "idle", staff |-> None, found |-> FALSE]
    /\ UNCHANGED <<marks, binds, tokens, req>>

\* Marks age.
Tick ==
    /\ Cache!Tick
    /\ UNCHANGED <<issued, consumed, table, tokens, req, upload>>

Next ==
    \/ \E m \in Mark : HandleThirdPlatLogin(m)
    \/ \E r \in Request, m \in issued, a \in Account : HandleThirdPlatCallback(r, m, a)
    \/ \E r \in Request :
        \/ CheckMark(r) \/ DeleteMark(r) \/ Validate(r) \/ LookupBind(r)
        \/ BeginCreate(r) \/ RebindUser(r) \/ CreateUser(r) \/ Rollback(r) \/ IssueTokens(r)
    \/ \E t \in tokens : HandleRefreshToken(t) \/ TokenExpires(t)
    \/ \E s \in Sheet : UploadLookup(s)
    \/ UploadWrite
    \/ Tick

Spec == Init /\ [][Next]_vars
-----------------------------------------------------------------------------
(***************************************************************************)
(* A token is about somebody: its uid is a row of users, and that row has  *)
(* the staff number the token carries.  HandleGetPersonInfo finds a user   *)
(* for every token, whatever logins, uploads and refreshes ran in between. *)
(***************************************************************************)
TokenMatchesUser == \A t \in tokens : users[t.uid] = t.staff

(***************************************************************************)
(* An account is bound to the user of its own staff number, also after a   *)
(* bind was pointed at another account (CreateWithBind, line 29).          *)
(***************************************************************************)
BindMatchesStaff == \A b \in binds : users[b.user] = staffOf[b.account]

(***************************************************************************)
(* What a callback carries from one step to the next stays right while     *)
(* others run: a user it read before its transaction, or the user of its   *)
(* bind, is still the user of its account's staff number.                  *)
(***************************************************************************)
RequestMatchesStaff ==
    \A r \in Request :
        (At(r, "write") \/ At(r, "token")) /\ req[r].uid # None =>
            users[req[r].uid] = staffOf[req[r].account]

(***************************************************************************)
(* The unique indexes hold across the read and the insert of CreateWithBind*)
(* and upload.go, and a user that a login created is never left without    *)
(* its bind: user and bind are committed together or not at all.           *)
(***************************************************************************)
LoginUserHasOneBind ==
    \A id \in UserId :
        users[id] # None =>
            /\ UsersWith(users[id]) = {id}
            /\ id \notin uploaded => Cardinality(BindsTo(id)) = 1

(***************************************************************************)
(* Once a callback has deleted its mark, the mark is refused for ever.     *)
(***************************************************************************)
ConsumedMarkRefused == \A m \in consumed : ~Cache!Has(m)
=============================================================================
