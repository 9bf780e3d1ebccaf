----------------------------- MODULE LoginProofs -----------------------------
(* Proofs about Login for any number of requests, accounts and users.        *)
EXTENDS Login, FiniteSetTheorems, TLAPS

\* What the steps of a callback do to its record.
LEMMA GotoType ==
    ASSUME TypeOK, NEW r \in Request, NEW step \in Steps,
           Goto(r, step) \/ \E id \in UserId \cup {None} : GotoWith(r, step, id)
    PROVE  req' \in [Request -> [pc : Steps, mark : Mark \cup {None},
                                 account : Account \cup {None}, uid : UserId \cup {None}]]
  BY DEF TypeOK, Goto, GotoWith

\* The cache keeps entries for marks and for nothing else.
LEMMA CacheType ==
    ASSUME TypeOK,
           \/ \E m \in Mark : Cache!Setex(m, Empty, MarkSeconds)
           \/ \E m \in Mark : Cache!Exists(m) \/ Cache!Del({m})
           \/ Cache!Tick
    PROVE  entries' \in [Mark -> Cache!Item \cup {None}]
<1>1. Cache!TimeLeft(MarkSeconds) \in Int
  BY LoginAssumption DEF Cache!TimeLeft
<1>2. Empty \in Cache!Value
  BY DEF Cache!Value
<1>3. Cache!Until(Empty, MarkSeconds) \in Cache!Item
  BY <1>1, <1>2 DEF Cache!Until, Cache!Item
<1>4. ASSUME NEW m \in Mark, Cache!Setex(m, Empty, MarkSeconds)
      PROVE  entries' \in [Mark -> Cache!Item \cup {None}]
  BY <1>3, <1>4 DEF TypeOK, Cache!Setex, Cache!Kept
<1>5. ASSUME NEW m \in Mark, Cache!Exists(m) \/ Cache!Del({m})
      PROVE  entries' \in [Mark -> Cache!Item \cup {None}]
  BY <1>5 DEF TypeOK, Cache!Exists, Cache!Del
<1>6. \A it \in Cache!Item : Cache!Aged(it) \in Cache!Item
  BY DEF Cache!Item, Cache!Aged
<1>7. ASSUME Cache!Tick
      PROVE  entries' \in [Mark -> Cache!Item \cup {None}]
  BY <1>6, <1>7 DEF TypeOK, Cache!Tick, Cache!Has, Cache!Kept
<1> QED
  BY <1>4, <1>5, <1>7

\* Type correctness of the tables, the requests and the tokens.
THEOREM LoginTypeCorrect == Spec => [](TypeOK /\ RequestsCarryAccounts)
<1>1. Init => TypeOK /\ RequestsCarryAccounts
  <2> SUFFICES ASSUME Init PROVE TypeOK /\ RequestsCarryAccounts
    OBVIOUS
  <2>1. TypeOK
    BY Zenon DEF Init, TypeOK, Cache!Init, Steps
  <2>2. RequestsCarryAccounts
    BY DEF Init, RequestsCarryAccounts, At
  <2> QED
    BY <2>1, <2>2
<1>2. TypeOK /\ RequestsCarryAccounts /\ [Next]_vars => (TypeOK /\ RequestsCarryAccounts)'
  <2> SUFFICES ASSUME TypeOK, RequestsCarryAccounts, [Next]_vars
               PROVE  TypeOK' /\ RequestsCarryAccounts'
    OBVIOUS
  <2> USE DEF table, marks
  <2>1. ASSUME NEW m \in Mark, HandleThirdPlatLogin(m)
        PROVE  TypeOK' /\ RequestsCarryAccounts'
    BY <2>1, CacheType DEF HandleThirdPlatLogin, TypeOK, RequestsCarryAccounts, At
  <2>2. ASSUME NEW r \in Request, NEW m \in issued, NEW a \in Account,
               HandleThirdPlatCallback(r, m, a)
        PROVE  TypeOK' /\ RequestsCarryAccounts'
    BY <2>2, LoginAssumption
       DEF HandleThirdPlatCallback, TypeOK, Steps, RequestsCarryAccounts, At
  <2>3. ASSUME NEW r \in Request, CheckMark(r)
        PROVE  TypeOK' /\ RequestsCarryAccounts'
    <3>1. req[r].mark \in Mark /\ req[r].mark \in issued
      BY <2>3 DEF CheckMark, At, RequestsCarryAccounts, TypeOK
    <3>2. entries' \in [Mark -> Cache!Item \cup {None}]
      BY <2>3, <3>1, CacheType DEF CheckMark
    <3> QED
      BY <2>3, <3>2 DEF CheckMark, Goto, At, Steps, TypeOK, RequestsCarryAccounts
  <2>4. ASSUME NEW r \in Request, DeleteMark(r)
        PROVE  TypeOK' /\ RequestsCarryAccounts'
    <3>1. req[r].mark \in Mark /\ req[r].mark \in issued
      BY <2>4 DEF DeleteMark, At, RequestsCarryAccounts, TypeOK
    <3>2. entries' \in [Mark -> Cache!Item \cup {None}]
      BY <2>4, <3>1, CacheType DEF DeleteMark
    <3> QED
      BY <2>4, <3>1, <3>2 DEF DeleteMark, Goto, At, Steps, TypeOK, RequestsCarryAccounts
  <2>5. ASSUME NEW r \in Request, Validate(r) \/ Rollback(r)
        PROVE  TypeOK' /\ RequestsCarryAccounts'
    BY <2>5 DEF Validate, Rollback, Goto, At, Steps, TypeOK, RequestsCarryAccounts
  <2>6. ASSUME NEW r \in Request, LookupBind(r)
        PROVE  TypeOK' /\ RequestsCarryAccounts'
    BY <2>6 DEF LookupBind, BindsOf, Goto, GotoWith, At, Steps, TypeOK, Bind, RequestsCarryAccounts
  <2>7. ASSUME NEW r \in Request, BeginCreate(r)
        PROVE  TypeOK' /\ RequestsCarryAccounts'
    BY <2>7 DEF BeginCreate, UsersWith, GotoWith, At, Steps, TypeOK, RequestsCarryAccounts
  <2>8. ASSUME NEW r \in Request, RebindUser(r)
        PROVE  TypeOK' /\ RequestsCarryAccounts'
    <3>1. req[r].account \in Account
      BY <2>8 DEF RebindUser, At, RequestsCarryAccounts
    <3>2. binds' \subseteq Bind
      BY <2>8, <3>1 DEF RebindUser, BindsTo, TypeOK, Bind
    <3> QED
      BY <2>8, <3>2 DEF RebindUser, Goto, At, Steps, TypeOK, RequestsCarryAccounts
  <2>9. ASSUME NEW r \in Request, CreateUser(r)
        PROVE  TypeOK' /\ RequestsCarryAccounts'
    <3>1. req[r].account \in Account /\ staffOf[req[r].account] \in Staff
      BY <2>9, LoginAssumption DEF CreateUser, At, RequestsCarryAccounts
    <3>2. PICK id \in FreshIds :
              /\ \/ /\ users' = [users EXCEPT ![id] = staffOf[req[r].account]]
                    /\ binds' = binds \cup {[account |-> req[r].account, user |-> id]}
                 \/ UNCHANGED <<users, binds>>
              /\ GotoWith(r, "token", id)
      BY <2>9 DEF CreateUser
    <3>3. users' \in [UserId -> Staff \cup {None}] /\ binds' \subseteq Bind
      BY <3>1, <3>2 DEF FreshIds, TypeOK, Bind
    <3>4. id \in UserId
      BY DEF FreshIds
    <3>5. UNCHANGED <<marks, uploaded, tokens, upload>> /\ ~At(r, "idle")
      BY <2>9 DEF CreateUser, At
    <3>6. req' = [req EXCEPT ![r].pc = "token", ![r].uid = id]
      BY <3>2 DEF GotoWith
    <3>7. TypeOK'
      <4>1. "token" \in Steps
        BY DEF Steps
      <4>2. req' \in [Request -> [pc : Steps, mark : Mark \cup {None},
                                  account : Account \cup {None}, uid : UserId \cup {None}]]
        BY <3>2, <3>4, <4>1, GotoType
      <4> QED
        BY <3>3, <3>5, <4>2 DEF TypeOK
    <3>8. RequestsCarryAccounts'
      BY <3>4, <3>5, <3>6 DEF RequestsCarryAccounts, At, TypeOK
    <3> QED
      BY <3>7, <3>8
  <2>10. ASSUME NEW r \in Request, IssueTokens(r)
         PROVE  TypeOK' /\ RequestsCarryAccounts'
    <3>1. \A refresh \in BOOLEAN : TokenOf(r, refresh) \in Token
      BY <2>10, LoginAssumption DEF IssueTokens, At, RequestsCarryAccounts, TokenOf, Token
    <3> QED
      BY <2>10, <3>1 DEF IssueTokens, Goto, At, Steps, TypeOK, RequestsCarryAccounts
  <2>11. ASSUME NEW t \in tokens, HandleRefreshToken(t) \/ TokenExpires(t)
         PROVE  TypeOK' /\ RequestsCarryAccounts'
    BY <2>11 DEF HandleRefreshToken, TokenExpires, TypeOK, Token, RequestsCarryAccounts, At
  <2>12. ASSUME NEW s \in Sheet, UploadLookup(s)
         PROVE  TypeOK' /\ RequestsCarryAccounts'
    BY <2>12, LoginAssumption DEF UploadLookup, TypeOK, RequestsCarryAccounts, At
  <2>13. CASE UploadWrite
    <3>1. users' \in [UserId -> Staff \cup {None}] /\ uploaded' \subseteq UserId
      BY <2>13 DEF UploadWrite, FreshIds, TypeOK
    <3> QED
      BY <2>13, <3>1 DEF UploadWrite, TypeOK, RequestsCarryAccounts, At
  <2>14. CASE Tick
    BY <2>14, CacheType DEF Tick, TypeOK, RequestsCarryAccounts, At
  <2>15. CASE UNCHANGED vars
    BY <2>15 DEF vars, TypeOK, RequestsCarryAccounts, At
  <2> QED
    BY <2>1, <2>2, <2>3, <2>4, <2>5, <2>6, <2>7, <2>8, <2>9, <2>10, <2>11, <2>12, <2>13,
       <2>14, <2>15 DEF Next
<1> QED
  BY <1>1, <1>2, PTL DEF Spec
-----------------------------------------------------------------------------
(* Tokens name the right user.  The invariant is not inductive alone: a      *)
(* token comes from a callback, which got its user from a bind or from a row *)
(* it read before its transaction.                                           *)
Matching == BindMatchesStaff /\ RequestMatchesStaff /\ TokenMatchesUser

\* Rows of users are only ever added: a user keeps its staff number.
LEMMA UsersKeepTheirNumber ==
    ASSUME TypeOK, [Next]_vars, NEW id \in UserId, users[id] # None
    PROVE  users'[id] = users[id]
<1>1. ASSUME NEW r \in Request, CreateUser(r)
      PROVE  users'[id] = users[id]
  BY <1>1 DEF CreateUser, FreshIds, TypeOK
<1>2. ASSUME UploadWrite
      PROVE  users'[id] = users[id]
  BY <1>2 DEF UploadWrite, FreshIds, TypeOK
<1>3. UNCHANGED users \/ UploadWrite \/ \E r \in Request : CreateUser(r)
  BY DEF Next, vars, table, HandleThirdPlatLogin, HandleThirdPlatCallback, CheckMark, DeleteMark,
         Validate, LookupBind, BeginCreate, RebindUser, Rollback, IssueTokens,
         HandleRefreshToken, TokenExpires, UploadLookup, Tick
<1> QED
  BY <1>1, <1>2, <1>3

\* Steps that leave binds, requests and tokens alone keep the matching.
LEMMA MatchingOfOthers ==
    ASSUME TypeOK, RequestsCarryAccounts, Matching, [Next]_vars, UNCHANGED <<binds, req, tokens>>
    PROVE  Matching'
<1>1. \A id \in UserId : users[id] # None => users'[id] = users[id]
  BY UsersKeepTheirNumber
<1>2. \A a \in Account : staffOf[a] # None
  BY LoginAssumption
<1>3. BindMatchesStaff'
  BY <1>1, <1>2 DEF Matching, BindMatchesStaff, TypeOK, Bind
<1>4. TokenMatchesUser'
  BY <1>1, LoginAssumption DEF Matching, TokenMatchesUser, TypeOK, Token
<1>5. RequestMatchesStaff'
  <2> SUFFICES ASSUME NEW r \in Request, At(r, "write") \/ At(r, "token"), req[r].uid # None
               PROVE  users'[req[r].uid] = staffOf[req[r].account]
    BY DEF RequestMatchesStaff, At
  <2>1. req[r].uid \in UserId /\ req[r].account \in Account
    BY DEF TypeOK, RequestsCarryAccounts, At
  <2> QED
    BY <1>1, <1>2, <2>1 DEF Matching, RequestMatchesStaff
<1> QED
  BY <1>3, <1>4, <1>5 DEF Matching

LEMMA MatchingStep ==
    ASSUME ~CommitFails, TypeOK, RequestsCarryAccounts, Matching, [Next]_vars
    PROVE  Matching'
<1> USE DEF table, marks, Matching
<1>1. ASSUME NEW m \in Mark, HandleThirdPlatLogin(m)
      PROVE  Matching'
  BY <1>1, MatchingOfOthers DEF HandleThirdPlatLogin
<1>2. ASSUME NEW r \in Request, NEW m \in issued, NEW a \in Account, HandleThirdPlatCallback(r, m, a)
      PROVE  Matching'
  BY <1>2 DEF HandleThirdPlatCallback, At, TypeOK, BindMatchesStaff, RequestMatchesStaff, TokenMatchesUser
<1>3. ASSUME NEW r \in Request, CheckMark(r) \/ DeleteMark(r) \/ Validate(r) \/ Rollback(r)
      PROVE  Matching'
  BY <1>3 DEF CheckMark, DeleteMark, Validate, Rollback, Goto, At, TypeOK,
              BindMatchesStaff, RequestMatchesStaff, TokenMatchesUser
<1>4. ASSUME NEW r \in Request, LookupBind(r)
      PROVE  Matching'
  <2>1. ASSUME NEW b \in BindsOf(req[r].account), GotoWith(r, "token", b.user)
        PROVE  RequestMatchesStaff'
    <3>1. users[b.user] = staffOf[req[r].account] /\ UNCHANGED users
      BY <1>4 DEF LookupBind, BindsOf, BindMatchesStaff
    <3>2. req' = [req EXCEPT ![r].pc = "token", ![r].uid = b.user]
      BY <2>1 DEF GotoWith
    <3> QED
      BY <3>1, <3>2 DEF At, TypeOK, RequestMatchesStaff
  <2>2. ASSUME Goto(r, "begin") \/ Goto(r, "failed")
        PROVE  RequestMatchesStaff'
    BY <1>4, <2>2 DEF LookupBind, Goto, At, TypeOK, RequestMatchesStaff
  <2>3. RequestMatchesStaff'
    BY <1>4, <2>1, <2>2 DEF LookupBind
  <2> QED
    BY <1>4, <2>3 DEF LookupBind, BindMatchesStaff, TokenMatchesUser
<1>5. ASSUME NEW r \in Request, BeginCreate(r)
      PROVE  Matching'
  BY <1>5 DEF BeginCreate, UsersWith, GotoWith, At, TypeOK,
              BindMatchesStaff, RequestMatchesStaff, TokenMatchesUser
<1>6. ASSUME NEW r \in Request, RebindUser(r)
      PROVE  Matching'
  <2> DEFINE id == req[r].uid
             a == req[r].account
  <2>1. binds' = (binds \ BindsTo(id)) \cup {[b EXCEPT !.account = a] : b \in BindsTo(id)}
    BY <1>6 DEF RebindUser
  <2>2. users[id] = staffOf[a]
    BY <1>6 DEF RebindUser, At, RequestMatchesStaff
  <2>3. BindMatchesStaff'
    BY <1>6, <2>1, <2>2 DEF RebindUser, BindsTo, BindMatchesStaff, TypeOK, Bind
  <2>4. RequestMatchesStaff'
    BY <1>6, <2>2 DEF RebindUser, Goto, At, TypeOK, RequestMatchesStaff
  <2> QED
    BY <1>6, <2>3, <2>4 DEF RebindUser, TokenMatchesUser
<1>7. ASSUME NEW r \in Request, CreateUser(r)
      PROVE  Matching'
  <2> DEFINE a == req[r].account
  <2>1. a \in Account /\ staffOf[a] # None
    BY <1>7, LoginAssumption DEF CreateUser, At, RequestsCarryAccounts
  <2>2. PICK id \in FreshIds : /\ users' = [users EXCEPT ![id] = staffOf[a]]
                               /\ binds' = binds \cup {[account |-> a, user |-> id]}
                               /\ GotoWith(r, "token", id)
    BY <1>7 DEF CreateUser
  <2>3. \A j \in UserId : users[j] # None => users'[j] = users[j]
    BY UsersKeepTheirNumber
  <2>4. id \in UserId /\ users'[id] = staffOf[a]
    BY <2>2 DEF FreshIds, TypeOK
  <2>5. BindMatchesStaff'
    BY <2>2, <2>3, <2>4, LoginAssumption DEF BindMatchesStaff, TypeOK, Bind
  <2>6. TokenMatchesUser'
    BY <1>7, <2>3, LoginAssumption DEF CreateUser, TokenMatchesUser, TypeOK, Token
  <2>7. ASSUME NEW q \in Request, q # r, At(q, "write") \/ At(q, "token"), req[q].uid # None
        PROVE  users'[req[q].uid] = staffOf[req[q].account]
    BY <2>3, <2>7, LoginAssumption DEF RequestMatchesStaff, RequestsCarryAccounts, At, TypeOK
  <2>8. RequestMatchesStaff'
    BY <2>2, <2>4, <2>7 DEF GotoWith, RequestMatchesStaff, At, TypeOK
  <2> QED
    BY <2>5, <2>6, <2>8
<1>8. ASSUME NEW r \in Request, IssueTokens(r)
      PROVE  Matching'
  <2>1. users[req[r].uid] = staffOf[req[r].account]
    BY <1>8, LoginAssumption DEF IssueTokens, At, RequestsCarryAccounts, RequestMatchesStaff
  <2>2. TokenMatchesUser'
    BY <1>8, <2>1 DEF IssueTokens, TokenOf, TokenMatchesUser
  <2> QED
    BY <1>8, <2>2 DEF IssueTokens, Goto, At, TypeOK, BindMatchesStaff, RequestMatchesStaff
<1>9. ASSUME NEW t \in tokens, HandleRefreshToken(t) \/ TokenExpires(t)
      PROVE  Matching'
  BY <1>9 DEF HandleRefreshToken, TokenExpires, At, TypeOK, Token,
              BindMatchesStaff, RequestMatchesStaff, TokenMatchesUser
<1>10. ASSUME NEW s \in Sheet, UploadLookup(s)
       PROVE  Matching'
  BY <1>10, MatchingOfOthers DEF UploadLookup
<1>11. CASE UploadWrite
  BY <1>11, MatchingOfOthers DEF UploadWrite
<1>12. CASE Tick
  BY <1>12, MatchingOfOthers DEF Tick
<1>13. CASE UNCHANGED vars
  BY <1>13, MatchingOfOthers DEF vars
<1> QED
  BY <1>1, <1>2, <1>3, <1>4, <1>5, <1>6, <1>7, <1>8, <1>9, <1>10, <1>11, <1>12, <1>13 DEF Next

\* An account is bound to the user of its own staff number, and a callback
\* that has read a user goes on with the right one, whatever runs in between.
THEOREM BindsNameTheirStaff ==
    ASSUME ~CommitFails
    PROVE  Spec => [](BindMatchesStaff /\ RequestMatchesStaff)
<1>1. Init => Matching
  BY DEF Init, Matching, BindMatchesStaff, RequestMatchesStaff, TokenMatchesUser, At
<1>2. TypeOK /\ RequestsCarryAccounts /\ Matching /\ [Next]_vars => Matching'
  BY MatchingStep
<1>3. Matching => BindMatchesStaff /\ RequestMatchesStaff
  BY DEF Matching
<1> QED
  BY <1>1, <1>2, <1>3, LoginTypeCorrect, PTL DEF Spec

\* Every token names a row of users with the token's own staff number, for
\* any number of concurrent logins, uploads and refreshes, as long as a
\* commit that fails is not taken for one that succeeded.
THEOREM TokensNameTheirUser ==
    ASSUME ~CommitFails
    PROVE  Spec => []TokenMatchesUser
<1>1. Init => Matching
  BY DEF Init, Matching, BindMatchesStaff, RequestMatchesStaff, TokenMatchesUser, At
<1>2. TypeOK /\ RequestsCarryAccounts /\ Matching /\ [Next]_vars => Matching'
  BY MatchingStep
<1>3. Matching => TokenMatchesUser
  BY DEF Matching
<1> QED
  BY <1>1, <1>2, <1>3, LoginTypeCorrect, PTL DEF Spec
-----------------------------------------------------------------------------
(* Consumed marks.  A mark is consumed after it was issued, is issued once,  *)
(* and only issuing it puts it in the cache.                                 *)
ConsumedInv == ConsumedMarkRefused /\ consumed \subseteq issued

\* A mark that a callback has deleted stays unknown to the cache for ever.
THEOREM ConsumedMarksStayRefused == Spec => []ConsumedMarkRefused
<1>1. Init => ConsumedInv
  BY DEF Init, ConsumedInv, ConsumedMarkRefused
<1>2. TypeOK /\ RequestsCarryAccounts /\ ConsumedInv /\ [Next]_vars => ConsumedInv'
  <2> SUFFICES ASSUME TypeOK, RequestsCarryAccounts, ConsumedInv, [Next]_vars
               PROVE  ConsumedInv'
    OBVIOUS
  <2> USE DEF ConsumedInv, ConsumedMarkRefused, Cache!Has
  <2>1. ASSUME NEW m \in Mark, HandleThirdPlatLogin(m)
        PROVE  ConsumedInv'
    BY <2>1 DEF HandleThirdPlatLogin, Cache!Setex, TypeOK
  <2>2. ASSUME NEW r \in Request, DeleteMark(r)
        PROVE  ConsumedInv'
    <3>1. req[r].mark \in issued /\ req[r].mark \in Mark
      BY <2>2 DEF DeleteMark, At, RequestsCarryAccounts, TypeOK
    <3> QED
      BY <2>2, <3>1 DEF DeleteMark, Cache!Del, TypeOK
  <2>3. ASSUME NEW r \in Request, CheckMark(r)
        PROVE  ConsumedInv'
    BY <2>3 DEF CheckMark, Cache!Exists
  <2>4. CASE Tick
    BY <2>4 DEF Tick, Cache!Tick, TypeOK
  <2>5. CASE UNCHANGED <<entries, issued, consumed>>
    BY <2>5
  <2> QED
    BY <2>1, <2>2, <2>3, <2>4, <2>5
       DEF Next, vars, marks, HandleThirdPlatCallback, Validate, LookupBind, BeginCreate,
           RebindUser, CreateUser, Rollback, IssueTokens, HandleRefreshToken, TokenExpires,
           UploadLookup, UploadWrite
<1>3. ConsumedInv => ConsumedMarkRefused
  BY DEF ConsumedInv
<1> QED
  BY <1>1, <1>2, <1>3, LoginTypeCorrect, PTL DEF Spec
-----------------------------------------------------------------------------
(* One user per staff number, one bind per user that a login created.        *)
(* Neither is inductive alone: a callback that points the binds of a user at *)
(* its account must find exactly that user's, and a row that is inserted     *)
(* must find no binds left under its id.                                     *)
OneUserEach == \A i, j \in UserId : users[i] # None /\ users[i] = users[j] => i = j
BindsHaveUsers == \A b \in binds : users[b.user] # None
OneBindEach ==
    \A id \in UserId : users[id] # None /\ id \notin uploaded =>
        \E b \in binds : b.user = id /\ \A c \in binds : c.user = id => c = b

BoundOnce == OneUserEach /\ BindsHaveUsers /\ OneBindEach

\* Steps that leave users and binds alone keep them as they are.
LEMMA BoundOnceOfOthers ==
    ASSUME BoundOnce, UNCHANGED <<users, uploaded, binds>>
    PROVE  BoundOnce'
  BY DEF BoundOnce, OneUserEach, BindsHaveUsers, OneBindEach

LEMMA BoundOnceStep ==
    ASSUME TypeOK, RequestsCarryAccounts, BoundOnce, [Next]_vars
    PROVE  BoundOnce'
<1> USE DEF BoundOnce, OneUserEach, BindsHaveUsers, OneBindEach
<1>1. ASSUME NEW r \in Request, RebindUser(r)
      PROVE  BoundOnce'
  <2> DEFINE id == req[r].uid
             a == req[r].account
  <2>1. id \in UserId /\ UNCHANGED <<users, uploaded>>
    BY <1>1 DEF RebindUser, TypeOK
  <2>2. CASE UNCHANGED binds
    BY <2>1, <2>2, BoundOnceOfOthers
  <2>3. CASE binds' = (binds \ BindsTo(id)) \cup {[b EXCEPT !.account = a] : b \in BindsTo(id)}
    <3>1. \A c \in binds' : c.user # id => c \in binds
      BY <2>3 DEF BindsTo, TypeOK, Bind
    <3>2. \A c \in binds : c.user # id => c \in binds'
      BY <2>3 DEF BindsTo
    <3>3. \A c \in binds' : c.user = id => \E b \in BindsTo(id) : c = [b EXCEPT !.account = a]
      BY <2>3 DEF BindsTo
    <3>4. \A b \in BindsTo(id) : [b EXCEPT !.account = a] \in binds' /\ [b EXCEPT !.account = a].user = id
      BY <2>3 DEF BindsTo, TypeOK, Bind
    <3>5. BindsHaveUsers'
      BY <2>1, <3>1, <3>3 DEF BindsTo
    <3>6. ASSUME NEW i \in UserId, users[i] # None, i \notin uploaded
          PROVE  \E b \in binds' : b.user = i /\ \A c \in binds' : c.user = i => c = b
      <4>1. PICK b \in binds : b.user = i /\ \A c \in binds : c.user = i => c = b
        BY <3>6
      <4>2. CASE i # id
        BY <4>1, <4>2, <3>1, <3>2
      <4>3. CASE i = id
        <5>1. BindsTo(id) = {b}
          BY <4>1, <4>3 DEF BindsTo
        <5> DEFINE new == [b EXCEPT !.account = a]
        <5>2. new \in binds' /\ new.user = i
          BY <4>3, <5>1, <3>4
        <5>3. \A c \in binds' : c.user = i => c = new
          BY <4>3, <5>1, <3>3
        <5> QED
          BY <5>2, <5>3
      <4> QED
        BY <4>2, <4>3
    <3> QED
      BY <2>1, <3>5, <3>6
  <2> QED
    BY <1>1, <2>2, <2>3 DEF RebindUser
<1>2. ASSUME NEW r \in Request, CreateUser(r)
      PROVE  BoundOnce'
  <2> DEFINE a == req[r].account
  <2>1. a \in Account /\ staffOf[a] \in Staff /\ staffOf[a] # None /\ UNCHANGED uploaded
    BY <1>2, LoginAssumption DEF CreateUser, At, RequestsCarryAccounts
  <2>2. CASE UNCHANGED <<users, binds>>
    BY <2>1, <2>2, BoundOnceOfOthers
  <2>3. ASSUME NEW id \in FreshIds, users' = [users EXCEPT ![id] = staffOf[a]],
               binds' = binds \cup {[account |-> a, user |-> id]}
        PROVE  BoundOnce'
    <3>1. id \in UserId /\ users[id] = None /\ users'[id] = staffOf[a]
          /\ \A i \in UserId \ {id} : users'[i] = users[i]
      BY <2>3 DEF FreshIds, TypeOK
    <3>2. \A i \in UserId : users[i] # staffOf[a]
      BY <1>2 DEF CreateUser, UsersWith
    <3>3. \A b \in binds : b.user \in UserId \ {id}
      BY <3>1 DEF TypeOK, Bind
    <3>4. OneUserEach'
      BY <3>1, <3>2
    <3>5. BindsHaveUsers'
      BY <2>1, <2>3, <3>1, <3>3
    <3>6. ASSUME NEW i \in UserId, users'[i] # None, i \notin uploaded
          PROVE  \E b \in binds' : b.user = i /\ \A c \in binds' : c.user = i => c = b
      <4>1. CASE i = id
        <5> DEFINE new == [account |-> a, user |-> id]
        <5>1. new \in binds' /\ new.user = i
          BY <2>3, <4>1
        <5>2. \A c \in binds' : c.user = i => c = new
          BY <2>3, <3>3, <4>1
        <5> QED
          BY <5>1, <5>2
      <4>2. CASE i # id
        <5>1. PICK b \in binds : b.user = i /\ \A c \in binds : c.user = i => c = b
          BY <3>1, <3>6, <4>2
        <5> QED
          BY <2>3, <4>2, <5>1
      <4> QED
        BY <4>1, <4>2
    <3>7. OneBindEach'
      BY <2>1, <3>6
    <3> QED
      BY <3>4, <3>5, <3>7
  <2> QED
    BY <1>2, <2>2, <2>3 DEF CreateUser
<1>3. CASE UploadWrite
  <2>1. CASE UNCHANGED <<users, uploaded>>
    BY <1>3, <2>1, BoundOnceOfOthers DEF UploadWrite
  <2>2. ASSUME UsersWith(upload.staff) = {}, NEW id \in FreshIds,
               users' = [users EXCEPT ![id] = upload.staff], uploaded' = uploaded \cup {id},
               UNCHANGED binds
        PROVE  BoundOnce'
    <3>1. id \in UserId /\ users[id] = None /\ users'[id] = upload.staff
          /\ \A i \in UserId \ {id} : users'[i] = users[i]
      BY <2>2 DEF FreshIds, TypeOK
    <3>2. \A i \in UserId : users[i] # upload.staff
      BY <2>2 DEF UsersWith
    <3>3. \A b \in binds : b.user \in UserId \ {id}
      BY <3>1 DEF TypeOK, Bind
    <3>4. OneUserEach'
      BY <3>1, <3>2
    <3> QED
      BY <2>2, <3>1, <3>3, <3>4
  <2> QED
    BY <1>3, <2>1, <2>2 DEF UploadWrite
<1>4. CASE UNCHANGED <<users, uploaded, binds>>
  BY <1>4, BoundOnceOfOthers
<1> QED
  BY <1>1, <1>2, <1>3, <1>4
     DEF Next, vars, table, HandleThirdPlatLogin, HandleThirdPlatCallback, CheckMark, DeleteMark,
         Validate, LookupBind, BeginCreate, Rollback, IssueTokens,
         HandleRefreshToken, TokenExpires, UploadLookup, Tick

\* No staff number has two users, and a user that a login created has exactly
\* one bind, whatever logins and uploads overlap, and even if commits fail
\* unseen (CreateWithBind of dao/users.go, and upload.go).
THEOREM LoginsLeaveOneBind == Spec => []LoginUserHasOneBind
<1>1. Init => BoundOnce
  BY DEF Init, BoundOnce, OneUserEach, BindsHaveUsers, OneBindEach
<1>2. TypeOK /\ RequestsCarryAccounts /\ BoundOnce /\ [Next]_vars => BoundOnce'
  BY BoundOnceStep
<1>3. TypeOK /\ BoundOnce => LoginUserHasOneBind
  <2> SUFFICES ASSUME BoundOnce, NEW id \in UserId, users[id] # None
               PROVE  /\ UsersWith(users[id]) = {id}
                      /\ id \notin uploaded => Cardinality(BindsTo(id)) = 1
    BY DEF LoginUserHasOneBind
  <2>1. UsersWith(users[id]) = {id}
    BY DEF BoundOnce, OneUserEach, UsersWith
  <2>2. ASSUME id \notin uploaded
        PROVE  \E b \in binds : BindsTo(id) = {b}
    BY <2>2 DEF BoundOnce, OneBindEach, BindsTo
  <2> QED
    BY <2>1, <2>2, FS_Singleton
<1> QED
  BY <1>1, <1>2, <1>3, LoginTypeCorrect, PTL DEF Spec
=============================================================================
