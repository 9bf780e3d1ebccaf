----------------------------- MODULE Resources -----------------------------
(***************************************************************************)
(* core/syncx/resourcemanager.go over core/syncx/singleflight.go: callers  *)
(* of GetResource share the call that is under way for their key, and the  *)
(* resource that it finds or creates.                                      *)
(*                                                                         *)
(* A caller that panics is taken to recover and to go on.  What the owner  *)
(* of a call leaves in it is handed to the waiters when it calls Done.     *)
(* Create may panic, as the callers' function; Close of a resource is      *)
(* taken not to.                                                           *)
(***************************************************************************)
EXTENDS FiniteSets

CONSTANTS User,     \* goroutines that use the manager
          Key, Resource,
          Nobody, Nothing

ASSUME ResourcesAssumption == Nobody \notin User /\ Nothing \notin Resource

VARIABLES calls,     \* flightGroup.calls, by the user that owns the call
          resources, \* ResourceManager.resources
          closed,    \* resources is nil
          locked,    \* the lock is held by a call that has ended
          handle,    \* handle[r]: what has become of resource r
          user,
          injected,  \* keys that Inject has been called for
          ousted,    \* resources whose place another took, with their keys
          late       \* resources that came when the manager was closed

history == <<injected, ousted, late>>
resourceVars == <<calls, resources, closed, locked, handle, user, history>>

Outcome == {"", "ok", "error", "panic"}

ResourcesTypeOK ==
    /\ calls \in [Key -> User \cup {Nobody}]
    /\ resources \in [Key -> Resource \cup {Nothing}]
    /\ closed \in BOOLEAN /\ locked \in BOOLEAN
    /\ handle \in [Resource -> {"none", "open", "closed"}]
    /\ user \in [User -> [pc : {"idle", "wait", "look", "create", "store", "delete", "done"},
                          key : Key, joins : User \cup {Nobody},
                          val : Resource \cup {Nothing}, how : Outcome]]
    /\ injected \subseteq Key /\ ousted \subseteq Key \X Resource /\ late \subseteq Resource

ResourcesInit ==
    /\ calls = [k \in Key |-> Nobody]
    /\ resources = [k \in Key |-> Nothing]
    /\ closed = FALSE /\ locked = FALSE
    /\ handle = [r \in Resource |-> "none"]
    /\ user \in [User -> {[pc |-> "idle", key |-> k, joins |-> Nobody, val |-> Nothing, how |-> ""] :
                             k \in Key}]
    /\ injected = {} /\ ousted = {} /\ late = {}
-----------------------------------------------------------------------------
\* createCall
Call(u, k) ==
    /\ user[u].pc = "idle"
    /\ user' = [user EXCEPT ![u] = [pc |-> IF calls[k] = Nobody THEN "look" ELSE "wait", key |-> k,
                                    joins |-> calls[k], val |-> Nothing, how |-> ""]]
    /\ calls' = [calls EXCEPT ![k] = IF @ = Nobody THEN u ELSE @]
    /\ UNCHANGED <<resources, closed, locked, handle, history>>

Advance(u, from, to) == user[u].pc = from /\ user' = [user EXCEPT ![u] = to]

\* Mutant: what has been created before is not looked for.
LookAway(u) ==
    /\ ~locked
    /\ Advance(u, "look", [user[u] EXCEPT !.pc = "create"])
    /\ UNCHANGED <<calls, resources, closed, locked, handle, history>>

\* A nil map has no entries.
LookUp(u) ==
    /\ ~locked
    /\ LET r == resources[user[u].key]
       IN  Advance(u, "look", IF r = Nothing THEN [user[u] EXCEPT !.pc = "create"]
                           ELSE [user[u] EXCEPT !.pc = "delete", !.val = r, !.how = "ok"])
    /\ UNCHANGED <<calls, resources, closed, locked, handle, history>>

Unmade == {r \in Resource : handle[r] = "none"}

Create(u) ==
    /\ \/ \E r \in Unmade :
              /\ Advance(u, "create", [user[u] EXCEPT !.pc = "store", !.val = r])
              /\ handle' = [handle EXCEPT ![r] = "open"]
       \/ \E how \in {"error", "panic"} :
              /\ Advance(u, "create", [user[u] EXCEPT !.pc = "delete", !.how = how])
              /\ UNCHANGED handle
    /\ UNCHANGED <<calls, resources, closed, locked, history>>

\* Resource r takes the place of what the manager has for key k.
Put(k, r) ==
    /\ resources' = [resources EXCEPT ![k] = r]
    /\ ousted' = IF resources[k] = Nothing THEN ousted ELSE ousted \cup {<<k, resources[k]>>}
    /\ UNCHANGED <<locked, late>>

\* To write to a nil map panics: the lock is released ...
Store(u) ==
    /\ ~locked
    /\ \/ /\ ~closed
          /\ Advance(u, "store", [user[u] EXCEPT !.pc = "delete", !.how = "ok"])
          /\ Put(user[u].key, user[u].val)
       \/ /\ closed
          /\ Advance(u, "store", [user[u] EXCEPT !.pc = "delete", !.val = Nothing, !.how = "panic"])
          /\ late' = late \cup {user[u].val}
          /\ UNCHANGED <<resources, locked, ousted>>
    /\ UNCHANGED <<calls, closed, handle, injected>>

\* The deferred function of makeCall: the key is free again ...
Delete(u) ==
    /\ Advance(u, "delete", [user[u] EXCEPT !.pc = "done"])
    /\ calls' = [calls EXCEPT ![user[u].key] = Nobody]
    /\ UNCHANGED <<resources, closed, locked, handle, history>>

\* Mutant: makeCall does not defer, and a panic passes it by.
DoneUnlessPanic(u) ==
    /\ user[u].pc = "done"
    /\ user' = [w \in User |->
                  IF w = u THEN [user[w] EXCEPT !.pc = "idle"]
                  ELSE IF user[w].pc = "wait" /\ user[w].joins = u /\ user[u].how # "panic"
                  THEN [user[w] EXCEPT !.pc = "idle", !.joins = Nobody, !.val = user[u].val, !.how = user[u].how]
                  ELSE user[w]]
    /\ UNCHANGED <<calls, resources, closed, locked, handle, history>>

\* ... and then the waiters go on.  After a panic they find nil and no error, and the
\* conversion of nil to io.Closer panics for each of them.
Done(u) ==
    /\ user[u].pc = "done"
    /\ user' = [w \in User |->
                  IF w = u THEN [user[w] EXCEPT !.pc = "idle"]
                  ELSE IF user[w].pc = "wait" /\ user[w].joins = u
                  THEN [user[w] EXCEPT !.pc = "idle", !.joins = Nobody, !.val = user[u].val, !.how = user[u].how]
                  ELSE user[w]]
    /\ UNCHANGED <<calls, resources, closed, locked, handle, history>>

\* ... but by Inject, which does not defer that, it is not.
Inject(k, r) ==
    /\ ~locked
    /\ r \in Unmade
    /\ handle' = [handle EXCEPT ![r] = "open"]
    /\ \/ ~closed /\ Put(k, r)
       \/ closed /\ locked' = TRUE /\ late' = late \cup {r} /\ UNCHANGED <<resources, ousted>>
    /\ injected' = injected \cup {k}
    /\ UNCHANGED <<calls, closed, user>>

Released(r) == r \in {resources[k] : k \in Key}

Close ==
    /\ ~locked
    /\ handle' = [r \in Resource |-> IF Released(r) THEN "closed" ELSE handle[r]]
    /\ resources' = [k \in Key |-> Nothing]
    /\ closed' = TRUE
    /\ UNCHANGED <<calls, locked, user, history>>

UserStep(u) == LookUp(u) \/ Create(u) \/ Store(u) \/ Delete(u) \/ Done(u)

ResourcesNext ==
    \/ Close
    \/ \E k \in Key : \E r \in Resource : Inject(k, r)
    \/ \E u \in User : UserStep(u) \/ \E k \in Key : Call(u, k)

\* Every goroutine runs on, and create() returns or panics.
ResourcesFairness == \A u \in User : WF_resourceVars(UserStep(u))

ResourcesSpec == ResourcesInit /\ [][ResourcesNext]_resourceVars /\ ResourcesFairness
-----------------------------------------------------------------------------
\* For no key are two resources being created at a time.
OneCreationPerKey ==
    \A u, w \in User :
        user[u].pc \in {"create", "store"} /\ user[w].pc \in {"create", "store"}
        /\ user[u].key = user[w].key => u = w

\* An open resource is the manager's to close, or about to be, or it was lost:
\* ousted for a key that Inject was called for, or late for a closed manager.
OpenAreKnown ==
    \A r \in Resource : handle[r] = "open" =>
        \/ Released(r)
        \/ \E u \in User : user[u].pc = "store" /\ user[u].val = r
        \/ \E k \in injected : <<k, r>> \in ousted
        \/ r \in late

(***************************************************************************)
(* A key has one resource: it is created once at a time, and everybody who *)
(* has got a resource for the key has got the one the manager keeps and    *)
(* will close, or has closed, if Inject has not replaced it.  Nothing that *)
(* is open is lost but through Inject, or by coming after Close; and the   *)
(* lock is only lost after Close.                                          *)
(***************************************************************************)
SharedAndClosed ==
    /\ ResourcesTypeOK
    /\ OneCreationPerKey
    /\ \A u \in User :
           user[u].pc = "idle" /\ user[u].how = "ok" /\ user[u].key \notin injected =>
               \/ user[u].val = resources[user[u].key] /\ handle[user[u].val] = "open"
               \/ handle[user[u].val] = "closed"
    /\ OpenAreKnown
    /\ late # {} \/ locked => closed

(***************************************************************************)
(* Whoever waits for the call of another comes back, even if that panics,  *)
(* with one exception: an Inject that comes after Close keeps the lock for *)
(* ever, and then owners block, and whoever waits for them.                *)
(***************************************************************************)
WaitersComeBack == \A u \in User : (user[u].pc = "wait") ~> (user[u].pc = "idle" \/ locked)
=============================================================================
