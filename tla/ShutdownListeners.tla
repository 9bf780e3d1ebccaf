------------------------- MODULE ShutdownListeners -------------------------
(***************************************************************************)
(* core/systemx/shutdown.go: a listenerManager.  A wait group counts the   *)
(* listeners that have not been called; addListener counts a listener      *)
(* before it takes the lock to append it, and notifyListeners holds the    *)
(* lock while it calls all of them.                                        *)
(*                                                                         *)
(* External: sync.WaitGroup.  Done leaves the counter below zero before it *)
(* panics.  A Wait at any other value than zero blocks until the counter   *)
(* comes to zero, which wakes all who wait, and one of them that finds the *)
(* counter in use again panics.  What Add does to the counter and whom it  *)
(* wakes is one step.                                                      *)
(***************************************************************************)
EXTENDS Integers, FiniteSets

CONSTANTS Component,  \* each adds one listener, and may wait for it to be called
          MaxNotified \* bound on the notifications; gracefulStop makes one

ASSUME ListenersAssumption == IsFiniteSet(Component) /\ MaxNotified \in Nat

VARIABLES waitGroup, \* the counter
          listeners, \* those in lm.listeners
          running,   \* those that a notification has still to call
          lock,      \* a notification holds the lock
          notified,
          component, \* how far each is
          called     \* listeners whose function has been called

listenerVars == <<waitGroup, listeners, running, lock, notified, component, called>>

ListenersTypeOK ==
    /\ waitGroup \in Int
    /\ listeners \subseteq Component /\ running \subseteq listeners /\ called \subseteq listeners
    /\ lock \in BOOLEAN
    /\ notified \in 0 .. MaxNotified
    /\ component \in [Component -> {"new", "counted", "added", "waiting", "woken", "released", "panicked"}]

ListenersInit ==
    /\ waitGroup = 0
    /\ listeners = {} /\ running = {} /\ called = {}
    /\ lock = FALSE
    /\ notified = 0
    /\ component = [c \in Component |-> "new"]
-----------------------------------------------------------------------------
Become(c, from, to) == component[c] = from /\ component' = [component EXCEPT ![c] = to]

\* waitGroup.Add, or Done: at zero, those in waits are woken.
Add(delta, comp) ==
    /\ waitGroup' = waitGroup + delta
    /\ component' = [c \in Component |->
                        IF waitGroup + delta = 0 /\ comp[c] = "waiting" THEN "woken" ELSE comp[c]]

CountListener(c) ==
    /\ component[c] = "new"
    /\ Add(1, [component EXCEPT ![c] = "counted"])
    /\ UNCHANGED <<listeners, running, lock, notified, called>>

AddListener(c) ==
    /\ ~lock
    /\ Become(c, "counted", "added")
    /\ listeners' = listeners \cup {c}
    /\ UNCHANGED <<waitGroup, running, lock, notified, called>>

\* waitForCalled
Wait(c) ==
    /\ Become(c, "added", IF waitGroup = 0 THEN "released" ELSE "waiting")
    /\ UNCHANGED <<waitGroup, listeners, running, lock, notified, called>>

Release(c) ==
    /\ Become(c, "woken", IF waitGroup = 0 THEN "released" ELSE "panicked")
    /\ UNCHANGED <<waitGroup, listeners, running, lock, notified, called>>

NotifyBegins ==
    /\ ~lock /\ notified < MaxNotified
    /\ lock' = TRUE
    /\ notified' = notified + 1
    /\ running' = listeners
    /\ UNCHANGED <<waitGroup, listeners, component, called>>

\* Mutant: Done is not deferred, and a listener that panics stays counted.
RunUnsafe(c) ==
    /\ c \in running
    /\ running' = running \ {c}
    /\ called' = called \cup {c}
    /\ \E delta \in {-1, 0} : Add(delta, component)
    /\ UNCHANGED <<listeners, lock, notified>>

\* One goroutine of the group.  It recovers from what the listener throws, and from the
\* panic of a counter that falls below zero.
Run(c) ==
    /\ c \in running
    /\ running' = running \ {c}
    /\ called' = called \cup {c}
    /\ Add(-1, component)
    /\ UNCHANGED <<listeners, lock, notified>>

NotifyEnds ==
    /\ lock /\ running = {}
    /\ lock' = FALSE
    /\ UNCHANGED <<waitGroup, listeners, running, notified, component, called>>

ListenersNext ==
    \/ NotifyBegins \/ NotifyEnds
    \/ \E c \in Component : CountListener(c) \/ AddListener(c) \/ Wait(c) \/ Release(c) \/ Run(c)

\* A notification that has begun calls everybody, and who may go on does.
ListenersFairness ==
    /\ WF_listenerVars(NotifyEnds)
    /\ \A c \in Component : WF_listenerVars(Run(c)) /\ WF_listenerVars(Release(c))

ListenersSpec == ListenersInit /\ [][ListenersNext]_listenerVars /\ ListenersFairness
-----------------------------------------------------------------------------
WaitedMeansCalled ==
    notified <= 1 => \A c \in Component : component[c] = "released" => c \in called

\* Listeners that are counted, and have not been called.
Owed == {c \in Component : component[c] # "new"} \ called

CountsTheOwed == notified <= 1 => waitGroup = Cardinality(Owed)

(***************************************************************************)
(* Until there is a second notification, the wait group counts the         *)
(* listeners that have not been called; whoever has waited has been        *)
(* called, as the comment of AddShutdownListener says; and a notification  *)
(* that calls all that are counted releases all who wait, unless one more  *)
(* is counted before that: a listener that comes after the notification,   *)
(* and is never called, holds the others up.  (A second notification       *)
(* takes the counter below zero, where a waiter blocks for ever although   *)
(* nobody is owed a call.)                                                 *)
(***************************************************************************)
WaitersAreCalled ==
    /\ [](ListenersTypeOK /\ WaitedMeansCalled /\ CountsTheOwed)
    /\ \A c \in Component :
           (component[c] \in {"waiting", "woken"} /\ Owed \subseteq running /\ notified <= 1)
               ~> (component[c] = "released" \/ ~(Owed \subseteq running) \/ notified > 1)
=============================================================================
