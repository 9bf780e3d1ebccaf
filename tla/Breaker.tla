------------------------------ MODULE Breaker ------------------------------
(***************************************************************************)
(* core/breaker: one circuit breaker, the calls that go through it, and    *)
(* the window of its last errors.  The breaker decides by the successes    *)
(* and failures of the last Size intervals, which RollingWindow keeps for  *)
(* it as EventWindow promises.                                             *)
(*                                                                         *)
(* The decision is made before the call, the mark after it; a reason is    *)
(* written to the error window before the failure is marked, each under a  *)
(* lock of its own.                                                        *)
(***************************************************************************)
EXTENDS EventWindow, Sequences, FiniteSets

CONSTANTS Caller,
          Reason,     \* texts of errors
          Protection, \* calls that are let through whatever comes of them; 5 in the code
          MaxReasons, \* numHistoryReasons, 5 in the code
          NoReason

ASSUME BreakerAssumption ==
    /\ Protection \in Nat /\ MaxReasons \in Nat \ {0} /\ NoReason \notin Reason

VARIABLES call,   \* call[c]: what the goroutine c is about
          errWin,
          recent, \* the last reasons that were added, newest first
          lastFailure, \* intervals since a failure was marked, Size for never or long ago
          loud         \* a failure that had a reason has been marked

breakerVars == <<events, call, errWin, recent, lastFailure, loud>>

Index == 0 .. MaxReasons - 1

BreakerTypeOK ==
    /\ EventsTypeOK
    /\ call \in [Caller -> {"idle", "dropped", "running", "failing"}]
    /\ errWin \in [reasons : [Index -> Reason \cup {NoReason}], index : Index, count : 0 .. MaxReasons]
    /\ recent \in UNION {[1 .. n -> Reason] : n \in 0 .. MaxReasons}
    /\ lastFailure \in 0 .. Size
    /\ loud \in BOOLEAN

BreakerInit ==
    /\ EventsInit
    /\ call = [c \in Caller |-> "idle"]
    /\ errWin = [reasons |-> [i \in Index |-> NoReason], index |-> 0, count |-> 0]
    /\ recent = <<>>
    /\ lastFailure = Size
    /\ loud = FALSE

\* What the window sums up, counted one by one.
total == Cardinality({e \in Ages \X (1 .. MaxCount) : e[2] <= events[e[1]].count})
accepts == Cardinality({e \in Ages \X (1 .. MaxCount) : e[2] <= events[e[1]].sum})

\* dropRatio > 0, with k = 3/2: the call may be dropped, or else be made.
Droppable == total - Protection > (3 * accepts) \div 2
-----------------------------------------------------------------------------
Time ==
    /\ Tick
    /\ lastFailure' = IF lastFailure < Size THEN lastFailure + 1 ELSE Size
    /\ UNCHANGED <<call, errWin, recent, loud>>

Proceed(c, pc) == call' = [call EXCEPT ![c] = pc]

\* A fallback is called instead of the request, or the error returned.
Drop(c) ==
    /\ call[c] \in {"idle", "dropped"}
    /\ Droppable
    /\ Proceed(c, "dropped")
    /\ UNCHANGED <<events, errWin, recent, lastFailure, loud>>

Admit(c) ==
    /\ call[c] \in {"idle", "dropped"}
    /\ Proceed(c, "running")
    /\ UNCHANGED <<events, errWin, recent, lastFailure, loud>>

markSuccess(c) ==
    /\ call[c] = "running"
    /\ Record(1)
    /\ Proceed(c, "idle")
    /\ UNCHANGED <<errWin, recent, lastFailure, loud>>

\* Mutant: the ring starts with the second place.
AddSkips(reason) ==
    errWin' = [reasons |-> [errWin.reasons EXCEPT ![(errWin.index + 1) % MaxReasons] = reason],
               index |-> (errWin.index + 1) % MaxReasons,
               count |-> IF errWin.count < MaxReasons THEN errWin.count + 1 ELSE MaxReasons]

add(reason) ==
    errWin' = [reasons |-> [errWin.reasons EXCEPT ![errWin.index] = reason],
               index |-> (errWin.index + 1) % MaxReasons,
               count |-> IF errWin.count < MaxReasons THEN errWin.count + 1 ELSE MaxReasons]

\* What logError prints: the reasons in reverse order.
String == [i \in 1 .. errWin.count |-> errWin.reasons[(errWin.index - i) % MaxReasons]]

\* The call, or the owner of the promise, fails with an error that is not acceptable.
FailsWith(c, reason) ==
    /\ call[c] = "running"
    /\ add(reason)
    /\ recent' = SubSeq(<<reason>> \o recent, 1, IF Len(recent) < MaxReasons THEN Len(recent) + 1
                                                 ELSE MaxReasons)
    /\ Proceed(c, "failing")
    /\ UNCHANGED <<events, lastFailure, loud>>

\* A failure with a reason is marked when the reason has been added; a panic and a
\* nil error that is not acceptable have none.
markFailure(c) ==
    /\ call[c] \in {"running", "failing"}
    /\ Record(0)
    /\ lastFailure' = 0
    /\ loud' = (loud \/ call[c] = "failing")
    /\ Proceed(c, "idle")
    /\ UNCHANGED <<errWin, recent>>

BreakerNext ==
    \/ Time
    \/ \E c \in Caller :
           \/ Drop(c) \/ Admit(c) \/ markSuccess(c) \/ markFailure(c)
           \/ \E reason \in Reason : FailsWith(c, reason)

\* Time passes.
BreakerFairness == WF_breakerVars(Time)

BreakerSpec == BreakerInit /\ [][BreakerNext]_breakerVars /\ BreakerFairness
-----------------------------------------------------------------------------
\* A service that answers well is never cut off, however many calls it gets.
DropNeedsFailure == Droppable => lastFailure < Size

\* The message about dropped calls lists the last reasons, newest first.
LastReasonsFirst == String = recent

\* When it has no reason to show, no failure that came with a reason has been marked:
\* all there were are panics and nil errors that the caller did not accept.  (The
\* comment at breaker.go:181 rules out an empty error window altogether.)
EmptyWindowIsSilent == Droppable /\ String = <<>> => ~loud

(***************************************************************************)
(* Calls are dropped only after failures within the window, and what is    *)
(* said about it is up to date: the last reasons in the right order, none  *)
(* of them added after its failure has had its effect.                     *)
(***************************************************************************)
FailuresExplainDrops ==
    /\ BreakerTypeOK
    /\ DropNeedsFailure
    /\ LastReasonsFirst
    /\ EmptyWindowIsSilent

(***************************************************************************)
(* Once calls no longer fail, the breaker stops dropping them for good:    *)
(* either there are failures time and again, or no call may be dropped.    *)
(***************************************************************************)
BreakerCloses == []<>(lastFailure = 0) \/ <>[](lastFailure # 0 /\ ~Droppable)
=============================================================================
