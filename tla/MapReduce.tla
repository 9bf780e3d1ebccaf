----------------------------- MODULE MapReduce -----------------------------
(***************************************************************************)
(* core/mr/mapreducer.go: one call of MapReduce or of ForEach, as the      *)
(* goroutines it starts and the channels between them.  What the callers'  *)
(* functions do is open: the generator sends any items, a mapper writes    *)
(* one value or none, the reducer reads, stops early, and writes any       *)
(* number of values; each may panic, and mapper and reducer may cancel.    *)
(*                                                                         *)
(* source is closed when the generator has ended, the collector when the   *)
(* dispatcher has waited for its mappers, done and output when the call is *)
(* finished.  Only the collector has a buffer.                             *)
(***************************************************************************)
EXTENDS Naturals, FiniteSets

CONSTANTS Item,       \* what the generator may send; each is mapped by a goroutine
          MaxWorkers, \* bound: workers a caller may ask for
          MaxOutputs, \* bound: values the reducer writes
          None        \* nothing is offered

ASSUME MapReduceAssumption ==
    /\ IsFiniteSet(Item)
    /\ MaxWorkers \in Nat \ {0}
    /\ MaxOutputs \in Nat
    /\ None \notin Item
    /\ Item \cap {"caller", "generator", "dispatcher", "reducer", "nobody", "over"} = {}

VARIABLES mode,     \* "MapReduce" or "ForEach"
          workers,  \* options.workers
          expired,  \* options.ctx is done
          pc,       \* where each goroutine is
          offered,  \* the item the generator is sending
          sent,     \* items that were received from source
          wrote,    \* items whose mapper sends a value or has sent it
          buffer,   \* values in the collector, named by their item
          reduced,  \* values the reducer has read
          sawEnd,   \* the reducer has found the collector closed
          outputs,  \* values the reducer sends or has sent, for as long as it may send more
          falling,  \* the reducer has panicked
          failed,   \* a mapper has panicked
          canceller, \* who runs cancel, a sync.Once: "nobody", one of them, or "over"
          finished, \* done and output are closed
          claimed,  \* panicChan has been written to
          result    \* what the caller answers

options == <<mode, workers>>
source == <<offered, sent>>
pipe == <<wrote, buffer, reduced, sawEnd>>
reducing == <<outputs, falling>>
ending == <<failed, canceller, finished, claimed>>
vars == <<options, expired, pc, source, pipe, reducing, ending, result>>

Goroutine == Item \cup {"caller", "generator", "dispatcher", "reducer"}

Place == {"idle", "run", "read", "send", "loop", "select", "receive", "wait", "drain",
          "cancel", "drainSource", "load", "drainOutput", "defer", "tell", "finish",
          "ended", "returned", "panicked"}

TypeOK ==
    /\ mode \in {"MapReduce", "ForEach"}
    /\ workers \in 1..MaxWorkers
    /\ pc \in [Goroutine -> Place]
    /\ offered \in Item \cup {None}
    /\ UNION {sent, wrote, buffer, reduced} \subseteq Item
    /\ Cardinality(buffer) <= workers
    /\ outputs \in 0..MaxOutputs
    /\ {expired, sawEnd, falling, failed, finished, claimed} \subseteq BOOLEAN
    /\ canceller \in Goroutine \cup {"nobody", "over"}
    /\ result \in {"none", "value", "error", "noOutput", "deadline"}

Init ==
    /\ mode \in {"MapReduce", "ForEach"}
    /\ workers \in 1..MaxWorkers
    /\ pc = [g \in Goroutine |->
               IF g \in Item THEN "idle"
               ELSE IF g = "caller" THEN "select"
               ELSE IF g = "dispatcher" THEN "loop"
               ELSE IF g = "reducer" /\ mode = "ForEach" THEN "ended" ELSE "run"]
    /\ offered = None
    /\ sent = {} /\ wrote = {} /\ buffer = {} /\ reduced = {}
    /\ outputs = 0
    /\ expired = FALSE /\ sawEnd = FALSE /\ falling = FALSE
    /\ failed = FALSE /\ finished = FALSE /\ claimed = FALSE
    /\ canceller = "nobody"
    /\ result = "none"

Move(g, place) == pc' = [pc EXCEPT ![g] = place]
Step(g, from, to) == pc[g] = from /\ Move(g, to)

Closed(channel) ==
    \/ channel = "source" /\ pc["generator"] = "ended"
    \/ channel = "collector" /\ pc["dispatcher"] \in {"drain", "ended"}

\* The deadline has passed.
Expire ==
    /\ ~expired
    /\ expired' = TRUE
    /\ UNCHANGED <<options, pc, source, pipe, reducing, ending, result>>
-----------------------------------------------------------------------------
(* buildSource *)

\* The generator sends its items in some order; which one does not matter.
NextItem == CHOOSE i \in Item : i \notin sent

Generate ==
    /\ \/ Step("generator", "run", "send") /\ Item # sent /\ offered' = NextItem
       \/ Step("generator", "run", "ended") /\ UNCHANGED offered
    /\ UNCHANGED <<options, expired, sent, pipe, reducing, ending, result>>

\* A receive from source by g, which goes on at place.
ReceiveSource(g, place) ==
    /\ pc["generator"] = "send"
    /\ pc' = [pc EXCEPT !["generator"] = "run", ![g] = place]
    /\ sent' = sent \cup {offered}
    /\ offered' = None
-----------------------------------------------------------------------------
(* onceChan: the first panic is told to the caller, later ones are dropped. *)

\* Mutant: a reducer that has panicked does not finish the call.
RecoveredUnfinished(g) == "ended"

\* Where a goroutine goes on after its panic has been told.
Recovered(g) == IF g = "reducer" THEN "finish" ELSE "ended"

WritePanic(g, from) ==
    /\ pc[g] = from
    /\ Move(g, IF claimed THEN Recovered(g) ELSE "tell")
    /\ claimed' = TRUE
    /\ failed' = (failed \/ g \in Item)
    /\ UNCHANGED <<options, expired, source, pipe, reducing, canceller, finished, result>>

(* cancel: its first caller drains the source and finishes, the others wait. *)

Resumed(g) == IF g = "caller" THEN "defer" ELSE "run"

BeginCancel(g, from) ==
    /\ pc[g] = from
    /\ canceller' = IF canceller = "nobody" THEN g ELSE canceller
    /\ Move(g, IF canceller = "nobody" THEN "drainSource"
               ELSE IF canceller = "over" THEN Resumed(g) ELSE "cancel")
    /\ UNCHANGED <<options, expired, source, pipe, reducing, failed, finished, claimed>>

AwaitCancel(g) ==
    /\ canceller = "over"
    /\ Step(g, "cancel", Resumed(g))
    /\ UNCHANGED <<options, expired, source, pipe, reducing, ending, result>>

Cancel(g) ==
    /\ pc[g] = "drainSource"
    /\ \/ /\ ReceiveSource(g, "drainSource")
          /\ UNCHANGED <<canceller, finished>>
       \/ /\ Closed("source")
          /\ Move(g, Resumed(g))
          /\ finished' = TRUE
          /\ canceller' = "over"
          /\ UNCHANGED source
    /\ UNCHANGED <<options, expired, pipe, reducing, failed, claimed, result>>
-----------------------------------------------------------------------------
(* executeMappers *)

Running == {i \in Item : pc[i] \notin {"idle", "ended"}}

\* The loop ends when a mapper has failed.
DispatchLoop ==
    /\ pc["dispatcher"] = "loop"
    /\ Move("dispatcher", IF failed THEN "wait" ELSE "select")
    /\ UNCHANGED <<options, expired, source, pipe, reducing, ending, result>>

\* Mutant: no place in the pool is needed.
DispatchSelectUnpooled ==
    /\ pc["dispatcher"] = "select"
    /\ Move("dispatcher", IF expired \/ finished THEN "wait" ELSE "receive")
    /\ UNCHANGED <<options, expired, source, pipe, reducing, ending, result>>

\* The select takes any case that is ready: the pool, too, when the call is
\* finished, and one more item although a mapper has failed meanwhile.
DispatchSelect ==
    /\ pc["dispatcher"] = "select"
    /\ \/ (expired \/ finished) /\ Move("dispatcher", "wait")
       \/ Cardinality(Running) < workers /\ Move("dispatcher", "receive")
    /\ UNCHANGED <<options, expired, source, pipe, reducing, ending, result>>

\* An item starts a mapper, which takes over the place in the pool.
DispatchReceive ==
    /\ pc["dispatcher"] = "receive"
    /\ \/ /\ pc["generator"] = "send"
          /\ pc' = [pc EXCEPT !["generator"] = "run", !["dispatcher"] = "loop", ![offered] = "run"]
          /\ sent' = sent \cup {offered}
          /\ offered' = None
       \/ Closed("source") /\ Move("dispatcher", "wait") /\ UNCHANGED source
    /\ UNCHANGED <<options, expired, pipe, reducing, ending, result>>

\* Mutant: the collector is closed while mappers are at work.
DispatchCloseEarly ==
    /\ pc["dispatcher"] = "wait"
    /\ Move("dispatcher", "drain")
    /\ UNCHANGED <<options, expired, source, pipe, reducing, ending, result>>

\* Closes the collector when all mappers have ended.
DispatchClose ==
    /\ pc["dispatcher"] = "wait" /\ Running = {}
    /\ Move("dispatcher", "drain")
    /\ UNCHANGED <<options, expired, source, pipe, reducing, ending, result>>

\* Mutant: what the generator still sends is not received.
DispatchNoDrain ==
    /\ Step("dispatcher", "drain", "ended")
    /\ UNCHANGED <<options, expired, source, pipe, reducing, ending, result>>

\* Takes what the generator still sends.
DispatchDrain ==
    /\ pc["dispatcher"] = "drain"
    /\ \/ ReceiveSource("dispatcher", "drain")
       \/ Closed("source") /\ Move("dispatcher", "ended") /\ UNCHANGED source
    /\ UNCHANGED <<options, expired, pipe, reducing, ending, result>>

Dispatch == DispatchLoop \/ DispatchSelect \/ DispatchReceive \/ DispatchClose \/ DispatchDrain
-----------------------------------------------------------------------------
\* guardedWriter.Write looks whether the call is over.  If so it does nothing,
\* else it sends, and does not look again while it waits.
Write(g) == ~expired /\ ~finished /\ Step(g, "run", "send")

(* The mapper of item i.  The mapper of a ForEach has no writer and no cancel. *)

Map(i) ==
    /\ \/ Step(i, "run", "ended") /\ UNCHANGED wrote
       \/ /\ mode = "MapReduce" /\ i \notin wrote
          /\ Write(i)
          /\ wrote' = wrote \cup {i}
    /\ UNCHANGED <<options, expired, source, buffer, reduced, sawEnd, reducing, ending, result>>

\* The send waits while the collector is full.
MapSend(i) ==
    /\ Step(i, "send", "run")
    /\ Cardinality(buffer) < workers
    /\ buffer' = buffer \cup {i}
    /\ UNCHANGED <<options, expired, source, wrote, reduced, sawEnd, reducing, ending, result>>

MapCancel(i) == mode = "MapReduce" /\ BeginCancel(i, "run") /\ UNCHANGED result

Mapper(i) ==
    \/ Map(i) \/ MapSend(i) \/ WritePanic(i, "run")
    \/ MapCancel(i) \/ Cancel(i) \/ AwaitCancel(i)
-----------------------------------------------------------------------------
(* The reducer's goroutine *)

Reduce ==
    /\ \/ Step("reducer", "run", "read") /\ ~sawEnd /\ UNCHANGED reducing
       \/ Write("reducer") /\ outputs < MaxOutputs /\ outputs' = outputs + 1 /\ UNCHANGED falling
       \/ Step("reducer", "run", "drain") /\ falling' \in BOOLEAN /\ outputs' = 0
    /\ UNCHANGED <<options, expired, source, pipe, ending, result>>

\* A receive from the collector waits for a value or for the end.
ReduceRead ==
    /\ Step("reducer", "read", "run")
    /\ \/ \E i \in buffer : buffer' = buffer \ {i} /\ reduced' = reduced \cup {i} /\ UNCHANGED sawEnd
       \/ buffer = {} /\ Closed("collector") /\ sawEnd' = TRUE /\ UNCHANGED <<buffer, reduced>>
    /\ UNCHANGED <<options, expired, source, wrote, reducing, ending, result>>

\* A send on output panics when output is closed, also one that was waiting.
ReduceSendFails ==
    /\ finished
    /\ Step("reducer", "send", "drain")
    /\ falling' = TRUE /\ outputs' = 0
    /\ UNCHANGED <<options, expired, source, pipe, ending, result>>

ReduceCancel == BeginCancel("reducer", "run") /\ UNCHANGED result

\* drain(collector), and then what is left of a panic.
ReduceDrain ==
    /\ pc["reducer"] = "drain"
    /\ \E i \in buffer : buffer' = buffer \ {i}
    /\ UNCHANGED <<options, expired, pc, source, wrote, reduced, sawEnd, reducing, ending, result>>

Drained == buffer = {} /\ Closed("collector")

ReduceTells == Drained /\ falling /\ WritePanic("reducer", "drain")

ReduceFinish ==
    /\ \/ Drained /\ ~falling /\ Step("reducer", "drain", "ended")
       \/ Step("reducer", "finish", "ended")
    /\ finished' = TRUE
    /\ UNCHANGED <<options, expired, source, pipe, reducing, failed, canceller, claimed, result>>

Reducer ==
    \/ Reduce \/ ReduceRead \/ ReduceSendFails
    \/ ReduceCancel \/ Cancel("reducer") \/ AwaitCancel("reducer")
    \/ ReduceDrain \/ ReduceTells \/ ReduceFinish
-----------------------------------------------------------------------------
(* The caller: mapReduceWithPanicChan and ForEach *)

CallerExpires ==
    /\ mode = "MapReduce" /\ expired
    /\ BeginCancel("caller", "select")
    /\ result' = "deadline"

\* A MapReduce lets the call finish before it panics, a ForEach panics at once.
CallerHearsPanic(g) ==
    /\ pc["caller"] = "select" /\ pc[g] = "tell"
    /\ pc' = [pc EXCEPT ![g] = Recovered(g),
                        !["caller"] = IF mode = "MapReduce" THEN "drainOutput" ELSE "panicked"]
    /\ UNCHANGED <<options, expired, source, pipe, reducing, ending, result>>

Cancelled == canceller # "nobody"

\* The reducer's value is received by the caller, which goes on at place.
ReceiveOutput(place) ==
    /\ pc["reducer"] = "send" /\ ~finished
    /\ pc' = [pc EXCEPT !["reducer"] = "run", !["caller"] = place]

CallerHasOutput ==
    /\ pc["caller"] = "select"
    /\ ReceiveOutput("load")
    /\ result' = "value"
    /\ UNCHANGED <<options, expired, source, pipe, reducing, ending>>

CallerHasNone ==
    /\ finished
    /\ Step("caller", "select", "load")
    /\ result' = "noOutput"
    /\ UNCHANGED <<options, expired, source, pipe, reducing, ending>>

\* Mutant: the error is not looked at.
CallerIgnoresError ==
    /\ Step("caller", "load", "defer")
    /\ UNCHANGED <<options, expired, source, pipe, reducing, ending, result>>

\* The error of a cancel that has begun by now takes the place of the output.
CallerLoadsError ==
    /\ Step("caller", "load", "defer")
    /\ result' = IF Cancelled THEN "error" ELSE result
    /\ UNCHANGED <<options, expired, source, pipe, reducing, ending>>

\* The deferred loop over output: a second value panics.
CallerDefers ==
    /\ pc["caller"] = "defer"
    /\ \/ ReceiveOutput("panicked")
       \/ finished /\ Move("caller", "returned")
    /\ UNCHANGED <<options, expired, source, pipe, reducing, ending, result>>

CallerDrainsOutput ==
    /\ pc["caller"] = "drainOutput"
    /\ \/ ReceiveOutput("drainOutput")
       \/ finished /\ Move("caller", "panicked")
    /\ UNCHANGED <<options, expired, source, pipe, reducing, ending, result>>

ForEachReturns ==
    /\ mode = "ForEach" /\ Closed("collector")
    /\ Step("caller", "select", "returned")
    /\ UNCHANGED <<options, expired, source, pipe, reducing, ending, result>>

Caller ==
    \/ CallerExpires \/ Cancel("caller") \/ AwaitCancel("caller")
    \/ \E g \in Goroutine : CallerHearsPanic(g)
    \/ CallerHasOutput \/ CallerHasNone \/ CallerLoadsError \/ CallerDefers \/ CallerDrainsOutput
    \/ ForEachReturns

Generator == Generate \/ WritePanic("generator", "run")

Next ==
    \/ Expire
    \/ Generator \/ Dispatch \/ Reducer \/ Caller
    \/ \E i \in Item : Mapper(i)

Spec == Init /\ [][Next]_vars

\* Goroutines that can run do, and the callers' functions come to an end.
Fairness ==
    /\ WF_vars(Generator) /\ WF_vars(Dispatch) /\ WF_vars(Reducer) /\ WF_vars(Caller)
    /\ \A i \in Item : WF_vars(Mapper(i))

FairSpec == Spec /\ Fairness
-----------------------------------------------------------------------------
Answered == pc["caller"] \in {"returned", "panicked"}
Unheard == \E g \in Goroutine : pc[g] = "tell" /\ pc["caller"] # "select"
Unread == pc["reducer"] = "send" /\ pc["caller"] = "panicked" /\ ~finished

(***************************************************************************)
(* A reader that has found the collector closed has had everything: unless *)
(* the call was cancelled, ran out of time or a mapper panicked, all items *)
(* that were taken from the source are mapped and all written values read. *)
(***************************************************************************)
EndMeansAll ==
    /\ sawEnd \/ (mode = "ForEach" /\ pc["caller"] = "returned")
    /\ ~Cancelled /\ ~expired /\ ~failed
    => \A i \in sent : pc[i] = "ended" /\ (i \in wrote => i \in reduced)

(***************************************************************************)
(* A cancelled call says so.  It never answers that there was no output,   *)
(* and a value is an answer only when the cancel came after it: nobody     *)
(* finishes such a call before its error is kept.                          *)
(***************************************************************************)
CancelIsReported ==
    pc["caller"] \in {"defer", "returned"} /\ result = "noOutput" => ~Cancelled

(***************************************************************************)
(* No more mappers run at once than the caller has workers, and the        *)
(* collector never holds more values than it has room for.                 *)
(***************************************************************************)
WithinWorkers == TypeOK /\ Cardinality(Running) <= workers

(***************************************************************************)
(* The caller gets its answer, whatever is cancelled, runs out of time or  *)
(* panics, with one exception: when a goroutine panics and the caller of a *)
(* MapReduce does not listen to panicChan any more, both may wait for ever *)
(* (the reducer has written early, and then a mapper panics).              *)
(***************************************************************************)
CallerAnswers == <>(Answered \/ (mode = "MapReduce" /\ Unheard))

(***************************************************************************)
(* No goroutine is left behind by a call, a ForEach's too, with two        *)
(* exceptions: one may tell a panic to a caller that does not listen any   *)
(* more, and a reducer that writes once more after its second value has    *)
(* made the caller panic has nobody who reads it, unless somebody cancels  *)
(* (those who wait for the reducer stay with it).                          *)
(***************************************************************************)
NobodyIsLeft ==
    <>[](Unheard \/ Unread \/ \A g \in Goroutine \ {"caller"} : pc[g] \in {"idle", "ended"})
=============================================================================
