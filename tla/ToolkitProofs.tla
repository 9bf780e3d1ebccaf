---------------------------- MODULE ToolkitProofs -----------------------------
(***************************************************************************)
(* Proofs about the packages of core that stand by themselves: map-reduce, *)
(* single flight with the resource manager, the consistent hash, the trie  *)
(* of keywords and the mapping of a map to a struct.                       *)
(***************************************************************************)
EXTENDS MapReduce, Resources, ConsistentHash, KeywordTrie, Mapping,
        FiniteSetTheorems, SequenceTheorems, WellFoundedInduction, NaturalsInduction, TLAPS
-----------------------------------------------------------------------------
(***************************************************************************)
(* Proofs about one call of MapReduce or of ForEach, for any number of     *)
(* items and of workers.                                                   *)
(***************************************************************************)

(* The invariant.  What has been read when the end is found, and whether a   *)
(* cancel is reported, follow from the order in which the goroutines end:    *)
(* mappers before the dispatcher closes the collector, the collector before  *)
(* the reducer, and the reducer before a call that nobody cancels.           *)

\* Where each goroutine can be, and what the generator offers.
Places ==
    /\ \A i \in Item : pc[i] \in {"idle", "run", "send", "cancel", "drainSource", "tell", "ended"}
    /\ pc["caller"] \in {"select", "load", "defer", "drainOutput", "cancel", "drainSource",
                         "returned", "panicked"}
    /\ pc["generator"] \in {"run", "send", "tell", "ended"}
    /\ pc["dispatcher"] \in {"loop", "select", "receive", "wait", "drain", "ended"}
    /\ pc["reducer"] \in {"run", "read", "send", "cancel", "drainSource", "drain", "tell",
                          "finish", "ended"}
    /\ pc["generator"] = "send" => offered \in Item \ sent
    /\ \A i \in Item \ sent : pc[i] = "idle"

\* A ForEach has no reducer, no writers and no cancel.
NoReducer ==
    mode = "ForEach" =>
        /\ pc["reducer"] = "ended" /\ wrote = {} /\ ~finished /\ ~Cancelled
        /\ pc["caller"] \in {"select", "returned", "panicked"}
        /\ pc["caller"] = "returned" => Closed("collector")

\* Mappers end before the collector is closed, and that before the reducer ends;
\* a call that nobody cancels is finished by its reducer.
EndInOrder ==
    /\ Closed("collector") => \A i \in Item : pc[i] \in {"idle", "ended"}
    /\ sawEnd => Closed("collector")
    /\ mode = "MapReduce" /\ pc["reducer"] \in {"tell", "finish", "ended"} => Closed("collector")
    /\ finished /\ ~Cancelled => pc["reducer"] = "ended" /\ mode = "MapReduce"
    /\ \A g \in Goroutine : pc[g] \in {"cancel", "drainSource"} => Cancelled

\* "No output" is the answer only of a call that is finished, and the caller does
\* not change a deadline.
Answers ==
    /\ result = "noOutput" => finished
    /\ pc["caller"] \in {"cancel", "drainSource"} => result = "deadline"

\* Without a cancel, a deadline and a panic of a mapper, the dispatcher stops only for
\* the end of the source or of the call, and an item that is taken is mapped.
Undisturbed == ~Cancelled /\ ~expired /\ ~failed

AllTaken ==
    Undisturbed =>
        /\ pc["dispatcher"] \in {"wait", "drain", "ended"} => finished \/ Closed("source")
        /\ sawEnd => Closed("source")
        /\ ~finished \/ sawEnd => \A i \in sent : pc[i] # "idle"

\* A value is on its way, in the collector or read, until the reducer stops reading.
NothingLost ==
    /\ pc["reducer"] \in {"run", "read", "send", "cancel", "drainSource"}
          => \A i \in wrote : pc[i] = "send" \/ i \in buffer \/ i \in reduced
    /\ sawEnd => wrote \subseteq reduced /\ buffer = {}

\* The dispatcher takes a place in the pool before it takes an item.
PoolHolds ==
    /\ Cardinality(Running) <= workers
    /\ pc["dispatcher"] = "receive" => Cardinality(Running) < workers

CallInv ==
    /\ TypeOK /\ Places /\ NoReducer /\ EndInOrder /\ Answers /\ CancelIsReported
    /\ AllTaken /\ NothingLost /\ PoolHolds
-----------------------------------------------------------------------------
(* Steps that several goroutines take *)

LEMMA Tags ==
    /\ "caller" \notin Item /\ "generator" \notin Item /\ "dispatcher" \notin Item
    /\ "reducer" \notin Item /\ "nobody" \notin Item /\ "over" \notin Item
  BY MapReduceAssumption

LEMMA NextItemIsNew == TypeOK /\ Item # sent => NextItem \in Item \ sent
  BY DEF TypeOK, NextItem

\* The pool when no mapper starts.
LEMMA PoolKept ==
    ASSUME PoolHolds, TypeOK, Running' \subseteq Running, UNCHANGED workers,
           pc'["dispatcher"] = "receive" => pc["dispatcher"] = "receive" \/ Cardinality(Running) < workers
    PROVE  PoolHolds'
<1>1. IsFiniteSet(Running)
  BY MapReduceAssumption, FS_Subset DEF Running
<1>2. Cardinality(Running') <= Cardinality(Running) /\ IsFiniteSet(Running')
  BY <1>1, FS_Subset
<1>3. Cardinality(Running) \in Nat /\ Cardinality(Running') \in Nat
  BY <1>1, <1>2, FS_CardinalityType
<1> QED
  BY <1>2, <1>3 DEF PoolHolds, TypeOK

\* The generator's item may be anyone's, and offers nothing more.
LEMMA Received ==
    ASSUME CallInv, NEW g \in Goroutine \ {"generator"}, NEW place \in Place, ReceiveSource(g, place)
    PROVE  /\ pc' = [pc EXCEPT !["generator"] = "run", ![g] = place]
           /\ sent' = sent \cup {offered} /\ offered' = None
           /\ offered \in Item \ sent /\ pc["generator"] = "send"
  BY DEF CallInv, Places, ReceiveSource

-----------------------------------------------------------------------------
(* A step of the call, and who takes it: g panics, or runs cancel *)

Panics(g) == (g \in Item \cup {"generator"} /\ WritePanic(g, "run")) \/ (g = "reducer" /\ ReduceTells)

Cancels(g) ==
    (g \in Item /\ MapCancel(g)) \/ (g = "reducer" /\ ReduceCancel) \/ (g = "caller" /\ CallerExpires)

Reduces == Reduce \/ ReduceRead \/ ReduceSendFails \/ ReduceDrain \/ ReduceFinish

CallerGoesOn ==
    \/ CallerHasOutput \/ CallerHasNone \/ CallerLoadsError \/ CallerDefers \/ CallerDrainsOutput
    \/ ForEachReturns

CallStep(g) ==
    \/ Expire \/ Generate \/ Panics(g)
    \/ g \in Item \cup {"caller", "reducer"} /\ (Cancels(g) \/ AwaitCancel(g) \/ Cancel(g))
    \/ DispatchLoop \/ DispatchSelect \/ DispatchClose \/ DispatchReceive \/ DispatchDrain
    \/ \E i \in Item : Map(i) \/ MapSend(i)
    \/ Reduces \/ CallerHearsPanic(g) \/ CallerGoesOn

LEMMA StepIsSomeones == Next => \E g \in Goroutine : CallStep(g)
  BY DEF Next, Generator, Dispatch, Reducer, Caller, Mapper, Goroutine, CallStep, Panics, Cancels,
         Reduces, CallerGoesOn

\* Taking from the collector, and sending to it when there is room.
LEMMA BufferIsFinite ==
    ASSUME CallInv
    PROVE  /\ \A i \in buffer : Cardinality(buffer \ {i}) <= workers
           /\ \A i \in Item : Cardinality(buffer) < workers => Cardinality(buffer \cup {i}) <= workers
           /\ Cardinality(buffer) <= workers
<1>1. IsFiniteSet(buffer) /\ Cardinality(buffer) <= workers /\ workers \in Nat
  BY MapReduceAssumption, FS_Subset DEF CallInv, TypeOK
<1>2. Cardinality(buffer) \in Nat
  BY <1>1, FS_CardinalityType
<1> QED
  BY <1>1, <1>2, FS_AddElement, FS_RemoveElement

LEMMA KeepsTypeOK ==
    ASSUME CallInv, NEW g \in Goroutine, CallStep(g)
    PROVE  TypeOK'
<1> USE Tags DEF CallInv, Places, TypeOK, Place, Goroutine, options, source, pipe, reducing, ending
<1>1. CASE Expire
  BY <1>1 DEF Expire
<1>2. CASE Generate
  BY <1>2, NextItemIsNew DEF Generate, Step, Move
<1>3. CASE Panics(g)
  <2>1. pc' \in [Goroutine -> Place]
    BY <1>3 DEF Panics, ReduceTells, WritePanic, Recovered, Move
  <2>2. failed' \in BOOLEAN /\ claimed' \in BOOLEAN
    BY <1>3 DEF Panics, ReduceTells, WritePanic
  <2>3. UNCHANGED <<options, expired, source, pipe, reducing, canceller, finished, result>>
    BY <1>3 DEF Panics, ReduceTells, WritePanic
  <2> QED
    BY <2>1, <2>2, <2>3
<1>4. CASE g \in Item \cup {"caller", "reducer"} /\ Cancels(g)
  BY <1>4 DEF Cancels, MapCancel, ReduceCancel, CallerExpires, BeginCancel, Resumed, Move
<1>5. CASE g \in Item \cup {"caller", "reducer"} /\ (AwaitCancel(g) \/ Cancel(g))
  <2>1. CASE g \in Item \cup {"caller", "reducer"} /\ AwaitCancel(g)
    BY <2>1 DEF AwaitCancel, Resumed, Step, Move
  <2>2. CASE g \in Item \cup {"caller", "reducer"} /\ Cancel(g)
    <3>1. pc' \in [Goroutine -> Place]
      BY <2>2 DEF Cancel, ReceiveSource, Resumed, Move
    <3>2. sent' \subseteq Item /\ offered' \in Item \cup {None}
      BY <2>2 DEF Cancel, ReceiveSource
    <3>3. finished' \in BOOLEAN /\ canceller' \in Goroutine \cup {"nobody", "over"}
      BY <2>2 DEF Cancel
    <3>4. UNCHANGED <<options, expired, pipe, reducing, failed, claimed, result>>
      BY <2>2 DEF Cancel
    <3> QED
      BY <3>1, <3>2, <3>3, <3>4
  <2> QED
    BY <1>5, <2>1, <2>2
<1>6. CASE DispatchLoop \/ DispatchSelect \/ DispatchClose
  BY <1>6 DEF DispatchLoop, DispatchSelect, DispatchClose, Move
<1>7. CASE DispatchReceive \/ DispatchDrain
  BY <1>7 DEF DispatchReceive, DispatchDrain, ReceiveSource, Move
<1>8. CASE \E i \in Item : Map(i) \/ MapSend(i)
  <2>1. Cardinality(buffer') <= workers
    BY <1>8, BufferIsFinite DEF Map, MapSend
  <2> QED
    BY <1>8, <2>1 DEF Map, MapSend, Write, Step, Move
<1>9. CASE Reduces
  <2>1. Cardinality(buffer') <= workers /\ buffer' \subseteq buffer
    BY <1>9, BufferIsFinite DEF Reduces, Reduce, ReduceRead, ReduceSendFails, ReduceDrain, ReduceFinish
  <2>2. pc' \in [Goroutine -> Place]
    BY <1>9 DEF Reduces, Reduce, ReduceRead, ReduceSendFails, ReduceDrain, ReduceFinish, Drained, Write, Step, Move
  <2>3. outputs' \in 0 .. MaxOutputs
    BY <1>9, MapReduceAssumption DEF Reduces, Reduce, ReduceRead, ReduceSendFails, ReduceDrain, ReduceFinish
  <2>4. reduced' \subseteq Item /\ {sawEnd', falling', finished'} \subseteq BOOLEAN
    <3>1. reduced' \subseteq Item
      BY <1>9 DEF Reduces, Reduce, ReduceRead, ReduceSendFails, ReduceDrain, ReduceFinish
    <3>2. sawEnd' \in BOOLEAN
      BY <1>9 DEF Reduces, Reduce, ReduceRead, ReduceSendFails, ReduceDrain, ReduceFinish
    <3>3. falling' \in BOOLEAN /\ finished' \in BOOLEAN
      BY <1>9 DEF Reduces, Reduce, ReduceRead, ReduceSendFails, ReduceDrain, ReduceFinish
    <3> QED
      BY <3>1, <3>2, <3>3
  <2>5. UNCHANGED <<options, expired, source, wrote, failed, canceller, claimed, result>>
    BY <1>9 DEF Reduces, Reduce, ReduceRead, ReduceSendFails, ReduceDrain, ReduceFinish
  <2> QED
    BY <2>1, <2>2, <2>3, <2>4, <2>5
<1>10. CASE CallerHearsPanic(g)
  BY <1>10 DEF CallerHearsPanic, Recovered
<1>11. CASE CallerGoesOn
  BY <1>11 DEF CallerGoesOn, CallerHasOutput, CallerHasNone, CallerLoadsError, CallerDefers, CallerDrainsOutput, ForEachReturns, ReceiveOutput, Step, Move
<1> QED
  BY <1>1, <1>2, <1>3, <1>4, <1>5, <1>6, <1>7, <1>8, <1>9, <1>10, <1>11 DEF CallStep

LEMMA KeepsPlaces ==
    ASSUME CallInv, NEW g \in Goroutine, CallStep(g)
    PROVE  Places'
<1> USE Tags DEF CallInv, TypeOK, Goroutine, Places, options, source, pipe, reducing, ending
<1>1. CASE Expire
  BY <1>1 DEF Expire
<1>2. CASE Generate
  BY <1>2, NextItemIsNew DEF Generate, Step, Move
<1>3. CASE Panics(g)
  BY <1>3 DEF Panics, ReduceTells, WritePanic, Drained, Recovered, Move
<1>4. CASE g \in Item \cup {"caller", "reducer"} /\ Cancels(g)
  BY <1>4 DEF Cancels, MapCancel, ReduceCancel, CallerExpires, BeginCancel, Resumed, Move
<1>5. CASE g \in Item \cup {"caller", "reducer"} /\ (AwaitCancel(g) \/ Cancel(g))
  BY <1>5 DEF AwaitCancel, Cancel, ReceiveSource, Resumed, Step, Move
<1>6. CASE DispatchLoop \/ DispatchSelect \/ DispatchClose
  BY <1>6 DEF DispatchLoop, DispatchSelect, DispatchClose, Move
<1>7. CASE DispatchReceive \/ DispatchDrain
  BY <1>7 DEF DispatchReceive, DispatchDrain, ReceiveSource, Move
<1>8. CASE \E i \in Item : Map(i) \/ MapSend(i)
  BY <1>8 DEF Map, MapSend, Write, Step, Move
<1>9. CASE Reduces
  BY <1>9 DEF Reduces, Reduce, ReduceRead, ReduceSendFails, ReduceDrain, ReduceFinish, Drained, Write, Step, Move
<1>10. CASE CallerHearsPanic(g)
  BY <1>10 DEF CallerHearsPanic, Recovered
<1>11. CASE CallerGoesOn
  BY <1>11 DEF CallerGoesOn, CallerHasOutput, CallerHasNone, CallerLoadsError, CallerDefers, CallerDrainsOutput, ForEachReturns, ReceiveOutput, Step, Move
<1> QED
  BY <1>1, <1>2, <1>3, <1>4, <1>5, <1>6, <1>7, <1>8, <1>9, <1>10, <1>11 DEF CallStep

LEMMA KeepsNoReducer ==
    ASSUME CallInv, NEW g \in Goroutine, CallStep(g)
    PROVE  NoReducer'
<1> USE Tags DEF CallInv, TypeOK, Goroutine, Places, NoReducer, EndInOrder, Closed, Cancelled, options, source, pipe, reducing, ending
<1>1. CASE Expire
  BY <1>1 DEF Expire
<1>2. CASE Generate
  BY <1>2, NextItemIsNew DEF Generate, Step, Move
<1>3. CASE Panics(g)
  BY <1>3 DEF Panics, ReduceTells, WritePanic, Drained, Recovered, Move
<1>4. CASE g \in Item \cup {"caller", "reducer"} /\ Cancels(g)
  BY <1>4 DEF Cancels, MapCancel, ReduceCancel, CallerExpires, BeginCancel, Resumed, Move
<1>5. CASE g \in Item \cup {"caller", "reducer"} /\ (AwaitCancel(g) \/ Cancel(g))
  BY <1>5 DEF AwaitCancel, Cancel, ReceiveSource, Resumed, Step, Move
<1>6. CASE DispatchLoop \/ DispatchSelect \/ DispatchClose
  BY <1>6 DEF DispatchLoop, DispatchSelect, DispatchClose, Move
<1>7. CASE DispatchReceive \/ DispatchDrain
  BY <1>7 DEF DispatchReceive, DispatchDrain, ReceiveSource, Move
<1>8. CASE \E i \in Item : Map(i) \/ MapSend(i)
  BY <1>8 DEF Map, MapSend, Write, Step, Move
<1>9. CASE Reduces
  BY <1>9 DEF Reduces, Reduce, ReduceRead, ReduceSendFails, ReduceDrain, ReduceFinish, Drained, Write, Step, Move
<1>10. CASE CallerHearsPanic(g)
  BY <1>10 DEF CallerHearsPanic, Recovered
<1>11. CASE CallerGoesOn
  BY <1>11 DEF CallerGoesOn, CallerHasOutput, CallerHasNone, CallerLoadsError, CallerDefers, CallerDrainsOutput, ForEachReturns, ReceiveOutput, Step, Move
<1> QED
  BY <1>1, <1>2, <1>3, <1>4, <1>5, <1>6, <1>7, <1>8, <1>9, <1>10, <1>11 DEF CallStep

LEMMA KeepsEndInOrder ==
    ASSUME CallInv, NEW g \in Goroutine, CallStep(g)
    PROVE  EndInOrder'
<1> USE Tags DEF CallInv, TypeOK, Goroutine, Places, NoReducer, EndInOrder, Closed, Cancelled, options, source, pipe, reducing, ending
<1>1. CASE Expire
  BY <1>1 DEF Expire
<1>2. CASE Generate
  BY <1>2, NextItemIsNew DEF Generate, Step, Move
<1>3. CASE Panics(g)
  BY <1>3 DEF Panics, ReduceTells, WritePanic, Drained, Recovered, Move
<1>4. CASE g \in Item \cup {"caller", "reducer"} /\ Cancels(g)
  BY <1>4 DEF Cancels, MapCancel, ReduceCancel, CallerExpires, BeginCancel, Resumed, Move
<1>5. CASE g \in Item \cup {"caller", "reducer"} /\ (AwaitCancel(g) \/ Cancel(g))
  BY <1>5 DEF AwaitCancel, Cancel, ReceiveSource, Resumed, Step, Move
<1>6. CASE DispatchLoop \/ DispatchSelect \/ DispatchClose
  <2>1. CASE DispatchLoop \/ DispatchSelect
    BY <2>1 DEF DispatchLoop, DispatchSelect, Move
  <2>2. CASE DispatchClose
    BY <2>2 DEF DispatchClose, Running, Move
  <2> QED
    BY <1>6, <2>1, <2>2
<1>7. CASE DispatchReceive \/ DispatchDrain
  BY <1>7 DEF DispatchReceive, DispatchDrain, ReceiveSource, Move
<1>8. CASE \E i \in Item : Map(i) \/ MapSend(i)
  BY <1>8 DEF Map, MapSend, Write, Step, Move
<1>9. CASE Reduces
  BY <1>9 DEF Reduces, Reduce, ReduceRead, ReduceSendFails, ReduceDrain, ReduceFinish, Drained, Write, Step, Move
<1>10. CASE CallerHearsPanic(g)
  BY <1>10 DEF CallerHearsPanic, Recovered
<1>11. CASE CallerGoesOn
  BY <1>11 DEF CallerGoesOn, CallerHasOutput, CallerHasNone, CallerLoadsError, CallerDefers, CallerDrainsOutput, ForEachReturns, ReceiveOutput, Step, Move
<1> QED
  BY <1>1, <1>2, <1>3, <1>4, <1>5, <1>6, <1>7, <1>8, <1>9, <1>10, <1>11 DEF CallStep

LEMMA KeepsAnswers ==
    ASSUME CallInv, NEW g \in Goroutine, CallStep(g)
    PROVE  Answers' /\ CancelIsReported'
<1> USE Tags DEF CallInv, TypeOK, Goroutine, Places, NoReducer, EndInOrder, Answers, CancelIsReported, Closed, Cancelled, options, source, pipe, reducing, ending
<1>1. CASE Expire
  BY <1>1 DEF Expire
<1>2. CASE Generate
  BY <1>2, NextItemIsNew DEF Generate, Step, Move
<1>3. CASE Panics(g)
  BY <1>3 DEF Panics, ReduceTells, WritePanic, Drained, Recovered, Move
<1>4. CASE g \in Item \cup {"caller", "reducer"} /\ Cancels(g)
  BY <1>4 DEF Cancels, MapCancel, ReduceCancel, CallerExpires, BeginCancel, Resumed, Move
<1>5. CASE g \in Item \cup {"caller", "reducer"} /\ (AwaitCancel(g) \/ Cancel(g))
  BY <1>5 DEF AwaitCancel, Cancel, ReceiveSource, Resumed, Step, Move
<1>6. CASE DispatchLoop \/ DispatchSelect \/ DispatchClose
  BY <1>6 DEF DispatchLoop, DispatchSelect, DispatchClose, Move
<1>7. CASE DispatchReceive \/ DispatchDrain
  BY <1>7 DEF DispatchReceive, DispatchDrain, ReceiveSource, Move
<1>8. CASE \E i \in Item : Map(i) \/ MapSend(i)
  BY <1>8 DEF Map, MapSend, Write, Step, Move
<1>9. CASE Reduces
  BY <1>9 DEF Reduces, Reduce, ReduceRead, ReduceSendFails, ReduceDrain, ReduceFinish, Drained, Write, Step, Move
<1>10. CASE CallerHearsPanic(g)
  BY <1>10 DEF CallerHearsPanic, Recovered
<1>11. CASE CallerGoesOn
  BY <1>11 DEF CallerGoesOn, CallerHasOutput, CallerHasNone, CallerLoadsError, CallerDefers, CallerDrainsOutput, ForEachReturns, ReceiveOutput, Step, Move
<1> QED
  BY <1>1, <1>2, <1>3, <1>4, <1>5, <1>6, <1>7, <1>8, <1>9, <1>10, <1>11 DEF CallStep

LEMMA KeepsAllTaken ==
    ASSUME CallInv, NEW g \in Goroutine, CallStep(g)
    PROVE  AllTaken'
<1> USE Tags DEF CallInv, TypeOK, Goroutine, Places, NoReducer, EndInOrder, AllTaken, Undisturbed, Closed, Cancelled, options, source, pipe, reducing, ending
<1>1. CASE Expire
  BY <1>1 DEF Expire
<1>2. CASE Generate
  BY <1>2, NextItemIsNew DEF Generate, Step, Move
<1>3. CASE Panics(g)
  BY <1>3 DEF Panics, ReduceTells, WritePanic, Drained, Recovered, Move
<1>4. CASE g \in Item \cup {"caller", "reducer"} /\ Cancels(g)
  BY <1>4 DEF Cancels, MapCancel, ReduceCancel, CallerExpires, BeginCancel, Resumed, Move
<1>5. CASE g \in Item \cup {"caller", "reducer"} /\ (AwaitCancel(g) \/ Cancel(g))
  BY <1>5 DEF AwaitCancel, Cancel, ReceiveSource, Resumed, Step, Move
<1>6. CASE DispatchLoop \/ DispatchSelect \/ DispatchClose
  BY <1>6 DEF DispatchLoop, DispatchSelect, DispatchClose, Move
<1>7. CASE DispatchReceive \/ DispatchDrain
  BY <1>7 DEF DispatchReceive, DispatchDrain, ReceiveSource, Move
<1>8. CASE \E i \in Item : Map(i) \/ MapSend(i)
  BY <1>8 DEF Map, MapSend, Write, Step, Move
<1>9. CASE Reduces
  BY <1>9 DEF Reduces, Reduce, ReduceRead, ReduceSendFails, ReduceDrain, ReduceFinish, Drained, Write, Step, Move
<1>10. CASE CallerHearsPanic(g)
  BY <1>10 DEF CallerHearsPanic, Recovered
<1>11. CASE CallerGoesOn
  BY <1>11 DEF CallerGoesOn, CallerHasOutput, CallerHasNone, CallerLoadsError, CallerDefers, CallerDrainsOutput, ForEachReturns, ReceiveOutput, Step, Move
<1> QED
  BY <1>1, <1>2, <1>3, <1>4, <1>5, <1>6, <1>7, <1>8, <1>9, <1>10, <1>11 DEF CallStep

LEMMA KeepsNothingLost ==
    ASSUME CallInv, NEW g \in Goroutine, CallStep(g)
    PROVE  NothingLost'
<1> USE Tags DEF CallInv, TypeOK, Goroutine, Places, NoReducer, EndInOrder, NothingLost, Closed, Cancelled, options, source, pipe, reducing, ending
<1>1. CASE Expire
  BY <1>1 DEF Expire
<1>2. CASE Generate
  BY <1>2, NextItemIsNew DEF Generate, Step, Move
<1>3. CASE Panics(g)
  BY <1>3 DEF Panics, ReduceTells, WritePanic, Drained, Recovered, Move
<1>4. CASE g \in Item \cup {"caller", "reducer"} /\ Cancels(g)
  BY <1>4 DEF Cancels, MapCancel, ReduceCancel, CallerExpires, BeginCancel, Resumed, Move
<1>5. CASE g \in Item \cup {"caller", "reducer"} /\ (AwaitCancel(g) \/ Cancel(g))
  BY <1>5 DEF AwaitCancel, Cancel, ReceiveSource, Resumed, Step, Move
<1>6. CASE DispatchLoop \/ DispatchSelect \/ DispatchClose
  BY <1>6 DEF DispatchLoop, DispatchSelect, DispatchClose, Move
<1>7. CASE DispatchReceive \/ DispatchDrain
  <2>1. pc'["reducer"] = pc["reducer"] /\ \A i \in Item : pc[i] = "send" => pc'[i] = "send"
    <3>1. CASE DispatchReceive
      <4>1. pc["generator"] = "send" => pc[offered] = "idle"
        OBVIOUS
      <4> QED
        BY <3>1, <4>1 DEF DispatchReceive, Move
    <3>2. CASE DispatchDrain
      BY <3>2 DEF DispatchDrain, ReceiveSource, Move
    <3> QED
      BY <1>7, <3>1, <3>2
  <2>2. UNCHANGED <<pipe>>
    BY <1>7 DEF DispatchReceive, DispatchDrain
  <2> QED
    BY <2>1, <2>2
<1>8. CASE \E i \in Item : Map(i) \/ MapSend(i)
  BY <1>8 DEF Map, MapSend, Write, Step, Move
<1>9. CASE Reduces
  BY <1>9 DEF Reduces, Reduce, ReduceRead, ReduceSendFails, ReduceDrain, ReduceFinish, Drained, Write, Step, Move
<1>10. CASE CallerHearsPanic(g)
  BY <1>10 DEF CallerHearsPanic, Recovered
<1>11. CASE CallerGoesOn
  BY <1>11 DEF CallerGoesOn, CallerHasOutput, CallerHasNone, CallerLoadsError, CallerDefers, CallerDrainsOutput, ForEachReturns, ReceiveOutput, Step, Move
<1> QED
  BY <1>1, <1>2, <1>3, <1>4, <1>5, <1>6, <1>7, <1>8, <1>9, <1>10, <1>11 DEF CallStep

\* The pool: only a mapper that starts takes a place, the one the dispatcher has taken.
LEMMA KeepsPoolHolds ==
    ASSUME CallInv, NEW g \in Goroutine, CallStep(g)
    PROVE  PoolHolds'
<1> USE Tags DEF CallInv, Places, TypeOK, Goroutine, Running, options, source, pipe, reducing, ending
<1> DEFINE Calm == /\ \A i \in Item : pc[i] \in {"idle", "ended"} => pc'[i] \in {"idle", "ended"}
                   /\ UNCHANGED workers
                   /\ pc'["dispatcher"] = "receive"
                         => pc["dispatcher"] = "receive" \/ Cardinality(Running) < workers
<1>0. Calm => PoolHolds'
  BY PoolKept
<1>1. CASE Expire \/ Generate
  <2>1. Calm
    BY <1>1 DEF Expire, Generate, Step, Move
  <2> QED
    BY <1>0, <2>1
<1>2. CASE Panics(g)
  <2>1. Calm
    BY <1>2 DEF Panics, ReduceTells, WritePanic, Recovered, Move
  <2> QED
    BY <1>0, <2>1
<1>3. CASE g \in Item \cup {"caller", "reducer"} /\ Cancels(g)
  <2>1. Calm
    BY <1>3 DEF Cancels, MapCancel, ReduceCancel, CallerExpires, BeginCancel, Resumed, Move
  <2> QED
    BY <1>0, <2>1
<1>4. CASE g \in Item \cup {"caller", "reducer"} /\ (AwaitCancel(g) \/ Cancel(g))
  <2>1. Calm
    BY <1>4 DEF AwaitCancel, Cancel, ReceiveSource, Resumed, Step, Move
  <2> QED
    BY <1>0, <2>1
<1>5. CASE DispatchLoop \/ DispatchSelect \/ DispatchClose \/ DispatchDrain
  <2>1. Calm
    BY <1>5 DEF DispatchLoop, DispatchSelect, DispatchClose, DispatchDrain, ReceiveSource, Move
  <2> QED
    BY <1>0, <2>1
<1>6. CASE \E i \in Item : Map(i) \/ MapSend(i)
  <2>1. Calm
    BY <1>6 DEF Map, MapSend, Write, Step, Move
  <2> QED
    BY <1>0, <2>1
<1>7. CASE Reduces
  <2>1. Calm
    BY <1>7 DEF Reduces, Reduce, ReduceRead, ReduceSendFails, ReduceDrain, ReduceFinish, Write, Step, Move
  <2> QED
    BY <1>0, <2>1
<1>8. CASE CallerHearsPanic(g)
  <2>1. Calm
    BY <1>8 DEF CallerHearsPanic, Recovered
  <2> QED
    BY <1>0, <2>1
<1>9. CASE CallerGoesOn
  <2>1. Calm
    BY <1>9 DEF CallerGoesOn, CallerHasOutput, CallerHasNone, CallerLoadsError, CallerDefers, CallerDrainsOutput, ForEachReturns, ReceiveOutput, Step, Move
  <2> QED
    BY <1>0, <2>1
<1>10. CASE DispatchReceive
  <2>1. CASE Closed("source") /\ Move("dispatcher", "wait") /\ UNCHANGED workers
    <3>1. Calm
      BY <2>1 DEF Move
    <3> QED
      BY <1>0, <3>1
  <2>2. CASE pc["generator"] = "send" /\ UNCHANGED workers
             /\ pc' = [pc EXCEPT !["generator"] = "run", !["dispatcher"] = "loop", ![offered] = "run"]
    <3>1. Running' = Running \cup {offered} /\ pc'["dispatcher"] = "loop" /\ offered \in Item
      BY <2>2
    <3>2. IsFiniteSet(Running)
      BY MapReduceAssumption, FS_Subset
    <3> HIDE DEF Running
    <3>3. Cardinality(Running) \in Nat /\ Cardinality(Running \cup {offered}) <= Cardinality(Running) + 1
      <4>1. Cardinality(Running) \in Nat
        BY <3>2, FS_CardinalityType
      <4>2. Cardinality(Running \cup {offered}) \in {Cardinality(Running), Cardinality(Running) + 1}
        BY <3>2, FS_AddElement
      <4> QED
        BY <4>1, <4>2
    <3>4. Cardinality(Running) < workers
      BY <1>10 DEF DispatchReceive, PoolHolds
    <3>5. Cardinality(Running \cup {offered}) \in Nat /\ workers \in Nat
      BY <3>2, FS_AddElement, FS_CardinalityType, MapReduceAssumption
    <3>6. Cardinality(Running \cup {offered}) <= workers
      BY <3>3, <3>4, <3>5
    <3> QED
      BY <2>2, <3>1, <3>6 DEF PoolHolds
  <2> QED
    BY <1>10, <2>1, <2>2 DEF DispatchReceive
<1> QED
  BY <1>1, <1>2, <1>3, <1>4, <1>5, <1>6, <1>7, <1>8, <1>9, <1>10 DEF CallStep
-----------------------------------------------------------------------------
LEMMA CallStarts == Init => CallInv
<1> SUFFICES ASSUME Init PROVE CallInv
  OBVIOUS
<1> USE Tags DEF Init, Goroutine
<1>1. pc \in [Goroutine -> Place]
  BY DEF Place
<1>2. TypeOK
  <2>1. Cardinality(buffer) <= workers /\ workers \in 1 .. MaxWorkers
    BY FS_EmptySet, MapReduceAssumption
  <2>2. UNION {sent, wrote, buffer, reduced} \subseteq Item
    OBVIOUS
  <2>3. {expired, sawEnd, falling, failed, finished, claimed} = {FALSE}
    OBVIOUS
  <2>4. mode \in {"MapReduce", "ForEach"} /\ outputs \in 0 .. MaxOutputs /\ result = "none"
    BY MapReduceAssumption
  <2> QED
    BY <1>1, <2>1, <2>2, <2>3, <2>4 DEF TypeOK
<1>3. Places /\ NoReducer /\ EndInOrder /\ Answers /\ CancelIsReported /\ AllTaken /\ NothingLost
  BY DEF Places, NoReducer, EndInOrder, Answers, CancelIsReported, AllTaken, Undisturbed, NothingLost,
         Closed, Cancelled
<1>4. Running = {}
  BY DEF Running
<1>5. PoolHolds
  BY <1>4, FS_EmptySet, MapReduceAssumption DEF PoolHolds
<1> QED
  BY <1>2, <1>3, <1>5 DEF CallInv

LEMMA CallKeeps == CallInv /\ [Next]_vars => CallInv'
<1> SUFFICES ASSUME CallInv, [Next]_vars PROVE CallInv'
  OBVIOUS
<1>1. CASE Next
  <2>1. PICK g \in Goroutine : CallStep(g)
    BY <1>1, StepIsSomeones
  <2> QED
    BY <2>1, KeepsTypeOK, KeepsPlaces, KeepsNoReducer, KeepsEndInOrder, KeepsAnswers, KeepsAllTaken,
       KeepsNothingLost, KeepsPoolHolds DEF CallInv
<1>2. CASE UNCHANGED vars
  BY <1>2 DEF vars, options, source, pipe, reducing, ending, CallInv, TypeOK, Places, NoReducer,
         EndInOrder, Answers, CancelIsReported, AllTaken, Undisturbed, NothingLost, PoolHolds,
         Closed, Cancelled, Running
<1> QED
  BY <1>1, <1>2

LEMMA CallInvHolds == FairSpec => []CallInv
<1> QED
  BY CallStarts, CallKeeps, PTL DEF FairSpec, Spec

\* However the functions of the caller behave, a reader that finds the collector
\* closed has had every value, unless the call was cancelled, late, or a mapper failed.
THEOREM EndIsComplete == FairSpec => []EndMeansAll
<1>1. CallInv => EndMeansAll
  <2> SUFFICES ASSUME CallInv, sawEnd \/ (mode = "ForEach" /\ pc["caller"] = "returned"), Undisturbed
               PROVE  \A i \in sent : pc[i] = "ended" /\ (i \in wrote => i \in reduced)
    BY DEF EndMeansAll, Undisturbed
  <2>1. Closed("collector") /\ \A i \in sent : pc[i] # "idle" /\ i \in Item
    BY DEF CallInv, NoReducer, EndInOrder, AllTaken, TypeOK
  <2>2. wrote = {} \/ wrote \subseteq reduced
    BY DEF CallInv, NoReducer, NothingLost
  <2> QED
    BY <2>1, <2>2 DEF CallInv, EndInOrder
<1> QED
  BY <1>1, CallInvHolds, PTL

\* A call that was cancelled never answers that there was no output.
THEOREM CancelsAreReported == FairSpec => []CancelIsReported
<1>1. CallInv => CancelIsReported
  BY DEF CallInv
<1> QED
  BY <1>1, CallInvHolds, PTL

\* Whatever the number of items, no more mappers run at once than there are workers.
THEOREM PoolIsRespected == FairSpec => []WithinWorkers
<1>1. CallInv => WithinWorkers
  BY DEF CallInv, PoolHolds, WithinWorkers
<1> QED
  BY <1>1, CallInvHolds, PTL
-----------------------------------------------------------------------------
(* Proofs about Resources for any number of users, keys and resources.       *)

Busy == {"look", "create", "store", "delete"}

\* A call is registered for its key as long as its owner is at work, and those that
\* wait for it want what it makes.
OwnersHaveCalls == \A u \in User : user[u].pc \in Busy => calls[user[u].key] = u

CallsHaveOwners ==
    \A k \in Key : calls[k] # Nobody => user[calls[k]].pc \in Busy /\ user[calls[k]].key = k

WaitersHaveOwners ==
    \A w \in User : user[w].pc = "wait" =>
        /\ user[w].joins \in User
        /\ user[user[w].joins].pc \in Busy \cup {"done"}
        /\ user[user[w].joins].key = user[w].key

CallsAreOwned == OwnersHaveCalls /\ CallsHaveOwners /\ WaitersHaveOwners

\* What GetResource may return for key k.
Good(k, r) ==
    /\ r \in Resource
    /\ \/ handle[r] = "closed"
       \/ handle[r] = "open" /\ r = resources[k]

\* A resource that has been made and not stored is open and nobody else's, and the
\* manager has none for its key.
StoreIsNew ==
    \A u \in User : user[u].pc = "store" =>
        /\ user[u].val \in Resource /\ handle[user[u].val] = "open"
        /\ \A k \in Key : resources[k] # user[u].val
        /\ \A w \in User : user[w].pc = "store" /\ user[w].val = user[u].val => w = u

MissHolds ==
    \A u \in User : user[u].pc \in {"create", "store"} /\ user[u].key \notin injected =>
        resources[user[u].key] = Nothing

KeptAreOpen == \A k \in Key : resources[k] # Nothing => handle[resources[k]] = "open"

HoldersAreRight ==
    \A u \in User :
        user[u].pc \in {"idle", "delete", "done"} /\ user[u].how = "ok" /\ user[u].key \notin injected =>
            Good(user[u].key, user[u].val)

LossesAreLate == late # {} \/ locked => closed

HandlesAreKept ==
    StoreIsNew /\ MissHolds /\ KeptAreOpen /\ HoldersAreRight /\ OpenAreKnown /\ LossesAreLate

ResourcesInv == ResourcesTypeOK /\ CallsAreOwned /\ HandlesAreKept

UserState == [pc : {"idle", "wait", "look", "create", "store", "delete", "done"},
              key : Key, joins : User \cup {Nobody},
              val : Resource \cup {Nothing}, how : Outcome]

\* What the steps of a user do to its record and to those of others.
LEMMA StepEffect ==
    ASSUME ResourcesTypeOK, NEW u \in User, UserStep(u), ~Done(u)
    PROVE  /\ user'[u] \in UserState
           /\ user'[u].key = user[u].key /\ user'[u].joins = user[u].joins
           /\ \A w \in User \ {u} : user'[w] = user[w]
           /\ user' \in [User -> UserState]
<1>1. user[u] \in UserState
  BY DEF ResourcesTypeOK, UserState
<1>2. ASSUME NEW to \in UserState, NEW from, Advance(u, from, to),
             to.key = user[u].key, to.joins = user[u].joins
      PROVE  /\ user'[u] \in UserState
             /\ user'[u].key = user[u].key /\ user'[u].joins = user[u].joins
             /\ \A w \in User \ {u} : user'[w] = user[w]
             /\ user' \in [User -> UserState]
  BY <1>2 DEF Advance, ResourcesTypeOK, UserState
<1>3. CASE LookUp(u)
  <2>1. resources[user[u].key] \in Resource \cup {Nothing}
    BY <1>1 DEF ResourcesTypeOK, UserState
  <2> QED
    BY <1>1, <1>2, <1>3, <2>1 DEF LookUp, UserState, Outcome
<1>4. CASE Create(u)
  BY <1>1, <1>2, <1>4 DEF Create, Unmade, UserState, Outcome
<1>5. CASE Store(u)
  BY <1>1, <1>2, <1>5 DEF Store, UserState, Outcome
<1>6. CASE Delete(u)
  BY <1>1, <1>2, <1>6 DEF Delete, UserState
<1> QED
  BY <1>3, <1>4, <1>5, <1>6 DEF UserStep

LEMMA DoneEffect ==
    ASSUME ResourcesTypeOK, NEW u \in User, Done(u), NEW w \in User
    PROVE  /\ user'[w] \in UserState /\ user'[w].key = user[w].key
           /\ w = u => user'[w].pc = "idle" /\ user'[w].val = user[w].val /\ user'[w].how = user[w].how
           /\ w # u /\ user[w].pc = "wait" /\ user[w].joins = u =>
                  user'[w].pc = "idle" /\ user'[w].val = user[u].val /\ user'[w].how = user[u].how
           /\ w # u /\ ~(user[w].pc = "wait" /\ user[w].joins = u) => user'[w] = user[w]
<1>1. user[w] \in UserState /\ user[u] \in UserState
  BY DEF ResourcesTypeOK, UserState
<1>2. user'[w] = IF w = u THEN [user[w] EXCEPT !.pc = "idle"]
                 ELSE IF user[w].pc = "wait" /\ user[w].joins = u
                 THEN [user[w] EXCEPT !.pc = "idle", !.joins = Nobody, !.val = user[u].val, !.how = user[u].how]
                 ELSE user[w]
  BY DEF Done
<1> QED
  BY <1>1, <1>2 DEF UserState

LEMMA ResourcesTypeStep ==
    ResourcesTypeOK /\ StoreIsNew /\ [ResourcesNext]_resourceVars => ResourcesTypeOK'
<1> SUFFICES ASSUME ResourcesTypeOK, StoreIsNew, [ResourcesNext]_resourceVars PROVE ResourcesTypeOK'
  OBVIOUS
<1> USE DEF history
<1>1. CASE Close
  BY <1>1 DEF Close, ResourcesTypeOK
<1>0. ASSUME NEW k \in Key, NEW r \in Resource, Put(k, r)
      PROVE  /\ resources' \in [Key -> Resource \cup {Nothing}]
             /\ ousted' \subseteq Key \X Resource
             /\ UNCHANGED <<locked, late>>
  <2>1. resources[k] # Nothing => resources[k] \in Resource
    BY DEF ResourcesTypeOK
  <2> QED
    BY <1>0, <2>1 DEF Put, ResourcesTypeOK
<1>2. ASSUME NEW k \in Key, NEW r \in Resource, Inject(k, r) PROVE ResourcesTypeOK'
  <2>1. CASE Put(k, r)
    BY <1>2, <2>1, <1>0 DEF Inject, ResourcesTypeOK
  <2>2. CASE ~Put(k, r)
    BY <1>2, <2>2 DEF Inject, ResourcesTypeOK
  <2> QED
    BY <2>1, <2>2
<1>3. ASSUME NEW u \in User, NEW k \in Key, Call(u, k) PROVE ResourcesTypeOK'
  BY <1>3 DEF Call, ResourcesTypeOK, Outcome
<1>4. ASSUME NEW u \in User, UserStep(u), ~Done(u), user[u].pc = "store" => user[u].val \in Resource
      PROVE  ResourcesTypeOK'
  <2>1. user' \in [User -> UserState]
    BY <1>4, StepEffect
  <2>2. user[u].key \in Key /\ user[u].val \in Resource \cup {Nothing}
    BY DEF ResourcesTypeOK
  <2>3. calls' \in [Key -> User \cup {Nobody}]
    BY <1>4, <2>2 DEF UserStep, LookUp, Create, Store, Delete, ResourcesTypeOK
  <2>4. handle' \in [Resource -> {"none", "open", "closed"}] /\ UNCHANGED <<closed, injected>>
    BY <1>4 DEF UserStep, LookUp, Create, Store, Delete, ResourcesTypeOK
  <2>5. CASE Store(u)
    <3>1. user[u].val \in Resource
      BY <1>4, <2>5 DEF Store, Advance
    <3>2. CASE Put(user[u].key, user[u].val)
      BY <1>0, <2>1, <2>2, <2>3, <2>4, <3>1, <3>2 DEF ResourcesTypeOK, UserState
    <3>3. CASE ~Put(user[u].key, user[u].val)
      BY <2>1, <2>3, <2>4, <2>5, <3>1, <3>3 DEF Store, ResourcesTypeOK, UserState
    <3> QED
      BY <3>2, <3>3
  <2>6. CASE ~Store(u)
    BY <1>4, <2>1, <2>3, <2>4, <2>6 DEF UserStep, LookUp, Create, Delete, ResourcesTypeOK, UserState
  <2> QED
    BY <2>5, <2>6
<1>5. ASSUME NEW u \in User, Done(u) PROVE ResourcesTypeOK'
  <2>1. user' \in [User -> UserState]
    BY <1>5, DoneEffect DEF Done
  <2> QED
    BY <1>5, <2>1 DEF Done, ResourcesTypeOK, UserState
<1>6. CASE UNCHANGED resourceVars
  BY <1>6 DEF resourceVars, ResourcesTypeOK
<1> QED
  BY <1>1, <1>2, <1>3, <1>4, <1>5, <1>6 DEF ResourcesNext, StoreIsNew

\* Where a user stands after one of its steps.
LEMMA StepPlaces ==
    ASSUME ResourcesTypeOK, NEW u \in User, UserStep(u), ~Done(u)
    PROVE  /\ user[u].pc \in Busy
           /\ ~Delete(u) => user'[u].pc \in Busy /\ UNCHANGED calls
           /\ Delete(u) => user'[u].pc = "done" /\ calls' = [calls EXCEPT ![user[u].key] = Nobody]
<1>1. user[u] \in UserState
  BY DEF ResourcesTypeOK, UserState
<1>2. CASE Delete(u)
  BY <1>1, <1>2 DEF Delete, Advance, Busy, ResourcesTypeOK, UserState
<1>3. ASSUME NEW from \in Busy, NEW to \in UserState, Advance(u, from, to), to.pc \in Busy
      PROVE  user[u].pc \in Busy /\ user'[u].pc \in Busy /\ ~Delete(u)
  <2>1. user[u].pc = from /\ user'[u] = to
    BY <1>3 DEF Advance, ResourcesTypeOK
  <2>2. ~Delete(u)
    BY <1>1, <1>3, <2>1 DEF Delete, Advance, UserState, Busy, ResourcesTypeOK
  <2> QED
    BY <1>3, <2>1, <2>2
<1>4. CASE LookUp(u)
  <2>1. resources[user[u].key] \in Resource \cup {Nothing}
    BY <1>1 DEF ResourcesTypeOK, UserState
  <2> QED
    BY <1>1, <1>3, <1>4, <2>1 DEF LookUp, Busy, UserState, Outcome
<1>5. CASE Create(u)
  BY <1>1, <1>3, <1>5 DEF Create, Unmade, Busy, UserState, Outcome
<1>6. CASE Store(u)
  BY <1>1, <1>3, <1>6 DEF Store, Busy, UserState, Outcome
<1> QED
  BY <1>2, <1>4, <1>5, <1>6 DEF UserStep

LEMMA CallsAreOwnedStep ==
    ResourcesTypeOK /\ CallsAreOwned /\ [ResourcesNext]_resourceVars => CallsAreOwned'
<1> SUFFICES ASSUME ResourcesTypeOK, CallsAreOwned, [ResourcesNext]_resourceVars PROVE CallsAreOwned'
  OBVIOUS
<1> USE DEF CallsAreOwned
<1>0. /\ Nobody \notin User
      /\ \A u \in User : user[u].key \in Key
      /\ \A k \in Key : calls[k] \in User \cup {Nobody}
  BY ResourcesAssumption DEF ResourcesTypeOK
<1>1. CASE UNCHANGED <<calls, user>>
  BY <1>1 DEF OwnersHaveCalls, CallsHaveOwners, WaitersHaveOwners
<1>2. ASSUME NEW u \in User, NEW k \in Key, Call(u, k) PROVE CallsAreOwned'
  <2>0. user[u].pc = "idle" /\ "idle" \notin Busy \cup {"wait", "done"}
    BY <1>2 DEF Call, Busy
  <2>1. CASE calls[k] = Nobody
    <3>1. /\ user'[u].pc = "look" /\ user'[u].key = k
          /\ \A w \in User \ {u} : user'[w] = user[w]
          /\ calls'[k] = u /\ \A j \in Key \ {k} : calls'[j] = calls[j]
      BY <1>2, <2>1 DEF Call, ResourcesTypeOK
    <3>2. "look" \in Busy /\ "look" # "wait"
      BY DEF Busy
    <3>3. OwnersHaveCalls'
      BY <1>0, <2>1, <3>1 DEF OwnersHaveCalls
    <3>4. CallsHaveOwners'
      BY <1>0, <2>0, <3>1, <3>2 DEF CallsHaveOwners
    <3>5. WaitersHaveOwners'
      BY <1>0, <2>0, <3>1, <3>2 DEF WaitersHaveOwners
    <3> QED
      BY <3>3, <3>4, <3>5
  <2>2. CASE calls[k] # Nobody
    <3>1. /\ user'[u].pc = "wait" /\ user'[u].key = k /\ user'[u].joins = calls[k]
          /\ \A w \in User \ {u} : user'[w] = user[w]
          /\ \A j \in Key : calls'[j] = calls[j]
      BY <1>2, <2>2 DEF Call, ResourcesTypeOK
    <3>2. /\ calls[k] \in User /\ calls[k] # u /\ "wait" \notin Busy
          /\ user[calls[k]].pc \in Busy /\ user[calls[k]].key = k
      BY <1>0, <2>0, <2>2 DEF CallsHaveOwners, Busy
    <3>3. OwnersHaveCalls'
      BY <1>0, <3>1, <3>2 DEF OwnersHaveCalls
    <3>4. CallsHaveOwners'
      BY <1>0, <2>0, <3>1 DEF CallsHaveOwners
    <3>5. WaitersHaveOwners'
      BY <1>0, <2>0, <3>1, <3>2 DEF WaitersHaveOwners
    <3> QED
      BY <3>3, <3>4, <3>5
  <2> QED
    BY <2>1, <2>2
<1>3. ASSUME NEW u \in User, UserStep(u), ~Done(u) PROVE CallsAreOwned'
  <2>1. /\ user'[u].key = user[u].key
        /\ \A w \in User \ {u} : user'[w] = user[w]
        /\ user[u].pc \in Busy
        /\ "wait" \notin Busy /\ "done" \notin Busy
    BY <1>3, StepEffect, StepPlaces DEF Busy
  <2>2. CASE Delete(u)
    <3>1. user'[u].pc = "done" /\ calls[user[u].key] = u
      BY <1>3, <2>1, <2>2, StepPlaces DEF OwnersHaveCalls
    <3>2. calls'[user[u].key] = Nobody /\ \A j \in Key \ {user[u].key} : calls'[j] = calls[j]
      BY <1>0, <2>2 DEF Delete, ResourcesTypeOK
    <3>3. OwnersHaveCalls'
      BY <1>0, <2>1, <3>1, <3>2 DEF OwnersHaveCalls
    <3>4. CallsHaveOwners'
      BY <1>0, <2>1, <3>1, <3>2 DEF CallsHaveOwners
    <3>5. WaitersHaveOwners'
      BY <1>0, <2>1, <3>1 DEF WaitersHaveOwners
    <3> QED
      BY <3>3, <3>4, <3>5
  <2>3. CASE ~Delete(u)
    <3>1. user'[u].pc \in Busy /\ \A j \in Key : calls'[j] = calls[j]
      BY <1>3, <2>3, StepPlaces
    <3>2. OwnersHaveCalls'
      BY <1>0, <2>1, <3>1 DEF OwnersHaveCalls
    <3>3. CallsHaveOwners'
      BY <1>0, <2>1, <3>1 DEF CallsHaveOwners
    <3>4. WaitersHaveOwners'
      BY <1>0, <2>1, <3>1 DEF WaitersHaveOwners
    <3> QED
      BY <3>2, <3>3, <3>4
  <2> QED
    BY <2>2, <2>3
<1>4. ASSUME NEW u \in User, Done(u) PROVE CallsAreOwned'
  <2>1. user[u].pc = "done" /\ \A j \in Key : calls'[j] = calls[j]
    BY <1>4 DEF Done
  <2>2. \A w \in User : /\ user'[w].key = user[w].key
                        /\ user'[w].pc # "idle" => user'[w] = user[w]
                        /\ user[w].pc \in Busy \cup {"done"} /\ w # u => user'[w] = user[w]
                        /\ user[w].pc = "wait" /\ user[w].joins = u => user'[w].pc = "idle"
    BY <1>4, <2>1, DoneEffect DEF Busy
  <2>3. {"idle", "done"} \cap Busy = {}
    BY DEF Busy
  <2>4. OwnersHaveCalls'
    BY <1>0, <2>1, <2>2, <2>3 DEF OwnersHaveCalls
  <2>5. CallsHaveOwners'
    BY <1>0, <2>1, <2>2, <2>3 DEF CallsHaveOwners
  <2>6. WaitersHaveOwners'
    BY <1>0, <2>1, <2>2, <2>3 DEF WaitersHaveOwners
  <2> QED
    BY <2>4, <2>5, <2>6
<1> QED
  BY <1>1, <1>2, <1>3, <1>4 DEF ResourcesNext, resourceVars, Close, Inject
-----------------------------------------------------------------------------
LEMMA HandlesAreKeptStep ==
    ResourcesInv /\ [ResourcesNext]_resourceVars => HandlesAreKept'
<1> SUFFICES ASSUME ResourcesInv, [ResourcesNext]_resourceVars PROVE HandlesAreKept'
  OBVIOUS
<1>0. /\ ResourcesTypeOK /\ CallsAreOwned /\ HandlesAreKept
      /\ Nothing \notin Resource
      /\ \A u \in User : user[u] \in UserState
      /\ \A u, w \in User : user[u].pc \in Busy /\ user[w].pc \in Busy /\ user[u].key = user[w].key => u = w
  BY ResourcesAssumption DEF ResourcesInv, CallsAreOwned, OwnersHaveCalls, ResourcesTypeOK, UserState
<1> USE DEF HandlesAreKept, history
<1>1. CASE Close
  <2>1. /\ handle' = [r \in Resource |-> IF Released(r) THEN "closed" ELSE handle[r]]
        /\ resources' = [k \in Key |-> Nothing] /\ UNCHANGED <<locked, user, history>> /\ closed'
    BY <1>1 DEF Close
  <2>2. StoreIsNew' /\ MissHolds' /\ KeptAreOpen'
    BY <1>0, <2>1 DEF StoreIsNew, MissHolds, KeptAreOpen, Released, UserState
  <2>3. HoldersAreRight'
    <3>1. ASSUME NEW k \in Key, NEW r, Good(k, r)
          PROVE  r \in Resource /\ handle'[r] = "closed"
      BY <2>1, <3>1 DEF Good, Released
    <3>2. \A u \in User : user[u].key \in Key
      BY <1>0 DEF UserState
    <3>3. ASSUME NEW u \in User, user[u].pc \in {"idle", "delete", "done"},
                 user[u].how = "ok", user[u].key \notin injected
          PROVE  user[u].val \in Resource /\ handle'[user[u].val] = "closed"
      <4>1. Good(user[u].key, user[u].val)
        BY <1>0, <3>3 DEF HoldersAreRight
      <4> QED
        BY <3>1, <3>2, <4>1
    <3>4. user' = user /\ injected' = injected
      BY <2>1
    <3>5. \A u \in User :
              user'[u].pc \in {"idle", "delete", "done"} /\ user'[u].how = "ok" /\ user'[u].key \notin injected' =>
                  Good(user[u].key, user[u].val)'
      <4>1. \A u \in User : user[u].val \in Resource /\ handle'[user[u].val] = "closed" =>
                Good(user[u].key, user[u].val)'
        BY <3>4 DEF Good
      <4> QED
        BY <3>3, <3>4, <4>1
    <3> QED
      BY <3>5 DEF HoldersAreRight
  <2>4. OpenAreKnown' /\ LossesAreLate'
    BY <1>0, <2>1 DEF OpenAreKnown, LossesAreLate, Released
  <2> QED
    BY <2>2, <2>3, <2>4
<1>2. ASSUME NEW k \in Key, NEW r \in Resource, Inject(k, r) PROVE HandlesAreKept'
  <2>1. /\ handle[r] = "none" /\ handle' = [handle EXCEPT ![r] = "open"]
        /\ injected' = injected \cup {k} /\ UNCHANGED <<closed, user>>
    BY <1>2 DEF Inject, Unmade
  <2>2. CASE ~closed /\ Put(k, r)
    <3>1. /\ resources' = [resources EXCEPT ![k] = r] /\ UNCHANGED <<locked, late>>
          /\ ousted \subseteq ousted'
          /\ resources[k] # Nothing => <<k, resources[k]>> \in ousted'
      BY <2>2 DEF Put
    <3>2. StoreIsNew'
      BY <1>0, <2>1, <3>1 DEF StoreIsNew, ResourcesTypeOK
    <3>3. MissHolds' /\ KeptAreOpen' /\ HoldersAreRight'
      BY <1>0, <2>1, <3>1 DEF MissHolds, KeptAreOpen, HoldersAreRight, Good, ResourcesTypeOK, UserState
    <3>4. OpenAreKnown'
      <4> SUFFICES ASSUME NEW q \in Resource, handle'[q] = "open"
                   PROVE  \/ Released(q)'
                          \/ \E u \in User : user'[u].pc = "store" /\ user'[u].val = q
                          \/ \E j \in injected' : <<j, q>> \in ousted'
                          \/ q \in late'
        BY DEF OpenAreKnown
      <4>1. CASE q = r
        BY <1>0, <3>1, <4>1 DEF Released, ResourcesTypeOK
      <4>2. CASE q # r /\ ~Released(q)
        BY <1>0, <2>1, <3>1, <4>2 DEF OpenAreKnown, ResourcesTypeOK
      <4>3. CASE q # r /\ Released(q)
        BY <1>0, <2>1, <3>1, <4>3 DEF Released, ResourcesTypeOK
      <4> QED
        BY <4>1, <4>2, <4>3
    <3> QED
      BY <1>0, <2>1, <3>1, <3>2, <3>3, <3>4 DEF LossesAreLate
  <2>3. CASE closed /\ late' = late \cup {r} /\ UNCHANGED <<resources, ousted>>
    <3>1. StoreIsNew'
      BY <1>0, <2>1, <2>3 DEF StoreIsNew, ResourcesTypeOK
    <3>2. MissHolds' /\ KeptAreOpen' /\ HoldersAreRight'
      BY <1>0, <2>1, <2>3 DEF MissHolds, KeptAreOpen, HoldersAreRight, Good, ResourcesTypeOK, UserState
    <3>3. OpenAreKnown' /\ LossesAreLate'
      BY <1>0, <2>1, <2>3 DEF OpenAreKnown, LossesAreLate, Released, ResourcesTypeOK
    <3> QED
      BY <3>1, <3>2, <3>3
  <2> QED
    BY <1>2, <2>2, <2>3 DEF Inject
<1>3. ASSUME NEW u \in User, NEW k \in Key, Call(u, k) PROVE HandlesAreKept'
  <2>1. /\ user'[u].pc \in {"look", "wait"} /\ \A w \in User \ {u} : user'[w] = user[w]
        /\ user[u].pc = "idle"
        /\ UNCHANGED <<resources, closed, locked, handle, history>>
    BY <1>0, <1>3 DEF Call, ResourcesTypeOK
  <2>2. OpenAreKnown' /\ LossesAreLate'
    BY <1>0, <2>1 DEF OpenAreKnown, LossesAreLate, Released
  <2> QED
    BY <1>0, <2>1, <2>2 DEF StoreIsNew, MissHolds, KeptAreOpen, HoldersAreRight, Good
<1>4. ASSUME NEW u \in User, LookUp(u) PROVE HandlesAreKept'
  <2>1. /\ \/ user'[u].pc = "create" /\ resources[user[u].key] = Nothing
           \/ /\ user'[u].pc = "delete" /\ user'[u].val = resources[user[u].key]
              /\ resources[user[u].key] # Nothing
        /\ user[u].pc = "look" /\ user'[u].key = user[u].key
        /\ \A w \in User \ {u} : user'[w] = user[w]
        /\ UNCHANGED <<resources, closed, locked, handle, history>>
    BY <1>0, <1>4 DEF LookUp, Advance, ResourcesTypeOK, UserState
  <2>2. user[u].key \in Key /\ resources[user[u].key] \in Resource \cup {Nothing}
    BY <1>0 DEF ResourcesTypeOK, UserState
  <2>3. OpenAreKnown' /\ LossesAreLate'
    BY <1>0, <2>1 DEF OpenAreKnown, LossesAreLate, Released
  <2> QED
    BY <1>0, <2>1, <2>2, <2>3 DEF StoreIsNew, MissHolds, KeptAreOpen, HoldersAreRight, Good
<1>5. ASSUME NEW u \in User, Create(u) PROVE HandlesAreKept'
  <2>1. /\ user[u].pc = "create" /\ user'[u].key = user[u].key
        /\ \A w \in User \ {u} : user'[w] = user[w]
        /\ UNCHANGED <<resources, closed, locked, history>>
    <3>1. ~Done(u)
      BY <1>5 DEF Create, Done, Advance
    <3> QED
      BY <1>0, <1>5, <3>1, StepEffect DEF UserStep, Create, Advance
  <2>2. ASSUME NEW how \in {"error", "panic"}, UNCHANGED handle,
               Advance(u, "create", [user[u] EXCEPT !.pc = "delete", !.how = how])
        PROVE  HandlesAreKept'
    <3>1. user'[u].pc = "delete" /\ user'[u].how # "ok"
      BY <1>0, <2>2 DEF Advance, ResourcesTypeOK, UserState
    <3>2. OpenAreKnown' /\ LossesAreLate'
      BY <1>0, <2>1, <2>2, <3>1 DEF OpenAreKnown, LossesAreLate, Released
    <3> QED
      BY <1>0, <2>1, <2>2, <3>1, <3>2 DEF StoreIsNew, MissHolds, KeptAreOpen, HoldersAreRight, Good
  <2>3. ASSUME NEW r \in Unmade, Advance(u, "create", [user[u] EXCEPT !.pc = "store", !.val = r]),
               handle' = [handle EXCEPT ![r] = "open"]
        PROVE  HandlesAreKept'
    <3>0. user'[u].pc = "store" /\ user'[u].val = r
      BY <1>0, <2>3 DEF Advance, ResourcesTypeOK, UserState
    <3>1. r \in Resource /\ handle[r] = "none" /\ handle'[r] = "open"
          /\ \A q \in Resource \ {r} : handle'[q] = handle[q]
      BY <1>0, <2>3 DEF Unmade, ResourcesTypeOK
    <3>2. \A k \in Key : resources[k] # r
      BY <1>0, <3>1 DEF KeptAreOpen
    <3>3. StoreIsNew'
      BY <1>0, <2>1, <3>0, <3>1, <3>2 DEF StoreIsNew
    <3>4. MissHolds' /\ KeptAreOpen'
      BY <1>0, <2>1, <3>0, <3>1, <3>2 DEF MissHolds, KeptAreOpen, ResourcesTypeOK
    <3>5. HoldersAreRight'
      BY <1>0, <2>1, <3>0, <3>1 DEF HoldersAreRight, Good
    <3>6. OpenAreKnown' /\ LossesAreLate'
      BY <1>0, <2>1, <3>0, <3>1 DEF OpenAreKnown, LossesAreLate, Released
    <3> QED
      BY <3>3, <3>4, <3>5, <3>6
  <2> QED
    BY <1>5, <2>2, <2>3 DEF Create
<1>6. ASSUME NEW u \in User, Store(u) PROVE HandlesAreKept'
  <2>1. /\ user[u].pc = "store" /\ user'[u].pc = "delete" /\ user'[u].key = user[u].key
        /\ user[u].val \in Resource
        /\ \A w \in User \ {u} : user'[w] = user[w]
        /\ UNCHANGED <<closed, handle, injected, locked>>
    <3>1. user[u].pc = "store" /\ UNCHANGED <<closed, handle, injected, locked>>
      BY <1>6 DEF Store, Put, Advance
    <3>2. user'[u].pc = "delete"
      <4>1. user[u] \in UserState /\ u \in DOMAIN user
        BY <1>0 DEF ResourcesTypeOK
      <4>2. \/ user' = [user EXCEPT ![u] = [user[u] EXCEPT !.pc = "delete", !.how = "ok"]]
            \/ user' = [user EXCEPT ![u] = [user[u] EXCEPT !.pc = "delete", !.val = Nothing, !.how = "panic"]]
        BY <1>6 DEF Store, Advance
      <4> QED
        BY <4>1, <4>2 DEF UserState
    <3>3. ~Done(u)
      BY <3>1 DEF Done
    <3>4. user'[u].key = user[u].key /\ \A w \in User \ {u} : user'[w] = user[w]
      BY <1>0, <1>6, <3>3, StepEffect DEF UserStep
    <3>5. user[u].val \in Resource
      BY <1>0, <3>1 DEF StoreIsNew
    <3> QED
      BY <3>1, <3>2, <3>4, <3>5
  <2>0. user[u] \in UserState /\ user[u].key \in Key /\ Nothing \notin Resource
        /\ resources \in [Key -> Resource \cup {Nothing}]
        /\ \A w \in User : user[w].key \in Key
    BY <1>0 DEF UserState, ResourcesTypeOK
  <2>2. CASE closed
    <3>1. UNCHANGED <<resources, ousted>> /\ late' = late \cup {user[u].val}
          /\ user' = [user EXCEPT ![u] = [user[u] EXCEPT !.pc = "delete", !.val = Nothing, !.how = "panic"]]
      BY <1>6, <2>2 DEF Store, Advance
    <3>2. user'[u].how = "panic"
      BY <1>0, <3>1 DEF ResourcesTypeOK, UserState
    <3>3. OpenAreKnown'
      <4> SUFFICES ASSUME NEW q \in Resource, handle'[q] = "open"
                   PROVE  \/ Released(q)'
                          \/ \E w \in User : user'[w].pc = "store" /\ user'[w].val = q
                          \/ \E j \in injected' : <<j, q>> \in ousted'
                          \/ q \in late'
        BY DEF OpenAreKnown
      <4>1. \/ Released(q)
            \/ \E w \in User : user[w].pc = "store" /\ user[w].val = q
            \/ \E j \in injected : <<j, q>> \in ousted
            \/ q \in late
        BY <1>0, <2>1 DEF OpenAreKnown
      <4> QED
        BY <2>1, <3>1, <4>1 DEF Released
    <3>4. StoreIsNew' /\ MissHolds' /\ KeptAreOpen'
      BY <1>0, <2>1, <3>1 DEF StoreIsNew, MissHolds, KeptAreOpen
    <3>5. HoldersAreRight'
      BY <1>0, <2>1, <3>1, <3>2 DEF HoldersAreRight, Good
    <3>6. LossesAreLate'
      BY <2>1, <2>2 DEF LossesAreLate
    <3> QED
      BY <3>3, <3>4, <3>5, <3>6
  <2>3. CASE ~closed
    <3> DEFINE k == user[u].key
               r == user[u].val
    <3>1. k \in Key /\ r \in Resource /\ handle[r] = "open"
      BY <1>0, <2>0, <2>1 DEF StoreIsNew
    <3>9. /\ resources' = [resources EXCEPT ![k] = r] /\ late' = late
          /\ ousted' = IF resources[k] = Nothing THEN ousted ELSE ousted \cup {<<k, resources[k]>>}
          /\ user' = [user EXCEPT ![u] = [user[u] EXCEPT !.pc = "delete", !.how = "ok"]]
      BY <1>6, <2>3 DEF Store, Put, Advance
    <3>10. user'[u].val = r
      BY <1>0, <2>0, <3>9 DEF ResourcesTypeOK, UserState
    <3>11. resources'[k] = r /\ \A j \in Key \ {k} : resources'[j] = resources[j]
      BY <2>0, <3>1, <3>9
    <3>12. ousted \subseteq ousted' /\ (resources[k] # Nothing => <<k, resources[k]>> \in ousted')
      BY <3>9
    <3>2. \A w \in User \ {u} : user[w].pc = "store" => user[w].val # r
      BY <1>0, <2>1 DEF StoreIsNew
    <3>3. \A w \in User \ {u} : user[w].pc \in Busy => user[w].key # k
      BY <1>0, <2>1 DEF Busy
    <3>5. k \notin injected => resources[k] = Nothing
      BY <1>0, <2>1 DEF MissHolds
    <3>13. StoreIsNew /\ MissHolds /\ KeptAreOpen /\ HoldersAreRight /\ OpenAreKnown
      BY <1>0
    <3>14. user'[u].key = k /\ user[u].key = k /\ user[u].val = r /\ user[u].pc = "store"
      BY <2>1
    <3> HIDE DEF k, r, HandlesAreKept
    <3>4. StoreIsNew'
      <4> SUFFICES ASSUME NEW w \in User, user'[w].pc = "store"
                   PROVE  /\ user'[w].val \in Resource /\ handle'[user'[w].val] = "open"
                          /\ \A j \in Key : resources'[j] # user'[w].val
                          /\ \A v \in User : user'[v].pc = "store" /\ user'[v].val = user'[w].val => v = w
        BY DEF StoreIsNew
      <4>1. w # u /\ user'[w] = user[w]
        BY <2>1
      <4>2. /\ user[w].val \in Resource /\ handle[user[w].val] = "open"
            /\ \A j \in Key : resources[j] # user[w].val
            /\ \A v \in User : user[v].pc = "store" /\ user[v].val = user[w].val => v = w
        BY <3>13, <4>1 DEF StoreIsNew
      <4>3. \A j \in Key : resources'[j] # user[w].val
        BY <3>2, <3>11, <4>1, <4>2
      <4> QED
        BY <2>1, <4>1, <4>2, <4>3
    <3>15. KeptAreOpen'
      BY <2>1, <3>1, <3>11, <3>13 DEF KeptAreOpen
    <3>7. MissHolds'
      <4> SUFFICES ASSUME NEW w \in User, user'[w].pc \in {"create", "store"},
                          user'[w].key \notin injected'
                   PROVE  resources'[user'[w].key] = Nothing
        BY DEF MissHolds
      <4>1. w # u /\ user'[w] = user[w] /\ user[w].pc \in Busy /\ user[w].key \in Key
        BY <2>0, <2>1 DEF Busy
      <4>2. resources[user[w].key] = Nothing
        BY <2>1, <3>13, <4>1 DEF MissHolds
      <4> QED
        BY <3>3, <3>11, <4>1, <4>2
    <3>6. HoldersAreRight'
      <4> SUFFICES ASSUME NEW w \in User, user'[w].pc \in {"idle", "delete", "done"},
                          user'[w].how = "ok", user'[w].key \notin injected'
                   PROVE  /\ user'[w].val \in Resource
                          /\ \/ handle'[user'[w].val] = "closed"
                             \/ handle'[user'[w].val] = "open" /\ user'[w].val = resources'[user'[w].key]
        BY DEF HoldersAreRight, Good
      <4>1. CASE w = u
        BY <2>1, <3>1, <3>10, <3>11, <3>14, <4>1
      <4>2. CASE w # u
        <5>1. user'[w] = user[w] /\ user[w].key \in Key
          BY <2>0, <2>1, <4>2
        <5>2. /\ user[w].val \in Resource
              /\ \/ handle[user[w].val] = "closed"
                 \/ handle[user[w].val] = "open" /\ user[w].val = resources[user[w].key]
          BY <2>1, <3>13, <5>1 DEF HoldersAreRight, Good
        <5>3. user[w].key = k => resources[k] = Nothing
          BY <2>1, <3>5, <5>1
        <5> QED
          BY <2>0, <2>1, <3>11, <5>1, <5>2, <5>3
      <4> QED
        BY <4>1, <4>2
    <3>8. OpenAreKnown'
      <4> SUFFICES ASSUME NEW q \in Resource, handle'[q] = "open"
                   PROVE  \/ Released(q)'
                          \/ \E w \in User : user'[w].pc = "store" /\ user'[w].val = q
                          \/ \E j \in injected' : <<j, q>> \in ousted'
                          \/ q \in late'
        BY DEF OpenAreKnown
      <4>1. CASE q = r
        BY <3>1, <3>11, <4>1 DEF Released
      <4>2. CASE q # r /\ Released(q)
        <5>1. PICK j \in Key : resources[j] = q
          BY <4>2 DEF Released
        <5>2. CASE j = k
          BY <2>0, <2>1, <3>1, <3>5, <3>12, <5>1, <5>2
        <5>3. CASE j # k
          BY <3>11, <5>1, <5>3 DEF Released
        <5> QED
          BY <5>2, <5>3
      <4>3. CASE q # r /\ ~Released(q)
        <5>1. \/ \E w \in User : user[w].pc = "store" /\ user[w].val = q
              \/ \E j \in injected : <<j, q>> \in ousted
              \/ q \in late
          BY <2>1, <3>13, <4>3 DEF OpenAreKnown
        <5>2. \A w \in User : user[w].pc = "store" /\ user[w].val = q => w # u
          BY <3>14, <4>3
        <5> QED
          BY <2>1, <3>9, <3>12, <5>1, <5>2
      <4> QED
        BY <4>1, <4>2, <4>3
    <3>16. LossesAreLate'
      BY <1>0, <2>1, <3>9 DEF LossesAreLate, HandlesAreKept
    <3> QED
      BY <3>4, <3>15, <3>7, <3>6, <3>8, <3>16 DEF HandlesAreKept
  <2> QED
    BY <2>2, <2>3
<1>7. ASSUME NEW u \in User, Delete(u) PROVE HandlesAreKept'
  <2>1. /\ user[u].pc = "delete" /\ user'[u] = [user[u] EXCEPT !.pc = "done"]
        /\ \A w \in User \ {u} : user'[w] = user[w]
        /\ UNCHANGED <<resources, closed, locked, handle, history>>
    BY <1>0, <1>7 DEF Delete, Advance, ResourcesTypeOK
  <2>2. OpenAreKnown' /\ LossesAreLate'
    BY <1>0, <2>1 DEF OpenAreKnown, LossesAreLate, Released, UserState
  <2> QED
    BY <1>0, <2>1, <2>2 DEF StoreIsNew, MissHolds, KeptAreOpen, HoldersAreRight, Good, UserState
<1>8. ASSUME NEW u \in User, Done(u) PROVE HandlesAreKept'
  <2>1. user[u].pc = "done" /\ UNCHANGED <<resources, closed, locked, handle, history>>
    BY <1>8 DEF Done
  <2>2. \A w \in User : user'[w].pc # "idle" => user'[w] = user[w]
    BY <1>0, <1>8, DoneEffect
  <2>3. ASSUME NEW w \in User, user'[w].pc \in {"idle", "delete", "done"}, user'[w].how = "ok",
               user'[w].key \notin injected
        PROVE  Good(user'[w].key, user'[w].val)
    <3>1. CASE w = u \/ ~(user[w].pc = "wait" /\ user[w].joins = u)
      BY <1>0, <1>8, <2>1, <2>3, <3>1, DoneEffect DEF HoldersAreRight
    <3>2. CASE w # u /\ user[w].pc = "wait" /\ user[w].joins = u
      <4>1. user[u].key = user[w].key
        BY <1>0, <3>2 DEF CallsAreOwned, WaitersHaveOwners
      <4> QED
        BY <1>0, <1>8, <2>1, <2>3, <3>2, <4>1, DoneEffect DEF HoldersAreRight
    <3> QED
      BY <3>1, <3>2
  <2>4. HoldersAreRight'
    BY <2>1, <2>3 DEF HoldersAreRight, Good
  <2>5. OpenAreKnown' /\ LossesAreLate'
    <3>1. \A w \in User : user[w].pc = "store" => user'[w] = user[w]
      BY <1>0, <1>8, <2>1, DoneEffect
    <3> QED
      BY <1>0, <2>1, <3>1 DEF OpenAreKnown, LossesAreLate, Released
  <2> QED
    BY <1>0, <2>1, <2>2, <2>4, <2>5 DEF StoreIsNew, MissHolds, KeptAreOpen
<1>9. CASE UNCHANGED resourceVars
  BY <1>0, <1>9 DEF resourceVars, StoreIsNew, MissHolds, KeptAreOpen, HoldersAreRight, Good,
                    OpenAreKnown, LossesAreLate, Released
<1> QED
  BY <1>1, <1>2, <1>3, <1>4, <1>5, <1>6, <1>7, <1>8, <1>9 DEF ResourcesNext, UserStep

\* For any number of goroutines, keys and resources: a key has one resource at
\* a time, and who has got one has got the one that the manager will close or
\* has closed, unless Inject was called for the key; what is open and not the
\* manager's has lost its place through Inject or came after Close (GetResource,
\* Inject and Close of resourcemanager.go).
THEOREM ResourcesAreSharedAndClosed == ResourcesSpec => []SharedAndClosed
<1>1. ResourcesInit => ResourcesInv
  <2> SUFFICES ASSUME ResourcesInit PROVE ResourcesInv
    OBVIOUS
  <2> DEFINE Start(k) == [pc |-> "idle", key |-> k, joins |-> Nobody, val |-> Nothing, how |-> ""]
  <2>1. \A k \in Key : Start(k) \in UserState /\ Start(k).pc = "idle" /\ Start(k).how = ""
    BY DEF UserState, Outcome
  <2>2. user \in [User -> {Start(k) : k \in Key}]
    BY DEF ResourcesInit
  <2>3. user \in [User -> UserState] /\ \A u \in User : user[u].pc = "idle" /\ user[u].how = ""
    <3>1. \A u \in User : user[u] \in {Start(k) : k \in Key}
      BY <2>2
    <3> HIDE DEF Start
    <3>2. \A u \in User : \E k \in Key : user[u] = Start(k)
      BY <3>1
    <3>3. user = [u \in User |-> user[u]]
      BY <2>2
    <3> QED
      BY <2>1, <3>2, <3>3
  <2>4. /\ ResourcesTypeOK
        /\ \A u \in User : user[u].pc = "idle" /\ user[u].how = ""
        /\ \A k \in Key : calls[k] = Nobody /\ resources[k] = Nothing
    BY <2>3 DEF ResourcesInit, ResourcesTypeOK, UserState
  <2>5. CallsAreOwned
    BY <2>4 DEF CallsAreOwned, OwnersHaveCalls, CallsHaveOwners, WaitersHaveOwners, Busy
  <2>6. HandlesAreKept
    BY <2>4 DEF HandlesAreKept, StoreIsNew, MissHolds, KeptAreOpen, HoldersAreRight,
                 OpenAreKnown, LossesAreLate, ResourcesInit
  <2> QED
    BY <2>4, <2>5, <2>6 DEF ResourcesInv
<1>2. ResourcesInv /\ [ResourcesNext]_resourceVars => ResourcesInv'
  BY ResourcesTypeStep, CallsAreOwnedStep, HandlesAreKeptStep DEF ResourcesInv, HandlesAreKept
<1>3. ResourcesInv => SharedAndClosed
  BY DEF ResourcesInv, SharedAndClosed, OneCreationPerKey, CallsAreOwned, OwnersHaveCalls, Busy,
         HandlesAreKept, HoldersAreRight, Good, LossesAreLate
<1> QED
  BY <1>1, <1>2, <1>3, PTL DEF ResourcesSpec
-----------------------------------------------------------------------------
(* The consistent hash.  A point belongs to one node; the ring never has     *)
(* more there than keys has, and exactly as much while no additions race.    *)

\* Every set of numbers that is not empty has a least one.
LEMMA LeastNatural ==
    ASSUME NEW T \in SUBSET Nat, T # {}
    PROVE  \E x \in T : \A y \in T : x <= y
<1> DEFINE R == OpToRel(<, Nat)
<1>1. IsWellFoundedOn(R, Nat)
  BY NatLessThanWellFounded
<1>2. \A x, y \in Nat : y < x => <<y, x>> \in R
  BY DEF OpToRel
<1> HIDE DEF R
<1>3. PICK x \in T : \A y \in T : ~(<<y, x>> \in R)
  BY <1>1, WFMin
<1>4. ASSUME NEW y \in T PROVE x <= y
  <2>1. x \in Nat /\ y \in Nat /\ ~(y < x)
    BY <1>2, <1>3
  <2> QED
    BY <2>1
<1> QED
  BY <1>4

LEMMA SmallestIsLeast ==
    ASSUME NEW S \in SUBSET Point, S # {}
    PROVE  Smallest(S) \in S /\ \A q \in S : Smallest(S) <= q
<1>1. S \in SUBSET Nat
  BY HashAssumption DEF Point
<1>2. \E p \in S : \A q \in S : p <= q
  BY <1>1, LeastNatural
<1> QED
  BY <1>2 DEF Smallest

LEMMA SmallestStays ==
    ASSUME NEW S \in SUBSET Point, NEW T \in SUBSET S, Smallest(S) \in T
    PROVE  Smallest(T) = Smallest(S)
<1>1. Smallest(S) \in S /\ \A q \in S : Smallest(S) <= q
  BY SmallestIsLeast
<1>2. Smallest(T) \in T /\ \A q \in T : Smallest(T) <= q
  BY SmallestIsLeast
<1>3. \A p \in Point : p \in Nat
  BY HashAssumption DEF Point
<1>4. Smallest(S) \in Nat /\ Smallest(T) \in Nat
  BY <1>1, <1>2, <1>3
<1> QED
  BY <1>1, <1>2, <1>4

\* The points that are in keys.
There(ks) == {p \in Point : ks[p] > 0}

LEMMA FirstIsThere ==
    ASSUME NEW ks, NEW hash, There(ks) # {}
    PROVE  First(ks, hash) \in There(ks)
<1>1. \A S \in SUBSET There(ks) : S # {} => Smallest(S) \in There(ks)
  BY SmallestIsLeast DEF There
<1> QED
  BY <1>1 DEF First, There

\* The search ends where it did as long as that point is left, whatever else is gone.
LEMMA FirstStays ==
    ASSUME NEW ks, NEW kt, NEW hash, There(kt) \subseteq There(ks), First(ks, hash) \in There(kt)
    PROVE  First(kt, hash) = First(ks, hash)
<1> DEFINE A(S) == {p \in S : p >= hash}
<1>1. First(ks, hash) = Smallest(IF A(There(ks)) # {} THEN A(There(ks)) ELSE There(ks))
  BY DEF First, There
<1>2. First(kt, hash) = Smallest(IF A(There(kt)) # {} THEN A(There(kt)) ELSE There(kt))
  BY DEF First, There
<1>3. There(ks) \in SUBSET Point /\ A(There(ks)) \in SUBSET Point
  BY DEF There
<1>4. CASE A(There(ks)) # {}
  <2>1. First(ks, hash) \in A(There(ks))
    BY <1>1, <1>3, <1>4, SmallestIsLeast
  <2>2. First(ks, hash) \in A(There(kt))
    BY <2>1
  <2>3. A(There(kt)) \subseteq A(There(ks))
    OBVIOUS
  <2> HIDE DEF A
  <2> QED
    BY <1>1, <1>2, <1>3, <1>4, <2>2, <2>3, SmallestStays
<1>5. CASE A(There(ks)) = {}
  <2>1. A(There(kt)) = {}
    BY <1>5
  <2> HIDE DEF A
  <2> QED
    BY <1>1, <1>2, <1>3, <1>5, <2>1, SmallestStays
<1> QED
  BY <1>4, <1>5

LEMMA CandidatesAre ==
    ASSUME NEW ks, NEW rg, NEW hash, \A p \in Point : ks[p] \in Nat /\ \A n \in Node : rg[p][n] \in Nat,
           \A p \in Point : ks[p] > 0 <=> \E n \in Node : rg[p][n] > 0
    PROVE  Candidates(ks, rg, hash) =
              IF There(ks) = {} THEN {} ELSE {n \in Node : rg[First(ks, hash)][n] > 0}
<1>1. CASE There(ks) = {}
  BY <1>1 DEF There, Candidates
<1>2. CASE There(ks) # {}
  <2>1. ~(\A p \in Point : ks[p] = 0) /\ ~(\A p \in Point, n \in Node : rg[p][n] = 0)
    BY <1>2 DEF There
  <2> QED
    BY <1>2, <2>1 DEF Candidates
<1> QED
  BY <1>1, <1>2
-----------------------------------------------------------------------------
LEMMA HitsAre ==
    ASSUME NEW n \in Node, NEW k \in 0 .. replicas, NEW p \in Point
    PROVE  /\ Hits(n, k, p) \in Nat
           /\ Hits(n, k, p) <= Hits(n, replicas, p)
           /\ Hits(n, k, p) > 0 => \E i \in 0 .. replicas - 1 : hashFunc[n][i] = p
<1> DEFINE S == {i \in 0 .. k - 1 : hashFunc[n][i] = p}
           T == {i \in 0 .. replicas - 1 : hashFunc[n][i] = p}
<1>1. IsFiniteSet(0 .. replicas - 1) /\ S \subseteq T /\ T \subseteq 0 .. replicas - 1
  BY HashAssumption, FS_Interval
<1>2. IsFiniteSet(T)
  BY <1>1, FS_Subset
<1>3. IsFiniteSet(S) /\ Cardinality(S) <= Cardinality(T)
  BY <1>1, <1>2, FS_Subset
<1>4. Cardinality(S) \in Nat /\ (Cardinality(S) > 0 => S # {})
  BY <1>3, FS_CardinalityType, FS_EmptySet
<1> QED
  BY <1>1, <1>3, <1>4 DEF Hits

\* The entries for the nodes at a point, by node and number.
Entries(p) == {e \in Node \X Nat : e[2] < ring[p][e[1]]}

\* The entries of one node from the i-th to the one before the j-th.
Block(n, i, j) == {n} \X (i .. j - 1)

LEMMA BlockIs ==
    ASSUME NEW n, NEW i \in Nat, NEW j \in Nat, i <= j
    PROVE  IsFiniteSet(Block(n, i, j)) /\ Cardinality(Block(n, i, j)) = j - i
<1>1. IsFiniteSet(i .. j - 1) /\ Cardinality(i .. j - 1) = j - i
  <2>1. i \in Int /\ j - 1 \in Int
    OBVIOUS
  <2>2. /\ IsFiniteSet(i .. j - 1)
        /\ Cardinality(i .. j - 1) = IF i > j - 1 THEN 0 ELSE (j - 1) - i + 1
    BY <2>1, FS_Interval
  <2> QED
    BY <2>2
<1>2. IsFiniteSet({n}) /\ Cardinality({n}) = 1
  BY FS_Singleton
<1>3. /\ IsFiniteSet({n} \X (i .. j - 1))
      /\ Cardinality({n} \X (i .. j - 1)) = Cardinality({n}) * Cardinality(i .. j - 1)
  BY <1>1, <1>2, FS_Product
<1> QED
  BY <1>1, <1>2, <1>3 DEF Block

EntriesAreFew == \A p \in Point : IsFiniteSet(Entries(p))

MembersStand ==
    \A p \in Point, n \in Node : ring[p][n] > 0 => n \in nodes /\ Hits(n, replicas, p) > 0

\* A removal never takes too few keys unless an addition raced, and it takes too many only
\* where it robs others.
NoKeyTooMany == raced = {} => \A p \in Point : keys[p] <= Cardinality(Entries(p))
NoKeyTooFew == \A p \in Point \ robbed : keys[p] >= Cardinality(Entries(p))

RingInv ==
    HashTypeOK /\ MembersStand /\ EntriesAreFew /\ NoKeyTooMany /\ NoKeyTooFew /\ LaterCallOverwrites

LEMMA RingIsTyped ==
    RingInv => /\ \A p \in Point : keys[p] \in Nat /\ \A n \in Node : ring[p][n] \in Nat
               /\ nodes \subseteq Node
               /\ \A p \in Point : Cardinality(Entries(p)) \in Nat
  BY FS_CardinalityType DEF RingInv, HashTypeOK, EntriesAreFew

LEMMA EntriesThere ==
    ASSUME RingInv, NEW p \in Point
    PROVE  Cardinality(Entries(p)) > 0 <=> \E n \in Node : ring[p][n] > 0
<1>1. IsFiniteSet(Entries(p)) /\ (Cardinality(Entries(p)) = 0 <=> Entries(p) = {})
  BY FS_EmptySet DEF RingInv, EntriesAreFew
<1>2. ASSUME NEW n \in Node, ring[p][n] > 0
      PROVE  <<n, 0>> \in Entries(p)
  BY <1>2 DEF Entries
<1>3. ASSUME NEW e \in Entries(p)
      PROVE  e[1] \in Node /\ ring[p][e[1]] > 0
  BY RingIsTyped DEF Entries
<1>4. Entries(p) # {} <=> \E n \in Node : ring[p][n] > 0
  BY <1>2, <1>3
<1>5. Cardinality(Entries(p)) \in Nat
  BY RingIsTyped
<1> QED
  BY <1>1, <1>4, <1>5

\* Without a race, a key is where nobody has been robbed iff a node stands there.
LEMMA KeyMeansNode ==
    ASSUME RingInv, NEW p \in Point
    PROVE  /\ raced = {} /\ keys[p] > 0 => \E n \in Node : ring[p][n] > 0
           /\ p \notin robbed /\ (\E n \in Node : ring[p][n] > 0) => keys[p] > 0
  BY EntriesThere, RingIsTyped DEF RingInv, NoKeyTooMany, NoKeyTooFew

\* What the removal of a member does, told point by point.
Removes(n) ==
    /\ \A p \in Point :
          /\ Hits(n, replicas, p) \in Nat
          /\ keys'[p] = IF keys[p] > Hits(n, replicas, p) THEN keys[p] - Hits(n, replicas, p) ELSE 0
          /\ \A m \in Node : ring'[p][m] = IF m = n THEN 0 ELSE ring[p][m]
    /\ keys' \in [Point -> Nat] /\ ring' \in [Point -> [Node -> Nat]]
    /\ nodes' = nodes \ {n} /\ raced' = raced /\ robbed' = robbed \cup Robs(n)

LEMMA Removed ==
    ASSUME RingInv, NEW n \in Node, n \in nodes, removeNode(n)
    PROVE  Removes(n)
<1>1. /\ keys' = TakeKeys(n) /\ nodes' = nodes \ {n} /\ raced' = raced /\ robbed' = robbed \cup Robs(n)
      /\ ring' = [p \in Point |-> [ring[p] EXCEPT ![n] = 0]]
  BY DEF removeNode
<1>2. ASSUME NEW p \in Point
      PROVE  /\ Hits(n, replicas, p) \in Nat
             /\ keys'[p] = IF keys[p] > Hits(n, replicas, p) THEN keys[p] - Hits(n, replicas, p) ELSE 0
             /\ \A m \in Node : ring'[p][m] = IF m = n THEN 0 ELSE ring[p][m]
  <2>1. Hits(n, replicas, p) \in Nat
    BY HitsAre, HashAssumption
  <2>2. keys'[p] = IF keys[p] > Hits(n, replicas, p) THEN keys[p] - Hits(n, replicas, p) ELSE 0
    BY <1>1 DEF TakeKeys
  <2>3. \A m \in Node : ring'[p][m] = IF m = n THEN 0 ELSE ring[p][m]
    BY <1>1 DEF RingInv, HashTypeOK
  <2> QED
    BY <2>1, <2>2, <2>3
<1>3. keys' \in [Point -> Nat]
  BY <1>1, <1>2, RingIsTyped DEF TakeKeys
<1>4. ring' \in [Point -> [Node -> Nat]]
  BY <1>1 DEF RingInv, HashTypeOK
<1> QED
  BY <1>1, <1>2, <1>3, <1>4 DEF Removes

\* The entries of the node go, and no others.
LEMMA EntriesLeft ==
    ASSUME RingInv, NEW n \in Node, Removes(n), NEW p \in Point
    PROVE  /\ IsFiniteSet(Entries(p)')
           /\ Cardinality(Entries(p)') = Cardinality(Entries(p)) - ring[p][n]
<1>1. ring[p][n] \in Nat /\ \A m \in Node : ring'[p][m] = IF m = n THEN 0 ELSE ring[p][m]
  BY RingIsTyped DEF Removes
<1>2. Block(n, 0, ring[p][n]) \subseteq Entries(p)
  BY <1>1 DEF Block, Entries
<1>3. Entries(p)' = Entries(p) \ Block(n, 0, ring[p][n])
  <2>1. ASSUME NEW m \in Node, NEW i \in Nat
        PROVE  i < ring'[p][m] <=> i < ring[p][m] /\ ~(m = n /\ i \in 0 .. ring[p][n] - 1)
    BY <1>1
  <2> QED
    BY <2>1 DEF Block, Entries
<1>4. IsFiniteSet(Entries(p))
  BY DEF RingInv, EntriesAreFew
<1>5. Cardinality(Block(n, 0, ring[p][n])) = ring[p][n]
  BY <1>1, BlockIs
<1>6. Entries(p) \cap Block(n, 0, ring[p][n]) = Block(n, 0, ring[p][n])
  BY <1>2
<1> DEFINE B == Block(n, 0, ring[p][n])
<1>7. /\ IsFiniteSet(Entries(p) \ B)
      /\ Cardinality(Entries(p) \ B) = Cardinality(Entries(p)) - Cardinality(Entries(p) \cap B)
  <2> HIDE DEF B
  <2> QED
    BY <1>4, FS_Difference
<1> QED
  BY <1>3, <1>5, <1>6, <1>7

LEMMA RemovalKeeps ==
    ASSUME RingInv, NEW n \in Node, removeNode(n),
           \A m \in Node \ {n} : last'[m] = last[m], last' \in [Node -> 0 .. replicas],
           adder' \in [Adder -> {Idle} \cup {Adding(m, k) : m \in Node, k \in 0 .. replicas}]
    PROVE  RingInv'
<1>1. CASE n \notin nodes
  BY <1>1 DEF removeNode, RingInv, HashTypeOK, MembersStand, EntriesAreFew, Entries, NoKeyTooMany,
              NoKeyTooFew, LaterCallOverwrites
<1>2. CASE n \in nodes
  <2>1. Removes(n)
    BY <1>2, Removed
  <2>2. HashTypeOK'
    BY <2>1 DEF Removes, Robs, RingInv, HashTypeOK
  <2>3. MembersStand'
    BY <2>1, RingIsTyped DEF Removes, RingInv, MembersStand
  <2>4. ASSUME NEW p \in Point
        PROVE  /\ keys[p] \in Nat /\ keys'[p] \in Nat /\ ring[p][n] \in Nat
               /\ Hits(n, replicas, p) \in Nat
               /\ keys'[p] = IF keys[p] > Hits(n, replicas, p) THEN keys[p] - Hits(n, replicas, p) ELSE 0
               /\ Cardinality(Entries(p)) \in Nat /\ Cardinality(Entries(p)') \in Nat
               /\ IsFiniteSet(Entries(p)')
               /\ Cardinality(Entries(p)') = Cardinality(Entries(p)) - ring[p][n]
    BY <2>1, EntriesLeft, RingIsTyped, FS_CardinalityType DEF Removes
  <2>5. EntriesAreFew'
    BY <2>4 DEF EntriesAreFew
  <2>6. NoKeyTooMany'
    <3> SUFFICES ASSUME raced = {}, NEW p \in Point
                 PROVE  keys'[p] <= Cardinality(Entries(p)')
      BY <2>1 DEF NoKeyTooMany, Removes
    <3>1. ring[p][n] = Hits(n, last[n], p) /\ last[n] \in 0 .. replicas
      BY <1>2 DEF RingInv, LaterCallOverwrites, HashTypeOK
    <3>2. ring[p][n] <= Hits(n, replicas, p)
      BY <3>1, HitsAre
    <3>3. keys[p] <= Cardinality(Entries(p))
      BY DEF RingInv, NoKeyTooMany
    <3> QED
      BY <2>4, <3>2, <3>3
  <2>7. NoKeyTooFew'
    <3> SUFFICES ASSUME NEW p \in Point, p \notin robbed, p \notin Robs(n)
                 PROVE  keys'[p] >= Cardinality(Entries(p)')
      BY <2>1 DEF NoKeyTooFew, Removes
    <3>1. keys[p] >= Cardinality(Entries(p))
      BY DEF RingInv, NoKeyTooFew
    <3>2. CASE Hits(n, replicas, p) <= ring[p][n]
      BY <2>4, <3>1, <3>2
    <3>3. CASE \A m \in Node \ {n} : ~(ring[p][m] > 0)
      <4>1. \A m \in Node : ~(ring'[p][m] > 0)
        BY <2>1, <3>3 DEF Removes
      <4>2. \A m \in Node : ring'[p][m] \in Nat
        BY <2>1 DEF Removes
      <4>3. Entries(p)' = {}
        BY <4>1, <4>2 DEF Entries
      <4>4. Cardinality(Entries(p)') = 0
        BY <2>4, <4>3, FS_EmptySet
      <4> QED
        BY <2>4, <4>4
    <3> QED
      BY <2>4, <3>2, <3>3 DEF Robs
  <2>8. LaterCallOverwrites'
    BY <2>1 DEF Removes, RingInv, LaterCallOverwrites, HashTypeOK
  <2> QED
    BY <2>2, <2>3, <2>5, <2>6, <2>7, <2>8 DEF RingInv
<1> QED
  BY <1>1, <1>2

\* What AddEnds does when k replicas of n are added, told point by point.
Adds(n, k) ==
    /\ \A p \in Point : /\ Hits(n, k, p) \in Nat /\ keys'[p] = keys[p] + Hits(n, k, p)
                        /\ \A m \in Node : ring'[p][m] = IF m = n THEN ring[p][n] + Hits(n, k, p)
                                                         ELSE ring[p][m]
    /\ keys' \in [Point -> Nat] /\ ring' \in [Point -> [Node -> Nat]]
    /\ nodes' = nodes \cup {n} /\ raced' = raced \cup ({n} \cap nodes) /\ robbed' = robbed
    /\ last' = [last EXCEPT ![n] = k]
    /\ adder' \in [Adder -> {Idle} \cup {Adding(m, j) : m \in Node, j \in 0 .. replicas}]

LEMMA Added ==
    ASSUME RingInv, NEW a \in Adder, AddEnds(a)
    PROVE  \E n \in Node, k \in 0 .. replicas : Adds(n, k)
<1>1. PICK n \in Node, k \in 0 .. replicas : adder[a] = Adding(n, k)
  BY DEF AddEnds, RingInv, HashTypeOK, Idle
<1>2. adder[a].node = n /\ adder[a].replicas = k
  BY <1>1 DEF Adding
<1>3. \A p \in Point : Hits(n, k, p) \in Nat
  BY HitsAre
<1>4. /\ keys' = [p \in Point |-> keys[p] + Hits(n, k, p)]
      /\ ring' = [p \in Point |-> [ring[p] EXCEPT ![n] = @ + Hits(n, k, p)]]
      /\ nodes' = nodes \cup {n} /\ raced' = raced \cup ({n} \cap nodes) /\ robbed' = robbed
      /\ last' = [last EXCEPT ![n] = k] /\ adder' = [adder EXCEPT ![a] = Idle]
  BY <1>2 DEF AddEnds
<1>5. \A p \in Point, m \in Node : ring'[p][m] = IF m = n THEN ring[p][n] + Hits(n, k, p) ELSE ring[p][m]
  BY <1>4 DEF RingInv, HashTypeOK
<1>6. keys' \in [Point -> Nat]
  BY <1>3, <1>4, RingIsTyped
<1>7. ring' \in [Point -> [Node -> Nat]]
  <2>1. \A p \in Point, m \in Node : ring'[p][m] \in Nat
    BY <1>3, <1>5, RingIsTyped
  <2>2. \A p \in Point : ring'[p] = [m \in Node |-> ring'[p][m]]
    BY <1>4 DEF RingInv, HashTypeOK
  <2>3. ring' = [p \in Point |-> ring'[p]]
    BY <1>4
  <2> QED
    BY <2>1, <2>2, <2>3
<1>8. adder' \in [Adder -> {Idle} \cup {Adding(m, j) : m \in Node, j \in 0 .. replicas}]
  BY <1>4 DEF RingInv, HashTypeOK
<1>9. \A p \in Point : keys'[p] = keys[p] + Hits(n, k, p)
  BY <1>4
<1>10. nodes' = nodes \cup {n} /\ raced' = raced \cup ({n} \cap nodes) /\ robbed' = robbed
       /\ last' = [last EXCEPT ![n] = k]
  BY <1>4
<1>11. Adds(n, k)
  BY <1>3, <1>5, <1>6, <1>7, <1>8, <1>9, <1>10 DEF Adds
<1> QED
  BY <1>11

\* The entries of the node become more, and no others.
LEMMA EntriesMore ==
    ASSUME RingInv, NEW n \in Node, NEW k \in 0 .. replicas, Adds(n, k), NEW p \in Point
    PROVE  /\ IsFiniteSet(Entries(p)')
           /\ Cardinality(Entries(p)') = Cardinality(Entries(p)) + Hits(n, k, p)
<1> DEFINE i == ring[p][n]
           j == ring[p][n] + Hits(n, k, p)
<1>1. /\ i \in Nat /\ j \in Nat /\ i <= j /\ j - i = Hits(n, k, p)
      /\ \A m \in Node : ring[p][m] \in Nat /\ ring'[p][m] = IF m = n THEN j ELSE ring[p][m]
  <2>1. /\ Hits(n, k, p) \in Nat
        /\ \A m \in Node : ring'[p][m] = IF m = n THEN ring[p][n] + Hits(n, k, p) ELSE ring[p][m]
    BY DEF Adds
  <2>2. \A m \in Node : ring[p][m] \in Nat
    BY RingIsTyped
  <2> QED
    BY <2>1, <2>2
<1> HIDE DEF i, j
<1>2. Entries(p)' = Entries(p) \cup Block(n, i, j)
  <2>1. ASSUME NEW m \in Node, NEW l \in Nat
        PROVE  l < ring'[p][m] <=> l < ring[p][m] \/ (m = n /\ l \in i .. j - 1)
    BY <1>1 DEF i
  <2>2. Block(n, i, j) \subseteq Node \X Nat
    BY <1>1 DEF Block
  <2> QED
    BY <2>1, <2>2 DEF Block, Entries
<1>3. Entries(p) \cap Block(n, i, j) = {}
  BY <1>1 DEF Block, Entries, i
<1>4. IsFiniteSet(Entries(p)) /\ Cardinality(Entries(p)) \in Nat
  BY RingIsTyped DEF RingInv, EntriesAreFew
<1>5. IsFiniteSet(Block(n, i, j)) /\ Cardinality(Block(n, i, j)) = j - i
  BY <1>1, BlockIs
<1>6. Cardinality(Entries(p) \cap Block(n, i, j)) = 0
  BY <1>3, FS_EmptySet
<1>7. /\ IsFiniteSet(Entries(p)')
      /\ Cardinality(Entries(p)') = Cardinality(Entries(p)) + (j - i) - 0
  BY <1>2, <1>4, <1>5, <1>6, FS_Union
<1> QED
  BY <1>1, <1>4, <1>7

LEMMA AdditionKeeps ==
    ASSUME RingInv, NEW a \in Adder, AddEnds(a)
    PROVE  RingInv'
<1>1. PICK n \in Node, k \in 0 .. replicas : Adds(n, k)
  BY Added
<1>2. HashTypeOK'
  BY <1>1 DEF Adds, RingInv, HashTypeOK
<1>3. ASSUME NEW p \in Point
      PROVE  /\ keys[p] \in Nat /\ keys'[p] = keys[p] + Hits(n, k, p)
             /\ Hits(n, k, p) \in Nat /\ Cardinality(Entries(p)) \in Nat
             /\ IsFiniteSet(Entries(p)')
             /\ Cardinality(Entries(p)') = Cardinality(Entries(p)) + Hits(n, k, p)
  <2>1. keys'[p] = keys[p] + Hits(n, k, p) /\ Hits(n, k, p) \in Nat
    BY <1>1 DEF Adds
  <2>2. keys[p] \in Nat /\ Cardinality(Entries(p)) \in Nat
    BY RingIsTyped
  <2>3. IsFiniteSet(Entries(p)') /\ Cardinality(Entries(p)') = Cardinality(Entries(p)) + Hits(n, k, p)
    BY <1>1, EntriesMore
  <2> QED
    BY <2>1, <2>2, <2>3
<1>4. MembersStand'
  <2> SUFFICES ASSUME NEW p \in Point, NEW m \in Node, ring'[p][m] > 0
               PROVE  m \in nodes' /\ Hits(m, replicas, p) > 0
    BY DEF MembersStand
  <2>1. CASE ring[p][m] > 0
    BY <1>1, <2>1 DEF Adds, RingInv, MembersStand
  <2>2. CASE ~(ring[p][m] > 0)
    <3>1. m = n /\ Hits(n, k, p) > 0
      BY <1>1, <2>2, RingIsTyped DEF Adds
    <3>2. Hits(n, replicas, p) \in Nat /\ Hits(n, k, p) <= Hits(n, replicas, p)
      BY HitsAre, HashAssumption
    <3>3. n \in nodes'
      BY <1>1 DEF Adds
    <3> QED
      BY <1>3, <3>1, <3>2, <3>3
  <2> QED
    BY <2>1, <2>2
<1>5. EntriesAreFew'
  BY <1>3 DEF EntriesAreFew
<1>6. NoKeyTooMany' /\ NoKeyTooFew'
  <2>1. raced' = {} => raced = {}
    BY <1>1 DEF Adds
  <2>2. robbed' = robbed
    BY <1>1 DEF Adds
  <2> QED
    BY <1>3, <2>1, <2>2 DEF RingInv, NoKeyTooMany, NoKeyTooFew
<1>7. LaterCallOverwrites'
  <2> SUFFICES ASSUME NEW m \in nodes' \ raced', NEW p \in Point
               PROVE  ring'[p][m] = Hits(m, last'[m], p)
    BY DEF LaterCallOverwrites
  <2>1. CASE m = n
    <3>1. n \notin nodes /\ ring[p][n] = 0
      BY <1>1, <2>1, RingIsTyped DEF Adds, RingInv, MembersStand
    <3>2. last'[n] = k
      BY <1>1 DEF Adds, RingInv, HashTypeOK
    <3> QED
      BY <1>1, <2>1, <3>1, <3>2 DEF Adds
  <2>2. CASE m # n
    <3>1. m \in nodes \ raced /\ m \in Node /\ last'[m] = last[m]
      BY <1>1, <2>2 DEF Adds, RingInv, HashTypeOK
    <3>2. ring'[p][m] = ring[p][m]
      BY <1>1, <2>2, <3>1 DEF Adds
    <3> QED
      BY <3>1, <3>2 DEF RingInv, LaterCallOverwrites
  <2> QED
    BY <2>1, <2>2
<1> QED
  BY <1>2, <1>4, <1>5, <1>6, <1>7 DEF RingInv

\* A step either removes a node, with or without an effect, or adds one.
LEMMA RingStep == RingInv /\ [HashNext]_hashVars => RingInv'
<1> SUFFICES ASSUME RingInv, [HashNext]_hashVars PROVE RingInv'
  OBVIOUS
<1>1. ASSUME NEW n \in Node, Remove(n)
      PROVE  RingInv'
  <2>1. last' = [last EXCEPT ![n] = 0] /\ adder' = adder /\ removeNode(n)
    BY <1>1 DEF Remove
  <2>2. last' \in [Node -> 0 .. replicas] /\ \A m \in Node \ {n} : last'[m] = last[m]
    BY <2>1, HashAssumption DEF RingInv, HashTypeOK
  <2> QED
    BY <2>1, <2>2, RemovalKeeps DEF RingInv, HashTypeOK
<1>2. ASSUME NEW a \in Adder, NEW n \in Node, NEW k \in 0 .. replicas, AddBegins(a, n, k)
      PROVE  RingInv'
  <2>1. last' = last /\ removeNode(n) /\ adder' = [adder EXCEPT ![a] = Adding(n, k)]
    BY <1>2 DEF AddBegins
  <2>2. last' \in [Node -> 0 .. replicas] /\ \A m \in Node \ {n} : last'[m] = last[m]
    BY <2>1 DEF RingInv, HashTypeOK
  <2>3. adder' \in [Adder -> {Idle} \cup {Adding(m, j) : m \in Node, j \in 0 .. replicas}]
    BY <2>1 DEF RingInv, HashTypeOK
  <2> QED
    BY <2>1, <2>2, <2>3, RemovalKeeps
<1>3. CASE UNCHANGED hashVars
  BY <1>3 DEF hashVars, RingInv, HashTypeOK, MembersStand, EntriesAreFew, Entries, NoKeyTooMany,
              NoKeyTooFew, LaterCallOverwrites
<1> QED
  BY <1>1, <1>2, <1>3, AdditionKeeps DEF HashNext

LEMMA RingInvHolds == HashSpec => []RingInv
<1>1. HashInit => RingInv
  <2> SUFFICES ASSUME HashInit PROVE RingInv
    OBVIOUS
  <2>1. HashTypeOK /\ MembersStand /\ LaterCallOverwrites
    BY HashAssumption DEF HashInit, HashTypeOK, MembersStand, LaterCallOverwrites
  <2>2. \A p \in Point : Entries(p) = {}
    BY DEF HashInit, Entries
  <2>3. \A p \in Point : IsFiniteSet(Entries(p)) /\ Cardinality(Entries(p)) = 0 /\ keys[p] = 0
    BY <2>2, FS_EmptySet DEF HashInit
  <2> QED
    BY <2>1, <2>3 DEF RingInv, EntriesAreFew, NoKeyTooMany, NoKeyTooFew
<1> QED
  BY <1>1, RingStep, PTL DEF HashSpec

\* Get never names a node that has been removed, panics only after a removal has taken keys
\* of other nodes, and without a race it finds one whenever there is one, on a ring as the
\* last call for each node asked for.
THEOREM TheRingIsSound == HashSpec => []RingIsSound
<1>1. RingInv => RingIsSound
  <2> SUFFICES ASSUME RingInv, NEW hash \in Point
               PROVE  /\ Get(hash) \subseteq nodes \cup {"panic"}
                      /\ "panic" \in Get(hash) => robbed # {}
                      /\ raced = {} /\ (\E p \in Point, n \in Node : ring[p][n] > 0) => Get(hash) # {}
    BY DEF RingIsSound, GetsAMember, GetFindsOne, RingInv
  <2>1. CASE \A p \in Point, n \in Node : ring[p][n] = 0
    BY <2>1 DEF Get, Candidates
  <2>2. CASE ~(\A p \in Point, n \in Node : ring[p][n] = 0) /\ There(keys) = {}
    <3>1. \A p \in Point : keys[p] = 0
      BY <2>2, RingIsTyped DEF There
    <3>2. Get(hash) = {"panic"}
      BY <2>2, <3>1 DEF Get, Candidates
    <3>3. PICK p \in Point, n \in Node : ring[p][n] > 0
      BY <2>2, RingIsTyped
    <3>4. p \in robbed
      BY <3>1, <3>3, KeyMeansNode
    <3> QED
      BY <3>2, <3>4
  <2>3. CASE ~(\A p \in Point, n \in Node : ring[p][n] = 0) /\ There(keys) # {}
    <3>1. First(keys, hash) \in There(keys)
      BY <2>3, FirstIsThere
    <3>2. Get(hash) = {n \in Node : ring[First(keys, hash)][n] > 0}
      BY <2>3 DEF Get, Candidates, There
    <3>3. Get(hash) \subseteq nodes
      BY <3>1, <3>2 DEF RingInv, MembersStand, There
    <3>4. "panic" \notin Get(hash)
      BY <3>2, HashAssumption
    <3>5. raced = {} => Get(hash) # {}
      BY <3>1, <3>2, KeyMeansNode DEF There
    <3> QED
      BY <3>3, <3>4, <3>5
  <2> QED
    BY <2>1, <2>2, <2>3
<1> QED
  BY <1>1, RingInvHolds, PTL

\* The nodes that Get chooses from, told by the first key.
Standing(rg, p) == {n \in Node : rg[p][n] > 0}

AnswersStand ==
    raced = {} /\ robbed = {} =>
        /\ \A p \in Point : keys[p] > 0 <=> \E n \in Node : ring[p][n] > 0
        /\ \A hash \in Point :
              Candidates(keys, ring, hash)
                  = IF There(keys) = {} THEN {} ELSE Standing(ring, First(keys, hash))

LEMMA GetIs == RingInv => AnswersStand
<1> SUFFICES ASSUME RingInv, raced = {}, robbed = {}
             PROVE  /\ \A p \in Point : keys[p] > 0 <=> \E n \in Node : ring[p][n] > 0
                    /\ \A hash \in Point :
                          Candidates(keys, ring, hash)
                              = IF There(keys) = {} THEN {} ELSE Standing(ring, First(keys, hash))
  BY DEF AnswersStand
<1>1. \A p \in Point : keys[p] > 0 <=> \E n \in Node : ring[p][n] > 0
  BY KeyMeansNode
<1> QED
  BY <1>1, RingIsTyped, CandidatesAre DEF Standing

\* While nobody is robbed and no additions race, keys has the points at which a node stands
\* and no others: the search stops where it did if a node stands there before and after.
LEMMA OthersStayStep == RingInv /\ RingInv' /\ [HashNext]_hashVars =>
    [\A hash \in Point :
           LET now == Get(hash)
               then == Candidates(keys', ring', hash)
           IN  raced' = {} /\ robbed' = {} =>
                   \A m \in now \cap nodes', w \in then \cap nodes : m = w \/ {m, w} \subseteq now \cap then]_hashVars
<1> SUFFICES ASSUME RingInv, RingInv', HashNext, raced' = {}, robbed' = {}, NEW hash \in Point,
                    NEW m \in Get(hash), m \in nodes',
                    NEW w \in Candidates(keys', ring', hash), w \in nodes
             PROVE  m = w \/ {m, w} \subseteq Get(hash) \cap Candidates(keys', ring', hash)
  OBVIOUS
<1>1. raced = {} /\ robbed = {}
  BY Added DEF HashNext, Remove, AddBegins, removeNode, Adds
<1>2. /\ \A p \in Point : keys[p] > 0 <=> \E n \in Node : ring[p][n] > 0
      /\ Get(hash) = IF There(keys) = {} THEN {} ELSE Standing(ring, First(keys, hash))
  BY <1>1, GetIs DEF Get, AnswersStand
<1>3. AnswersStand'
  BY GetIs, PTL
<1>4. /\ \A p \in Point : keys'[p] > 0 <=> \E n \in Node : ring'[p][n] > 0
      /\ Candidates(keys', ring', hash)
             = IF There(keys') = {} THEN {} ELSE Standing(ring', First(keys', hash))
  BY <1>3 DEF AnswersStand
<1> DEFINE p == First(keys, hash)
           q == First(keys', hash)
<1>5. p \in There(keys) /\ p \in Point /\ m \in Node /\ ring[p][m] > 0
  BY <1>2, FirstIsThere DEF There, Standing
<1>6. q \in There(keys') /\ q \in Point /\ w \in Node /\ ring'[q][w] > 0
  BY <1>4, FirstIsThere DEF There, Standing
<1>7. ASSUME p = q, ring'[p][m] > 0, ring[q][w] > 0
      PROVE  {m, w} \subseteq Get(hash) \cap Candidates(keys', ring', hash)
  BY <1>2, <1>4, <1>5, <1>6, <1>7 DEF Standing
<1> HIDE DEF p, q
<1>8. ASSUME NEW n \in Node, removeNode(n)
      PROVE  {m, w} \subseteq Get(hash) \cap Candidates(keys', ring', hash)
  <2>1. CASE n \notin nodes
    <3>1. keys' = keys /\ ring' = ring
      BY <1>8, <2>1 DEF removeNode
    <3> QED
      BY <3>1, <1>5, <1>6, <1>7 DEF p, q
  <2>2. CASE n \in nodes
    <3>1. Removes(n)
      BY <1>8, <2>2, Removed
    <3>2. m # n
      BY <3>1 DEF Removes
    <3>3. ring'[p][m] > 0
      BY <1>5, <3>1, <3>2 DEF Removes
    <3>4. \A r \in Point, x \in Node : ring'[r][x] > 0 => ring[r][x] > 0
      BY <3>1 DEF Removes
    <3>5. There(keys') \subseteq There(keys)
      BY <1>2, <1>4, <3>4 DEF There
    <3>6. p \in There(keys')
      BY <1>4, <1>5, <3>3 DEF There
    <3>7. q = p
      BY <3>5, <3>6, FirstStays DEF p, q
    <3> QED
      BY <1>6, <1>7, <3>3, <3>4, <3>7
  <2> QED
    BY <2>1, <2>2
<1>9. ASSUME NEW n \in Node, NEW k \in 0 .. replicas, Adds(n, k)
      PROVE  {m, w} \subseteq Get(hash) \cap Candidates(keys', ring', hash)
  <2>1. n \notin nodes
    BY <1>9 DEF Adds
  <2>2. \A r \in Point : ~(ring[r][n] > 0)
    BY <2>1 DEF RingInv, MembersStand
  <2>3. \A r \in Point, x \in Node : x # n => ring'[r][x] = ring[r][x]
    BY <1>9 DEF Adds
  <2>4. There(keys) \subseteq There(keys')
    <3>1. \A r \in Point, x \in Node : ring[r][x] > 0 => ring'[r][x] > 0
      BY <2>2, <2>3
    <3> QED
      BY <1>2, <1>4, <3>1 DEF There
  <2>5. ring[q][w] > 0
    BY <1>6, <2>1, <2>3
  <2>6. q \in There(keys)
    BY <1>2, <1>6, <2>5 DEF There
  <2>7. p = q
    BY <2>4, <2>6, FirstStays DEF p, q
  <2>8. ring'[p][m] > 0
    BY <1>5, <2>2, <2>3
  <2> QED
    BY <1>7, <2>5, <2>7, <2>8
<1> QED
  BY <1>8, <1>9, Added DEF HashNext, Remove, AddBegins

\* A node that comes takes values from the others and one that goes leaves its values
\* to them; nothing moves between two nodes that stay, but where both stand at the point,
\* unless additions raced or a removal took keys of others.
THEOREM OthersKeepTheirValues == HashSpec => OthersStay
  BY RingInvHolds, OthersStayStep, PTL DEF HashSpec, OthersStay
-----------------------------------------------------------------------------
(***************************************************************************)
(* The trie.  A keyword that ends at a place of the text is a suffix of    *)
(* what has been read; the node find is at is the longest suffix that is a *)
(* node, and its failures are the others, by length.                       *)
(***************************************************************************)

\* What is left of a word without its first k runes.
Suffix(w, k) == SubSeq(w, k + 1, Len(w))

LEMMA SuffixIs ==
    ASSUME NEW w \in Seq(Rune), NEW k \in 0 .. Len(w)
    PROVE  /\ Suffix(w, k) \in Seq(Rune)
           /\ Len(Suffix(w, k)) = Len(w) - k
           /\ \A i \in 1 .. Len(w) - k : Suffix(w, k)[i] = w[k + i]
<1>1. Len(w) \in Nat /\ k \in Nat /\ k <= Len(w)
  BY LenProperties
<1>2. \A i \in k + 1 .. Len(w) : w[i] \in Rune
  BY <1>1, ElementOfSeq
<1>3. /\ SubSeq(w, k + 1, Len(w)) \in Seq(Rune)
      /\ Len(SubSeq(w, k + 1, Len(w))) = IF k + 1 <= Len(w) THEN Len(w) - (k + 1) + 1 ELSE 0
      /\ \A i \in 1 .. Len(w) - (k + 1) + 1 : SubSeq(w, k + 1, Len(w))[i] = w[k + 1 + i - 1]
  BY <1>1, <1>2, SubSeqProperties
<1> QED
  BY <1>1, <1>3 DEF Suffix

LEMMA SuffixEnds ==
    ASSUME NEW w \in Seq(Rune)
    PROVE  Suffix(w, 0) = w /\ Suffix(w, Len(w)) = <<>>
<1>1. Len(w) \in Nat
  BY LenProperties
<1>2. Suffix(w, 0) = w
  BY SubSeqFull DEF Suffix
<1>3. Suffix(w, Len(w)) = <<>>
  BY <1>1, SubSeqEmpty DEF Suffix
<1> QED
  BY <1>2, <1>3

LEMMA SuffixOfSuffix ==
    ASSUME NEW w \in Seq(Rune), NEW j \in 0 .. Len(w), NEW k \in 0 .. Len(w) - j
    PROVE  Suffix(Suffix(w, j), k) = Suffix(w, j + k)
<1>1. Len(w) \in Nat /\ j \in Nat /\ k \in Nat
  BY LenProperties
<1>2. /\ Suffix(w, j) \in Seq(Rune)
      /\ Len(Suffix(w, j)) = Len(w) - j
      /\ \A i \in 1 .. Len(w) - j : Suffix(w, j)[i] = w[j + i]
  BY SuffixIs
<1>3. j + k \in 0 .. Len(w) /\ k \in 0 .. Len(Suffix(w, j))
  BY <1>1, <1>2
<1>4. /\ Suffix(Suffix(w, j), k) \in Seq(Rune)
      /\ Len(Suffix(Suffix(w, j), k)) = Len(Suffix(w, j)) - k
      /\ \A i \in 1 .. Len(Suffix(w, j)) - k : Suffix(Suffix(w, j), k)[i] = Suffix(w, j)[k + i]
  BY <1>2, <1>3, SuffixIs
<1>5. /\ Suffix(w, j + k) \in Seq(Rune)
      /\ Len(Suffix(w, j + k)) = Len(w) - (j + k)
      /\ \A i \in 1 .. Len(w) - (j + k) : Suffix(w, j + k)[i] = w[j + k + i]
  BY <1>3, SuffixIs
<1>6. Len(Suffix(Suffix(w, j), k)) = Len(Suffix(w, j + k))
  BY <1>1, <1>2, <1>4, <1>5
<1>7. ASSUME NEW i \in 1 .. Len(Suffix(Suffix(w, j), k))
      PROVE  Suffix(Suffix(w, j), k)[i] = Suffix(w, j + k)[i]
  <2>1. i \in Nat /\ i \in 1 .. Len(Suffix(w, j)) - k /\ i \in 1 .. Len(w) - (j + k) /\ k + i \in 1 .. Len(w) - j
    BY <1>1, <1>2, <1>4
  <2>2. j + (k + i) = j + k + i
    BY <1>1, <2>1
  <2> QED
    BY <1>2, <1>4, <1>5, <2>1, <2>2
<1> QED
  BY <1>4, <1>5, <1>6, <1>7, SeqEqual

LEMMA SuffixOfAppend ==
    ASSUME NEW w \in Seq(Rune), NEW c \in Rune, NEW k \in 0 .. Len(w)
    PROVE  Suffix(Append(w, c), k) = Append(Suffix(w, k), c)
<1>1. Len(w) \in Nat /\ k \in Nat
  BY LenProperties
<1>2. /\ Append(w, c) \in Seq(Rune)
      /\ Len(Append(w, c)) = Len(w) + 1
      /\ \A i \in 1 .. Len(w) : Append(w, c)[i] = w[i]
      /\ Append(w, c)[Len(w) + 1] = c
  BY AppendProperties
<1>3. /\ Suffix(w, k) \in Seq(Rune)
      /\ Len(Suffix(w, k)) = Len(w) - k
      /\ \A i \in 1 .. Len(w) - k : Suffix(w, k)[i] = w[k + i]
  BY SuffixIs
<1>4. k \in 0 .. Len(Append(w, c))
  BY <1>1, <1>2
<1>5. /\ Suffix(Append(w, c), k) \in Seq(Rune)
      /\ Len(Suffix(Append(w, c), k)) = Len(Append(w, c)) - k
      /\ \A i \in 1 .. Len(Append(w, c)) - k : Suffix(Append(w, c), k)[i] = Append(w, c)[k + i]
  BY <1>2, <1>4, SuffixIs
<1>6. /\ Append(Suffix(w, k), c) \in Seq(Rune)
      /\ Len(Append(Suffix(w, k), c)) = Len(Suffix(w, k)) + 1
      /\ \A i \in 1 .. Len(Suffix(w, k)) : Append(Suffix(w, k), c)[i] = Suffix(w, k)[i]
      /\ Append(Suffix(w, k), c)[Len(Suffix(w, k)) + 1] = c
  BY <1>3, AppendProperties
<1>7. Len(Suffix(Append(w, c), k)) = Len(Append(Suffix(w, k), c))
  BY <1>1, <1>2, <1>3, <1>5, <1>6
<1>8. ASSUME NEW i \in 1 .. Len(Suffix(Append(w, c), k))
      PROVE  Suffix(Append(w, c), k)[i] = Append(Suffix(w, k), c)[i]
  <2>1. i \in Nat /\ i \in 1 .. Len(w) - k + 1 /\ i \in 1 .. Len(Append(w, c)) - k
    BY <1>1, <1>2, <1>5
  <2>2. Suffix(Append(w, c), k)[i] = Append(w, c)[k + i]
    BY <1>5, <2>1
  <2>3. CASE i = Len(w) - k + 1
    BY <1>1, <1>2, <1>3, <1>6, <2>1, <2>2, <2>3
  <2>4. CASE i # Len(w) - k + 1
    <3>1. i \in 1 .. Len(w) - k /\ k + i \in 1 .. Len(w)
      BY <1>1, <2>1, <2>4
    <3> QED
      BY <1>2, <1>3, <1>6, <2>2, <3>1
  <2> QED
    BY <2>3, <2>4
<1> QED
  BY <1>5, <1>6, <1>7, <1>8, SeqEqual

\* What a trie is made of.
TrieData == words \in SUBSET (Seq(Rune) \ {<<>>}) /\ mapping \in [words -> Seq(Rune)]

LEMMA PrefixIs ==
    ASSUME NEW w \in Seq(Rune), NEW n \in 0 .. Len(w)
    PROVE  /\ SubSeq(w, 1, n) \in Seq(Rune)
           /\ Len(SubSeq(w, 1, n)) = n
           /\ \A i \in 1 .. n : SubSeq(w, 1, n)[i] = w[i]
<1>1. Len(w) \in Nat /\ n \in Nat /\ n <= Len(w)
  BY LenProperties
<1>2. \A i \in 1 .. n : w[i] \in Rune
  BY <1>1, ElementOfSeq
<1>3. /\ SubSeq(w, 1, n) \in Seq(Rune)
      /\ Len(SubSeq(w, 1, n)) = IF 1 <= n THEN n - 1 + 1 ELSE 0
      /\ \A i \in 1 .. n - 1 + 1 : SubSeq(w, 1, n)[i] = w[1 + i - 1]
  BY <1>1, <1>2, SubSeqProperties
<1> QED
  BY <1>1, <1>3

LEMMA PrefixOfAppend ==
    ASSUME NEW w \in Seq(Rune), NEW n \in 1 .. Len(w)
    PROVE  SubSeq(w, 1, n) = Append(SubSeq(w, 1, n - 1), w[n]) /\ w[n] \in Rune
<1>1. Len(w) \in Nat /\ n \in Nat /\ n - 1 \in 0 .. Len(w) /\ n \in 0 .. Len(w)
  BY LenProperties
<1>2. w[n] \in Rune
  BY ElementOfSeq
<1>3. SubSeq(w, 1, n - 1) \in Seq(Rune)
  BY <1>1, PrefixIs
<1>4. SubSeq(w, 1, n) = SubSeq(w, 1, n - 1) \o <<w[n]>>
  BY <1>1, SubSeqRecursiveSecond
<1> QED
  BY <1>2, <1>3, <1>4, AppendIsConcat

LEMMA NodesAre ==
    ASSUME TrieData
    PROVE  /\ trieNodes \in SUBSET Seq(Rune)
           /\ <<>> \in trieNodes
           /\ words \subseteq trieNodes
<1>1. \A w \in words : w \in Seq(Rune) /\ w # <<>> /\ Len(w) \in Nat /\ Len(w) > 0
  BY EmptySeq DEF TrieData
<1>2. \A w \in words : \A n \in 1 .. Len(w) : SubSeq(w, 1, n) \in Seq(Rune)
  BY <1>1, PrefixIs
<1>3. \A w \in words : w = SubSeq(w, 1, Len(w)) /\ Len(w) \in 1 .. Len(w)
  BY <1>1, SubSeqFull
<1>4. <<>> \in Seq(Rune)
  BY EmptySeq
<1>5. ASSUME NEW nd \in trieNodes PROVE nd \in Seq(Rune)
  <2>1. nd = <<>> \/ \E w \in words : nd \in {SubSeq(w, 1, n) : n \in 1 .. Len(w)}
    BY DEF trieNodes
  <2> QED
    BY <1>2, <1>4, <2>1
<1>6. \A w \in words : w \in {SubSeq(w, 1, n) : n \in 1 .. Len(w)}
  BY <1>3
<1>7. words \subseteq trieNodes /\ <<>> \in trieNodes
  BY <1>6 DEF trieNodes
<1> QED
  BY <1>5, <1>7

LEMMA NodesHaveParents ==
    ASSUME TrieData, NEW nd \in trieNodes, nd # <<>>
    PROVE  /\ parent(nd) \in trieNodes
           /\ nd[Len(nd)] \in Rune
           /\ nd = Append(parent(nd), nd[Len(nd)])
           /\ Len(nd) \in Nat /\ Len(parent(nd)) = Len(nd) - 1
<1>0. PICK w \in words : \E n \in 1 .. Len(w) : nd = SubSeq(w, 1, n)
  BY DEF trieNodes
<1>1. PICK n \in 1 .. Len(w) : nd = SubSeq(w, 1, n)
  BY <1>0
<1>2. w \in Seq(Rune) /\ Len(w) \in Nat /\ n \in Nat /\ n \in 0 .. Len(w) /\ n - 1 \in 0 .. Len(w)
  BY LenProperties DEF TrieData
<1>3. nd \in Seq(Rune) /\ Len(nd) = n /\ nd[n] = w[n]
  BY <1>1, <1>2, PrefixIs
<1>4. nd = Append(SubSeq(w, 1, n - 1), w[n]) /\ w[n] \in Rune
  BY <1>1, <1>2, PrefixOfAppend
<1>5. nd = Append(SubSeq(nd, 1, n - 1), nd[n])
  <2>1. n \in 1 .. Len(nd)
    BY <1>2, <1>3
  <2>2. SubSeq(nd, 1, n) = Append(SubSeq(nd, 1, n - 1), nd[n])
    BY <1>3, <2>1, PrefixOfAppend
  <2> QED
    BY <1>3, <2>2, SubSeqFull
<1>6. SubSeq(w, 1, n - 1) = SubSeq(nd, 1, n - 1)
  <2>1. n - 1 \in 0 .. Len(nd)
    BY <1>2, <1>3
  <2>2. SubSeq(w, 1, n - 1) \in Seq(Rune) /\ SubSeq(nd, 1, n - 1) \in Seq(Rune)
    BY <1>2, <1>3, <2>1, PrefixIs
  <2> QED
    BY <1>3, <1>4, <1>5, <2>2, AppendInjective
<1>7. SubSeq(w, 1, n - 1) \in trieNodes /\ Len(SubSeq(w, 1, n - 1)) = n - 1
  <2>1. CASE n = 1
    BY <2>1, SubSeqEmpty, EmptySeq DEF trieNodes
  <2>2. CASE n # 1
    <3>1. n - 1 \in 1 .. Len(w)
      BY <1>2, <2>2
    <3>2. Len(SubSeq(w, 1, n - 1)) = n - 1
      BY <1>2, PrefixIs
    <3> QED
      BY <3>1, <3>2 DEF trieNodes
  <2> QED
    BY <2>1, <2>2
<1> QED
  BY <1>2, <1>3, <1>4, <1>5, <1>6, <1>7 DEF parent

LEMMA NodesGrow ==
    ASSUME TrieData, NEW v \in Seq(Rune), NEW c \in Rune, Append(v, c) \in trieNodes
    PROVE  v \in trieNodes
<1>1. Append(v, c) # <<>>
  BY AppendProperties
<1>2. Append(v, c) = Append(parent(Append(v, c)), Append(v, c)[Len(Append(v, c))])
  BY <1>1, NodesHaveParents
<1>3. parent(Append(v, c)) \in Seq(Rune) /\ Append(v, c)[Len(Append(v, c))] \in Rune
  BY <1>1, NodesHaveParents, NodesAre
<1>4. v = parent(Append(v, c))
  BY <1>2, <1>3, AppendInjective
<1> QED
  BY <1>1, <1>4, NodesHaveParents

-----------------------------------------------------------------------------
\* Of the suffixes of a word without its first runes, at least `from` of them, the
\* longest that is a node.
Cuts(w, from) == {k \in from .. Len(w) : Suffix(w, k) \in trieNodes}
Cut(w, from) == CHOOSE k \in Cuts(w, from) : \A j \in Cuts(w, from) : k <= j
LongestNode(w, from) == Suffix(w, Cut(w, from))

LEMMA CutIs ==
    ASSUME TrieData, NEW w \in Seq(Rune), NEW from \in 0 .. Len(w)
    PROVE  /\ Cut(w, from) \in from .. Len(w) /\ Cut(w, from) \in 0 .. Len(w)
           /\ Suffix(w, Cut(w, from)) \in trieNodes
           /\ \A j \in from .. Len(w) : Suffix(w, j) \in trieNodes => Cut(w, from) <= j
<1>1. Len(w) \in Nat /\ from \in Nat /\ from <= Len(w)
  BY LenProperties
<1>2. Len(w) \in Cuts(w, from)
  BY <1>1, SuffixEnds, NodesAre DEF Cuts
<1>3. Cuts(w, from) \in SUBSET Nat
  BY <1>1 DEF Cuts
<1>4. \E k \in Cuts(w, from) : \A j \in Cuts(w, from) : k <= j
  BY <1>2, <1>3, LeastNatural
<1>5. Cut(w, from) \in Cuts(w, from) /\ \A j \in Cuts(w, from) : Cut(w, from) <= j
  BY <1>4 DEF Cut
<1> QED
  BY <1>1, <1>5 DEF Cuts

LEMMA CutIsOne ==
    ASSUME TrieData, NEW w \in Seq(Rune), NEW from \in 0 .. Len(w), NEW k \in from .. Len(w),
           Suffix(w, k) \in trieNodes,
           \A j \in from .. k - 1 : Suffix(w, j) \notin trieNodes
    PROVE  LongestNode(w, from) = Suffix(w, k)
<1>1. Len(w) \in Nat /\ from \in Nat /\ k \in Nat /\ k <= Len(w) /\ from <= k
  BY LenProperties
<1>2. /\ Cut(w, from) \in from .. Len(w)
      /\ Suffix(w, Cut(w, from)) \in trieNodes
      /\ \A j \in from .. Len(w) : Suffix(w, j) \in trieNodes => Cut(w, from) <= j
  BY CutIs
<1>3. Cut(w, from) = k
  BY <1>1, <1>2
<1> QED
  BY <1>3 DEF LongestNode

LEMMA LongestNodeIs ==
    ASSUME TrieData, NEW w \in Seq(Rune), NEW from \in 0 .. Len(w)
    PROVE  /\ LongestNode(w, from) \in trieNodes /\ LongestNode(w, from) \in Seq(Rune)
           /\ Len(LongestNode(w, from)) \in Nat
           /\ Len(LongestNode(w, from)) = Len(w) - Cut(w, from)
           /\ Len(LongestNode(w, from)) <= Len(w) - from
<1>1. Cut(w, from) \in 0 .. Len(w) /\ Cut(w, from) \in from .. Len(w) /\ LongestNode(w, from) \in trieNodes
  BY CutIs DEF LongestNode
<1>2. LongestNode(w, from) \in Seq(Rune) /\ Len(LongestNode(w, from)) = Len(w) - Cut(w, from) /\ Len(w) \in Nat
  BY <1>1, SuffixIs, LenProperties DEF LongestNode
<1> QED
  BY <1>1, <1>2

LEMMA LongestOfNode ==
    ASSUME TrieData, NEW w \in Seq(Rune)
    PROVE  /\ w \in trieNodes => LongestNode(w, 0) = w
           /\ w \notin trieNodes => w # <<>> /\ LongestNode(w, 0) = LongestNode(w, 1)
           /\ Len(w) = 1 => LongestNode(w, 1) = <<>>
<1>1. Len(w) \in Nat /\ 0 \in 0 .. Len(w) /\ Suffix(w, 0) = w /\ Suffix(w, Len(w)) = <<>>
  BY LenProperties, SuffixEnds
<1>2. ASSUME w \in trieNodes PROVE LongestNode(w, 0) = w
  BY <1>1, <1>2, CutIsOne
<1>3. ASSUME w \notin trieNodes PROVE w # <<>> /\ LongestNode(w, 0) = LongestNode(w, 1)
  <2>1. w # <<>> /\ Len(w) > 0 /\ 1 \in 0 .. Len(w)
    BY <1>1, <1>3, NodesAre, EmptySeq
  <2>2. PICK k \in 1 .. Len(w) : k = Cut(w, 1) /\ Suffix(w, k) \in trieNodes
                                 /\ \A j \in 1 .. Len(w) : Suffix(w, j) \in trieNodes => k <= j
    BY <2>1, CutIs
  <2>3. \A j \in 0 .. k - 1 : Suffix(w, j) \notin trieNodes
    BY <1>1, <1>3, <2>2
  <2>4. k \in 0 .. Len(w)
    BY <1>1
  <2>5. LongestNode(w, 0) = Suffix(w, k)
    BY <1>1, <2>2, <2>3, <2>4, CutIsOne
  <2> QED
    BY <2>1, <2>2, <2>5 DEF LongestNode
<1>4. ASSUME Len(w) = 1 PROVE LongestNode(w, 1) = <<>>
  <2>1. 1 \in 0 .. Len(w) /\ 1 \in 1 .. Len(w) /\ Suffix(w, 1) = <<>> /\ 1 .. (1 - 1) = {}
    BY <1>1, <1>4
  <2> QED
    BY <2>1, NodesAre, CutIsOne
<1> QED
  BY <1>2, <1>3, <1>4

\* The longest node at the end of a word and one more rune ends in the longest
\* node at the end of the word.
LEMMA LongestOfAppend ==
    ASSUME TrieData, NEW w \in Seq(Rune), NEW c \in Rune, NEW from \in 0 .. Len(w)
    PROVE  LongestNode(Append(w, c), from) = LongestNode(Append(LongestNode(w, from), c), 0)
<1>1. Len(w) \in Nat /\ from \in Nat /\ from <= Len(w)
  BY LenProperties
<1>2. PICK k \in from .. Len(w) : k = Cut(w, from) /\ k \in 0 .. Len(w) /\ Suffix(w, k) \in trieNodes
                               /\ \A j \in from .. Len(w) : Suffix(w, j) \in trieNodes => k <= j
  BY CutIs
<1> DEFINE v == Suffix(w, k)
           wc == Append(w, c)
           vc == Append(v, c)
<1>3. v = LongestNode(w, from)
  BY <1>2 DEF LongestNode
<1>4. v \in Seq(Rune) /\ Len(v) = Len(w) - k
  BY <1>2, SuffixIs
<1>5. wc \in Seq(Rune) /\ Len(wc) = Len(w) + 1 /\ vc \in Seq(Rune) /\ Len(vc) = Len(v) + 1
  BY <1>4, AppendProperties
<1>6. vc = Suffix(wc, k)
  BY <1>2, SuffixOfAppend
<1>7. 0 \in 0 .. Len(vc)
  BY <1>1, <1>2, <1>4, <1>5
<1>8. PICK m \in 0 .. Len(vc) : m = Cut(vc, 0) /\ Suffix(vc, m) \in trieNodes
                               /\ \A j \in 0 .. Len(vc) : Suffix(vc, j) \in trieNodes => m <= j
  BY <1>5, <1>7, CutIs
<1>9. \A j \in 0 .. Len(vc) : Suffix(vc, j) = Suffix(wc, k + j)
  <2>1. k \in 0 .. Len(wc) /\ Len(wc) - k = Len(vc)
    BY <1>1, <1>2, <1>4, <1>5
  <2> HIDE DEF wc, vc, v
  <2>2. \A j \in 0 .. Len(wc) - k : Suffix(Suffix(wc, k), j) = Suffix(wc, k + j)
    BY <1>5, <2>1, SuffixOfSuffix
  <2> QED
    BY <1>6, <2>1, <2>2
<1>10. ASSUME NEW j \in from .. (k + m) - 1 PROVE Suffix(wc, j) \notin trieNodes
  <2>0. j \in Nat /\ from <= j /\ j < k + m /\ k \in Nat /\ m \in Nat /\ m <= Len(vc)
    BY <1>1, <1>2, <1>4, <1>5, <1>8
  <2>1. CASE j < k
    <3>1. j \in from .. Len(w) /\ j \in 0 .. Len(w)
      BY <1>1, <2>0, <2>1
    <3>2. Suffix(w, j) \notin trieNodes /\ Suffix(w, j) \in Seq(Rune)
      BY <1>2, <2>0, <2>1, <3>1, SuffixIs
    <3>3. Suffix(wc, j) = Append(Suffix(w, j), c)
      BY <3>1, SuffixOfAppend
    <3> QED
      BY <3>2, <3>3, NodesGrow
  <2>2. CASE k <= j
    <3>1. j - k \in 0 .. Len(vc) /\ j - k < m /\ k + (j - k) = j
      BY <1>5, <2>0, <2>2
    <3>2. Suffix(vc, j - k) \notin trieNodes
      BY <1>8, <2>0, <3>1
    <3> QED
      BY <1>9, <3>1, <3>2
  <2> QED
    BY <2>0, <2>1, <2>2
<1>11. k + m \in from .. Len(wc) /\ from \in 0 .. Len(wc)
  BY <1>1, <1>2, <1>4, <1>5, <1>8
<1>12. LongestNode(wc, from) = Suffix(wc, k + m)
  <2>1. Suffix(wc, k + m) \in trieNodes
    BY <1>8, <1>9
  <2> HIDE DEF wc, vc, v
  <2> QED
    BY <1>5, <1>10, <1>11, <2>1, CutIsOne
<1>13. LongestNode(vc, 0) = Suffix(wc, k + m)
  BY <1>8, <1>9 DEF LongestNode
<1> QED
  BY <1>3, <1>12, <1>13

\* The longest node at the end of a node, other than itself.
FailureOf(nd) == IF nd = <<>> THEN <<>> ELSE LongestNode(nd, 1)

LEMMA FailureIs ==
    ASSUME TrieData, NEW nd \in trieNodes
    PROVE  /\ nd \in Seq(Rune) /\ Len(nd) \in Nat
           /\ FailureOf(nd) \in trieNodes /\ FailureOf(nd) \in Seq(Rune)
           /\ nd # <<>> => Len(FailureOf(nd)) < Len(nd) /\ Len(nd) > 0
<1>1. nd \in Seq(Rune) /\ Len(nd) \in Nat /\ (nd # <<>> => Len(nd) > 0)
  BY NodesAre, LenProperties, EmptySeq
<1>2. CASE nd = <<>>
  BY <1>1, <1>2, NodesAre DEF FailureOf
<1>3. CASE nd # <<>>
  <2>1. 1 \in 0 .. Len(nd)
    BY <1>1, <1>3
  <2> QED
    BY <1>1, <1>3, <2>1, LongestNodeIs DEF FailureOf
<1> QED
  BY <1>2, <1>3

\* Where a node fails to, its child does, unless that is no node.
LEMMA FailureOfChild ==
    ASSUME TrieData, NEW cur \in trieNodes, NEW c \in Rune
    PROVE  LongestNode(Append(cur, c), 1) =
               IF cur = <<>> THEN <<>> ELSE LongestNode(Append(FailureOf(cur), c), 0)
<1>1. cur \in Seq(Rune) /\ Len(cur) \in Nat /\ (cur # <<>> => Len(cur) > 0)
  BY FailureIs
<1>2. CASE cur = <<>>
  <2>1. Append(cur, c) \in Seq(Rune) /\ Len(Append(cur, c)) = Len(cur) + 1 /\ Len(cur) = 0
    BY <1>1, <1>2, AppendProperties, EmptySeq
  <2>2. Len(Append(cur, c)) = 1
    BY <2>1
  <2>3. LongestNode(Append(cur, c), 1) = <<>>
    BY <2>1, <2>2, LongestOfNode
  <2> QED
    BY <1>2, <2>3
<1>3. CASE cur # <<>>
  <2>1. 1 \in 0 .. Len(cur)
    BY <1>1, <1>3
  <2> QED
    BY <1>1, <1>3, <2>1, LongestOfAppend DEF FailureOf
<1> QED
  BY <1>2, <1>3

LEMMA ClimbIs ==
    ASSUME TrieData, NEW fail, NEW c \in Rune, NEW depth \in Nat,
           \A nd \in trieNodes : Len(nd) < depth => fail[nd] = FailureOf(nd)
    PROVE  \A cur \in trieNodes :
               Len(cur) < depth => Climb(fail, c, depth)[cur] = LongestNode(Append(cur, c), 1)
<1> DEFINE D == {nd \in trieNodes : Len(nd) < depth}
           g == [cur \in D |-> LongestNode(Append(cur, c), 1)]
           h == CHOOSE f : f = [cur \in D |-> IF cur = <<>> THEN <<>>
                                              ELSE IF child(fail[cur], c) \in trieNodes THEN child(fail[cur], c)
                                              ELSE f[fail[cur]]]
<1>1. ASSUME NEW cur \in D
      PROVE  /\ Len(cur) \in Nat
             /\ cur # <<>> => fail[cur] \in D /\ Len(fail[cur]) < Len(cur)
             /\ g[cur] = IF cur = <<>> THEN <<>>
                         ELSE IF child(fail[cur], c) \in trieNodes THEN child(fail[cur], c)
                         ELSE g[fail[cur]]
  <2>1. cur \in trieNodes /\ fail[cur] = FailureOf(cur) /\ g[cur] = LongestNode(Append(cur, c), 1)
    OBVIOUS
  <2>2. /\ Len(cur) \in Nat /\ FailureOf(cur) \in trieNodes /\ FailureOf(cur) \in Seq(Rune)
        /\ Len(FailureOf(cur)) \in Nat
        /\ cur # <<>> => Len(FailureOf(cur)) < Len(cur)
    BY <2>1, FailureIs, LenProperties
  <2>3. cur # <<>> => FailureOf(cur) \in D
    BY <2>2
  <2>4. cur # <<>> => g[FailureOf(cur)] = LongestNode(Append(FailureOf(cur), c), 1)
    BY <2>3
  <2>5. g[cur] = IF cur = <<>> THEN <<>> ELSE LongestNode(Append(FailureOf(cur), c), 0)
    BY <2>1, FailureOfChild
  <2>6. Append(FailureOf(cur), c) \in Seq(Rune)
    BY <2>2, AppendProperties
  <2>7. LongestNode(Append(FailureOf(cur), c), 0) =
            IF Append(FailureOf(cur), c) \in trieNodes THEN Append(FailureOf(cur), c)
            ELSE LongestNode(Append(FailureOf(cur), c), 1)
    BY <2>6, LongestOfNode
  <2> HIDE DEF g, D
  <2> QED
    BY <2>1, <2>2, <2>3, <2>4, <2>5, <2>7 DEF child
<1>2. g = [cur \in D |-> IF cur = <<>> THEN <<>>
                         ELSE IF child(fail[cur], c) \in trieNodes THEN child(fail[cur], c)
                         ELSE g[fail[cur]]]
  BY <1>1
<1>3. h = [cur \in D |-> IF cur = <<>> THEN <<>>
                         ELSE IF child(fail[cur], c) \in trieNodes THEN child(fail[cur], c)
                         ELSE h[fail[cur]]]
  <2> HIDE DEF g, D
  <2> QED
    BY <1>2 DEF h
<1>4. Climb(fail, c, depth) = h
  BY DEF Climb
<1> HIDE DEF h, g
<1>5. \A cur \in D : h[cur] = g[cur]
  <2> DEFINE Wrong == {Len(cur) : cur \in {nd \in D : h[nd] # g[nd]}}
  <2> SUFFICES ASSUME Wrong # {} PROVE FALSE
    OBVIOUS
  <2>1. Wrong \in SUBSET Nat
    BY <1>1
  <2>2. PICK n \in Wrong : \A m \in Wrong : n <= m
    BY <2>1, LeastNatural
  <2>3. PICK cur \in D : h[cur] # g[cur] /\ Len(cur) = n
    BY <2>2
  <2>4. ASSUME cur # <<>>, h[fail[cur]] # g[fail[cur]] PROVE FALSE
    <3>1. fail[cur] \in D /\ Len(fail[cur]) < Len(cur)
      BY <1>1, <2>3, <2>4
    <3> HIDE DEF D
    <3>2. Len(fail[cur]) \in Wrong
      BY <2>4, <3>1
    <3> HIDE DEF Wrong
    <3> QED
      BY <2>1, <2>2, <2>3, <3>1, <3>2
  <2> HIDE DEF D
  <2> QED
    BY <1>1, <1>3, <2>3, <2>4
<1> QED
  BY <1>4, <1>5 DEF g

LEMMA BuildIs ==
    ASSUME TrieData
    PROVE  build = [nd \in trieNodes |-> FailureOf(nd)]
<1> DEFINE g == [nd \in trieNodes |-> FailureOf(nd)]
           h == CHOOSE fail : fail = [nd \in trieNodes |->
                    IF Len(nd) <= 1 THEN <<>> ELSE Climb(fail, nd[Len(nd)], Len(nd))[parent(nd)]]
<1>1. ASSUME NEW nd \in trieNodes, NEW fail,
             \A cur \in trieNodes : Len(cur) < Len(nd) => fail[cur] = FailureOf(cur)
      PROVE  FailureOf(nd) = IF Len(nd) <= 1 THEN <<>> ELSE Climb(fail, nd[Len(nd)], Len(nd))[parent(nd)]
  <2>1. nd \in Seq(Rune) /\ Len(nd) \in Nat /\ (nd = <<>> => Len(nd) = 0)
    BY FailureIs, EmptySeq
  <2>2. CASE nd = <<>>
    BY <2>1, <2>2 DEF FailureOf
  <2>3. CASE Len(nd) = 1
    BY <2>1, <2>3, LongestOfNode DEF FailureOf
  <2>4. CASE nd # <<>> /\ Len(nd) # 1
    <3>1. /\ parent(nd) \in trieNodes /\ nd[Len(nd)] \in Rune
          /\ nd = Append(parent(nd), nd[Len(nd)]) /\ Len(parent(nd)) = Len(nd) - 1
      BY <2>4, NodesHaveParents
    <3>2. PICK c \in Rune, depth \in Nat : c = nd[Len(nd)] /\ depth = Len(nd)
      BY <2>1, <3>1
    <3>3. \A cur \in trieNodes : Len(cur) < depth => fail[cur] = FailureOf(cur)
      BY <1>1, <3>2
    <3>4. \A cur \in trieNodes :
              Len(cur) < depth => Climb(fail, c, depth)[cur] = LongestNode(Append(cur, c), 1)
      BY <3>3, ClimbIs
    <3>5. Climb(fail, nd[Len(nd)], Len(nd))[parent(nd)] = LongestNode(nd, 1)
      <4>1. Len(parent(nd)) < depth
        BY <3>1, <3>2
      <4> QED
        BY <3>1, <3>2, <3>4, <4>1
    <3>6. Len(nd) > 1
      <4>1. depth > 0 /\ depth # 1
        BY <2>4, <3>2, FailureIs
      <4>2. depth > 1
        BY <4>1
      <4> QED
        BY <3>2, <4>2
    <3> QED
      BY <2>1, <2>4, <3>5, <3>6 DEF FailureOf
  <2> QED
    BY <2>2, <2>3, <2>4
<1>2. g = [nd \in trieNodes |-> IF Len(nd) <= 1 THEN <<>> ELSE Climb(g, nd[Len(nd)], Len(nd))[parent(nd)]]
  <2>1. \A cur \in trieNodes : g[cur] = FailureOf(cur)
    OBVIOUS
  <2>2. \A nd \in trieNodes : FailureOf(nd) =
            IF Len(nd) <= 1 THEN <<>> ELSE Climb(g, nd[Len(nd)], Len(nd))[parent(nd)]
    <3> HIDE DEF g
    <3> QED
      BY <1>1, <2>1
  <2> QED
    BY <2>2
<1>3. h = [nd \in trieNodes |-> IF Len(nd) <= 1 THEN <<>> ELSE Climb(h, nd[Len(nd)], Len(nd))[parent(nd)]]
  <2> HIDE DEF g
  <2> QED
    BY <1>2 DEF h
<1>4. build = h
  BY DEF build
<1> HIDE DEF h, g
<1>5. \A nd \in trieNodes : h[nd] = FailureOf(nd)
  <2> DEFINE Wrong == {Len(nd) : nd \in {nd \in trieNodes : h[nd] # FailureOf(nd)}}
  <2> SUFFICES ASSUME Wrong # {} PROVE FALSE
    OBVIOUS
  <2>1. Wrong \in SUBSET Nat
    BY FailureIs
  <2>2. PICK n \in Wrong : \A m \in Wrong : n <= m
    BY <2>1, LeastNatural
  <2>3. PICK nd \in trieNodes : h[nd] # FailureOf(nd) /\ Len(nd) = n
    BY <2>2
  <2>4. \A cur \in trieNodes : h[cur] # FailureOf(cur) => Len(cur) \in Wrong
    OBVIOUS
  <2> HIDE DEF Wrong
  <2>5. \A cur \in trieNodes : Len(cur) < Len(nd) => h[cur] = FailureOf(cur)
    BY <2>1, <2>2, <2>3, <2>4
  <2>6. FailureOf(nd) = IF Len(nd) <= 1 THEN <<>> ELSE Climb(h, nd[Len(nd)], Len(nd))[parent(nd)]
    BY <1>1, <2>5
  <2> QED
    BY <1>3, <2>3, <2>6
<1> QED
  <2>1. h = [nd \in trieNodes |-> FailureOf(nd)]
    BY <1>3, <1>5
  <2> QED
    BY <1>4, <2>1

LEMMA FollowIs ==
    ASSUME TrieData, NEW c \in Rune
    PROVE  Follow(build, c) = [cur \in trieNodes |-> LongestNode(Append(cur, c), 0)]
<1> DEFINE fail == build
           g == [cur \in trieNodes |-> LongestNode(Append(cur, c), 0)]
           h == CHOOSE f : f = [cur \in trieNodes |-> IF child(cur, c) \in trieNodes THEN child(cur, c)
                                                      ELSE IF cur = <<>> THEN <<>> ELSE f[fail[cur]]]
<1>1. ASSUME NEW cur \in trieNodes
      PROVE  /\ Len(cur) \in Nat
             /\ fail[cur] \in trieNodes /\ (cur # <<>> => Len(fail[cur]) < Len(cur))
             /\ g[cur] = IF child(cur, c) \in trieNodes THEN child(cur, c)
                         ELSE IF cur = <<>> THEN <<>> ELSE g[fail[cur]]
  <2>1. /\ cur \in Seq(Rune) /\ Len(cur) \in Nat /\ fail[cur] = FailureOf(cur) /\ fail[cur] \in trieNodes
        /\ cur # <<>> => Len(FailureOf(cur)) < Len(cur)
    BY BuildIs, FailureIs
  <2>2. g[fail[cur]] = LongestNode(Append(FailureOf(cur), c), 0)
    BY <2>1
  <2>3. LongestNode(Append(cur, c), 1) = IF cur = <<>> THEN <<>> ELSE g[fail[cur]]
    BY <2>2, FailureOfChild
  <2>4. LongestNode(Append(cur, c), 0) = IF Append(cur, c) \in trieNodes THEN Append(cur, c)
                                         ELSE LongestNode(Append(cur, c), 1)
    BY <2>1, AppendProperties, LongestOfNode
  <2>5. g[cur] = LongestNode(Append(cur, c), 0)
    OBVIOUS
  <2> HIDE DEF g, fail
  <2> QED
    BY <2>1, <2>3, <2>4, <2>5 DEF child
<1>2. g = [cur \in trieNodes |-> IF child(cur, c) \in trieNodes THEN child(cur, c)
                                 ELSE IF cur = <<>> THEN <<>> ELSE g[fail[cur]]]
  BY <1>1
<1>3. h = [cur \in trieNodes |-> IF child(cur, c) \in trieNodes THEN child(cur, c)
                                 ELSE IF cur = <<>> THEN <<>> ELSE h[fail[cur]]]
  <2> HIDE DEF g, fail
  <2> QED
    BY <1>2 DEF h
<1>4. Follow(fail, c) = h
  BY DEF Follow
<1> HIDE DEF h, g, fail
<1>5. \A cur \in trieNodes : h[cur] = g[cur]
  <2> DEFINE Wrong == {Len(cur) : cur \in {nd \in trieNodes : h[nd] # g[nd]}}
  <2> SUFFICES ASSUME Wrong # {} PROVE FALSE
    OBVIOUS
  <2>1. Wrong \in SUBSET Nat
    BY <1>1
  <2>2. PICK n \in Wrong : \A m \in Wrong : n <= m
    BY <2>1, LeastNatural
  <2>3. PICK cur \in trieNodes : h[cur] # g[cur] /\ Len(cur) = n
    BY <2>2
  <2>4. \A nd \in trieNodes : h[nd] # g[nd] => Len(nd) \in Wrong
    OBVIOUS
  <2> HIDE DEF Wrong
  <2>5. cur # <<>> => h[fail[cur]] = g[fail[cur]]
    BY <1>1, <2>1, <2>2, <2>3, <2>4
  <2> QED
    BY <1>1, <1>3, <2>3, <2>5
<1> QED
  <2>1. h = [cur \in trieNodes |-> g[cur]]
    BY <1>3, <1>5
  <2> QED
    BY <1>4, <2>1 DEF g, fail

LEMMA VisitedIs ==
    ASSUME TrieData, NEW chars \in Seq(Rune)
    PROVE  \A i \in 0 .. Len(chars) : Visited(chars, build)[i] = LongestNode(SubSeq(chars, 1, i), 0)
<1> DEFINE I == 0 .. Len(chars)
           g == [i \in I |-> LongestNode(SubSeq(chars, 1, i), 0)]
           h == CHOOSE f : f = [i \in I |-> IF i = 0 THEN <<>> ELSE Follow(build, chars[i])[f[i - 1]]]
<1>1. Len(chars) \in Nat
  BY LenProperties
<1>2. ASSUME NEW i \in I
      PROVE  /\ i \in Nat /\ (i # 0 => i - 1 \in I)
             /\ g[i] = IF i = 0 THEN <<>> ELSE Follow(build, chars[i])[g[i - 1]]
  <2>1. i \in Nat /\ (i # 0 => i - 1 \in I) /\ (i # 0 => i \in 1 .. Len(chars))
    BY <1>1
  <2>2. CASE i = 0
    <3>1. SubSeq(chars, 1, 0) = <<>>
      BY SubSeqEmpty
    <3>2. LongestNode(<<>>, 0) = <<>>
      BY EmptySeq, NodesAre, LongestOfNode
    <3> QED
      BY <2>1, <2>2, <3>1, <3>2
  <2>3. CASE i # 0
    <3>1. PICK w \in Seq(Rune), c \in Rune :
              w = SubSeq(chars, 1, i - 1) /\ c = chars[i] /\ SubSeq(chars, 1, i) = Append(w, c)
      BY <1>1, <2>1, <2>3, PrefixIs, PrefixOfAppend
    <3>2. 0 \in 0 .. Len(w)
      BY LenProperties
    <3>3. LongestNode(Append(w, c), 0) = LongestNode(Append(LongestNode(w, 0), c), 0)
      BY <3>2, LongestOfAppend
    <3>4. LongestNode(w, 0) \in trieNodes
      BY <3>2, LongestNodeIs
    <3>5. Follow(build, c)[LongestNode(w, 0)] = LongestNode(Append(LongestNode(w, 0), c), 0)
      BY <3>4, FollowIs
    <3>6. g[i] = LongestNode(Append(w, c), 0) /\ g[i - 1] = LongestNode(w, 0)
      BY <2>1, <2>3, <3>1
    <3> QED
      BY <2>1, <2>3, <3>1, <3>3, <3>5, <3>6
  <2> QED
    BY <2>2, <2>3
<1>3. g = [i \in I |-> IF i = 0 THEN <<>> ELSE Follow(build, chars[i])[g[i - 1]]]
  BY <1>2
<1>4. h = [i \in I |-> IF i = 0 THEN <<>> ELSE Follow(build, chars[i])[h[i - 1]]]
  <2> HIDE DEF g
  <2> QED
    BY <1>3 DEF h
<1>5. Visited(chars, build) = h
  BY DEF Visited
<1> HIDE DEF h, g
<1>6. \A i \in I : h[i] = g[i]
  <2> DEFINE Wrong == {i \in I : h[i] # g[i]}
  <2> SUFFICES ASSUME Wrong # {} PROVE FALSE
    OBVIOUS
  <2>1. Wrong \in SUBSET Nat
    BY <1>2
  <2>2. PICK i \in Wrong : \A j \in Wrong : i <= j
    BY <2>1, LeastNatural
  <2>3. i # 0 => i - 1 \in I /\ h[i - 1] = g[i - 1]
    BY <1>2, <2>2
  <2> QED
    BY <1>2, <1>4, <2>2, <2>3
<1> QED
  BY <1>5, <1>6 DEF g

\* The nodes at the end of a word that leave out its first runes, at least `from`.
NodesOf(w, from) == {v \in trieNodes : \E k \in from .. Len(w) - 1 : v = Suffix(w, k)}

LEMMA NodesOfLongest ==
    ASSUME TrieData, NEW w \in Seq(Rune), NEW from \in 0 .. Len(w)
    PROVE  NodesOf(LongestNode(w, from), 0) = NodesOf(w, from)
<1>1. Len(w) \in Nat /\ from \in Nat /\ from <= Len(w)
  BY LenProperties
<1>2. PICK n \in from .. Len(w) : n = Cut(w, from) /\ n \in 0 .. Len(w)
                               /\ \A j \in from .. Len(w) : Suffix(w, j) \in trieNodes => n <= j
  BY CutIs
<1>3. LongestNode(w, from) = Suffix(w, n) /\ Len(Suffix(w, n)) = Len(w) - n
  BY <1>2, SuffixIs DEF LongestNode
<1>4. \A k \in 0 .. Len(w) - n : Suffix(Suffix(w, n), k) = Suffix(w, n + k)
  BY <1>2, SuffixOfSuffix
<1>5. ASSUME NEW v \in NodesOf(Suffix(w, n), 0) PROVE v \in NodesOf(w, from)
  <2>1. PICK k \in 0 .. (Len(w) - n) - 1 : v = Suffix(Suffix(w, n), k) /\ v \in trieNodes
    BY <1>3 DEF NodesOf
  <2>2. k \in 0 .. Len(w) - n /\ n + k \in from .. Len(w) - 1
    BY <1>1, <1>2
  <2> QED
    BY <1>4, <2>1, <2>2 DEF NodesOf
<1>6. ASSUME NEW v \in NodesOf(w, from) PROVE v \in NodesOf(Suffix(w, n), 0)
  <2>1. PICK k \in from .. Len(w) - 1 : v = Suffix(w, k) /\ v \in trieNodes
    BY DEF NodesOf
  <2>2. k \in from .. Len(w)
    BY <1>1
  <2>3. n <= k
    BY <1>2, <2>1, <2>2
  <2>4. k - n \in 0 .. (Len(w) - n) - 1 /\ k - n \in 0 .. Len(w) - n /\ n + (k - n) = k
    BY <1>1, <1>2, <2>3
  <2>5. v = Suffix(Suffix(w, n), k - n)
    BY <1>4, <2>1, <2>4
  <2> QED
    BY <1>3, <2>1, <2>4, <2>5 DEF NodesOf
<1> QED
  BY <1>3, <1>5, <1>6

LEMMA ChainIs ==
    ASSUME TrieData
    PROVE  \A nd \in trieNodes : Chain(build)[nd] = NodesOf(nd, 0)
<1> DEFINE fail == build
           g == [cur \in trieNodes |-> NodesOf(cur, 0)]
           h == CHOOSE f : f = [cur \in trieNodes |-> IF cur = <<>> THEN {} ELSE {cur} \cup f[fail[cur]]]
<1>1. ASSUME NEW cur \in trieNodes
      PROVE  /\ Len(cur) \in Nat
             /\ fail[cur] \in trieNodes /\ (cur # <<>> => Len(fail[cur]) < Len(cur))
             /\ g[cur] = IF cur = <<>> THEN {} ELSE {cur} \cup g[fail[cur]]
  <2>1. /\ cur \in Seq(Rune) /\ Len(cur) \in Nat /\ fail[cur] = FailureOf(cur) /\ fail[cur] \in trieNodes
        /\ cur # <<>> => Len(FailureOf(cur)) < Len(cur) /\ Len(cur) > 0
    BY BuildIs, FailureIs
  <2>2. g[fail[cur]] = NodesOf(FailureOf(cur), 0) /\ g[cur] = NodesOf(cur, 0)
    BY <2>1
  <2>3. CASE cur = <<>>
    <3>1. 0 .. Len(cur) - 1 = {}
      BY <2>3, EmptySeq
    <3> QED
      BY <2>1, <2>2, <2>3, <3>1 DEF NodesOf
  <2>4. CASE cur # <<>>
    <3>1. 1 \in 0 .. Len(cur)
      BY <2>1, <2>4
    <3>2. NodesOf(FailureOf(cur), 0) = NodesOf(cur, 1)
      BY <2>1, <2>4, <3>1, NodesOfLongest DEF FailureOf
    <3>3. cur = Suffix(cur, 0)
      BY <2>1, SuffixEnds
    <3>4. \A k : k \in 0 .. Len(cur) - 1 <=> k = 0 \/ k \in 1 .. Len(cur) - 1
      BY <2>1, <2>4
    <3>5. NodesOf(cur, 0) = {cur} \cup NodesOf(cur, 1)
      BY <3>3, <3>4 DEF NodesOf
    <3> QED
      BY <2>1, <2>2, <2>4, <3>2, <3>5
  <2> QED
    BY <2>3, <2>4
<1>2. g = [cur \in trieNodes |-> IF cur = <<>> THEN {} ELSE {cur} \cup g[fail[cur]]]
  BY <1>1
<1>3. h = [cur \in trieNodes |-> IF cur = <<>> THEN {} ELSE {cur} \cup h[fail[cur]]]
  <2> HIDE DEF g, fail
  <2> QED
    BY <1>2 DEF h
<1>4. Chain(fail) = h
  BY DEF Chain
<1> HIDE DEF h, g, fail
<1>5. \A cur \in trieNodes : h[cur] = g[cur]
  <2> DEFINE Wrong == {Len(cur) : cur \in {nd \in trieNodes : h[nd] # g[nd]}}
  <2> SUFFICES ASSUME Wrong # {} PROVE FALSE
    OBVIOUS
  <2>1. Wrong \in SUBSET Nat
    BY <1>1
  <2>2. PICK n \in Wrong : \A m \in Wrong : n <= m
    BY <2>1, LeastNatural
  <2>3. PICK cur \in trieNodes : h[cur] # g[cur] /\ Len(cur) = n
    BY <2>2
  <2>4. \A nd \in trieNodes : h[nd] # g[nd] => Len(nd) \in Wrong
    OBVIOUS
  <2> HIDE DEF Wrong
  <2>5. ASSUME cur # <<>>, h[fail[cur]] # g[fail[cur]] PROVE FALSE
    <3>1. fail[cur] \in trieNodes /\ Len(fail[cur]) < Len(cur)
      BY <1>1, <2>5
    <3>2. Len(fail[cur]) \in Wrong
      BY <2>4, <2>5, <3>1
    <3> QED
      BY <2>1, <2>2, <2>3, <3>1, <3>2
  <2> QED
    BY <1>1, <1>3, <2>3, <2>5
<1> QED
  BY <1>4, <1>5 DEF g, fail

LEMMA SuffixOfPrefix ==
    ASSUME NEW w \in Seq(Rune), NEW i \in 0 .. Len(w), NEW k \in 0 .. i
    PROVE  /\ Suffix(SubSeq(w, 1, i), k) = SubSeq(w, k + 1, i)
           /\ SubSeq(w, k + 1, i) \in Seq(Rune) /\ Len(SubSeq(w, k + 1, i)) = i - k
<1>1. Len(w) \in Nat /\ i \in Nat /\ k \in Nat /\ i <= Len(w) /\ k <= i
  BY LenProperties
<1>2. /\ SubSeq(w, 1, i) \in Seq(Rune) /\ Len(SubSeq(w, 1, i)) = i
      /\ \A j \in 1 .. i : SubSeq(w, 1, i)[j] = w[j]
  BY PrefixIs
<1>3. k \in 0 .. Len(SubSeq(w, 1, i))
  BY <1>2
<1>4. /\ Suffix(SubSeq(w, 1, i), k) \in Seq(Rune)
      /\ Len(Suffix(SubSeq(w, 1, i), k)) = i - k
      /\ \A j \in 1 .. i - k : Suffix(SubSeq(w, 1, i), k)[j] = SubSeq(w, 1, i)[k + j]
  BY <1>2, <1>3, SuffixIs
<1>5. \A j \in k + 1 .. i : w[j] \in Rune
  BY <1>1, ElementOfSeq
<1>6. /\ SubSeq(w, k + 1, i) \in Seq(Rune)
      /\ Len(SubSeq(w, k + 1, i)) = IF k + 1 <= i THEN i - (k + 1) + 1 ELSE 0
      /\ \A j \in 1 .. i - (k + 1) + 1 : SubSeq(w, k + 1, i)[j] = w[k + 1 + j - 1]
  BY <1>1, <1>5, SubSeqProperties
<1>7. Len(SubSeq(w, k + 1, i)) = i - k
  BY <1>1, <1>6
<1>8. ASSUME NEW j \in 1 .. Len(Suffix(SubSeq(w, 1, i), k))
      PROVE  Suffix(SubSeq(w, 1, i), k)[j] = SubSeq(w, k + 1, i)[j]
  <2>1. j \in Nat /\ j \in 1 .. i - k /\ j \in 1 .. i - (k + 1) + 1 /\ k + j \in 1 .. i /\ k + 1 + j - 1 = k + j
    BY <1>1, <1>4
  <2> QED
    BY <1>2, <1>4, <1>6, <2>1
<1> QED
  BY <1>4, <1>6, <1>7, <1>8, SeqEqual

\* What find finds of a text, at each of its places.
LEMMA FoundAt ==
    ASSUME TrieData, NEW chars \in Seq(Rune), NEW i \in 1 .. Len(chars), NEW nd
    PROVE  nd \in Chain(build)[Visited(chars, build)[i]] /\ end(nd)
               <=> nd \in words /\ \E k \in 0 .. i - 1 : nd = SubSeq(chars, k + 1, i)
<1>1. Len(chars) \in Nat /\ i \in Nat /\ i \in 0 .. Len(chars)
  BY LenProperties
<1>2. PICK w \in Seq(Rune) : w = SubSeq(chars, 1, i) /\ Len(w) = i /\ 0 \in 0 .. Len(w)
  <2>1. SubSeq(chars, 1, i) \in Seq(Rune) /\ Len(SubSeq(chars, 1, i)) = i
    BY <1>1, PrefixIs
  <2>2. 0 \in 0 .. i
    BY <1>1
  <2> QED
    BY <2>1, <2>2, Zenon
<1>3. Visited(chars, build)[i] = LongestNode(w, 0) /\ LongestNode(w, 0) \in trieNodes
  BY <1>1, <1>2, VisitedIs, LongestNodeIs
<1>4. Chain(build)[LongestNode(w, 0)] = NodesOf(w, 0)
  BY <1>2, <1>3, ChainIs, NodesOfLongest
<1>5. ASSUME NEW k \in 0 .. i - 1 PROVE Suffix(w, k) = SubSeq(chars, k + 1, i)
  <2>1. k \in 0 .. i
    BY <1>1
  <2> QED
    BY <1>1, <1>2, <2>1, SuffixOfPrefix
<1>6. words \subseteq trieNodes
  BY NodesAre
<1>7. nd \in NodesOf(w, 0) <=> nd \in trieNodes /\ \E k \in 0 .. i - 1 : nd = SubSeq(chars, k + 1, i)
  BY <1>2, <1>5 DEF NodesOf
<1> QED
  BY <1>3, <1>4, <1>6, <1>7 DEF end

LEMMA FindIs ==
    ASSUME TrieData, NEW chars \in Seq(Rune)
    PROVE  find(chars) = Occurrences(chars)
<1>1. Len(chars) \in Nat
  BY LenProperties
<1>2. ASSUME NEW s \in find(chars) PROVE s \in Occurrences(chars)
  <2>1. PICK i \in 1 .. Len(chars) :
            s \in {<<i - Len(nd), i>> : nd \in {m \in Chain(build)[Visited(chars, build)[i]] : end(m)}}
    BY DEF find
  <2>2. PICK nd : s = <<i - Len(nd), i>> /\ nd \in Chain(build)[Visited(chars, build)[i]] /\ end(nd)
    BY <2>1
  <2>3. PICK k \in 0 .. i - 1 : nd \in words /\ nd = SubSeq(chars, k + 1, i)
    BY <2>2, FoundAt
  <2>4. i \in 0 .. Len(chars) /\ k \in 0 .. i /\ k \in 0 .. Len(chars) /\ i \in Nat /\ k \in Nat
    BY <1>1
  <2>5. Len(nd) = i - k
    BY <2>3, <2>4, SuffixOfPrefix
  <2>6. s = <<k, i>>
    BY <2>2, <2>4, <2>5
  <2> QED
    BY <2>3, <2>4, <2>6 DEF Occurrences
<1>3. ASSUME NEW s \in Occurrences(chars) PROVE s \in find(chars)
  <2>1. PICK k \in 0 .. Len(chars), i \in 0 .. Len(chars) : s = <<k, i>> /\ SubSeq(chars, k + 1, i) \in words
    BY DEF Occurrences
  <2>2. k < i
    <3>1. k \in Int /\ i \in Int /\ k + 1 \in Int
      BY <1>1
    <3>2. i < k + 1 => SubSeq(chars, k + 1, i) = <<>>
      BY <3>1, SubSeqEmpty
    <3>3. <<>> \notin words
      BY DEF TrieData
    <3>4. ~(i < k + 1)
      BY <2>1, <3>2, <3>3
    <3> QED
      BY <3>1, <3>4
  <2>3. i \in 1 .. Len(chars) /\ k \in 0 .. i - 1 /\ k \in 0 .. i
    BY <1>1, <2>2
  <2>4. PICK nd : nd = SubSeq(chars, k + 1, i)
    OBVIOUS
  <2>5. nd \in Chain(build)[Visited(chars, build)[i]] /\ end(nd)
    BY <2>1, <2>3, <2>4, FoundAt
  <2>6. Len(nd) = i - k
    BY <2>3, <2>4, SuffixOfPrefix
  <2>7. s = <<i - Len(nd), i>>
    BY <1>1, <2>1, <2>3, <2>6
  <2>8. s \in {<<i - Len(m), i>> : m \in {m \in Chain(build)[Visited(chars, build)[i]] : end(m)}}
    BY <2>5, <2>7
  <2> QED
    BY <2>3, <2>8 DEF find
<1> QED
  BY <1>2, <1>3
-----------------------------------------------------------------------------
(* What replaces a text, from left to right. *)

LEMMA OccurrencesAre ==
    ASSUME TrieData, NEW chars \in Seq(Rune), NEW a, NEW b, <<a, b>> \in Occurrences(chars)
    PROVE  /\ a \in Nat /\ b \in Nat /\ Len(chars) \in Nat /\ a < b /\ b <= Len(chars)
           /\ SubSeq(chars, a + 1, b) \in words
<1>1. Len(chars) \in Nat
  BY LenProperties
<1>2. a \in 0 .. Len(chars) /\ b \in 0 .. Len(chars) /\ SubSeq(chars, a + 1, b) \in words
  BY DEF Occurrences
<1>3. a \in Int /\ b \in Int /\ a + 1 \in Int
  BY <1>1, <1>2
<1>4. b < a + 1 => SubSeq(chars, a + 1, b) = <<>>
  BY <1>3, SubSeqEmpty
<1>5. <<>> \notin words
  BY DEF TrieData
<1>6. ~(b < a + 1)
  BY <1>2, <1>4, <1>5
<1>7. a < b
  BY <1>3, <1>6
<1> QED
  BY <1>1, <1>2, <1>7

LEMMA LongestIs ==
    ASSUME TrieData, NEW chars \in Seq(Rune), NEW i \in 0 .. Len(chars), Here(chars, i) # {}
    PROVE  /\ Longest(Here(chars, i)) \in Here(chars, i)
           /\ \A k \in Here(chars, i) : k <= Longest(Here(chars, i))
<1>1. Len(chars) \in Nat
  BY LenProperties
<1>2. \A j \in Here(chars, i) : j \in Nat /\ j <= Len(chars)
  BY <1>1 DEF Here
<1> DEFINE Left == {Len(chars) - j : j \in Here(chars, i)}
<1>3. Left \in SUBSET Nat /\ Left # {}
  BY <1>1, <1>2
<1>4. PICK n \in Left : \A m \in Left : n <= m
  BY <1>3, LeastNatural
<1>5. PICK j \in Here(chars, i) : n = Len(chars) - j
  BY <1>4
<1>6. ASSUME NEW k \in Here(chars, i) PROVE k <= j
  <2>1. Len(chars) - k \in Left
    OBVIOUS
  <2> HIDE DEF Left
  <2>2. Len(chars) - j <= Len(chars) - k
    BY <1>4, <1>5, <2>1
  <2> QED
    BY <1>1, <1>2, <2>2
<1> QED
  BY <1>6 DEF Longest

\* What is put at a place of the text, and the place where the next begins.
Piece(chars, i) ==
    IF Here(chars, i) = {} THEN <<chars[i + 1]>> ELSE mapping[SubSeq(chars, i + 1, Longest(Here(chars, i)))]
After(chars, i) == IF Here(chars, i) = {} THEN i + 1 ELSE Longest(Here(chars, i))

LEMMA PieceIs ==
    ASSUME TrieData, NEW chars \in Seq(Rune), NEW i \in 0 .. Len(chars), i # Len(chars)
    PROVE  /\ Piece(chars, i) \in Seq(Rune)
           /\ After(chars, i) \in 0 .. Len(chars) /\ i < After(chars, i)
<1>1. Len(chars) \in Nat /\ i + 1 \in 1 .. Len(chars)
  BY LenProperties
<1>2. CASE Here(chars, i) = {}
  <2>1. chars[i + 1] \in Rune
    BY <1>1, ElementOfSeq
  <2> QED
    BY <1>1, <1>2, <2>1 DEF Piece, After
<1>3. CASE Here(chars, i) # {}
  <2>1. PICK j \in Here(chars, i) : j = Longest(Here(chars, i))
    BY <1>3, LongestIs
  <2>2. j \in Nat /\ i < j /\ j <= Len(chars) /\ SubSeq(chars, i + 1, j) \in words
    BY OccurrencesAre DEF Here
  <2>3. mapping[SubSeq(chars, i + 1, j)] \in Seq(Rune)
    BY <2>2 DEF TrieData
  <2> QED
    BY <1>1, <1>3, <2>1, <2>2, <2>3 DEF Piece, After
<1> QED
  BY <1>2, <1>3

\* What a text becomes from each place on.
Becomes(chars, f) ==
    \A i \in DOMAIN f : f[i] = IF i = Len(chars) THEN <<>> ELSE Piece(chars, i) \o f[After(chars, i)]

LEMMA SomeBecomes ==
    ASSUME TrieData, NEW chars \in Seq(Rune)
    PROVE  \E f \in [0 .. Len(chars) -> Seq(Rune)] : Becomes(chars, f)
<1> DEFINE Solved(m) == \E f \in [Len(chars) - m .. Len(chars) -> Seq(Rune)] : Becomes(chars, f)
           Wrong == {m \in 0 .. Len(chars) : ~Solved(m)}
<1>1. Len(chars) \in Nat
  BY LenProperties
<1>2. Wrong = {}
  <2> SUFFICES ASSUME Wrong # {} PROVE FALSE
    OBVIOUS
  <2>1. Wrong \in SUBSET Nat
    BY <1>1
  <2>2. PICK m \in Wrong : \A n \in Wrong : m <= n
    BY <2>1, LeastNatural
  <2>3. m \in 0 .. Len(chars) /\ ~Solved(m)
    OBVIOUS
  <2>4. CASE m = 0
    <3> DEFINE f == [i \in Len(chars) - m .. Len(chars) |-> <<>>]
    <3>1. \A i \in Len(chars) - m .. Len(chars) : i = Len(chars)
      BY <1>1, <2>4
    <3>2. f \in [Len(chars) - m .. Len(chars) -> Seq(Rune)]
      BY EmptySeq
    <3>3. Becomes(chars, f)
      BY <3>1 DEF Becomes
    <3> QED
      BY <2>3, <3>2, <3>3
  <2>5. CASE m # 0
    <3>1. PICK n \in 0 .. Len(chars) : n = Len(chars) - m /\ n # Len(chars)
      BY <1>1, <2>3, <2>5
    <3>2. Solved(m - 1)
      <4>1. m - 1 \in 0 .. Len(chars) /\ ~(m <= m - 1)
        BY <1>1, <2>3, <2>5
      <4>2. m - 1 \notin Wrong
        BY <2>2, <4>1
      <4> QED
        BY <4>1, <4>2
    <3>3. Len(chars) - (m - 1) = n + 1
      BY <1>1, <2>3, <3>1
    <3>4. PICK f \in [n + 1 .. Len(chars) -> Seq(Rune)] : Becomes(chars, f)
      BY <3>2, <3>3
    <3> DEFINE g == [i \in n .. Len(chars) |->
                        IF i = n THEN Piece(chars, n) \o f[After(chars, n)] ELSE f[i]]
    <3>5. \A i \in n .. Len(chars) : i # Len(chars) => After(chars, i) \in n + 1 .. Len(chars)
      BY <1>1, <3>1, PieceIs
    <3>6. ASSUME NEW i \in n + 1 .. Len(chars) PROVE i \in n .. Len(chars) /\ g[i] = f[i]
      <4>1. i \in n .. Len(chars) /\ i # n
        BY <1>1, <3>1
      <4> QED
        BY <4>1
    <3>7. g \in [n .. Len(chars) -> Seq(Rune)]
      <4>1. n \in n .. Len(chars)
        BY <1>1, <3>1
      <4>2. Piece(chars, n) \o f[After(chars, n)] \in Seq(Rune)
        BY <3>1, <3>4, <3>5, <4>1, PieceIs, ConcatProperties
      <4>3. \A i \in n .. Len(chars) : i # n => i \in n + 1 .. Len(chars)
        BY <1>1, <3>1
      <4> QED
        BY <3>4, <4>2, <4>3
    <3>8. Becomes(chars, g)
      <4> SUFFICES ASSUME NEW i \in n .. Len(chars)
                   PROVE  g[i] = IF i = Len(chars) THEN <<>> ELSE Piece(chars, i) \o g[After(chars, i)]
        BY DEF Becomes
      <4>1. CASE i = n
        <5>1. After(chars, n) \in n + 1 .. Len(chars)
          BY <3>1, <3>5, <4>1
        <5> QED
          BY <3>1, <3>6, <4>1, <5>1
      <4>2. CASE i # n
        <5>1. i \in n + 1 .. Len(chars)
          BY <1>1, <3>1, <4>2
        <5>2. f[i] = IF i = Len(chars) THEN <<>> ELSE Piece(chars, i) \o f[After(chars, i)]
          BY <3>4, <5>1 DEF Becomes
        <5> HIDE DEF g
        <5> QED
          BY <3>5, <3>6, <5>1, <5>2
      <4> QED
        BY <4>1, <4>2
    <3> QED
      BY <2>3, <3>1, <3>7, <3>8
  <2> QED
    BY <2>4, <2>5
<1>3. Len(chars) \in 0 .. Len(chars) /\ Len(chars) - Len(chars) = 0
  BY <1>1
<1> QED
  BY <1>2, <1>3

\* The solution that LeftmostLongest takes.
From(chars) == CHOOSE f : f = [i \in 0 .. Len(chars) |->
    IF i = Len(chars) THEN <<>>
    ELSE IF Here(chars, i) = {} THEN <<chars[i + 1]>> \o f[i + 1]
    ELSE LET stop == Longest(Here(chars, i)) IN mapping[SubSeq(chars, i + 1, stop)] \o f[stop]]

LEMMA FromIs ==
    ASSUME TrieData, NEW chars \in Seq(Rune)
    PROVE  /\ LeftmostLongest(chars) = From(chars)[0]
           /\ From(chars) \in [0 .. Len(chars) -> Seq(Rune)]
           /\ Becomes(chars, From(chars))
<1> DEFINE I == 0 .. Len(chars)
<1>1. Len(chars) \in Nat
  BY LenProperties
<1>2. PICK g \in [I -> Seq(Rune)] : Becomes(chars, g)
  BY SomeBecomes
<1>3. g = [i \in I |->
          IF i = Len(chars) THEN <<>>
          ELSE IF Here(chars, i) = {} THEN <<chars[i + 1]>> \o g[i + 1]
          ELSE LET stop == Longest(Here(chars, i)) IN mapping[SubSeq(chars, i + 1, stop)] \o g[stop]]
  BY <1>2 DEF Becomes, Piece, After
<1>4. From(chars) = [i \in I |->
          IF i = Len(chars) THEN <<>>
          ELSE IF Here(chars, i) = {} THEN <<chars[i + 1]>> \o From(chars)[i + 1]
          ELSE LET stop == Longest(Here(chars, i)) IN mapping[SubSeq(chars, i + 1, stop)] \o From(chars)[stop]]
  BY <1>3 DEF From
<1>5. LeftmostLongest(chars) = From(chars)[0]
  BY DEF LeftmostLongest, From
<1>6. DOMAIN From(chars) = I /\ Becomes(chars, From(chars))
  BY <1>4 DEF Becomes, Piece, After
<1>7. \A i \in I : From(chars)[i] \in Seq(Rune)
  <2> DEFINE Wrong == {Len(chars) - i : i \in {j \in I : From(chars)[j] \notin Seq(Rune)}}
  <2> SUFFICES ASSUME Wrong # {} PROVE FALSE
    OBVIOUS
  <2>1. Wrong \in SUBSET Nat
    BY <1>1
  <2>2. PICK n \in Wrong : \A m \in Wrong : n <= m
    BY <2>1, LeastNatural
  <2>3. PICK i \in I : From(chars)[i] \notin Seq(Rune) /\ n = Len(chars) - i
    BY <2>2
  <2>4. \A j \in I : From(chars)[j] \notin Seq(Rune) => Len(chars) - j \in Wrong
    OBVIOUS
  <2> HIDE DEF Wrong
  <2>5. i # Len(chars)
    BY <1>6, <2>3, EmptySeq DEF Becomes
  <2>6. After(chars, i) \in I /\ i < After(chars, i) /\ Piece(chars, i) \in Seq(Rune)
    BY <2>5, PieceIs
  <2>7. From(chars)[After(chars, i)] \in Seq(Rune)
    BY <1>1, <2>2, <2>3, <2>4, <2>6
  <2> QED
    BY <1>6, <2>3, <2>5, <2>6, <2>7, ConcatProperties DEF Becomes
<1> QED
  BY <1>4, <1>5, <1>6, <1>7

\* What has no keyword in it stays.
LEMMA GapStays ==
    ASSUME TrieData, NEW chars \in Seq(Rune), NEW i \in 0 .. Len(chars), NEW m \in i .. Len(chars),
           \A j \in i .. m - 1 : Here(chars, j) = {}
    PROVE  From(chars)[i] = SubSeq(chars, i + 1, m) \o From(chars)[m]
<1> DEFINE Stays(j) == From(chars)[j] = SubSeq(chars, j + 1, m) \o From(chars)[m]
           Wrong == {m - j : j \in {k \in i .. m : ~Stays(k)}}
<1>1. Len(chars) \in Nat /\ i \in Nat /\ m \in Nat /\ i <= m /\ m <= Len(chars)
  BY LenProperties
<1>2. From(chars)[m] \in Seq(Rune)
  BY <1>1, FromIs
<1>3. Wrong = {}
  <2> SUFFICES ASSUME Wrong # {} PROVE FALSE
    OBVIOUS
  <2>0. \A k \in i .. m : m - k \in Nat
    BY <1>1
  <2>1. Wrong \in SUBSET Nat
    BY <2>0
  <2>2. PICK n \in Wrong : \A k \in Wrong : n <= k
    BY <2>1, LeastNatural
  <2>3. PICK j \in i .. m : ~Stays(j) /\ n = m - j
    BY <2>2
  <2>4. \A k \in i .. m : ~Stays(k) => m - k \in Wrong
    OBVIOUS
  <2> HIDE DEF Wrong
  <2>5. CASE j = m
    <3>1. SubSeq(chars, m + 1, m) = <<>>
      BY <1>1, SubSeqEmpty
    <3> QED
      BY <1>2, <2>3, <2>5, <3>1, ConcatEmptySeq
  <2>6. CASE j # m
    <3>1. /\ j \in i .. m - 1 /\ j + 1 \in i .. m /\ j \in 0 .. Len(chars) /\ j # Len(chars)
          /\ j + 1 \in 1 .. Len(chars) /\ m \in j + 1 .. Len(chars) /\ m - (j + 1) < m - j
      BY <1>1, <2>6
    <3>2. Stays(j + 1)
      <4>1. m - (j + 1) \notin Wrong
        BY <1>1, <2>1, <2>2, <2>3, <3>1
      <4> QED
        BY <2>4, <3>1, <4>1
    <3>3. From(chars)[j] = <<chars[j + 1]>> \o From(chars)[j + 1]
      BY <3>1, FromIs DEF Becomes, Piece, After
    <3>4. chars[j + 1] \in Rune /\ <<chars[j + 1]>> \in Seq(Rune)
      BY <3>1, ElementOfSeq
    <3>5. SubSeq(chars, j + 1, m) = <<chars[j + 1]>> \o SubSeq(chars, (j + 1) + 1, m)
      BY <3>1, SubSeqRecursiveFirst
    <3>6. SubSeq(chars, (j + 1) + 1, m) \in Seq(Rune)
      BY <1>1, <3>1, SuffixOfPrefix
    <3>7. (<<chars[j + 1]>> \o SubSeq(chars, (j + 1) + 1, m)) \o From(chars)[m]
              = <<chars[j + 1]>> \o (SubSeq(chars, (j + 1) + 1, m) \o From(chars)[m])
      <4>1. PICK s \in Seq(Rune), t \in Seq(Rune), u \in Seq(Rune) :
                s = <<chars[j + 1]>> /\ t = SubSeq(chars, (j + 1) + 1, m) /\ u = From(chars)[m]
        BY <1>2, <3>4, <3>6
      <4>2. (s \o t) \o u = s \o (t \o u)
        BY ConcatAssociative
      <4> QED
        BY <4>1, <4>2
    <3> QED
      BY <2>3, <3>2, <3>3, <3>5, <3>7
  <2> QED
    BY <2>5, <2>6
<1>4. i \in i .. m
  BY <1>1
<1> QED
  BY <1>3, <1>4

\* Of what has been found behind an index, the replacer takes the longest keyword
\* where the first begins.
LEMMA FirstIs ==
    ASSUME TrieData, NEW chars \in Seq(Rune), NEW index \in 0 .. Len(chars),
           Behind(Occurrences(chars), index) # {}
    PROVE  \E a \in index .. Len(chars) :
               /\ \A j \in index .. a - 1 : Here(chars, j) = {}
               /\ Here(chars, a) # {}
               /\ FirstScope(Behind(Occurrences(chars), index)) = <<a, Longest(Here(chars, a))>>
<1> DEFINE rest == Behind(Occurrences(chars), index)
           Starts == {j \in index .. Len(chars) : Here(chars, j) # {}}
<1>1. Len(chars) \in Nat /\ index \in Nat
  BY LenProperties
<1>2. ASSUME NEW s \in rest
      PROVE  /\ s = <<s[1], s[2]>> /\ s[1] \in Starts /\ s[2] \in Here(chars, s[1])
             /\ s[1] \in Nat /\ s[2] \in Nat
  <2>1. s \in Occurrences(chars) /\ s[1] >= index
    BY DEF Behind
  <2>2. s = <<s[1], s[2]>> /\ s[1] \in 0 .. Len(chars) /\ s[2] \in 0 .. Len(chars)
    BY <2>1 DEF Occurrences
  <2>3. s[2] \in Here(chars, s[1])
    BY <2>1, <2>2 DEF Here
  <2>4. s[1] \in index .. Len(chars)
    BY <1>1, <2>1, <2>2
  <2> QED
    BY <1>1, <2>2, <2>3, <2>4
<1>3. ASSUME NEW a \in Starts, NEW b \in Here(chars, a) PROVE <<a, b>> \in rest
  <2>1. <<a, b>> \in Occurrences(chars)
    BY DEF Here
  <2>2. a >= index
    BY <1>1
  <2> QED
    BY <2>1, <2>2 DEF Behind
<1>4. Starts \in SUBSET Nat /\ Starts # {}
  BY <1>1, <1>2
<1> HIDE DEF rest
<1>5. PICK a \in Starts : \A j \in Starts : a <= j
  BY <1>4, LeastNatural
<1>6. PICK b : b = Longest(Here(chars, a)) /\ b \in Here(chars, a) /\ \A k \in Here(chars, a) : k <= b
  <2>1. a \in 0 .. Len(chars) /\ Here(chars, a) # {}
    BY <1>1
  <2> QED
    BY <2>1, LongestIs
<1>7. <<a, b>> \in rest
  BY <1>3, <1>6
<1> HIDE DEF Starts
<1>8. ASSUME NEW t \in rest \ {<<a, b>>} PROVE Before(<<a, b>>, t)
  <2>1. t = <<t[1], t[2]>> /\ t[1] \in Starts /\ t[2] \in Here(chars, t[1]) /\ t[1] \in Nat /\ t[2] \in Nat
    BY <1>2
  <2>2. a <= t[1] /\ a \in Nat /\ b \in Nat
    BY <1>2, <1>4, <1>5, <1>7, <2>1
  <2>3. CASE a = t[1]
    <3>1. t[2] <= b /\ t[2] # b
      BY <1>6, <2>1, <2>3
    <3> QED
      BY <2>1, <2>2, <2>3, <3>1 DEF Before
  <2>4. CASE a # t[1]
    BY <2>1, <2>2, <2>4 DEF Before
  <2> QED
    BY <2>3, <2>4
<1>9. PICK s \in rest : s = FirstScope(rest) /\ \A t \in rest \ {s} : Before(s, t)
  BY <1>7, <1>8 DEF FirstScope
<1>10. s = <<a, b>>
  <2> SUFFICES ASSUME s # <<a, b>> PROVE FALSE
    OBVIOUS
  <2>1. Before(s, <<a, b>>) /\ Before(<<a, b>>, s)
    BY <1>7, <1>8, <1>9
  <2>2. s[1] \in Nat /\ s[2] \in Nat /\ a \in Nat /\ b \in Nat
    BY <1>2, <1>7, <1>9
  <2> QED
    BY <2>1, <2>2 DEF Before
<1>11. a \in index .. Len(chars) /\ Here(chars, a) # {} /\ \A j \in index .. a - 1 : Here(chars, j) = {}
  <2>1. \A j \in index .. a - 1 : j \in index .. Len(chars) /\ ~(a <= j)
    BY <1>1, <1>5 DEF Starts
  <2> QED
    BY <1>5, <2>1 DEF Starts
<1> QED
  BY <1>6, <1>9, <1>10, <1>11 DEF rest

\* One round of the replacer.
LEMMA RoundIs ==
    ASSUME TrieData, NEW chars \in Seq(Rune)
    PROVE  doReplace(chars) = LeftmostLongest(chars) /\ LeftmostLongest(chars) \in Seq(Rune)
<1> DEFINE I == 0 .. Len(chars)
           found == Occurrences(chars)
           scp(index) == FirstScope(Behind(found, index))
           g == From(chars)
           h == CHOOSE f : f = [index \in I |->
                    IF Behind(found, index) = {} THEN SubSeq(chars, index + 1, Len(chars))
                    ELSE SubSeq(chars, index + 1, scp(index)[1])
                             \o (mapping[SubSeq(chars, scp(index)[1] + 1, scp(index)[2])] \o f[scp(index)[2]])]
<1>1. Len(chars) \in Nat
  BY LenProperties
<1>2. g \in [I -> Seq(Rune)] /\ Becomes(chars, g)
  BY FromIs
<1>3. ASSUME NEW index \in I
      PROVE  /\ Behind(found, index) # {} => scp(index)[2] \in I /\ index < scp(index)[2]
             /\ g[index] = IF Behind(found, index) = {} THEN SubSeq(chars, index + 1, Len(chars))
                           ELSE SubSeq(chars, index + 1, scp(index)[1])
                                 \o (mapping[SubSeq(chars, scp(index)[1] + 1, scp(index)[2])] \o g[scp(index)[2]])
  <2>1. CASE Behind(found, index) = {}
    <3>1. Len(chars) \in I /\ Len(chars) \in index .. Len(chars)
      BY <1>1
    <3>2. ASSUME NEW j \in index .. Len(chars) - 1, NEW k \in Here(chars, j) PROVE FALSE
      <4>1. <<j, k>> \in found /\ j >= index
        BY <1>1 DEF Here
      <4> QED
        BY <2>1, <4>1 DEF Behind
    <3>3. g[index] = SubSeq(chars, index + 1, Len(chars)) \o g[Len(chars)]
      BY <3>1, <3>2, GapStays
    <3>4. g[Len(chars)] = <<>> /\ SubSeq(chars, index + 1, Len(chars)) \in Seq(Rune)
      BY <1>2, <3>1, SuffixIs DEF Becomes, Suffix
    <3> QED
      BY <2>1, <3>3, <3>4, ConcatEmptySeq
  <2>2. CASE Behind(found, index) # {}
    <3>1. PICK a \in index .. Len(chars) :
              /\ \A j \in index .. a - 1 : Here(chars, j) = {}
              /\ Here(chars, a) # {}
              /\ scp(index) = <<a, Longest(Here(chars, a))>>
      BY <2>2, FirstIs
    <3>2. a \in I /\ index <= a /\ a \in Nat /\ index \in Nat
      BY <1>1
    <3>3. PICK b : b = Longest(Here(chars, a)) /\ b \in Here(chars, a)
      BY <3>1, <3>2, LongestIs
    <3>4. b \in I /\ a < b /\ b \in Nat
      BY <1>1, <3>3, OccurrencesAre DEF Here
    <3>5. g[index] = SubSeq(chars, index + 1, a) \o g[a]
      BY <3>1, GapStays
    <3>6. g[a] = mapping[SubSeq(chars, a + 1, b)] \o g[b]
      <4>1. a # Len(chars) /\ a \in DOMAIN g
        BY <1>1, <1>2, <3>2, <3>4
      <4>2. g[a] = Piece(chars, a) \o g[After(chars, a)]
        BY <1>2, <4>1 DEF Becomes
      <4>3. Piece(chars, a) = mapping[SubSeq(chars, a + 1, b)] /\ After(chars, a) = b
        BY <3>1, <3>3 DEF Piece, After
      <4> QED
        BY <4>2, <4>3
    <3>7. scp(index)[1] = a /\ scp(index)[2] = b
      BY <3>1, <3>3
    <3>8. index < b
      BY <3>2, <3>4
    <3> HIDE DEF scp, g, found
    <3>9. g[index] = SubSeq(chars, index + 1, scp(index)[1])
                         \o (mapping[SubSeq(chars, scp(index)[1] + 1, scp(index)[2])] \o g[scp(index)[2]])
      BY <3>5, <3>6, <3>7
    <3> QED
      BY <2>2, <3>4, <3>7, <3>8, <3>9
  <2> QED
    BY <2>1, <2>2
<1>4. g = [index \in I |->
              IF Behind(found, index) = {} THEN SubSeq(chars, index + 1, Len(chars))
              ELSE SubSeq(chars, index + 1, scp(index)[1])
                       \o (mapping[SubSeq(chars, scp(index)[1] + 1, scp(index)[2])] \o g[scp(index)[2]])]
  BY <1>2, <1>3
<1>5. h = [index \in I |->
              IF Behind(found, index) = {} THEN SubSeq(chars, index + 1, Len(chars))
              ELSE SubSeq(chars, index + 1, scp(index)[1])
                       \o (mapping[SubSeq(chars, scp(index)[1] + 1, scp(index)[2])] \o h[scp(index)[2]])]
  <2> HIDE DEF g
  <2> QED
    BY <1>4 DEF h
<1>6. doReplace(chars) = h[0]
  BY FindIs DEF doReplace, Written
<1> HIDE DEF h, g, scp
<1>7. \A index \in I : h[index] = g[index]
  <2> DEFINE Wrong == {Len(chars) - i : i \in {j \in I : h[j] # g[j]}}
  <2> SUFFICES ASSUME Wrong # {} PROVE FALSE
    OBVIOUS
  <2>1. Wrong \in SUBSET Nat
    BY <1>1
  <2>2. PICK n \in Wrong : \A m \in Wrong : n <= m
    BY <2>1, LeastNatural
  <2>3. PICK index \in I : h[index] # g[index] /\ n = Len(chars) - index
    BY <2>2
  <2>4. \A j \in I : h[j] # g[j] => Len(chars) - j \in Wrong
    OBVIOUS
  <2> HIDE DEF Wrong
  <2>5. ASSUME Behind(found, index) # {} PROVE h[scp(index)[2]] = g[scp(index)[2]]
    <3>1. scp(index)[2] \in I /\ index < scp(index)[2]
      BY <1>3, <2>5
    <3>2. Len(chars) - scp(index)[2] \notin Wrong
      BY <1>1, <2>1, <2>2, <2>3, <3>1
    <3> QED
      BY <2>4, <3>1, <3>2
  <2> QED
    BY <1>3, <1>5, <2>3, <2>5
<1> QED
  BY <1>1, <1>2, <1>6, <1>7, FromIs DEF g

LEMMA SearchStep ==
    ASSUME TrieData, text \in Seq(Rune), Search
    PROVE  scopes' = Occurrences(text) /\ replaced' = LeftmostLongest(LeftmostLongest(text))
BY FindIs, RoundIs DEF Search, Replace

LEMMA TrieStart == TrieInit => TrieData /\ text \in Seq(Rune)
<1> SUFFICES ASSUME TrieInit PROVE TrieData /\ text \in Seq(Rune)
  OBVIOUS
<1>1. Word \in SUBSET (Seq(Rune) \ {<<>>})
  <2> SUFFICES ASSUME NEW w \in Word PROVE w \in Seq(Rune) /\ w # <<>>
    OBVIOUS
  <2>1. PICK n \in 1 .. MaxWord : w \in [1 .. n -> Rune]
    BY DEF Word
  <2>2. n \in Nat /\ n >= 1
    OBVIOUS
  <2>3. w \in Seq(Rune)
    BY <2>1, <2>2, SeqDef
  <2>4. DOMAIN w = 1 .. n /\ 1 \in 1 .. n
    BY <2>1, <2>2
  <2>5. DOMAIN <<>> = {}
    OBVIOUS
  <2> QED
    BY <2>3, <2>4, <2>5
<1>2. text \in Seq(Rune)
  <2>1. PICK n \in 0 .. MaxText : text \in [1 .. n -> Rune]
    BY DEF TrieInit, Text
  <2> QED
    BY <2>1, SeqDef
<1>3. words \in SUBSET (Seq(Rune) \ {<<>>})
  BY <1>1 DEF TrieInit
<1>4. \A w \in words : Tail(w) \in Seq(Rune) /\ <<>> \in Seq(Rune)
  BY <1>3, HeadTailProperties, EmptySeq
<1>5. mapping \in [words -> Seq(Rune)]
  BY <1>4 DEF TrieInit
<1> QED
  BY <1>2, <1>3, <1>5 DEF TrieData

\* find (node.go) finds all places of all keywords, by failures that build has made;
\* each round of Replace (replacer.go) replaces the longest keyword where the
\* next begins: for all keywords and texts.
THEOREM TheSearchIsRight == TrieSpec => SearchIsRight
<1> DEFINE Inv == TrieData /\ text \in Seq(Rune)
           AsPromised == scopes' = Occurrences(text) /\ replaced' = LeftmostLongest(LeftmostLongest(text))
<1>1. TrieInit => Inv
  BY TrieStart
<1>2. Inv /\ [Search]_trieVars => Inv'
  BY DEF Search, TrieData, trieVars
<1>3. Inv /\ [Search]_trieVars => [AsPromised]_trieVars
  BY SearchStep
<1> HIDE DEF Inv, AsPromised
<1>4. TrieSpec => [][AsPromised]_trieVars
  BY <1>1, <1>2, <1>3, PTL DEF TrieSpec
<1> QED
  BY <1>4 DEF SearchIsRight, AsPromised

-----------------------------------------------------------------------------
(***************************************************************************)
(* Proofs about the mapping of a map to a struct.  The recursive functions *)
(* of the model exist because the fields within a field have less levels;  *)
(* what is shown of a field is shown with that of the fields within it.    *)
(***************************************************************************)
\* Numbers are reached from zero one by one.
LEMMA OneByOne ==
    ASSUME NEW n \in Nat, NEW D, 0 \in D, \A m \in Nat : m < n /\ m \in D => m + 1 \in D
    PROVE  n \in D
<1> DEFINE Wrong == {m \in Nat : m <= n /\ m \notin D}
<1>1. Wrong = {}
  <2> SUFFICES ASSUME Wrong # {} PROVE FALSE
    OBVIOUS
  <2>1. PICK m \in Wrong : \A k \in Wrong : m <= k
    BY LeastNatural
  <2>2. m \in Nat /\ m # 0 /\ m <= n /\ m \notin D
    OBVIOUS
  <2>3. m - 1 \in Nat /\ m - 1 < n /\ m - 1 <= n /\ ~(m <= m - 1) /\ (m - 1) + 1 = m
    BY <2>2
  <2>4. m - 1 \in D
    BY <2>1, <2>3
  <2> QED
    BY <2>2, <2>3, <2>4
<1> QED
  BY <1>1

\* The fields with at most d levels of structs.
Level(d) == UNION {Fields[e] : e \in 1 .. d}

\* The levels are numbered.
LEMMA FieldsAreListed ==
    Fields \in Seq(SUBSET Field) /\ Len(Fields) \in Nat /\ DOMAIN Fields = 1 .. Len(Fields)
<1>1. Fields \in Seq(SUBSET Field)
  BY MappingAssumption
<1> QED
  BY <1>1, LenProperties

\* The last level has all fields, and the fields in one of a level are of the level before.
LEMMA LevelsAre ==
    /\ Level(0) = {} /\ Len(Fields) \in Nat /\ Level(Len(Fields)) = Field
    /\ \A d \in Nat : d < Len(Fields) =>
           \A f \in Level(d + 1) : f \in Field /\ \A i \in DOMAIN f.sub : f.sub[i] \in Level(d)
<1>1. Fields \in Seq(SUBSET Field) /\ Len(Fields) \in Nat /\ DOMAIN Fields = 1 .. Len(Fields)
  BY FieldsAreListed
<1>2. Level(0) = {}
  BY DEF Level
<1>3. Level(Len(Fields)) = Field
  BY <1>1 DEF Level, Field
<1>4. ASSUME NEW d \in Nat, d < Len(Fields), NEW f \in Level(d + 1), NEW i \in DOMAIN f.sub
      PROVE  f.sub[i] \in Level(d)
  <2>1. PICK e \in 1 .. d + 1 : f \in Fields[e]
    BY <1>4 DEF Level
  <2>2. e \in DOMAIN Fields
    BY <1>1, <1>4, <2>1
  <2>3. f.sub \in Seq(UNION {Fields[c] : c \in 1 .. e - 1})
    BY <2>1, <2>2, MappingAssumption
  <2>4. f.sub[i] \in UNION {Fields[c] : c \in 1 .. e - 1}
    BY <1>4, <2>3, ElementOfSeq
  <2>5. \A c \in 1 .. e - 1 : c \in 1 .. d
    BY <2>1
  <2> QED
    BY <2>4, <2>5 DEF Level
<1>5. ASSUME NEW d \in Nat, d < Len(Fields), NEW f \in Level(d + 1)
      PROVE  f \in Field
  BY <1>1, <1>5 DEF Level, Field
<1> QED
  BY <1>1, <1>2, <1>3, <1>4, <1>5

\* What a field is, and that the fields in it are fields.
LEMMA FieldsAre ==
    ASSUME NEW f \in Field
    PROVE  /\ f.kind \in {"number", "struct", "embedded"}
           /\ f.opts.tagged \/ f.opts = NoOptions
           /\ f.sub \in Seq(Field) /\ \A i \in DOMAIN f.sub : f.sub[i] \in Field
<1>1. PICK d \in DOMAIN Fields : f \in Fields[d]
  BY DEF Field
<1>2. f.sub \in Seq(UNION {Fields[e] : e \in 1 .. d - 1})
  BY <1>1, MappingAssumption
<1>3. Fields \in Seq(SUBSET Field) /\ DOMAIN Fields = 1 .. Len(Fields) /\ Len(Fields) \in Nat
  BY FieldsAreListed
<1>4. UNION {Fields[e] : e \in 1 .. d - 1} \subseteq Field
  <2>1. \A e \in 1 .. d - 1 : e \in DOMAIN Fields
    BY <1>1, <1>3
  <2> QED
    BY <2>1 DEF Field
<1>5. f.sub \in Seq(Field)
  BY <1>2, <1>4, SeqMonotonic
<1>6. \A i \in DOMAIN f.sub : f.sub[i] \in Field
  BY <1>5, ElementOfSeq
<1> QED
  BY <1>1, <1>5, <1>6, MappingAssumption

\* What holds for a field when it holds for those in it, holds for all.
LEMMA FieldInduction ==
    ASSUME NEW S, \A f \in Field : (\A i \in DOMAIN f.sub : f.sub[i] \in S) => f \in S
    PROVE  Field \subseteq S
<1> DEFINE D == {d \in Nat : Level(d) \subseteq S}
<1>1. 0 \in D
  BY LevelsAre
<1>2. ASSUME NEW d \in Nat, d < Len(Fields), d \in D PROVE d + 1 \in D
  BY <1>2, LevelsAre
<1>3. Len(Fields) \in D
  <2> HIDE DEF D
  <2> QED
    BY <1>1, <1>2, LevelsAre, OneByOne
<1> QED
  BY <1>3, LevelsAre

-----------------------------------------------------------------------------
\* What processField makes of a field, when g is what it makes of the fields in it.
ProcessBody(g, f) ==
    LET parts == [i \in DOMAIN f.sub |-> g[f.sub[i]]]
    IN  [chain \in Valuer |->
            IF f.kind = "number" THEN NamedNumber(f, chain)
            ELSE IF f.kind = "struct" THEN NamedStruct(f, parts, chain)
            ELSE Embedded(f, parts, chain)]

\* processField looks at no fields but those in the field.
LEMMA SameProcess ==
    ASSUME NEW f \in Field, NEW g, NEW h, \A i \in DOMAIN f.sub : g[f.sub[i]] = h[f.sub[i]]
    PROVE  ProcessBody(g, f) = ProcessBody(h, f)
<1>1. [i \in DOMAIN f.sub |-> g[f.sub[i]]] = [i \in DOMAIN f.sub |-> h[f.sub[i]]]
  OBVIOUS
<1> QED
  BY <1>1 DEF ProcessBody

\* A solution of the equation of processField.
Process == CHOOSE g : g = [f \in Field |-> ProcessBody(g, f)]

\* There is a solution: one for the fields of a level can be extended to the next.
LEMMA SomeProcess == \E g : g = [f \in Field |-> ProcessBody(g, f)]
<1> DEFINE D == {d \in Nat : \E g : g = [f \in Level(d) |-> ProcessBody(g, f)]}
<1>1. 0 \in D
  <2>1. <<>> = [f \in Level(0) |-> ProcessBody(<<>>, f)]
    BY LevelsAre
  <2> QED
    BY <2>1
<1>2. ASSUME NEW d \in Nat, d < Len(Fields), d \in D PROVE d + 1 \in D
  <2>1. PICK g : g = [f \in Level(d) |-> ProcessBody(g, f)]
    BY <1>2
  <2> DEFINE h == [f \in Level(d + 1) |-> ProcessBody(g, f)]
  <2>2. Level(d) \subseteq Level(d + 1)
    BY DEF Level
  <2>3. \A f \in Level(d) : h[f] = g[f]
    BY <2>1, <2>2
  <2>4. \A f \in Level(d + 1) : ProcessBody(g, f) = ProcessBody(h, f)
    <3> HIDE DEF h
    <3> QED
      BY <1>2, <2>3, LevelsAre, SameProcess
  <2>5. h = [f \in Level(d + 1) |-> ProcessBody(h, f)]
    BY <2>4
  <2> HIDE DEF h
  <2>6. \E s : s = [f \in Level(d + 1) |-> ProcessBody(s, f)]
    BY <2>5
  <2> QED
    BY <2>6
<1>3. Len(Fields) \in D
  <2> HIDE DEF D
  <2> QED
    BY <1>1, <1>2, LevelsAre, OneByOne
<1> QED
  BY <1>3, LevelsAre

\* So processField satisfies its equation.
LEMMA ProcessIs ==
    /\ processField = Process
    /\ \A f \in Field : processField[f] = ProcessBody(processField, f)
<1>1. processField = Process
  BY DEF processField, Process, ProcessBody
<1>2. Process = [f \in Field |-> ProcessBody(Process, f)]
  BY SomeProcess DEF Process
<1> QED
  BY <1>1, <1>2

-----------------------------------------------------------------------------
\* The same for implicitValueRequiredStruct,
RequiredBody(g, f) ==
    IF ~f.opts.tagged THEN f.kind = "number" \/ \E i \in DOMAIN f.sub : g[f.sub[i]]
    ELSE (~f.opts.optional /\ f.opts.default = Unset) \/ f.opts.negated

LEMMA SomeRequired == \E g : g = [f \in Field |-> RequiredBody(g, f)]
<1> DEFINE D == {d \in Nat : \E g : g = [f \in Level(d) |-> RequiredBody(g, f)]}
<1>1. 0 \in D
  <2>1. <<>> = [f \in Level(0) |-> RequiredBody(<<>>, f)]
    BY LevelsAre
  <2> QED
    BY <2>1
<1>2. ASSUME NEW d \in Nat, d < Len(Fields), d \in D PROVE d + 1 \in D
  <2>1. PICK g : g = [f \in Level(d) |-> RequiredBody(g, f)]
    BY <1>2
  <2> DEFINE h == [f \in Level(d + 1) |-> RequiredBody(g, f)]
  <2>2. Level(d) \subseteq Level(d + 1)
    BY DEF Level
  <2>3. \A f \in Level(d) : h[f] = g[f]
    BY <2>1, <2>2
  <2>4. \A f \in Level(d + 1) : RequiredBody(g, f) = RequiredBody(h, f)
    <3> HIDE DEF h
    <3> QED
      BY <1>2, <2>3, LevelsAre DEF RequiredBody
  <2>5. h = [f \in Level(d + 1) |-> RequiredBody(h, f)]
    BY <2>4
  <2> HIDE DEF h
  <2>6. \E s : s = [f \in Level(d + 1) |-> RequiredBody(s, f)]
    BY <2>5
  <2> QED
    BY <2>6
<1>3. Len(Fields) \in D
  <2> HIDE DEF D
  <2> QED
    BY <1>1, <1>2, LevelsAre, OneByOne
<1> QED
  BY <1>3, LevelsAre

LEMMA RequiredIs == \A f \in Field : required[f] = RequiredBody(required, f)
<1> DEFINE r == CHOOSE g : g = [f \in Field |-> RequiredBody(g, f)]
<1>1. required = r
  BY DEF required, RequiredBody
<1>2. r = [f \in Field |-> RequiredBody(r, f)]
  BY SomeRequired
<1> QED
  BY <1>1, <1>2

\* and for the fields within a field,
NestedBody(g, f) == {f} \cup UNION {g[f.sub[i]] : i \in DOMAIN f.sub}

LEMMA SomeNested == \E g : g = [f \in Field |-> NestedBody(g, f)]
<1> DEFINE D == {d \in Nat : \E g : g = [f \in Level(d) |-> NestedBody(g, f)]}
<1>1. 0 \in D
  <2>1. <<>> = [f \in Level(0) |-> NestedBody(<<>>, f)]
    BY LevelsAre
  <2> QED
    BY <2>1
<1>2. ASSUME NEW d \in Nat, d < Len(Fields), d \in D PROVE d + 1 \in D
  <2>1. PICK g : g = [f \in Level(d) |-> NestedBody(g, f)]
    BY <1>2
  <2> DEFINE h == [f \in Level(d + 1) |-> NestedBody(g, f)]
  <2>2. Level(d) \subseteq Level(d + 1)
    BY DEF Level
  <2>3. \A f \in Level(d) : h[f] = g[f]
    BY <2>1, <2>2
  <2>4. \A f \in Level(d + 1) : NestedBody(g, f) = NestedBody(h, f)
    <3> HIDE DEF h
    <3> QED
      BY <1>2, <2>3, LevelsAre DEF NestedBody
  <2>5. h = [f \in Level(d + 1) |-> NestedBody(h, f)]
    BY <2>4
  <2> HIDE DEF h
  <2>6. \E s : s = [f \in Level(d + 1) |-> NestedBody(s, f)]
    BY <2>5
  <2> QED
    BY <2>6
<1>3. Len(Fields) \in D
  <2> HIDE DEF D
  <2> QED
    BY <1>1, <1>2, LevelsAre, OneByOne
<1> QED
  BY <1>3, LevelsAre

LEMMA NestedIs == \A f \in Field : nested[f] = NestedBody(nested, f)
<1> DEFINE r == CHOOSE g : g = [f \in Field |-> NestedBody(g, f)]
<1>1. nested = r
  BY DEF nested, NestedBody
<1>2. r = [f \in Field |-> NestedBody(r, f)]
  BY SomeNested
<1> QED
  BY <1>1, <1>2

-----------------------------------------------------------------------------
\* and for what is inherited, map by map.
InheritBody(g, n, chain, key) ==
    IF n = 0 THEN Absent
    ELSE LET v == In(chain[Len(chain) - n + 1], key)
             up == g[n - 1]
         IN  IF v = Absent THEN up
             ELSE IF v.is = "map" /\ up.is = "map" THEN MapOf(Merge(v.m, up.m))
             ELSE v

LEMMA SomeInherit ==
    ASSUME NEW chain, NEW key, NEW n \in Nat
    PROVE  \E g : g = [m \in 0 .. n |-> InheritBody(g, m, chain, key)]
<1> DEFINE D == {k \in Nat : \E g : g = [m \in 0 .. k |-> InheritBody(g, m, chain, key)]}
<1>1. 0 \in D
  <2> DEFINE h == [m \in 0 .. 0 |-> Absent]
  <2>1. h = [m \in 0 .. 0 |-> InheritBody(h, m, chain, key)]
    BY DEF InheritBody
  <2> QED
    BY <2>1
<1>2. ASSUME NEW k \in Nat, k \in D PROVE k + 1 \in D
  <2>1. PICK g : g = [m \in 0 .. k |-> InheritBody(g, m, chain, key)]
    BY <1>2
  <2> DEFINE h == [m \in 0 .. k + 1 |-> InheritBody(g, m, chain, key)]
  <2>2. \A m \in 0 .. k : m \in 0 .. k + 1
    OBVIOUS
  <2>3. \A m \in 0 .. k : h[m] = g[m]
    BY <2>1, <2>2
  <2>4. \A m \in 0 .. k + 1 : InheritBody(g, m, chain, key) = InheritBody(h, m, chain, key)
    <3> HIDE DEF h
    <3>1. \A m \in 0 .. k + 1 : m # 0 => m - 1 \in 0 .. k
      OBVIOUS
    <3> QED
      BY <2>3, <3>1 DEF InheritBody
  <2>5. h = [m \in 0 .. k + 1 |-> InheritBody(h, m, chain, key)]
    BY <2>4
  <2> HIDE DEF h
  <2>6. \E s : s = [m \in 0 .. k + 1 |-> InheritBody(s, m, chain, key)]
    BY <2>5
  <2> QED
    BY <2>6
<1>3. n \in D
  <2> HIDE DEF D
  <2> QED
    BY <1>1, <1>2, OneByOne
<1> QED
  BY <1>3

LEMMA InheritedIs ==
    ASSUME NEW chain, NEW key, Len(chain) \in Nat
    PROVE  \E g : /\ Inherited(chain, key) = g[Len(chain)]
                  /\ \A n \in 0 .. Len(chain) : g[n] = InheritBody(g, n, chain, key)
<1> DEFINE r == CHOOSE g : g = [n \in 0 .. Len(chain) |-> InheritBody(g, n, chain, key)]
<1>1. Inherited(chain, key) = r[Len(chain)]
  BY DEF Inherited, InheritBody
<1>2. r = [n \in 0 .. Len(chain) |-> InheritBody(r, n, chain, key)]
  BY SomeInherit
<1> HIDE DEF r
<1> QED
  BY <1>1, <1>2

\* What is merged along a chain is a map that stands in other maps.
LEMMA InheritedMap ==
    ASSUME NEW chain \in Valuer, NEW key, Inherited(chain, key).is = "map"
    PROVE  Inherited(chain, key).m \in Maps
<1>1. chain \in Seq(Inputs \cup Maps) /\ Len(chain) \in Nat /\ DOMAIN chain = 1 .. Len(chain)
  BY LenProperties DEF Valuer
<1>2. PICK g : /\ Inherited(chain, key) = g[Len(chain)]
               /\ \A n \in 0 .. Len(chain) : g[n] = InheritBody(g, n, chain, key)
  BY <1>1, InheritedIs
<1> DEFINE D == {n \in Nat : g[n].is = "map" => g[n].m \in Maps}
<1>3. 0 \in D
  <2>1. 0 \in 0 .. Len(chain)
    BY <1>1
  <2>2. g[0] = Absent
    BY <1>2, <2>1 DEF InheritBody
  <2> QED
    BY <2>2 DEF Absent
<1>4. ASSUME NEW n \in Nat, n < Len(chain), n \in D PROVE n + 1 \in D
  <2>1. n + 1 \in 0 .. Len(chain) /\ n + 1 # 0 /\ (n + 1) - 1 = n
    BY <1>1, <1>4
  <2>2. Len(chain) - (n + 1) + 1 \in 1 .. Len(chain)
    BY <1>1, <1>4
  <2> DEFINE m == chain[Len(chain) - (n + 1) + 1]
             v == In(m, key)
  <2>3. m \in Inputs \cup Maps
    BY <1>1, <2>2, ElementOfSeq
  <2> HIDE DEF m
  <2>4. v.is = "map" => v.m \in Maps
    BY <2>3, MappingAssumption DEF In, Absent
  <2> HIDE DEF v
  <2>5. g[n + 1] = IF v = Absent THEN g[n]
                   ELSE IF v.is = "map" /\ g[n].is = "map" THEN MapOf(Merge(v.m, g[n].m)) ELSE v
    BY <1>2, <2>1 DEF InheritBody, v, m
  <2>6. v.is = "map" /\ g[n].is = "map" => Merge(v.m, g[n].m) \in Maps
    BY <1>4, <2>4, MappingAssumption
  <2> QED
    BY <1>4, <2>4, <2>5, <2>6 DEF MapOf
<1>5. Len(chain) \in D
  <2> HIDE DEF D
  <2> QED
    BY <1>1, <1>3, <1>4, OneByOne
<1> QED
  BY <1>2, <1>5

\* Nothing is found in an empty map.
LEMMA NothingThere ==
    ASSUME NEW key
    PROVE  Own(<< <<>> >>, key) = Absent /\ Inherited(<< <<>> >>, key) = Absent
<1> DEFINE chain == << <<>> >>
<1>1. Len(chain) = 1 /\ Len(chain) \in Nat /\ chain[1] = <<>>
  OBVIOUS
<1>2. In(<<>>, key) = Absent
  BY DEF In
<1> HIDE DEF chain
<1>3. PICK g : /\ Inherited(chain, key) = g[Len(chain)]
               /\ \A n \in 0 .. Len(chain) : g[n] = InheritBody(g, n, chain, key)
  BY <1>1, InheritedIs
<1>4. g[0] = Absent
  BY <1>1, <1>3 DEF InheritBody
<1>5. g[1] = InheritBody(g, 1, chain, key) /\ Len(chain) - 1 + 1 = 1 /\ 1 - 1 = 0
  BY <1>1, <1>3
<1>6. g[1] = Absent
  BY <1>1, <1>2, <1>4, <1>5 DEF InheritBody
<1> QED
  BY <1>1, <1>2, <1>3, <1>6 DEF Own, chain

-----------------------------------------------------------------------------
\* What processField makes of each kind of field.
LEMMA ProcessOf ==
    ASSUME NEW f \in Field, NEW chain \in Valuer
    PROVE  /\ f.kind = "number" => processField[f][chain] = NamedNumber(f, chain)
           /\ f.kind = "struct" => processField[f][chain] = NamedStruct(f, PartsOf(f.sub), chain)
           /\ f.kind = "embedded" => processField[f][chain] = Embedded(f, PartsOf(f.sub), chain)
<1>1. processField[f] = ProcessBody(processField, f)
  BY ProcessIs
<1> QED
  BY <1>1 DEF ProcessBody, PartsOf

\* The context is looked at before anything else.
LEMMA ContextIsRight ==
    ASSUME NEW f \in Field, NEW chain \in Valuer, processField[f][chain].ok
    PROVE  toOptionsWithContext(f, chain).ok
<1>1. CASE f.kind = "number"
  BY <1>1, ProcessOf DEF NamedNumber, Failed
<1>2. CASE f.kind = "struct"
  <2>1. toOptionsWithContext(f, chain).ok \/ NamedStruct(f, PartsOf(f.sub), chain) = Failed
    BY DEF NamedStruct
  <2> QED
    BY <1>2, <2>1, ProcessOf DEF Failed
<1>3. CASE f.kind = "embedded"
  BY <1>3, ProcessOf DEF Embedded, Failed
<1> QED
  BY <1>1, <1>2, <1>3, FieldsAre

\* Without a dependency a field keeps its options, and one that is not optional stays so.
LEMMA ContextKeeps ==
    ASSUME NEW f, NEW chain, ~f.opts.optional \/ f.opts.dep = Unset
    PROVE  toOptionsWithContext(f, chain) = [ok |-> TRUE, opts |-> f.opts]
BY DEF toOptionsWithContext

\* A map of the chain is put in front of another.
LEMMA ValuersAre ==
    /\ << <<>> >> \in Valuer
    /\ \A m \in Inputs : <<m>> \in Valuer
    /\ \A m \in Maps, chain \in Valuer : <<m>> \o chain \in Valuer
<1>1. <<>> \in Maps
  BY MappingAssumption
<1>2. ASSUME NEW m \in Inputs \cup Maps PROVE <<m>> \in Seq(Inputs \cup Maps) /\ <<m>> # <<>> /\ Len(<<m>>) = 1
  OBVIOUS
<1>3. ASSUME NEW m \in Maps, NEW chain \in Valuer PROVE <<m>> \o chain \in Valuer
  <2>1. chain \in Seq(Inputs \cup Maps) /\ Len(chain) \in Nat
    BY LenProperties DEF Valuer
  <2>2. <<m>> \o chain \in Seq(Inputs \cup Maps) /\ Len(<<m>> \o chain) = Len(<<m>>) + Len(chain)
    BY <1>2, <2>1, ConcatProperties
  <2>3. Len(<<m>> \o chain) # 0
    BY <1>2, <2>1, <2>2
  <2> QED
    BY <2>2, <2>3 DEF Valuer
<1> QED
  BY <1>1, <1>2, <1>3 DEF Valuer

\* A value that is a map is one of Maps.
LEMMA ValueIsKnown ==
    ASSUME NEW chain \in Valuer, NEW f, NEW o, ValueOf(f, chain, o).is = "map"
    PROVE  ValueOf(f, chain, o).m \in Maps
<1>1. CASE o.inherit
  BY <1>1, InheritedMap DEF ValueOf
<1>2. CASE ~o.inherit
  <2>1. chain \in Seq(Inputs \cup Maps) /\ chain # <<>>
    BY DEF Valuer
  <2>2. chain[1] \in Inputs \cup Maps
    BY <2>1
  <2> DEFINE m == chain[1]
  <2>3. ValueOf(f, chain, o) = In(m, f.key)
    BY <1>2 DEF ValueOf, Own
  <2> HIDE DEF m
  <2>4. m \in Inputs \cup Maps
    BY <2>2 DEF m
  <2>5. \A k \in DOMAIN m : m[k].is = "map" => m[k].m \in Maps
    BY <2>4, MappingAssumption
  <2>6. In(m, f.key) = m[f.key] /\ f.key \in DOMAIN m
    BY <2>3 DEF In, Absent
  <2> QED
    BY <2>3, <2>5, <2>6
<1> QED
  BY <1>1, <1>2

-----------------------------------------------------------------------------
\* A number of the i-th part, and where it is in the whole.
TogetherAs(i, t) == [at |-> <<i>> \o t.at, field |-> t.field, n |-> t.n]

\* The parts succeed together, and have what each of them has.
LEMMA TogetherIs ==
    ASSUME NEW parts
    PROVE  /\ Together(parts).ok <=> \A i \in DOMAIN parts : parts[i].ok
           /\ \A s \in Together(parts).set :
                  Together(parts).ok /\ \E i \in DOMAIN parts : \E t \in parts[i].set : s = TogetherAs(i, t)
           /\ Together(parts).ok => \A i \in DOMAIN parts : \A t \in parts[i].set :
                  TogetherAs(i, t) \in Together(parts).set
<1>1. CASE \A i \in DOMAIN parts : parts[i].ok
  <2>1. Together(parts) = [ok |-> TRUE, set |-> UNION {Under(i, parts[i].set) : i \in DOMAIN parts}]
    BY <1>1 DEF Together, Set
  <2>2. \A i : Under(i, parts[i].set) = {TogetherAs(i, t) : t \in parts[i].set}
    BY DEF Under, TogetherAs
  <2>3. \A s \in Together(parts).set : \E i \in DOMAIN parts : \E t \in parts[i].set : s = TogetherAs(i, t)
    BY <2>1, <2>2
  <2>4. \A i \in DOMAIN parts : \A t \in parts[i].set : TogetherAs(i, t) \in Together(parts).set
    BY <2>1, <2>2
  <2>5. Together(parts).ok
    BY <2>1
  <2> QED
    BY <1>1, <2>3, <2>4, <2>5
<1>2. CASE ~(\A i \in DOMAIN parts : parts[i].ok)
  <2>1. Together(parts) = [ok |-> FALSE, set |-> {}]
    BY <1>2 DEF Together, Failed
  <2> QED
    BY <1>2, <2>1
<1> QED
  BY <1>1, <1>2

\* What RangesAreKept says of one number.
Kept(s) ==
    LET o == s.field.opts
    IN  /\ s.at \in Seq(Nat)
        /\ o.dep = Unset => o.range = Unset \/ s.n = o.default \/ (o.range[1] <= s.n /\ s.n <= o.range[2])

\* What holds of the numbers of the parts holds of those of the whole.
LEMMA TogetherKept ==
    ASSUME NEW parts, DOMAIN parts \subseteq Nat, \A i \in DOMAIN parts : \A t \in parts[i].set : Kept(t)
    PROVE  \A s \in Together(parts).set : Kept(s)
<1> SUFFICES ASSUME NEW s \in Together(parts).set PROVE Kept(s)
  OBVIOUS
<1>1. PICK i \in DOMAIN parts : \E t \in parts[i].set : s = TogetherAs(i, t)
  BY TogetherIs
<1>2. PICK t \in parts[i].set : s = TogetherAs(i, t)
  BY <1>1
<1>3. Kept(t) /\ i \in Nat
  OBVIOUS
<1>4. <<i>> \o t.at \in Seq(Nat)
  <2>1. <<i>> \in Seq(Nat) /\ t.at \in Seq(Nat)
    BY <1>3 DEF Kept
  <2> QED
    BY <2>1, ConcatProperties
<1> QED
  BY <1>2, <1>3, <1>4 DEF Kept, TogetherAs

\* A number is set at its own place, and keeps to its range.
LEMMA NumberKept ==
    ASSUME NEW f, NEW chain, NEW s \in NamedNumber(f, chain).set
    PROVE  s.at = <<>> /\ Kept(s)
<1> DEFINE o == toOptionsWithContext(f, chain).opts
<1>1. f.opts.dep = Unset => o = f.opts
  BY ContextKeeps
<1>2. o.default = f.opts.default
  BY DEF toOptionsWithContext
<1> HIDE DEF o
<1>3. <<>> \in Seq(Nat)
  BY EmptySeq
<1>4. ASSUME NEW n, s \in Valid(f, n, o).set PROVE s.at = <<>> /\ Kept(s)
  <2>1. Accepts(o, n) /\ s = [at |-> <<>>, field |-> f, n |-> n]
    BY <1>4 DEF Valid, Failed, SetHere, Set
  <2> QED
    BY <1>1, <1>3, <2>1 DEF Kept, Accepts, validateNumberRange
<1>5. ASSUME s \in WithoutNumber(f, o).set PROVE s.at = <<>> /\ Kept(s)
  <2>1. s = [at |-> <<>>, field |-> f, n |-> o.default]
    BY <1>5 DEF WithoutNumber, Failed, SetHere, Set
  <2> QED
    BY <1>2, <1>3, <2>1 DEF Kept
<1>6. ASSUME NEW v, s \in WithNumber(f, v, o).set PROVE s.at = <<>> /\ Kept(s)
  <2>1. s \in Valid(f, v.n, o).set
    BY <1>6 DEF WithNumber, Failed, Set
  <2> QED
    BY <1>4, <2>1
<1>7. \/ s \in Valid(f, o.env, o).set \/ s \in WithoutNumber(f, o).set
      \/ s \in WithNumber(f, ValueOf(f, chain, o), o).set
  BY DEF NamedNumber, Failed, o
<1> QED
  BY <1>4, <1>5, <1>6, <1>7

\* A number that is not optional is set.
LEMMA NumberIsSet ==
    ASSUME NEW f, NEW chain, ~f.opts.optional, NamedNumber(f, chain).ok
    PROVE  \E s \in NamedNumber(f, chain).set : s.at = <<>>
<1> DEFINE o == toOptionsWithContext(f, chain).opts
<1>1. ~o.optional
  BY ContextKeeps
<1> HIDE DEF o
<1>2. ASSUME NEW n PROVE Valid(f, n, o).ok => \E s \in Valid(f, n, o).set : s.at = <<>>
  BY DEF Valid, Failed, SetHere, Set
<1>3. WithoutNumber(f, o).ok => \E s \in WithoutNumber(f, o).set : s.at = <<>>
  BY <1>1 DEF WithoutNumber, Failed, SetHere, Set
<1>4. ASSUME NEW v PROVE WithNumber(f, v, o).ok => \E s \in WithNumber(f, v, o).set : s.at = <<>>
  BY <1>1, <1>2 DEF WithNumber, Failed
<1>5. \/ NamedNumber(f, chain) = Failed
      \/ NamedNumber(f, chain) = Valid(f, o.env, o)
      \/ NamedNumber(f, chain) = WithoutNumber(f, o)
      \/ NamedNumber(f, chain) = WithNumber(f, ValueOf(f, chain, o), o)
  BY DEF NamedNumber, o
<1> QED
  BY <1>2, <1>3, <1>4, <1>5 DEF Failed

-----------------------------------------------------------------------------
\* A struct is filled from some chain, or not at all;
LEMMA StructIs ==
    ASSUME NEW f, NEW parts, NEW chain \in Valuer
    PROVE  \/ NamedStruct(f, parts, chain).set = {}
           \/ \E c \in Valuer : NamedStruct(f, parts, chain) = Fill(parts, c)
<1> DEFINE o == toOptionsWithContext(f, chain).opts
           v == ValueOf(f, chain, o)
<1>1. v.is = "map" => <<v.m>> \o chain \in Valuer
  BY ValueIsKnown, ValuersAre
<1>2. << <<>> >> \in Valuer
  BY ValuersAre
<1>3. \/ NamedStruct(f, parts, chain) \in {Failed, Set({})}
      \/ NamedStruct(f, parts, chain) = Fill(parts, << <<>> >>)
      \/ v.is = "map" /\ NamedStruct(f, parts, chain) = Fill(parts, <<v.m>> \o chain)
  BY DEF NamedStruct
<1> HIDE DEF v
<1> QED
  BY <1>1, <1>2, <1>3 DEF Failed, Set

\* an embedded one from its own, or from the fields that are given there.
Given(f, chain) == {i \in DOMAIN f.sub : Own(chain, f.sub[i].key) # Absent}
GivenParts(f, parts, chain) == [i \in Given(f, chain) |-> parts[i][chain]]

LEMMA EmbeddedIs ==
    ASSUME NEW f, NEW parts, NEW chain
    PROVE  \/ Embedded(f, parts, chain) = Failed
           \/ Embedded(f, parts, chain) = Fill(parts, chain)
           \/ /\ Embedded(f, parts, chain) = Together(GivenParts(f, parts, chain))
              /\ Given(f, chain) # {} => \A i \in DOMAIN f.sub :
                     toOptionsWithContext(f.sub[i], chain).opts.optional \/ i \in Given(f, chain)
BY DEF Embedded, EmbeddedOptional, Given, GivenParts

\* At any depth, what is set keeps to its range.
LEMMA ProcessKept ==
    \A f \in Field : \A chain \in Valuer : \A s \in processField[f][chain].set : Kept(s)
<1> DEFINE S == {f \in Field : \A chain \in Valuer : \A s \in processField[f][chain].set : Kept(s)}
<1>1. ASSUME NEW f \in Field, \A i \in DOMAIN f.sub : f.sub[i] \in S,
             NEW chain \in Valuer, NEW s \in processField[f][chain].set
      PROVE  Kept(s)
  <2> DEFINE parts == PartsOf(f.sub)
  <2>1. DOMAIN f.sub \subseteq Nat /\ DOMAIN parts = DOMAIN f.sub
    BY FieldsAre, LenProperties DEF PartsOf
  <2>2. \A i \in DOMAIN f.sub : \A c \in Valuer : \A t \in parts[i][c].set : Kept(t)
    BY <1>1 DEF PartsOf
  <2> HIDE DEF parts
  <2>3. ASSUME NEW c \in Valuer PROVE \A t \in Fill(parts, c).set : Kept(t)
    BY <2>1, <2>2, TogetherKept DEF Fill
  <2>4. CASE f.kind = "number"
    BY <1>1, <2>4, ProcessOf, NumberKept
  <2>5. CASE f.kind = "struct"
    BY <1>1, <2>3, <2>5, ProcessOf, StructIs DEF parts
  <2>6. CASE f.kind = "embedded"
    <3>1. \A t \in Together(GivenParts(f, parts, chain)).set : Kept(t)
      <4>1. DOMAIN GivenParts(f, parts, chain) \subseteq DOMAIN f.sub
        BY DEF GivenParts, Given
      <4>2. \A i \in DOMAIN GivenParts(f, parts, chain) : GivenParts(f, parts, chain)[i] = parts[i][chain]
        BY DEF GivenParts
      <4> QED
        BY <2>1, <2>2, <4>1, <4>2, TogetherKept
    <3>2. processField[f][chain] = Embedded(f, parts, chain)
      BY <2>6, ProcessOf DEF parts
    <3> QED
      BY <1>1, <2>3, <3>1, <3>2, EmbeddedIs DEF Failed
  <2> QED
    BY <2>4, <2>5, <2>6, FieldsAre
<1>2. Field \subseteq S
  <2>1. \A f \in Field : (\A i \in DOMAIN f.sub : f.sub[i] \in S) => f \in S
    BY <1>1
  <2> HIDE DEF S
  <2> QED
    BY <2>1, FieldInduction
<1> QED
  BY <1>2

\* When an embedded struct is set, its numbers that are not optional are.
LEMMA EmbeddedSets ==
    ASSUME NEW f \in Field, f.kind = "embedded", NEW chain \in Valuer, processField[f][chain].set # {},
           NEW j \in DOMAIN f.sub, f.sub[j].kind = "number", ~f.sub[j].opts.optional
    PROVE  \E s \in processField[f][chain].set : s.at = <<j>>
<1> DEFINE parts == PartsOf(f.sub)
<1>1. DOMAIN parts = DOMAIN f.sub /\ parts[j][chain] = NamedNumber(f.sub[j], chain)
  BY FieldsAre, ProcessOf DEF PartsOf
<1>2. processField[f][chain] = Embedded(f, parts, chain)
  BY ProcessOf
<1> HIDE DEF parts
<1>3. ASSUME NEW some, j \in DOMAIN some, some[j] = parts[j][chain], Together(some).ok
      PROVE  \E s \in Together(some).set : s.at = <<j>>
  <2>1. some[j].ok
    BY <1>3, TogetherIs
  <2>2. PICK t \in some[j].set : t.at = <<>>
    BY <1>1, <1>3, <2>1, NumberIsSet
  <2>3. TogetherAs(j, t) \in Together(some).set
    BY <1>3, TogetherIs
  <2>4. <<j>> \o <<>> = <<j>>
    OBVIOUS
  <2>5. TogetherAs(j, t).at = <<j>>
    BY <2>2, <2>4 DEF TogetherAs
  <2> QED
    BY <2>3, <2>5
<1>4. CASE Embedded(f, parts, chain) = Fill(parts, chain)
  <2> DEFINE some == [i \in DOMAIN parts |-> parts[i][chain]]
  <2>1. Fill(parts, chain) = Together(some) /\ j \in DOMAIN some /\ some[j] = parts[j][chain]
    BY <1>1 DEF Fill
  <2> HIDE DEF some
  <2>2. Together(some).ok
    BY <1>2, <1>4, <2>1, TogetherIs
  <2> QED
    BY <1>2, <1>3, <1>4, <2>1, <2>2
<1>5. CASE /\ Embedded(f, parts, chain) = Together(GivenParts(f, parts, chain))
           /\ Given(f, chain) # {} => \A i \in DOMAIN f.sub :
                  toOptionsWithContext(f.sub[i], chain).opts.optional \/ i \in Given(f, chain)
  <2> DEFINE some == GivenParts(f, parts, chain)
  <2>1. DOMAIN some = Given(f, chain) /\ \A i \in Given(f, chain) : some[i] = parts[i][chain]
    BY DEF GivenParts
  <2> HIDE DEF some
  <2>2. PICK s \in Together(some).set : TRUE
    BY <1>2, <1>5 DEF some
  <2>3. Together(some).ok /\ DOMAIN some # {}
    BY <2>2, TogetherIs
  <2>4. ~toOptionsWithContext(f.sub[j], chain).opts.optional
    BY ContextKeeps
  <2>5. j \in Given(f, chain)
    BY <1>5, <2>1, <2>3, <2>4
  <2> QED
    BY <1>2, <1>3, <1>5, <2>1, <2>3, <2>5 DEF some
<1> QED
  BY <1>2, <1>4, <1>5, EmbeddedIs DEF Failed

-----------------------------------------------------------------------------
\* From nothing, only fields that exclude each other are an error of the context.
LEMMA ContextOfNothing ==
    ASSUME NEW f, ~(f.opts.optional /\ f.opts.negated)
    PROVE  toOptionsWithContext(f, << <<>> >>) = [ok |-> TRUE, opts |-> f.opts]
<1>1. Own(<< <<>> >>, f.opts.dep) = Absent /\ Own(<< <<>> >>, f.key) = Absent
  BY NothingThere
<1> QED
  BY <1>1 DEF toOptionsWithContext

\* What structValueRequired does not ask for is not missed in an empty map, at any depth.
LEMMA FilledFromNothing ==
    \A f \in Field : ~required[f] /\ (\A g \in nested[f] : ~Refuses(g)) => processField[f][<< <<>> >>].ok
<1> DEFINE S == {f \in Field :
                    ~required[f] /\ (\A g \in nested[f] : ~Refuses(g)) => processField[f][<< <<>> >>].ok}
           nothing == << <<>> >>
<1>1. ASSUME NEW f \in Field, \A i \in DOMAIN f.sub : f.sub[i] \in S,
             ~required[f], \A g \in nested[f] : ~Refuses(g)
      PROVE  processField[f][nothing].ok
  <2> DEFINE parts == PartsOf(f.sub)
  <2>1. nothing \in Valuer /\ \A v, o : ValueOf(v, nothing, o) = Absent
    BY ValuersAre, NothingThere DEF ValueOf
  <2>2. /\ ~Refuses(f)
        /\ \A i \in DOMAIN f.sub : \A g \in nested[f.sub[i]] : ~Refuses(g)
    BY <1>1, NestedIs DEF NestedBody
  <2>3. ~RequiredBody(required, f)
    BY <1>1, RequiredIs
  <2>4. /\ ~f.opts.tagged => f.kind # "number" /\ \A i \in DOMAIN f.sub : ~required[f.sub[i]]
        /\ f.opts.tagged => (f.opts.optional \/ f.opts.default # Unset) /\ ~f.opts.negated
    BY <2>3 DEF RequiredBody
  <2>5. ~f.opts.tagged => f.opts = NoOptions
    BY FieldsAre
  <2>6. toOptionsWithContext(f, nothing) = [ok |-> TRUE, opts |-> f.opts]
    BY <2>4, <2>5, ContextOfNothing DEF NoOptions
  <2>7. ~f.opts.tagged => Fill(parts, nothing).ok
    <3> SUFFICES ASSUME ~f.opts.tagged PROVE Fill(parts, nothing).ok
      OBVIOUS
    <3>1. \A i \in DOMAIN f.sub : processField[f.sub[i]][nothing].ok
      BY <1>1, <2>2, <2>4
    <3> DEFINE some == [i \in DOMAIN parts |-> parts[i][nothing]]
    <3>2. \A i \in DOMAIN some : some[i].ok
      BY <3>1 DEF PartsOf
    <3>3. Fill(parts, nothing) = Together(some)
      BY DEF Fill
    <3> HIDE DEF some
    <3> QED
      BY <3>2, <3>3, TogetherIs
  <2> HIDE DEF parts, nothing
  <2>8. CASE f.kind = "number"
    <3>1. f.opts.tagged /\ (f.opts.optional \/ f.opts.default # Unset)
      BY <2>4, <2>8
    <3>2. f.opts.env = Unset \/ Accepts(f.opts, f.opts.env)
      BY <2>2, <2>8 DEF Refuses
    <3>3. NamedNumber(f, nothing) = IF f.opts.env # Unset THEN Valid(f, f.opts.env, f.opts)
                                    ELSE WithoutNumber(f, f.opts)
      BY <2>1, <2>6 DEF NamedNumber
    <3>4. NamedNumber(f, nothing).ok
      BY <3>1, <3>2, <3>3 DEF Valid, WithoutNumber, SetHere, Set
    <3> QED
      BY <2>1, <2>8, <3>4, ProcessOf
  <2>9. CASE f.kind = "struct"
    <3>1. f.opts.env = Unset /\ f.opts.default = Unset
      BY <2>2, <2>9 DEF Refuses
    <3>2. ~f.opts.optional => ~f.opts.tagged
      BY <2>4, <3>1
    <3>3. NamedStruct(f, parts, nothing) =
              IF f.opts.optional THEN Set({})
              ELSE IF structValueRequired(f.sub) THEN Failed ELSE Fill(parts, << <<>> >>)
      <4>1. /\ toOptionsWithContext(f, nothing).ok /\ toOptionsWithContext(f, nothing).opts = f.opts
            /\ ValueOf(f, nothing, f.opts) = Absent
        BY <2>1, <2>6
      <4> QED
        BY <3>1, <4>1 DEF NamedStruct, Absent
    <3>4. ~f.opts.tagged => ~structValueRequired(f.sub)
      BY <2>4 DEF structValueRequired
    <3>5. NamedStruct(f, parts, nothing).ok
      BY <2>7, <3>2, <3>3, <3>4 DEF Set, nothing
    <3> QED
      BY <2>1, <2>9, <3>5, ProcessOf DEF parts
  <2>10. CASE f.kind = "embedded"
    <3>1. f.opts.default = Unset
      BY <2>2, <2>10 DEF Refuses
    <3>2. ~f.opts.optional => ~f.opts.tagged
      BY <2>4, <3>1
    <3>3. f.opts.optional => EmbeddedOptional(f, parts, nothing).ok
      <4> SUFFICES ASSUME f.opts.optional PROVE EmbeddedOptional(f, parts, nothing).ok
        OBVIOUS
      <4>1. \A i \in DOMAIN f.sub : ~(f.sub[i].opts.optional /\ f.sub[i].opts.negated)
        BY <2>2, <2>10 DEF Refuses
      <4>2. ASSUME NEW i \in DOMAIN f.sub PROVE toOptionsWithContext(f.sub[i], nothing).ok
        <5>1. toOptionsWithContext(f.sub[i], nothing) = [ok |-> TRUE, opts |-> f.sub[i].opts]
          BY <4>1, ContextOfNothing DEF nothing
        <5> QED
          BY <5>1
      <4>3. Given(f, nothing) = {}
        BY NothingThere DEF Given, nothing
      <4>4. EmbeddedOptional(f, parts, nothing) = Together(GivenParts(f, parts, nothing))
        BY <4>2, <4>3 DEF EmbeddedOptional, Given, GivenParts
      <4>5. DOMAIN GivenParts(f, parts, nothing) = {}
        BY <4>3 DEF GivenParts
      <4> QED
        BY <4>4, <4>5, TogetherIs
    <3>4. Embedded(f, parts, nothing).ok
      BY <2>6, <2>7, <3>2, <3>3 DEF Embedded
    <3> QED
      BY <2>1, <2>10, <3>4, ProcessOf DEF parts
  <2> QED
    BY <2>8, <2>9, <2>10, FieldsAre
<1>2. Field \subseteq S
  <2>1. \A f \in Field : (\A i \in DOMAIN f.sub : f.sub[i] \in S) => f \in S
    BY <1>1
  <2> HIDE DEF S
  <2> QED
    BY <2>1, FieldInduction
<1> QED
  BY <1>2

-----------------------------------------------------------------------------
\* The invariant: the outcome is what processField makes of the outermost fields.
Filled ==
    /\ type \in Types /\ input \in Inputs
    /\ outcome = Failed \/ outcome = Fill(PartsOf(type), <<input>>)

\* Unmarshal keeps the invariant.
LEMMA FilledHolds == MappingSpec => []Filled
<1>1. MappingInit => Filled
  BY DEF MappingInit, Filled, Failed
<1>2. Filled /\ [Unmarshal]_mappingVars => Filled'
  BY DEF Filled, Unmarshal, mappingVars
<1> QED
  BY <1>1, <1>2, PTL DEF MappingSpec

\* The fields of the type and the map at hand are those the lemmas speak of.
LEMMA TypesAre ==
    ASSUME Filled
    PROVE  /\ DOMAIN type \subseteq Nat /\ \A i \in DOMAIN type : type[i] \in Field
           /\ <<input>> \in Valuer /\ \A k : Own(<<input>>, k) # Absent <=> k \in DOMAIN input
<1>1. type \in Seq(Field)
  BY MappingAssumption DEF Filled
<1>2. DOMAIN type \subseteq Nat /\ \A i \in DOMAIN type : type[i] \in Field
  BY <1>1, LenProperties, ElementOfSeq
<1>3. <<input>> \in Valuer
  BY ValuersAre DEF Filled
<1>4. \A k \in DOMAIN input : input[k] # Absent
  BY MappingAssumption DEF Filled
<1>5. ASSUME NEW k PROVE Own(<<input>>, k) # Absent <=> k \in DOMAIN input
  BY <1>4 DEF Own, In
<1> QED
  BY <1>2, <1>3, <1>5

\* What is set is set by one of the fields, and a call that succeeds is one that each field does.
LEMMA OutcomeIs ==
    ASSUME Filled
    PROVE  /\ outcome.ok => \A i \in DOMAIN type : processField[type[i]][<<input>>].ok
           /\ \A s \in outcome.set : \E i \in DOMAIN type : \E t \in processField[type[i]][<<input>>].set :
                  s = TogetherAs(i, t)
           /\ outcome.ok => \A i \in DOMAIN type : \A t \in processField[type[i]][<<input>>].set :
                  TogetherAs(i, t) \in outcome.set
<1> DEFINE some == [i \in DOMAIN type |-> processField[type[i]][<<input>>]]
<1>1. Fill(PartsOf(type), <<input>>) = Together(some)
  <2>1. [i \in DOMAIN PartsOf(type) |-> PartsOf(type)[i][<<input>>]] = some
    BY DEF PartsOf
  <2> QED
    BY <2>1 DEF Fill
<1>2. DOMAIN some = DOMAIN type /\ \A i \in DOMAIN type : some[i] = processField[type[i]][<<input>>]
  OBVIOUS
<1> HIDE DEF some
<1>3. outcome = Failed \/ outcome = Together(some)
  BY <1>1 DEF Filled
<1> QED
  BY <1>2, <1>3, TogetherIs DEF Failed

\* Two indices, one after the other.
LEMMA PairOf ==
    ASSUME NEW x \in Nat, NEW y \in Nat
    PROVE  <<x>> \o <<y>> = <<x, y>> /\ <<x, y>>[1] = x
<1> DEFINE s == <<x>>
           t == <<y>>
           u == <<x, y>>
<1>1. s \in Seq(Nat) /\ t \in Seq(Nat) /\ Len(s) = 1 /\ Len(t) = 1 /\ s[1] = x /\ t[1] = y
  OBVIOUS
<1>2. u \in Seq(Nat) /\ Len(u) = 2 /\ u[1] = x /\ u[2] = y
  OBVIOUS
<1> HIDE DEF s, t, u
<1>3. s \o t \in Seq(Nat) /\ Len(s \o t) = 2 /\ (s \o t)[1] = x /\ (s \o t)[2] = y
  <2>1. /\ s \o t \in Seq(Nat) /\ Len(s \o t) = Len(s) + Len(t)
        /\ \A k \in 1 .. Len(s) + Len(t) : (s \o t)[k] = IF k <= Len(s) THEN s[k] ELSE t[k - Len(s)]
    BY <1>1, ConcatProperties
  <2>2. Len(s) + Len(t) = 2 /\ 1 \in 1 .. 2 /\ 2 \in 1 .. 2 /\ 1 <= Len(s) /\ ~(2 <= Len(s)) /\ 2 - Len(s) = 1
    BY <1>1
  <2>3. (s \o t)[1] = s[1] /\ (s \o t)[2] = t[2 - Len(s)]
    BY <2>1, <2>2
  <2> QED
    BY <1>1, <2>1, <2>2, <2>3
<1>4. \A k \in 1 .. 2 : (s \o t)[k] = u[k]
  BY <1>2, <1>3
<1>5. s \o t = u
  BY <1>2, <1>3, <1>4, SeqEqual
<1> QED
  BY <1>2, <1>5 DEF s, t, u

\* Each part of the property follows from the invariant: the ranges,
LEMMA RangesStay == Filled => RangesAreKept
<1> SUFFICES ASSUME Filled, NEW s \in outcome.set PROVE Kept(s)
  BY DEF RangesAreKept, Kept
<1>1. PICK i \in DOMAIN type : \E t \in processField[type[i]][<<input>>].set : s = TogetherAs(i, t)
  BY OutcomeIs
<1>2. PICK t \in processField[type[i]][<<input>>].set : s = TogetherAs(i, t)
  BY <1>1
<1>3. Kept(t) /\ i \in Nat
  BY TypesAre, ProcessKept
<1>4. <<i>> \o t.at \in Seq(Nat)
  <2>1. <<i>> \in Seq(Nat) /\ t.at \in Seq(Nat)
    BY <1>3 DEF Kept
  <2> QED
    BY <2>1, ConcatProperties
<1> QED
  BY <1>2, <1>3, <1>4 DEF Kept, TogetherAs

\* the dependences, which processField compares before anything else,
LEMMA DependencesStay == Filled /\ outcome.ok => DependencesAreKept
<1> SUFFICES ASSUME Filled, outcome.ok, NEW i \in DOMAIN type,
                    type[i].opts.optional, type[i].opts.dep # Unset
             PROVE  type[i].opts.negated <=>
                        (type[i].opts.dep \in DOMAIN input) # (type[i].key \in DOMAIN input)
  BY DEF DependencesAreKept
<1>1. toOptionsWithContext(type[i], <<input>>).ok
  BY OutcomeIs, TypesAre, ContextIsRight
<1>2. /\ Own(<<input>>, type[i].opts.dep) # Absent <=> type[i].opts.dep \in DOMAIN input
      /\ Own(<<input>>, type[i].key) # Absent <=> type[i].key \in DOMAIN input
  BY TypesAre
<1> DEFINE baseOn == Own(<<input>>, type[i].opts.dep) # Absent
           selfOn == Own(<<input>>, type[i].key) # Absent
<1>3. toOptionsWithContext(type[i], <<input>>).ok =
          IF type[i].opts.negated THEN baseOn # selfOn ELSE baseOn = selfOn
  BY DEF toOptionsWithContext
<1>4. CASE type[i].opts.negated
  <2>1. baseOn # selfOn
    BY <1>1, <1>3, <1>4
  <2> QED
    BY <1>2, <1>4, <2>1
<1>5. CASE ~type[i].opts.negated
  <2>1. baseOn = selfOn
    BY <1>1, <1>3, <1>5
  <2> QED
    BY <1>2, <1>5, <2>1
<1> QED
  BY <1>4, <1>5

\* the embedded structs,
LEMMA EmbeddedStaysWhole == Filled /\ outcome.ok => EmbeddedWhole
<1> SUFFICES ASSUME Filled, outcome.ok, NEW i \in DOMAIN type, type[i].kind = "embedded", NEW s \in SetIn(i),
                    NEW j \in DOMAIN type[i].sub, type[i].sub[j].kind = "number", ~type[i].sub[j].opts.optional
             PROVE  \E r \in SetIn(i) : r.at = <<i, j>>
  BY DEF EmbeddedWhole
<1> DEFINE from(k) == processField[type[k]][<<input>>].set
<1>1. s \in outcome.set /\ s.at[1] = i
  BY DEF SetIn
<1>2. PICK k \in DOMAIN type : \E t \in from(k) : s = TogetherAs(k, t)
  BY <1>1, OutcomeIs
<1>3. PICK t \in from(k) : s = TogetherAs(k, t)
  BY <1>2
<1>4. t.at \in Seq(Nat) /\ k \in Nat
  BY <1>3, TypesAre, ProcessKept DEF Kept
<1>5. (<<k>> \o t.at)[1] = k
  BY <1>4
<1>6. k = i
  BY <1>1, <1>3, <1>5 DEF TogetherAs
<1>7. PICK r \in from(i) : r.at = <<j>>
  BY <1>3, <1>6, TypesAre, EmbeddedSets
<1>8. TogetherAs(i, r) \in outcome.set
  BY <1>7, OutcomeIs
<1>9. i \in Nat /\ j \in Nat
  BY TypesAre, FieldsAre, LenProperties
<1>10. <<i>> \o <<j>> = <<i, j>> /\ <<i, j>>[1] = i
  BY <1>9, PairOf
<1>11. TogetherAs(i, r).at = <<i, j>>
  BY <1>7, <1>10 DEF TogetherAs
<1> QED
  BY <1>8, <1>10, <1>11 DEF SetIn

\* and the structs that may be absent.
LEMMA AbsentStaysFilled == Filled => AbsentIsFilled
<1> SUFFICES ASSUME Filled, NEW i \in DOMAIN type, type[i].kind = "struct", ~structValueRequired(type[i].sub),
                    \A j \in DOMAIN type[i].sub : \A f \in nested[type[i].sub[j]] : ~Refuses(f)
             PROVE  Fill(PartsOf(type[i].sub), << <<>> >>).ok
  BY DEF AbsentIsFilled
<1> DEFINE fields == type[i].sub
           some == [j \in DOMAIN fields |-> processField[fields[j]][<< <<>> >>]]
<1>1. \A j \in DOMAIN fields : fields[j] \in Field /\ ~required[fields[j]]
  BY TypesAre, FieldsAre DEF structValueRequired
<1>2. \A j \in DOMAIN some : some[j].ok
  BY <1>1, FilledFromNothing
<1>3. [j \in DOMAIN PartsOf(fields) |-> PartsOf(fields)[j][<< <<>> >>]] = some
  BY DEF PartsOf
<1>4. Fill(PartsOf(fields), << <<>> >>) = Together(some)
  BY <1>3 DEF Fill
<1> HIDE DEF some
<1> QED
  BY <1>2, <1>4, TogetherIs

(* What Unmarshal fills keeps to the tags, for any types, maps and depth.    *)
THEOREM TheTagsAreHonoured == MappingSpec => []TagsAreHonoured
<1>1. Filled => TagsAreHonoured
  BY RangesStay, DependencesStay, EmbeddedStaysWhole, AbsentStaysFilled DEF TagsAreHonoured
<1> QED
  BY <1>1, FilledHolds, PTL
=============================================================================
