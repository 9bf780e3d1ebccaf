----------------------------- MODULE ChatProofs -------------------------------
(***************************************************************************)
(* Proofs about the chat: the stream of one answer, and requests that are  *)
(* proxied to FastGPT.                                                     *)
(***************************************************************************)
EXTENDS SSEStream, ChatProxy, SequenceTheorems, TLAPS
-----------------------------------------------------------------------------
(* Proofs about SSEStream for streams of any length.                         *)

\* Type correctness of both goroutines, the connection and the browser.
THEOREM StreamTypeCorrect == Spec => []TypeOK
<1>1. Init => TypeOK
  BY StreamAssumption DEF Init, TypeOK, Event, Texts, After
<1>2. TypeOK /\ [Next]_vars => TypeOK'
  <2> SUFFICES ASSUME TypeOK, [Next]_vars PROVE TypeOK'
    OBVIOUS
  <2> USE StreamAssumption DEF TypeOK, Event, net, Stop, WriteNext
  <2>0. {"data", "ping", "timeout"} \subseteq Texts
    BY DEF Texts, After
  <2>1. CASE SetUp \/ Scan
    BY <2>1 DEF SetUp, Scan, Offer
  <2>2. CASE Receive
    BY <2>0, <2>2 DEF Receive
  <2>3. CASE Ping \/ Timeout \/ CtxClosed \/ Check
    BY <2>0, <2>3 DEF Ping, Timeout, CtxClosed, Check
  <2>4. CASE Write
    <3>1. <<writer.text, writer.event>> \in Texts \X Event
      OBVIOUS
    <3>2. got' \in Seq(Texts \X Event)
      BY <2>4, <3>1 DEF Write
    <3>3. writer.text \notin {"flush", "lastFlush"} => After[writer.text] \in Texts
      BY DEF Texts, After
    <3> QED
      BY <2>4, <3>2, <3>3 DEF Write
  <2>5. CASE WriteFails \/ Leave \/ Cancel \/ Finish
    BY <2>5 DEF WriteFails, Leave, Cancel, Finish
  <2>6. CASE UNCHANGED vars
    BY <2>6 DEF vars
  <2> QED
    BY <2>1, <2>2, <2>3, <2>4, <2>5, <2>6 DEF Next
<1> QED
  BY <1>1, <1>2, PTL DEF Spec
-----------------------------------------------------------------------------
(* As long as the browser is there and the response is open, what it has is  *)
(* what the writer has written, and that is told by the message and the text *)
(* at hand; once either is over nothing is added any more.  After "eof" none *)
(* of the texts to come is a data event.                                     *)

InMessage == writer.text \in {"data", "payload", "end"}

Over == writer.text \in {"eofFlush", "closed", "lastFlush"}

LastTexts == {"timeout", "timeoutFlush", "eof", "eofFlush", "closed", "lastFlush"}

Written ==
    IF writer.text = "data" THEN 3 * (writer.event - 1)
    ELSE IF writer.text = "payload" THEN 3 * (writer.event - 1) + 1
    ELSE IF writer.text = "end" THEN 3 * (writer.event - 1) + 2
    ELSE IF Over THEN 3 * writer.event + 1
    ELSE 3 * writer.event

Listening == response = "open" /\ client = "here"

InStep ==
    /\ writer.event = IF handler.pc = "send" THEN handler.event - 1 ELSE handler.event
    /\ InMessage => writer.event > 0
    /\ writer.pc = "select" => writer.text = "flush"
    /\ writer.text \in LastTexts => ~Lasting
    /\ Listening => Len(got) = Written

\* The entry at i is the one of the stream, or the "eof" after whole messages.
Matches(i) == i <= 3 * MaxEvents /\ got[i] = Stream[i]

IsEof(i) == Over /\ i = Len(got) /\ got[i][1] = "eof" /\ (i - 1) % 3 = 0

AllMatch == \A i \in 1..Len(got) : Matches(i) \/ IsEof(i)

StreamInv == InStep /\ AllMatch

\* The piece at hand is the next one of the stream.
LEMMA NextPiece ==
    ASSUME TypeOK, InMessage, writer.event > 0
    PROVE  /\ Written + 1 \in 1..(3 * MaxEvents)
           /\ Stream[Written + 1] = <<writer.text, writer.event>>
<1>1. writer.event \in 1..MaxEvents
  BY StreamAssumption DEF TypeOK, Event
<1>2. Written + 1 \in 1..(3 * MaxEvents)
  BY <1>1, StreamAssumption DEF InMessage, Written
<1>2a. Stream[Written + 1] = <<Pieces[(Written % 3) + 1], (Written \div 3) + 1>>
  <2>1. Written \in Int /\ (Written + 1) - 1 = Written
    BY <1>1 DEF InMessage, Written
  <2> QED
    BY <1>2, <2>1 DEF Stream
<1>3. CASE writer.text = "data"
  <2>1. Written = 3 * (writer.event - 1)
    BY <1>3 DEF Written
  <2>2. Written % 3 = 0 /\ Written \div 3 = writer.event - 1
    BY <1>1, <2>1
  <2> QED
    BY <1>1, <1>3, <1>2, <1>2a, <2>2 DEF Pieces
<1>4. CASE writer.text = "payload"
  <2>1. Written = 3 * (writer.event - 1) + 1
    BY <1>4 DEF Written
  <2>2. Written % 3 = 1 /\ Written \div 3 = writer.event - 1
    BY <1>1, <2>1
  <2> QED
    BY <1>1, <1>4, <1>2, <1>2a, <2>2 DEF Pieces
<1>5. CASE writer.text = "end"
  <2>1. Written = 3 * (writer.event - 1) + 2
    BY <1>5 DEF Written
  <2>2. Written % 3 = 2 /\ Written \div 3 = writer.event - 1
    BY <1>1, <2>1
  <2> QED
    BY <1>1, <1>5, <1>2, <1>2a, <2>2 DEF Pieces
<1> QED
  BY <1>2, <1>3, <1>4, <1>5 DEF InMessage

\* What was there stays, and the text at hand is added if it is a data event.
LEMMA Appended ==
    ASSUME TypeOK, Write, Arrives
    PROVE  /\ Len(got') = Len(got) + 1 /\ got'[Len(got) + 1] = <<writer.text, writer.event>>
           /\ \A i \in 1..Len(got) : got'[i] = got[i]
  BY DEF TypeOK, Write

LEMMA StreamInvStep == TypeOK /\ StreamInv /\ [Next]_vars => StreamInv'
<1> SUFFICES ASSUME TypeOK, StreamInv, [Next]_vars PROVE StreamInv'
  OBVIOUS
<1> USE StreamAssumption DEF TypeOK, Event, net, StreamInv, InStep, InMessage, Listening, LastTexts
<1>0. ASSUME UNCHANGED got, Over => Over'
      PROVE  AllMatch'
  BY <1>0 DEF AllMatch, Matches, IsEof
<1>1. CASE SetUp \/ Scan
  BY <1>0, <1>1 DEF SetUp, Scan, Offer, Written, Over
<1>2. CASE Receive
  BY <1>0, <1>2 DEF Receive, Written, Over
<1>3. CASE Ping \/ Timeout \/ CtxClosed \/ Check
  BY <1>0, <1>3 DEF Ping, Timeout, CtxClosed, Check, Stop, WriteNext, Written, Over
<1>4. CASE Write /\ Arrives /\ InMessage
  <2>1. InMessage /\ Listening /\ Len(got) = Written /\ ~Over
    BY <1>4 DEF Arrives, Over
  <2>2. /\ Len(got') = Written + 1 /\ got'[Written + 1] = <<writer.text, writer.event>>
        /\ \A i \in 1..Len(got) : got'[i] = got[i]
    BY <1>4, <2>1, Appended
  <2>3. writer' = [writer EXCEPT !.pc = "check", !.text = After[writer.text]]
    BY <1>4, <2>1 DEF Write, WriteNext
  <2>4. /\ writer'.event = writer.event /\ writer'.pc = "check"
        /\ writer.text = "data" => writer'.text = "payload"
        /\ writer.text = "payload" => writer'.text = "end"
        /\ writer.text = "end" => writer'.text = "flush"
    BY <2>3 DEF After
  <2>5. AllMatch'
    <3> SUFFICES ASSUME NEW i \in 1..Len(got')
                 PROVE  Matches(i)'
      BY DEF AllMatch
    <3>1. CASE i = Written + 1
      <4>1. Written + 1 \in 1..(3 * MaxEvents)
            /\ Stream[Written + 1] = <<writer.text, writer.event>>
        BY <2>1, NextPiece
      <4> QED
        BY ONLY <2>2, <3>1, <4>1, StreamAssumption DEF Matches
    <3>2. CASE i # Written + 1
      <4>1. i \in 1..Len(got)
        BY <2>1, <2>2, <3>2
      <4>2. Matches(i)
        BY <2>1, <4>1 DEF AllMatch, IsEof
      <4> QED
        BY <2>2, <4>1, <4>2 DEF Matches
    <3> QED
      BY <3>1, <3>2
  <2>6. Len(got') = Written'
    <3>1. CASE writer.text = "data"
      BY ONLY <2>2, <2>4, <3>1, StreamAssumption, TypeOK DEF Written, TypeOK, Event
    <3>2. CASE writer.text = "payload"
      BY ONLY <2>2, <2>4, <3>2, StreamAssumption, TypeOK DEF Written, TypeOK, Event
    <3>3. CASE writer.text = "end"
      BY ONLY <2>2, <2>4, <3>3, StreamAssumption, TypeOK DEF Written, Over, TypeOK, Event
    <3> QED
      BY <2>1, <3>1, <3>2, <3>3
  <2>7. InStep'
    BY <1>4, <2>1, <2>4, <2>6 DEF Write
  <2> QED
    BY <2>5, <2>7
<1>5. CASE Write /\ Arrives /\ ~InMessage
  <2>1. writer.text = "eof" /\ ~Lasting /\ Listening /\ Len(got) = Written
    BY <1>5 DEF Arrives, Data
  <2>2. Len(got) = 3 * writer.event /\ writer.event \in Nat /\ ~Over
    BY <2>1 DEF Written, Over
  <2>3. /\ Len(got') = Len(got) + 1 /\ got'[Len(got) + 1][1] = "eof"
        /\ \A i \in 1..Len(got) : got'[i] = got[i]
    BY <1>5, <2>1, Appended
  <2>4. writer' = [writer EXCEPT !.pc = "check", !.text = "eofFlush"]
    BY <1>5, <2>1 DEF Write, WriteNext, After
  <2>5. AllMatch'
    <3> SUFFICES ASSUME NEW i \in 1..Len(got')
                 PROVE  Matches(i)' \/ IsEof(i)'
      BY DEF AllMatch
    <3>1. CASE i = Len(got')
      <4>1. (i - 1) % 3 = 0
        BY <2>2, <2>3, <3>1
      <4> QED
        BY <2>2, <2>3, <2>4, <3>1, <4>1 DEF IsEof, Over
    <3>2. CASE i # Len(got')
      <4>1. i \in 1..Len(got)
        BY <2>2, <2>3, <3>2
      <4>2. Matches(i)
        BY <2>2, <4>1 DEF AllMatch, IsEof
      <4> QED
        BY <2>3, <4>1, <4>2 DEF Matches
    <3> QED
      BY <3>1, <3>2
  <2>6. Len(got') = Written'
    BY <2>2, <2>3, <2>4 DEF Written, Over
  <2>7. InStep'
    BY <1>5, <2>1, <2>4, <2>6 DEF Write
  <2> QED
    BY <2>5, <2>7
<1>6. CASE Write /\ ~Arrives
  <2>1. got' = got /\ UNCHANGED <<net, handler>>
    BY <1>6 DEF Write
  <2>2. Listening => writer.text \notin Data
    BY <1>6 DEF Arrives
  <2>3. CASE writer.text \in {"flush", "lastFlush"}
    BY <1>0, <1>6, <2>1, <2>3 DEF Write, Stop, Written, Over
  <2>4. CASE writer.text \notin {"flush", "lastFlush"}
    <3>1. writer' = [writer EXCEPT !.pc = "check", !.text = After[writer.text]]
      BY <1>6, <2>4 DEF Write, WriteNext
    <3>2. /\ writer'.event = writer.event /\ writer'.pc = "check"
          /\ InMessage' => InMessage
          /\ writer'.text \in LastTexts => writer.text \in LastTexts
          /\ Over => Over'
          /\ writer.text \notin Data => Written' = Written
      BY <2>4, <3>1 DEF After, Written, Over, Data, Texts
    <3> QED
      BY <1>0, <2>1, <2>2, <3>2
  <2> QED
    BY <2>3, <2>4
<1>7. CASE WriteFails \/ Leave \/ Cancel \/ Finish
  BY <1>0, <1>7 DEF WriteFails, Leave, Cancel, Finish, Stop, Written, Over
<1>8. CASE UNCHANGED vars
  BY <1>0, <1>8 DEF vars, Written, Over
<1> QED
  BY <1>1, <1>2, <1>3, <1>4, <1>5, <1>6, <1>7, <1>8 DEF Next

\* A sequence whose entries are the stream's begins it.
LEMMA EntriesBegin ==
    ASSUME NEW s \in Seq(Texts \X Event),
           \A i \in 1..Len(s) : i <= 3 * MaxEvents /\ s[i] = Stream[i]
    PROVE  Begins(s)
<1>1. Len(s) \in Nat /\ Len(s) <= 3 * MaxEvents
  <2>1. Len(s) > 0 => Len(s) \in 1..Len(s)
    OBVIOUS
  <2> QED
    BY <2>1, StreamAssumption
<1>2. Len(Stream) = 3 * MaxEvents
  <2>1. 3 * MaxEvents \in Nat
    BY StreamAssumption
  <2>2. DOMAIN Stream = 1..(3 * MaxEvents)
    BY DEF Stream
  <2> DEFINE all == {Stream[i] : i \in 1..(3 * MaxEvents)}
  <2>3. Stream \in [1..(3 * MaxEvents) -> all]
    BY DEF Stream
  <2>4. Stream \in Seq(all)
    BY <2>1, <2>3
  <2> QED
    BY <2>1, <2>2, <2>4, LenProperties
<1>3. SubSeq(Stream, 1, Len(s)) = [i \in 1..Len(s) |-> Stream[i]]
  BY <1>1 DEF SubSeq
<1>4. s = [i \in 1..Len(s) |-> s[i]]
  OBVIOUS
<1> QED
  BY <1>1, <1>2, <1>3, <1>4 DEF Begins

\* Whatever fails and whoever leaves, the browser has received the beginning
\* of the stream, messages whole and in order but for the last one; after an
\* hour one "eof" may follow whole messages, and nothing follows it.
THEOREM BrowserGetsPrefix == Spec => []GotIsPrefix
<1>1. Init => StreamInv
  BY StreamAssumption DEF Init, StreamInv, InStep, InMessage, Listening, LastTexts, Over, AllMatch, Written
<1>2. TypeOK /\ StreamInv => GotIsPrefix
  <2> SUFFICES ASSUME TypeOK, StreamInv PROVE GotIsPrefix
    OBVIOUS
  <2>1. got \in Seq(Texts \X Event) /\ Len(got) \in Nat
    BY DEF TypeOK
  <2>2. CASE \A i \in 1..Len(got) : ~IsEof(i)
    BY <2>1, <2>2, EntriesBegin DEF StreamInv, AllMatch, Matches, GotIsPrefix
  <2>3. ASSUME NEW n \in 1..Len(got), IsEof(n)
        PROVE  EndsInEof
    <3> DEFINE whole == SubSeq(got, 1, Len(got) - 1)
    <3>1. n = Len(got) /\ got[n][1] = "eof" /\ (n - 1) % 3 = 0
      BY <2>3 DEF IsEof
    <3>2. ~Lasting
      BY <2>3 DEF IsEof, Over, StreamInv, InStep, LastTexts
    <3>3. whole \in Seq(Texts \X Event) /\ Len(whole) = Len(got) - 1
          /\ \A i \in 1..Len(whole) : whole[i] = got[i] /\ i \in 1..Len(got) /\ i # Len(got)
      BY <2>1, <3>1
    <3>4. \A i \in 1..Len(whole) : Matches(i)
      BY <3>3 DEF StreamInv, AllMatch, IsEof
    <3>5. Begins(whole)
      <4> HIDE DEF whole
      <4> QED
        BY <3>3, <3>4, EntriesBegin DEF Matches
    <3> QED
      BY <2>1, <3>1, <3>2, <3>5 DEF EndsInEof
  <2> QED
    BY <2>2, <2>3 DEF GotIsPrefix
<1> QED
  BY <1>1, <1>2, StreamInvStep, StreamTypeCorrect, PTL DEF Spec
-----------------------------------------------------------------------------
(* Proxied requests.  A request that is about to look its app up knows every *)
(* key that the look-up can find; how often it has acted, and what it has    *)
(* been answered, follows from where it is.                                  *)

FindersKnow == \A r \in Request : req[r].pc = "find" => KeysOf(apps, req[r].app) \subseteq req[r].valid

OnCourse ==
    \A r \in Request :
        /\ req[r].pc \in {"find", "sent", "abandoned"} => req[r].acted = 0
        /\ req[r].pc \in {"find", "sent", "reply", "avatar"} => req[r].answer = "none"
        /\ req[r].pc = "abandoned" => req[r].answer = "fail"
        /\ req[r].pc = "avatar" => req[r].good
        /\ req[r].pc \in {"reply", "avatar"} /\ req[r].good /\ req[r].writes => req[r].acted = 1

ProxyInv == KeyOfAskedApp /\ OkMeansDoneOnce /\ FindersKnow /\ OnCourse

LEMMA KeysAreKeys == \A t \in [AppId -> App \cup {Nil}] : \A a : KeysOf(t, a) \subseteq Key
  BY ChatProxyAssumption DEF KeysOf, App

\* What makes a request r, which becomes q, fit the invariant.
Fits(q, t) ==
    /\ q \in ReqType
    /\ q.key # Nil => q.key \in q.valid
    /\ q.acted <= 1
    /\ q.answer = "ok" /\ q.writes => q.acted = 1
    /\ q.answer = "cut" => q.kind = "image"
    /\ q.pc = "find" => KeysOf(t, q.app) \subseteq q.valid
    /\ q.pc \in {"find", "sent", "abandoned"} => q.acted = 0
    /\ q.pc \in {"find", "sent", "reply", "avatar"} => q.answer = "none"
    /\ q.pc = "abandoned" => q.answer = "fail"
    /\ q.pc = "avatar" => q.good
    /\ q.pc \in {"reply", "avatar"} /\ q.good /\ q.writes => q.acted = 1

\* The invariant is that every request fits.
LEMMA ProxyInvIsFit ==
    ProxyInv <=> /\ apps \in [AppId -> App \cup {Nil}]
                 /\ req \in [Request -> ReqType]
                 /\ \A r \in Request : Fits(req[r], apps)
  BY DEF ProxyInv, KeyOfAskedApp, ProxyTypeOK, OkMeansDoneOnce, FindersKnow, OnCourse, Fits

\* A step of one request keeps the invariant if the request still fits.
LEMMA OneRequest ==
    ASSUME ProxyInv, UNCHANGED apps, NEW r \in Request, NEW q, Fits(q, apps),
           req' = [req EXCEPT ![r] = q]
    PROVE  ProxyInv'
<1>1. q \in ReqType
  BY DEF Fits
<1>2. /\ apps' \in [AppId -> App \cup {Nil}] /\ req' \in [Request -> ReqType]
      /\ \A s \in Request : Fits(req'[s], apps')
  BY <1>1, ProxyInvIsFit
<1> QED
  BY <1>2, ProxyInvIsFit DEF ProxyInv, KeyOfAskedApp, ProxyTypeOK, OkMeansDoneOnce, FindersKnow, OnCourse, Fits

\* A statement that reaches the table keeps it: every request at work hears of the keys.
LEMMA TableWritten ==
    ASSUME ProxyInv, NEW t \in [AppId -> App \cup {Nil}], WriteApps(t)
    PROVE  ProxyInv'
<1>1. ASSUME NEW r \in Request
      PROVE  req'[r] \in ReqType /\ Fits(req'[r], t)
  <2>1. Fits(req[r], apps)
    BY ProxyInvIsFit
  <2>2. KeysOf(t, req[r].app) \subseteq Key
    BY KeysAreKeys
  <2> QED
    BY <2>1, <2>2 DEF WriteApps, Fits, ReqType
<1>2. req' \in [Request -> ReqType]
  BY <1>1 DEF WriteApps
<1>3. apps' = t
  BY DEF WriteApps
<1> QED
  BY <1>1, <1>2, <1>3 DEF ProxyInv, KeyOfAskedApp, ProxyTypeOK, OkMeansDoneOnce, FindersKnow, OnCourse, Fits

\* What a request on its way to FastGPT will have done there.
LEMMA FirstAct ==
    ASSUME NEW r \in Request, req[r] \in ReqType, Fits(req[r], apps),
           req[r].pc \in {"sent", "abandoned"}, NEW times \in 0 .. 1
    PROVE  Acts(r, times) \in 0 .. 1 /\ (req[r].writes => Acts(r, times) = times)
<1>1. req[r].acted = 0
  BY DEF Fits
<1> QED
  BY <1>1 DEF Acts

\* It fits when that is done, wherever it is then.
LEMMA ActedFits ==
    ASSUME NEW q \in ReqType, NEW t, Fits(q, t), NEW n \in {0, 1}
    PROVE  /\ q.pc = "sent" /\ (q.writes => n = 1)
              => Fits([q EXCEPT !.pc = "reply", !.good = TRUE, !.acted = n], t)
           /\ q.pc = "sent" => Fits([q EXCEPT !.pc = "reply", !.good = FALSE, !.acted = n], t)
           /\ q.pc = "abandoned" => Fits([q EXCEPT !.pc = "idle", !.acted = n], t)
<1>0. n \in 0 .. 2 /\ n <= 1
  OBVIOUS
<1>1. /\ [q EXCEPT !.pc = "reply", !.good = TRUE, !.acted = n] \in ReqType
      /\ [q EXCEPT !.pc = "reply", !.good = FALSE, !.acted = n] \in ReqType
  BY <1>0 DEF ReqType
<1>2. [q EXCEPT !.pc = "idle", !.acted = n] \in ReqType
  BY <1>0 DEF ReqType
<1>3. CASE q.pc = "sent"
  <2>1. q.pc = "sent" /\ (q.writes => n = 1)
              => Fits([q EXCEPT !.pc = "reply", !.good = TRUE, !.acted = n], t)
    BY <1>0, <1>1, <1>3 DEF Fits, ReqType
  <2>2. Fits([q EXCEPT !.pc = "reply", !.good = FALSE, !.acted = n], t)
    BY <1>0, <1>1, <1>3 DEF Fits, ReqType
  <2> QED
    BY <1>3, <2>1, <2>2
<1>4. CASE q.pc = "abandoned"
  BY <1>0, <1>2, <1>4 DEF Fits, ReqType
<1> QED
  BY <1>3, <1>4

\* Each of the sixteen handlers takes its request on in the same way.
LEMMA HandlersCome ==
    ASSUME NEW r \in Request, Handle(r)
    PROVE  \E kind \in {"body", "query", "init", "image", "stream"}, a \in AppId \cup Share \cup {Nil},
              writes \in BOOLEAN : Come(r, kind, a, writes)
  BY DEF Handle, HandleGetImage, HandleChatCompletion, HandleGetHistories, HandleUpdateHistory,
         HandleGetPaginationRecords, HandleCreateDataset, HandleListDatasets, HandleGetDatasetDetail,
         HandleDeleteDataset, HandleCreateCollectionText, HandleCreateCollectionLink, HandlePushData,
         HandleSearchTest, HandleOutLinkInit, HandleOutLinkDelHistory, HandleGetCollectionQuote

LEMMA ProxyStep == ProxyInv /\ [ProxyNext]_proxyVars => ProxyInv'
<1> SUFFICES ASSUME ProxyInv, [ProxyNext]_proxyVars PROVE ProxyInv'
  OBVIOUS
<1>0. apps \in [AppId -> App \cup {Nil}] /\ \A r \in Request : Fits(req[r], apps) /\ req[r] \in ReqType
  BY ProxyInvIsFit
<1>1. ASSUME NEW i \in AppId, NEW k \in Key, NEW s \in Share, CreateApp(i, k, s) \/ UpdateApp(i, k, s)
      PROVE  ProxyInv'
  BY <1>0, <1>1, TableWritten DEF CreateApp, UpdateApp, App, Live
<1>2. ASSUME NEW i \in AppId, DeleteApp(i)
      PROVE  ProxyInv'
  BY <1>0, <1>2, TableWritten DEF DeleteApp, App, Live
<1>3. ASSUME NEW r \in Request, Handle(r)
      PROVE  ProxyInv'
  <2>1. PICK kind \in {"body", "query", "init", "image", "stream"}, a \in AppId \cup Share \cup {Nil},
             writes \in BOOLEAN : Come(r, kind, a, writes)
    BY <1>3, HandlersCome
  <2> DEFINE New(complete) ==
               [pc |-> IF ~complete THEN "idle" ELSE IF kind = "image" THEN "sent" ELSE "find",
                kind |-> kind, app |-> a, writes |-> writes, good |-> FALSE, key |-> Nil,
                valid |-> KeysOf(apps, a), acted |-> 0,
                answer |-> IF complete THEN "none" ELSE "fail"]
  <2>2. PICK complete \in BOOLEAN : req' = [req EXCEPT ![r] = New(complete)]
    BY <2>1 DEF Come
  <2>3. KeysOf(apps, a) \subseteq Key
    BY <1>0, KeysAreKeys
  <2>4. UNCHANGED apps
    BY <2>1 DEF Come
  <2>5. Fits(New(complete), apps)
    BY <2>3 DEF Fits, ReqType
  <2> HIDE DEF New
  <2> QED
    BY <2>2, <2>4, <2>5, OneRequest
<1>4. ASSUME NEW r \in Request, FindApp(r)
      PROVE  ProxyInv'
  <2>1. req[r].pc = "find" /\ UNCHANGED apps
    BY <1>4 DEF FindApp
  <2>2. ASSUME NEW i \in AppId, Live(i), i = req[r].app \/ apps[i].share = req[r].app,
               req' = [req EXCEPT ![r].pc = "sent", ![r].key = apps[i].key]
        PROVE  ProxyInv'
    <3>1. apps[i].key \in KeysOf(apps, req[r].app) /\ apps[i].key \in Key
      BY <1>0, <2>2 DEF KeysOf, Live, App
    <3>2. Fits([req[r] EXCEPT !.pc = "sent", !.key = apps[i].key], apps)
      BY <1>0, <2>1, <3>1 DEF Fits, ReqType
    <3> QED
      BY <2>1, <2>2, <3>2, OneRequest
  <2>3. ASSUME Answer(r, "fail")
        PROVE  ProxyInv'
    <3>1. Fits([req[r] EXCEPT !.pc = "idle", !.answer = "fail"], apps)
      BY <1>0, <2>1 DEF Fits, ReqType
    <3> QED
      BY <2>1, <2>3, <3>1, OneRequest DEF Answer
  <2> QED
    BY <1>4, <2>2, <2>3 DEF FindApp, GetAppByShareID, GetAppByID, WithShare
<1>5. ASSUME NEW r \in Request, Arrive(r)
      PROVE  ProxyInv'
  <2>1. req[r].pc = "sent" /\ UNCHANGED apps
    BY <1>5 DEF Arrive
  <2>2. CASE req' = [req EXCEPT ![r].pc = "reply", ![r].good = TRUE, ![r].acted = Acts(r, 1)]
    <3>1. PICK n \in {0, 1} : n = Acts(r, 1) /\ (req[r].writes => n = 1)
      BY <1>0, <2>1, FirstAct
    <3>2. Fits([req[r] EXCEPT !.pc = "reply", !.good = TRUE, !.acted = n], apps)
      BY <1>0, <2>1, <3>1, ActedFits
    <3> QED
      BY <2>1, <2>2, <3>1, <3>2, OneRequest
  <2>3. ASSUME NEW times \in 0 .. 1,
               req' = [req EXCEPT ![r].pc = "reply", ![r].good = FALSE, ![r].acted = Acts(r, times)]
        PROVE  ProxyInv'
    <3>1. PICK n \in {0, 1} : n = Acts(r, times)
      BY <1>0, <2>1, FirstAct
    <3>2. Fits([req[r] EXCEPT !.pc = "reply", !.good = FALSE, !.acted = n], apps)
      BY <1>0, <2>1, <3>1, ActedFits
    <3> QED
      BY <2>1, <2>3, <3>1, <3>2, OneRequest
  <2> QED
    BY <1>5, <2>2, <2>3 DEF Arrive
<1>6. ASSUME NEW r \in Request, Refused(r) \/ ReadFails(r)
      PROVE  ProxyInv'
  <2>1. req[r].pc \in {"sent", "reply"} /\ UNCHANGED apps
    BY <1>6 DEF Refused, ReadFails
  <2>2. PICK a \in {"fail", Broken(r)} : Answer(r, a)
    BY <1>6 DEF Refused, ReadFails
  <2>3. Fits([req[r] EXCEPT !.pc = "idle", !.answer = a], apps)
    BY <1>0, <2>1 DEF Fits, ReqType, Broken
  <2> QED
    BY <2>1, <2>2, <2>3, OneRequest DEF Answer
<1>7. ASSUME NEW r \in Request, TimesOut(r)
      PROVE  ProxyInv'
  <2> DEFINE q == [req[r] EXCEPT !.pc = IF @ = "sent" THEN "abandoned" ELSE "idle",
                                 !.answer = IF req[r].pc = "sent" THEN "fail" ELSE Broken(r)]
  <2>1. req[r].pc \in {"sent", "reply"} /\ UNCHANGED apps /\ req' = [req EXCEPT ![r] = q]
    BY <1>7 DEF TimesOut
  <2>2. Fits(q, apps)
    BY <1>0, <2>1 DEF Fits, ReqType, Broken
  <2> QED
    BY <2>1, <2>2, OneRequest
<1>8. ASSUME NEW r \in Request, Late(r)
      PROVE  ProxyInv'
  <2>1. req[r].pc = "abandoned" /\ UNCHANGED apps
    BY <1>8 DEF Late
  <2>2. PICK times \in 0 .. 1 : req' = [req EXCEPT ![r].pc = "idle", ![r].acted = Acts(r, times)]
    BY <1>8 DEF Late
  <2>3. PICK n \in {0, 1} : n = Acts(r, times)
    BY <1>0, <2>1, FirstAct
  <2>4. Fits([req[r] EXCEPT !.pc = "idle", !.acted = n], apps)
    BY <1>0, <2>1, ActedFits
  <2> QED
    BY <2>1, <2>2, <2>3, <2>4, OneRequest
<1>9. ASSUME NEW r \in Request, Reply(r) \/ Avatar(r)
      PROVE  ProxyInv'
  <2>1. req[r].pc \in {"reply", "avatar"} /\ UNCHANGED apps
    BY <1>9 DEF Reply, Avatar
  <2>2. CASE Answer(r, "fail")
    <3>1. Fits([req[r] EXCEPT !.pc = "idle", !.answer = "fail"], apps)
      BY <1>0, <2>1 DEF Fits, ReqType
    <3> QED
      BY <2>1, <2>2, <3>1, OneRequest DEF Answer
  <2>3. CASE Answer(r, "ok") /\ req[r].good
    <3>1. Fits([req[r] EXCEPT !.pc = "idle", !.answer = "ok"], apps)
      BY <1>0, <2>1, <2>3 DEF Fits, ReqType
    <3> QED
      BY <2>1, <2>3, <3>1, OneRequest DEF Answer
  <2>4. CASE Goto(r, "avatar") /\ req[r].good /\ req[r].pc = "reply"
    <3>1. Fits([req[r] EXCEPT !.pc = "avatar"], apps)
      BY <1>0, <2>4 DEF Fits, ReqType
    <3> QED
      BY <2>1, <2>4, <3>1, OneRequest DEF Goto
  <2> QED
    BY <1>0, <1>9, <2>2, <2>3, <2>4 DEF Reply, Avatar, Fits
<1>10. CASE UNCHANGED proxyVars
  BY <1>10 DEF proxyVars, ProxyInv, KeyOfAskedApp, ProxyTypeOK, OkMeansDoneOnce, FindersKnow, OnCourse
<1> QED
  BY <1>1, <1>2, <1>3, <1>4, <1>5, <1>6, <1>7, <1>8, <1>9, <1>10 DEF ProxyNext

LEMMA ProxyInvHolds == ProxySpec => []ProxyInv
<1>1. ProxyInit => ProxyInv
  BY DEF ProxyInit, ProxyInv, KeyOfAskedApp, ProxyTypeOK, ReqType, OkMeansDoneOnce, FindersKnow, OnCourse
<1> QED
  BY <1>1, ProxyStep, PTL DEF ProxySpec

\* FastGPT is only ever called with a key that the app asked for has had since
\* the request came in, whatever managers do to the apps meanwhile.
THEOREM CallsUseAskedKeys == ProxySpec => []KeyOfAskedApp
<1>1. ProxyInv => KeyOfAskedApp
  BY DEF ProxyInv
<1> QED
  BY <1>1, ProxyInvHolds, PTL

\* A success is told only of what was done exactly once, and nothing is done
\* twice, by late calls neither; only an image is cut off.
THEOREM SuccessIsDoneOnce == ProxySpec => []OkMeansDoneOnce
<1>1. ProxyInv => OkMeansDoneOnce
  BY DEF ProxyInv
<1> QED
  BY <1>1, ProxyInvHolds, PTL
=============================================================================
