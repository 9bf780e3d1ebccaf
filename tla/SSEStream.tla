----------------------------- MODULE SSEStream -----------------------------
(***************************************************************************)
(* One streamed answer: HandleStreamChatCompletion reads lines from        *)
(* FastGPT and hands them, over a channel without a buffer that is never   *)
(* closed, to the goroutine "handle" of core/middleware/sse, which writes  *)
(* them to the browser.  The handler runs in the goroutine of the request: *)
(* when it returns, net/http cancels the request's context and then        *)
(* finishes the response; a browser that leaves cancels the context too.   *)
(***************************************************************************)
EXTENDS Naturals, Sequences

CONSTANTS MaxEvents, \* bound: messages of one stream
          Lasting    \* the stream stays under an hour

ASSUME StreamAssumption == MaxEvents \in Nat \ {0} /\ Lasting \in BOOLEAN

VARIABLES client,   \* the browser is "here" or "gone"
          ctx,      \* the request's context is "open" or "cancelled"
          response, \* "open", or "finished" by net/http
          handler,  \* HandleStreamChatCompletion: how far, and its last message
          writer,   \* handle: how far, what it writes, and which message
          got       \* pieces of "data:" events that reached the browser

net == <<client, ctx, response>>
vars == <<net, handler, writer, got>>

\* A message is written in three pieces.  Of the other texts "eof" is a data
\* event as well, though none of FastGPT's; the rest are comments and names.
Pieces == <<"data", "payload", "end">>
Data == {"data", "payload", "end", "eof"}
After == [greeting |-> "opened", opened |-> "flush", ping |-> "flush",
          data |-> "payload", payload |-> "end", end |-> "flush",
          timeout |-> "timeoutFlush", timeoutFlush |-> "eof",
          eof |-> "eofFlush", eofFlush |-> "closed", closed |-> "lastFlush"]
Texts == DOMAIN After \cup {"flush", "lastFlush"}

Event == 0..MaxEvents
Stream == [i \in 1..(3 * MaxEvents) |-> <<Pieces[((i - 1) % 3) + 1], ((i - 1) \div 3) + 1>>]

TypeOK ==
    /\ client \in {"here", "gone"}
    /\ ctx \in {"open", "cancelled"}
    /\ response \in {"open", "finished"}
    /\ handler \in [pc : {"setup", "scan", "send", "returned"}, event : Event,
                 kind : {"line", "error", "[DONE]"}]
    /\ writer \in [pc : {"check", "write", "select", "stopped"}, text : Texts, event : Event]
    /\ got \in Seq(Texts \X Event)

Init ==
    /\ client = "here" /\ ctx = "open" /\ response = "open"
    /\ handler = [pc |-> "setup", event |-> 0, kind |-> "line"]
    /\ writer = [pc |-> "check", text |-> "greeting", event |-> 0]
    /\ got = <<>>
-----------------------------------------------------------------------------
(* HandleStreamChatCompletion and sendSSEMessage *)

Offer(kind) ==
    /\ handler.event < MaxEvents
    /\ handler' = [pc |-> "send", event |-> handler.event + 1, kind |-> kind]

\* A bad request, an unknown app, a FastGPT that cannot be reached or answers
\* with another status: one error message and no more.
SetUp ==
    /\ handler.pc = "setup"
    /\ Offer("error") \/ handler' = [handler EXCEPT !.pc = "scan"]
    /\ UNCHANGED <<net, writer, got>>

\* The next line of FastGPT, of which [DONE] is the last, or the end of its response.
Scan ==
    /\ handler.pc = "scan"
    /\ \/ Offer("line") \/ Offer("[DONE]")
       \/ handler' = [handler EXCEPT !.pc = "returned"]
    /\ UNCHANGED <<net, writer, got>>
-----------------------------------------------------------------------------
(* connection.handle *)

Stop == writer' = [writer EXCEPT !.pc = "stopped"]
WriteNext(text) == writer' = [writer EXCEPT !.pc = "check", !.text = text]

\* Mutant: after the first message the goroutine only pings.
ReceiveFirst ==
    /\ writer.pc = "select" /\ handler.pc = "send" /\ handler.event = 1
    /\ writer' = [pc |-> "check", text |-> "data", event |-> handler.event]
    /\ handler' = [handler EXCEPT !.pc = IF handler.kind # "line" THEN "returned" ELSE "scan"]
    /\ UNCHANGED <<net, got>>

\* The channel has no buffer: the handler goes on when the message is received.
Receive ==
    /\ writer.pc = "select" /\ handler.pc = "send"
    /\ writer' = [pc |-> "check", text |-> "data", event |-> handler.event]
    /\ handler' = [handler EXCEPT !.pc = IF handler.kind # "line" THEN "returned" ELSE "scan"]
    /\ UNCHANGED <<net, got>>

Ping ==
    /\ writer.pc = "select"
    /\ WriteNext("ping")
    /\ UNCHANGED <<net, handler, got>>

\* An hour has passed: what After says of "timeout" is written, and no message
\* is received any more.
Timeout ==
    /\ ~Lasting
    /\ writer.pc = "select"
    /\ WriteNext("timeout")
    /\ UNCHANGED <<net, handler, got>>

\* Mutant: "break" leaves the switch and not the loop.
BreakSwitch ==
    /\ writer.pc = "select" /\ ctx = "cancelled"
    /\ UNCHANGED vars

CtxClosed ==
    /\ writer.pc = "select" /\ ctx = "cancelled"
    /\ Stop
    /\ UNCHANGED <<net, handler, got>>

\* Every write and flush first looks at the context.
Check ==
    /\ writer.pc = "check"
    /\ IF ctx = "cancelled" THEN Stop ELSE writer' = [writer EXCEPT !.pc = "write"]
    /\ UNCHANGED <<net, handler, got>>

Arrives == response = "open" /\ client = "here" /\ writer.text \in Data

\* Mutant: a message that json cannot encode is given up after its first piece.
WriteUnencoded ==
    /\ writer.pc = "write"
    /\ got' = IF Arrives THEN Append(got, <<writer.text, writer.event>>) ELSE got
    /\ IF writer.text \in {"data", "flush"} THEN writer' = [writer EXCEPT !.pc = "select"]
       ELSE IF writer.text = "lastFlush" THEN Stop
       ELSE WriteNext(After[writer.text])
    /\ UNCHANGED <<net, handler>>

\* What is written to an open response, while the browser is there, gets there.
Write ==
    /\ writer.pc = "write"
    /\ got' = IF Arrives THEN Append(got, <<writer.text, writer.event>>) ELSE got
    /\ IF writer.text = "flush" THEN writer' = [writer EXCEPT !.pc = "select"]
       ELSE IF writer.text = "lastFlush" THEN Stop
       ELSE WriteNext(After[writer.text])
    /\ UNCHANGED <<net, handler>>

\* The browser is gone, or the response is no longer one: an error or a
\* panic, which is recovered.
WriteFails ==
    /\ writer.pc = "write"
    /\ client = "gone" \/ response = "finished"
    /\ Stop
    /\ UNCHANGED <<net, handler, got>>
-----------------------------------------------------------------------------
(* The browser and net/http *)

Leave ==
    /\ client = "here" /\ response = "open"
    /\ client' = "gone"
    /\ UNCHANGED <<ctx, response, handler, writer, got>>

\* The connection's reader sees the end of it; or the handler has returned.
Cancel ==
    /\ ctx = "open"
    /\ client = "gone" \/ handler.pc = "returned"
    /\ ctx' = "cancelled"
    /\ UNCHANGED <<client, response, handler, writer, got>>

Finish ==
    /\ handler.pc = "returned" /\ ctx = "cancelled" /\ response = "open"
    /\ response' = "finished"
    /\ UNCHANGED <<client, ctx, handler, writer, got>>

Next ==
    \/ SetUp \/ Scan
    \/ Receive \/ Ping \/ Timeout \/ CtxClosed \/ Check \/ Write \/ WriteFails
    \/ Leave \/ Cancel \/ Finish

Spec == Init /\ [][Next]_vars

\* Goroutines that can run do; FastGPT goes on or ends its response, and the
\* look-ups of the handler end.  A select takes any of its ready cases at
\* random, and pings are ten seconds apart: a sender is not passed over for ever.
Fairness ==
    /\ WF_vars(SetUp) /\ WF_vars(Scan)
    /\ SF_vars(Receive) /\ WF_vars(CtxClosed)
    /\ WF_vars(Check) /\ WF_vars(Write \/ WriteFails)
    /\ WF_vars(Cancel) /\ WF_vars(Finish)

FairSpec == Spec /\ Fairness
-----------------------------------------------------------------------------
(***************************************************************************)
(* The data the browser has received is the beginning of the stream: whole *)
(* messages in FastGPT's order, the last one perhaps cut short, although   *)
(* any write of the three may be the one that fails.  Only after an hour   *)
(* may one "eof" end it, which FastGPT has not sent: it comes after whole  *)
(* messages, and nothing comes after it.                                   *)
(***************************************************************************)
Begins(s) == Len(s) <= Len(Stream) /\ s = SubSeq(Stream, 1, Len(s))

EndsInEof ==
    /\ ~Lasting
    /\ got # <<>> /\ got[Len(got)][1] = "eof"
    /\ (Len(got) - 1) % 3 = 0
    /\ Begins(SubSeq(got, 1, Len(got) - 1))

GotIsPrefix == Begins(got) \/ EndsInEof

(***************************************************************************)
(* The goroutine of a stream does not outlive its request by long: it      *)
(* stops once the handler has returned or the browser has gone.            *)
(***************************************************************************)
WriterStops == (handler.pc = "returned" \/ client = "gone") ~> writer.pc = "stopped"

(***************************************************************************)
(* A message the handler offers is taken, unless its goroutine has stopped.*)
(***************************************************************************)
OfferIsTaken == handler.pc = "send" ~> (handler.pc # "send" \/ writer.pc = "stopped")

(***************************************************************************)
(* When the browser has gone the handler finds out and returns             *)
(* (fastgpt.go:191 "客户端已断开连接").                                      *)
(***************************************************************************)
DisconnectEndsHandler == client = "gone" ~> handler.pc = "returned"
=============================================================================
