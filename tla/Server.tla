------------------------------- MODULE Server -------------------------------
(***************************************************************************)
(* cmd/server/server.go: the life of the process.  The apps are taken      *)
(* through their hooks, the port is opened, two goroutines are started for *)
(* the HTTP server and for the multiplexer, and the main goroutine waits   *)
(* for a signal and shuts everything down.                                 *)
(*                                                                         *)
(* External: net/http, cmux and OpenTelemetry, as run() uses them.  A nil  *)
(* *http.Server, TracerProvider or net.Listener panics when it is used.    *)
(***************************************************************************)
EXTENDS Naturals, Sequences, FiniteSets

CONSTANTS Request, \* connections of clients, each with one request
          Agents   \* {"nil"} as it is built: nothing in src/ calls StartAgent

ASSUME AgentsAssumption == Agents \subseteq {"nil", "made"}

VARIABLES main,   \* where the main goroutine is
          hook, app, \* in "load": the hook, and the app it is called for
          tables, \* apps whose InitPG has succeeded
          routes, \* apps whose routes are registered
          tp,     \* the tracer provider of tracex, which StartAgent makes
          conn,   \* the listener
          httpServer, \* engine.HttpServer
          http, mux,  \* the two goroutines
          health, \* healthz.Health
          req,    \* req[r]: how far r is, and whose handler it is for
          forced, \* Shutdown gave up
          exit    \* how the process has ended

vars == <<main, hook, app, tables, routes, tp, conn, httpServer, http, mux, health, req, forced, exit>>

\* GetApps(): the files of appInitialize in the order Go initialises them.
apps == <<"fastgpt", "managers", "ping", "subject", "users">>
App == {apps[i] : i \in 1 .. Len(apps)}
Hooks == <<"PreInit", "Init", "PostInit", "Load", "Start">>

\* The tables the handlers of an app read or write.
Uses == [fastgpt |-> {"fastgpt", "managers"},
         managers |-> {"managers", "fastgpt", "subject"},
         ping |-> {},
         subject |-> {"subject", "fastgpt", "users"},
         users |-> {"users", "subject", "managers"}]

\* The apps whose InitPG the hook h runs.
Migrates(h) ==
    IF h = "PreInit" THEN {"fastgpt"} ELSE IF h = "Init" THEN {"managers", "subject", "users"} ELSE {}

TypeOK ==
    /\ main \in {"setup", "load", "listen", "spawn", "notify", "up", "stopping", "closing", "draining"}
    /\ hook \in 1 .. Len(Hooks) /\ app \in 1 .. Len(apps)
    /\ tables \subseteq App /\ routes \subseteq App
    /\ tp \in Agents
    /\ conn \in {"none", "open", "failed", "closed"}
    /\ httpServer \in {"nil", "made", "shut"}
    /\ http \in {"none", "new", "made", "serving", "over"}
    /\ mux \in {"none", "new", "serving", "over"}
    /\ health \in BOOLEAN /\ forced \in BOOLEAN
    /\ req \in [Request -> [pc : {"none", "waiting", "matched", "handling", "answered", "refused"}, app : App]]
    /\ exit \in {"no", "failed", "killed", "crashed", "correctly"}

Init ==
    /\ main = "setup" /\ hook = 1 /\ app = 1
    /\ tables = {} /\ routes = {} /\ tp \in Agents
    /\ conn = "none" /\ httpServer = "nil" /\ http = "none" /\ mux = "none"
    /\ health = FALSE /\ forced = FALSE
    /\ req \in [Request -> [pc : {"none"}, app : App]]
    /\ exit = "no"
-----------------------------------------------------------------------------
(* The main goroutine up to the signal *)

loadVars == <<hook, app, tables, routes, tp>>
netVars == <<conn, httpServer, http, mux>>

Exit(how) == exit' = how
Goto(pc) == main' = pc

\* The configuration may be missing or broken, and the database out of reach.
setUp ==
    /\ main = "setup"
    /\ \/ Goto("load") /\ UNCHANGED exit
       \/ Exit("failed") /\ UNCHANGED main
    /\ UNCHANGED <<loadVars, netVars, health, req, forced>>

Advance ==
    IF app < Len(apps) THEN app' = app + 1 /\ UNCHANGED <<hook, main>>
    ELSE /\ app' = 1
         /\ IF hook < Len(Hooks) THEN hook' = hook + 1 /\ UNCHANGED main
            ELSE Goto("listen") /\ UNCHANGED hook

\* Mutant: an InitPG that fails is logged, and the app goes on.
loadAppAnyway ==
    /\ main = "load"
    /\ Advance
    /\ \/ tables' = tables \cup ({apps[app]} \cap Migrates(Hooks[hook]))
       \/ UNCHANGED tables
    /\ routes' = routes \cup (IF Hooks[hook] = "Load" THEN {apps[app]} ELSE {})
    /\ UNCHANGED <<tp, netVars, health, req, forced, exit>>

\* One hook of one app.  Only InitPG can fail, and ends the process when it does.
loadApp ==
    /\ main = "load"
    /\ \/ /\ Advance
          /\ tables' = tables \cup ({apps[app]} \cap Migrates(Hooks[hook]))
          /\ routes' = routes \cup (IF Hooks[hook] = "Load" THEN {apps[app]} ELSE {})
          /\ UNCHANGED <<tp, exit>>
       \/ /\ apps[app] \in Migrates(Hooks[hook])
          /\ Exit("failed")
          /\ UNCHANGED <<loadVars, main>>
    /\ UNCHANGED <<netVars, health, req, forced>>

\* An error of net.Listen is only logged.
Listen ==
    /\ main = "listen"
    /\ \E c \in {"open", "failed"} : conn' = c
    /\ Goto("spawn")
    /\ UNCHANGED <<loadVars, httpServer, http, mux, health, req, forced, exit>>

Spawn ==
    /\ main = "spawn"
    /\ http' = "new" /\ mux' = "new"
    /\ health' = TRUE
    /\ Goto("notify")
    /\ UNCHANGED <<loadVars, conn, httpServer, req, forced, exit>>

\* signal.Notify: from here on the signal is waited for.
Notify ==
    /\ main = "notify"
    /\ Goto("up")
    /\ UNCHANGED <<loadVars, netVars, health, req, forced, exit>>

\* Before, it ends the process.
Kill ==
    /\ main \in {"setup", "load", "listen", "spawn", "notify"}
    /\ Exit("killed")
    /\ UNCHANGED <<main, loadVars, netVars, health, req, forced>>
-----------------------------------------------------------------------------
(* The goroutines, and the requests *)

httpMade ==
    /\ http = "new"
    /\ http' = "made" /\ httpServer' = "made"
    /\ UNCHANGED <<main, loadVars, conn, mux, health, req, forced, exit>>

\* Serve returns ErrServerClosed when Shutdown has come first.
httpServe ==
    /\ http = "made"
    /\ http' = IF httpServer = "shut" THEN "over" ELSE "serving"
    /\ UNCHANGED <<main, loadVars, conn, httpServer, mux, health, req, forced, exit>>

muxServe ==
    /\ mux = "new"
    /\ IF conn = "failed" THEN Exit("crashed") /\ UNCHANGED mux
       ELSE mux' = (IF conn = "closed" THEN "over" ELSE "serving") /\ UNCHANGED exit
    /\ UNCHANGED <<main, loadVars, conn, httpServer, http, health, req, forced>>

Move(r, from, to) ==
    /\ req[r].pc = from
    /\ req' = [req EXCEPT ![r].pc = to]
    /\ UNCHANGED <<main, loadVars, netVars, health, forced, exit>>

\* The port takes connections once it is open, whether anybody serves it or not.
Connect(r) == Move(r, "none", IF conn = "open" THEN "waiting" ELSE "refused")
Match(r) == mux = "serving" /\ Move(r, "waiting", "matched")
Accept(r) == http = "serving" /\ Move(r, "matched", "handling")
Answer(r) == Move(r, "handling", "answered")
-----------------------------------------------------------------------------
(* The shutdown *)

\* A signal comes, and Health is set to false.
Signal ==
    /\ main = "up"
    /\ Goto("stopping")
    /\ health' = FALSE
    /\ UNCHANGED <<loadVars, netVars, req, forced, exit>>

StopAgent ==
    /\ main = "stopping"
    /\ IF tp # "nil" THEN Goto("closing") /\ UNCHANGED exit
       ELSE Exit("crashed") /\ UNCHANGED main
    /\ UNCHANGED <<loadVars, netVars, health, req, forced>>

\* Shutdown closes the listener that Serve has been given, and the multiplexer with it.
Shutdown ==
    /\ main = "closing"
    /\ IF httpServer = "nil"
       THEN Exit("crashed") /\ UNCHANGED <<main, netVars>>
       ELSE /\ httpServer' = "shut"
            /\ Goto("draining")
            /\ IF http # "serving" THEN UNCHANGED <<conn, http, mux, exit>>
               ELSE IF conn = "failed" THEN Exit("crashed") /\ UNCHANGED <<conn, http, mux>>
               ELSE /\ conn' = "closed" /\ http' = "over"
                    /\ mux' = (IF mux = "serving" THEN "over" ELSE mux)
                    /\ UNCHANGED exit
    /\ UNCHANGED <<loadVars, health, req, forced>>

\* Nobody is being handled any more.
Drained ==
    /\ main = "draining"
    /\ \A r \in Request : req[r].pc # "handling"
    /\ Exit("correctly")
    /\ UNCHANGED <<main, loadVars, netVars, health, req, forced>>

\* Mutant: Shutdown has a context without a deadline.
Endless == FALSE /\ UNCHANGED vars

\* The 5 seconds are over.
Deadline ==
    /\ main = "draining"
    /\ forced' = TRUE
    /\ Exit("correctly")
    /\ UNCHANGED <<main, loadVars, netVars, health, req>>

Main == setUp \/ loadApp \/ Listen \/ Spawn \/ Notify \/ StopAgent \/ Shutdown \/ Drained \/ Deadline
Goroutines == httpMade \/ httpServe \/ muxServe

Next ==
    /\ exit = "no"
    /\ \/ Main \/ Goroutines \/ Signal \/ Kill
       \/ \E r \in Request : Connect(r) \/ Match(r) \/ Accept(r) \/ Answer(r)

\* The scheduler runs every goroutine.  Neither signals nor clients need come, and a
\* handler may take for ever.
Fairness == WF_vars(exit = "no" /\ Main) /\ WF_vars(exit = "no" /\ Goroutines)

Spec == Init /\ [][Next]_vars /\ Fairness
-----------------------------------------------------------------------------
\* A handler finds every table that it uses, those of other apps too.
HandlersFindTables ==
    \A r \in Request : req[r].pc = "handling" => Uses[req[r].app] \subseteq tables

\* The panic of tp.Shutdown, after a signal.
TracerPanicked == tp = "nil" /\ main = "stopping" /\ exit = "crashed"

\* A request that a handler has begun is cut off by the end of the process only when
\* the 5 seconds have run out, a signal came before signal.Notify, or there is no tracer.
OnlyForceCutsOff ==
    exit \notin {"no", "killed"} /\ ~forced /\ ~TracerPanicked => \A r \in Request : req[r].pc # "handling"

(***************************************************************************)
(* An app whose tables are missing, or that uses those of an app whose     *)
(* tables are, never takes a request.  As it is built, nothing but the     *)
(* panic of StopAgent and a signal that comes too early cuts a request     *)
(* off; with a tracer, neither does an exit in good order, nor the panic   *)
(* of a Shutdown that comes too early or finds no port.                    *)
(***************************************************************************)
RequestsAreServed ==
    /\ TypeOK
    /\ HandlersFindTables
    /\ OnlyForceCutsOff

(***************************************************************************)
(* After the signal the process ends, however long a handler takes; and    *)
(* one that has no port and yet says it is healthy ends without a signal.  *)
(***************************************************************************)
ProcessEnds ==
    /\ (main = "stopping") ~> (exit # "no")
    /\ (health /\ conn = "failed") ~> (exit # "no")

(***************************************************************************)
(* StopAgent shuts the tracer down, as the comment at core/tracex/agent.go *)
(* :48 says, and the server can go on to shut itself down.                 *)
(***************************************************************************)
StopAgentReturns == ~(main = "stopping" /\ exit = "crashed")
=============================================================================
