---------------------------- MODULE MCLifecycle ----------------------------
(***************************************************************************)
(* The process, and the shutdown listeners that it could register.  The    *)
(* server registers none and never calls gracefulStop, so that each is     *)
(* explored with the other at rest.                                        *)
(***************************************************************************)
EXTENDS Server, ShutdownListeners

VARIABLE moving \* the model that takes steps

allVars == <<vars, listenerVars, moving>>

MCInit ==
    /\ moving \in {"server", "listeners"}
    /\ Init /\ ListenersInit
    /\ moving # "server" => tp = "nil" /\ \A r \in Request : req[r].app = "ping"

MCNext ==
    /\ UNCHANGED moving
    /\ \/ moving = "server" /\ Next /\ UNCHANGED listenerVars
       \/ moving = "listeners" /\ ListenersNext /\ UNCHANGED vars

\* The fairness of both; the goroutines of a server at rest are not scheduled.
MCFairness ==
    /\ WF_vars(moving = "server" /\ exit = "no" /\ Main)
    /\ WF_vars(moving = "server" /\ exit = "no" /\ Goroutines)
    /\ ListenersFairness

MCSpec == MCInit /\ [][MCNext]_allVars /\ MCFairness
=============================================================================
