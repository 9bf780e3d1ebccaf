----------------------------- MODULE MCBreaker -----------------------------
(***************************************************************************)
(* The window, the breaker over the promise of the window, and the         *)
(* registry of breakers.  They share no variable here, so each is explored *)
(* with the other two at rest.                                             *)
(***************************************************************************)
EXTENDS Breaker, RollingWindow, BreakerRegistry

VARIABLE moving \* the model that takes steps

vars == <<breakerVars, windowVars, registryVars, moving>>

MCInit ==
    /\ moving \in {"breaker", "window", "registry"}
    /\ BreakerInit /\ WindowInit /\ RegistryInit
    /\ moving # "window" => ~ignoreCurrent
    /\ moving # "registry" => \A g, h \in Getter : get[g] = get[h]

MCNext ==
    /\ UNCHANGED moving
    /\ \/ moving = "breaker" /\ BreakerNext /\ UNCHANGED <<windowVars, registryVars>>
       \/ moving = "window" /\ WindowNext /\ UNCHANGED <<breakerVars, registryVars>>
       \/ moving = "registry" /\ RegistryNext /\ UNCHANGED <<breakerVars, windowVars>>

\* Time passes for the breaker.
MCFairness == WF_vars(moving = "breaker" /\ Time /\ UNCHANGED <<windowVars, registryVars, moving>>)

MCSpec == MCInit /\ [][MCNext]_vars /\ MCFairness
=============================================================================
