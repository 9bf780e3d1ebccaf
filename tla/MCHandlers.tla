---------------------------- MODULE MCHandlers -----------------------------
(***************************************************************************)
(* Four small models of the handlers about subjects and apps.  They share  *)
(* no variable, so each is explored with the others at rest.               *)
(***************************************************************************)
EXTENDS ChatProxy, Subjects, StudentLinks, Listings

VARIABLE moving \* the model that takes steps

\* Two of the four rows are of one batch.
MCCreated == <<1, 2, 2, 3>>

vars == <<proxyVars, subjectVars, linkVars, listVars, moving>>

\* The initial states of a model that moves, and one of each that does not.
MCInit ==
    /\ moving \in {"proxy", "subjects", "links", "lists"}
    /\ ProxyInit /\ SubjectsInit /\ LinksInit /\ ListInit
    /\ moving # "links" => taken = [s \in Student |-> {}] /\ bots = [a \in Chatbot |-> NoApp]
    /\ moving # "lists" => list = "apps" /\ table = [e \in Entry |-> "none"]

MCNext ==
    /\ UNCHANGED moving
    /\ \/ moving = "proxy" /\ ProxyNext /\ UNCHANGED <<subjectVars, linkVars, listVars>>
       \/ moving = "subjects" /\ SubjectsNext /\ UNCHANGED <<proxyVars, linkVars, listVars>>
       \/ moving = "links" /\ LinksNext /\ UNCHANGED <<proxyVars, subjectVars, listVars>>
       \/ moving = "lists" /\ ListNext /\ UNCHANGED <<proxyVars, subjectVars, linkVars>>

\* At rest the proxy has no request, and its fairness asks for nothing.
MCSpec == MCInit /\ [][MCNext]_vars /\ ProxyFairness
=============================================================================
