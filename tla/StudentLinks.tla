---------------------------- MODULE StudentLinks ----------------------------
(***************************************************************************)
(* What a student sees: GetSubjectLink of internal/app/subject joins the   *)
(* subjects a student takes with the apps of those names, in two           *)
(* statements, while the rows of user_subjects (module Enrolment) and of   *)
(* fastgpt_apps (module Administration) come and go.                       *)
(***************************************************************************)
CONSTANTS Student, \* staff numbers
          Topic,   \* names of subjects and of apps
          Chatbot, \* the apps
          NoApp    \* the name of an app that is not there

ASSUME StudentLinksAssumption == Student # {} /\ NoApp \notin Topic

VARIABLES taken, \* taken[s]: the subjects s takes
          bots,  \* bots[a]: the name of the app a, or NoApp
          look   \* the request at work

linkVars == <<taken, bots, look>>

\* A link is a pair of an app and the name it was found under.  took, had: the
\* subjects the student has taken and the links there have been since the
\* request came in; kept: the links that were good all that time.
LinksTypeOK ==
    /\ taken \in [Student -> SUBSET Topic]
    /\ bots \in [Chatbot -> Topic \cup {NoApp}]
    /\ look \in [pc : {"idle", "user", "names", "apps"}, actor : Student, asked : Student,
                 names : SUBSET Topic, took : SUBSET Topic, had : SUBSET (Chatbot \X Topic),
                 kept : SUBSET (Chatbot \X Topic), answer : SUBSET (Chatbot \X Topic)]

Links(t) == {l \in Chatbot \X Topic : t[l[1]] = l[2]}

LinksInit ==
    /\ taken \in [Student -> SUBSET Topic]
    /\ bots \in [Chatbot -> Topic \cup {NoApp}]
    /\ look = [pc |-> "idle", actor |-> CHOOSE s \in Student : TRUE,
               asked |-> CHOOSE s \in Student : TRUE, names |-> {},
               took |-> {}, had |-> {}, kept |-> {}, answer |-> {}]
-----------------------------------------------------------------------------
\* The tables become t and b, and the request at work takes note of it.
Change(t, b) ==
    /\ taken' = t
    /\ bots' = b
    /\ look' = IF look.pc = "idle" THEN look
               ELSE LET s == look.actor
                        good == {l \in Links(b) : l[2] \in t[s]}
                    IN  [look EXCEPT !.took = @ \cup t[s], !.had = @ \cup Links(b),
                                     !.kept = @ \cap good]

\* A row of user_subjects is written or deleted.
Enrol(s, n) == n \notin taken[s] /\ Change([taken EXCEPT ![s] = @ \cup {n}], bots)
Unenrol(s, n) == n \in taken[s] /\ Change([taken EXCEPT ![s] = @ \ {n}], bots)

\* An app is created, renamed or deleted.
ChangeApp(a, n) == bots[a] # n /\ Change(taken, [bots EXCEPT ![a] = n])

Finish(links) == look' = [look EXCEPT !.pc = "idle", !.answer = links]

\* The staff number in the path must be that of the token.
GetSubjectLink(actor, s) ==
    /\ look.pc = "idle"
    /\ actor = s
    /\ look' = [pc |-> "user", actor |-> actor, asked |-> s, names |-> {},
                took |-> taken[actor], had |-> Links(bots),
                kept |-> {l \in Links(bots) : l[2] \in taken[actor]}, answer |-> {}]
    /\ UNCHANGED <<taken, bots>>

FindUser ==
    /\ look.pc = "user"
    /\ look' = [look EXCEPT !.pc = "names"]
    /\ UNCHANGED <<taken, bots>>

\* A student without subjects is answered at once.
GetUserSubjects ==
    /\ look.pc = "names"
    /\ look' = [look EXCEPT !.names = taken[look.asked],
                            !.pc = IF taken[look.asked] = {} THEN "idle" ELSE "apps"]
    /\ UNCHANGED <<taken, bots>>

\* Mutant: the apps are matched with one name only.
FindOneName ==
    /\ look.pc = "apps"
    /\ Finish({l \in Links(bots) : l[2] = CHOOSE n \in look.names : TRUE})
    /\ UNCHANGED <<taken, bots>>

FindApps ==
    /\ look.pc = "apps"
    /\ Finish({l \in Links(bots) : l[2] \in look.names})
    /\ UNCHANGED <<taken, bots>>

LookFails ==
    /\ look.pc # "idle"
    /\ look' = [look EXCEPT !.pc = "idle", !.kept = {}]
    /\ UNCHANGED <<taken, bots>>

LinksNext ==
    \/ \E s \in Student, n \in Topic : Enrol(s, n) \/ Unenrol(s, n)
    \/ \E a \in Chatbot, n \in Topic \cup {NoApp} : ChangeApp(a, n)
    \/ \E actor, s \in Student : GetSubjectLink(actor, s)
    \/ FindUser \/ GetUserSubjects \/ FindApps \/ LookFails

LinksSpec == LinksInit /\ [][LinksNext]_linkVars
-----------------------------------------------------------------------------
(***************************************************************************)
(* The answer has no link but to apps that were there under that name, and *)
(* for subjects that the owner of the token itself took, at some time      *)
(* while the request was handled; and a link that was good all the while   *)
(* is in it, whatever changes between the two statements.                  *)
(***************************************************************************)
LinksAreExact ==
    /\ LinksTypeOK
    /\ look.answer \subseteq {l \in look.had : l[2] \in look.took}
    /\ look.pc = "idle" => look.kept \subseteq look.answer
=============================================================================
