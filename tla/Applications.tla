------------------------------ MODULE Applications ------------------------------
(***************************************************************************)
(* What the production runners promise about a candidate's applications,   *)
(* without runners, files, deaths or restarts: the abstract specification  *)
(* of Submission.                                                          *)
(*                                                                         *)
(* A vacancy has one permit to submit, which is taken for one package.     *)
(* One attempt of the vacancy declares its intent, clicks at most once,    *)
(* and only with the documents that the permit is for.  A verdict that     *)
(* says "submitted" is of a clicked attempt, one that says "rejected" of   *)
(* an attempt that is never clicked; no verdict is ever replaced.          *)
(***************************************************************************)
EXTENDS Naturals

CONSTANTS
    Vacancies,  \* vacancies (job keys)
    Attempts,   \* attempt identities
    Packages,   \* release packages
    Documents,  \* Documents[p]: the documents of package p
    Submitted,  \* verdicts that a click had an effect, or may have had one
    Rejected,   \* the verdict that the click was cancelled
    Other,      \* verdicts without a click of their own
    None        \* no vacancy, no package or no verdict

VARIABLES
    vacancyOf,  \* vacancyOf[a]: the vacancy of attempt a, or None
    released,   \* released[a]: the package released for a, or None
    permit,     \* permit[v]: the package the permit of v was taken for, or None
    intended,   \* attempts that are about to click, or did
    clicks,     \* clicks[a]: submit clicks of a
    verdict     \* verdict[a]: how a ended, or None

appVars == <<vacancyOf, released, permit, intended, clicks, verdict>>

AppInit ==
    /\ vacancyOf = [a \in Attempts |-> None]
    /\ released = [a \in Attempts |-> None]
    /\ permit = [v \in Vacancies |-> None]
    /\ intended = {}
    /\ clicks = [a \in Attempts |-> 0]
    /\ verdict = [a \in Attempts |-> None]

Begin(a, v) ==
    /\ vacancyOf[a] = None
    /\ vacancyOf' = [vacancyOf EXCEPT ![a] = v]
    /\ UNCHANGED <<released, permit, intended, clicks, verdict>>

Release(a, p) ==
    /\ vacancyOf[a] # None
    /\ released[a] = None
    /\ a \notin intended
    /\ released' = [released EXCEPT ![a] = p]
    /\ UNCHANGED <<vacancyOf, permit, intended, clicks, verdict>>

Take(v, p) ==
    /\ permit[v] = None
    /\ permit' = [permit EXCEPT ![v] = p]
    /\ UNCHANGED <<vacancyOf, released, intended, clicks, verdict>>

\* The attempts of a vacancy that are open declare one intent between them.
Intend(a) ==
    /\ vacancyOf[a] # None /\ permit[vacancyOf[a]] # None
    /\ released[a] # None
    /\ verdict[a] = None
    /\ \A b \in intended : vacancyOf[b] # vacancyOf[a]
    /\ intended' = intended \cup {a}
    /\ UNCHANGED <<vacancyOf, released, permit, clicks, verdict>>

Click(a) ==
    /\ a \in intended
    /\ clicks[a] = 0
    /\ Documents[released[a]] = Documents[permit[vacancyOf[a]]]
    /\ verdict[a] # Rejected
    /\ clicks' = [clicks EXCEPT ![a] = 1]
    /\ UNCHANGED <<vacancyOf, released, permit, intended, verdict>>

Conclude(a, o) ==
    /\ vacancyOf[a] # None
    /\ verdict[a] = None
    /\ o \in Submitted => clicks[a] = 1
    /\ o = Rejected => a \in intended /\ clicks[a] = 0
    /\ verdict' = [verdict EXCEPT ![a] = o]
    /\ UNCHANGED <<vacancyOf, released, permit, intended, clicks>>

\* A step changes something; what changes nothing is left to stuttering.
AppNext ==
    /\ appVars' # appVars
    /\ \/ \E v \in Vacancies, p \in Packages : Take(v, p)
       \/ \E a \in Attempts :
            \/ \E v \in Vacancies : Begin(a, v)
            \/ \E p \in Packages : Release(a, p)
            \/ Intend(a) \/ Click(a)
            \/ \E o \in Submitted \cup {Rejected} \cup Other : Conclude(a, o)

AppSpec == AppInit /\ [][AppNext]_appVars
===============================================================================
