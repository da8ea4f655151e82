---------------------------- MODULE MCResearchQueue ----------------------------
(* Small instances of ResearchQueue: every worker runs with an id of its own. *)
EXTENDS ResearchQueue, TLC

OwnIdentity == [w \in Workers |-> w]
Symmetry == Permutations(Workers)

CONSTANTS f2, r2, good

\* Where anything is of the later facts f2, all else is simple: at most one
\* refresh, a passing score and no fault.
OfLaterFacts(t) ==
    \/ assessment[t] # None /\ assessment[t].facts = f2
    \/ \E d \in archive[t] \cup ({dossier[t], evidence[t]} \ {None, Legacy}) : d.facts = f2
    \/ \E w \in Workers : Working(w, t) /\ task[w].facts = f2

\* Facts change, a second refresh follows, or there are faults.
OneKindOfTrouble ==
    \A t \in Tasks :
        /\ OfLaterFacts(t) =>
              faults = 0 /\ assessment[t].score = good /\ event[t][r2] = None
        /\ event[t][r2] # None => faults = 0
===============================================================================
