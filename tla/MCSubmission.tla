----------------------------- MODULE MCSubmission -----------------------------
(* Small instances of Submission. *)
EXTENDS Submission, TLC
\* Vacancies 1 and 2 stand for one posting, 3 for another one.
Equivalent == [v \in Vacancies |-> IF v = 2 THEN 1 ELSE v]
Distinct == [p \in Packages |-> p]
Each == {{v} : v \in Vacancies}
Symmetry == Permutations(Runners) \cup Permutations(Attempts)
                \cup Permutations(Packages)
\* Two runners at once share one job key and replace a package of its token once;
\* two job keys are for one runner at a time.
OneKeyOrOneRunner ==
    overlapped => /\ \A a \in Known : attempt[a].vacancy = 1
                  /\ \A r \in Runners : run[r] = None \/ run[r].vacancy = 1
                  /\ Cardinality(superseded[1]) <= 1
===============================================================================
