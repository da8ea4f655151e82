------------------------- MODULE MCAssessmentPromotion -------------------------
(* Small instances of AssessmentPromotion. *)
EXTENDS AssessmentPromotion, TLC

CONSTANTS g1, g2, x, a1

Symmetry == Permutations(Workers)

\* Configuration g1 includes the vacancy that g2 rejects.
OnlyFirst == Readings \X {g1}

\* There is no receipt, alignments do not differ, and a page does not vanish.
Unpromoted ==
    /\ receipts = {}
    /\ \A j \in Jobs :
          collected[j] = 0 => posting[j] = 0 /\ \A w \in Workers : pc[w] = "idle"
    /\ \A j \in Jobs : score[j] = None \/ score[j].axes = a1
    /\ \A w \in Workers : result[w] = None \/ result[w].axes \in {a1, None}

\* One configuration, and runs that do not overlap.
Promoting ==
    /\ \A w \in Workers : config[w] # g2
    /\ \A k \in Keys : k[3] = g2 => row[k] = None
    /\ \A v, w \in Workers : pc[v] # "idle" /\ pc[w] # "idle" => v = w
    /\ overtakes = 0

ProcessOrPromote == Unpromoted \/ Promoting
===============================================================================
