----------------------------- MODULE MCCollection -----------------------------
(* Small instances of Collection. *)
EXTENDS Collection, FiniteSets, TLC

CONSTANTS b1, j1, o1, o2, c1, c2

OneBoard == [j \in Jobs |-> b1]

TwoOperations ==
    {[op |-> o1, job |-> j1, expected |-> c1],
     [op |-> o2, job |-> j1, expected |-> c2]}

Symmetry == Permutations(Procs) \cup Permutations(Collectors) \cup Permutations(Stamps)

\* Collectors overlap, or the second operation begins, or a second process runs.
OneOverlap ==
    LET busy == {p \in Procs : pc[p] # "idle"} IN
    /\ concurrent => journal[o2] = NoRow
    /\ concurrent \/ journal[o2] # NoRow => Cardinality(busy) <= 1
===============================================================================
