--------------------------- MODULE MCVacancyRefresh ---------------------------
(* Small instances of VacancyRefresh: processes that run and replay refreshes. *)
EXTENDS VacancyRefresh, TLC

CONSTANTS o1, o2, j1, j2, c1, c2

Symmetry == Permutations(Procs) \cup Permutations(Stamps)

\* Two operations on one vacancy; the second expects what the first may commit.
OneVacancy ==
    {[op |-> o1, job |-> j1, expected |-> c1],
     [op |-> o2, job |-> j1, expected |-> c2]}

\* The same, and a reuse of the first identity with another context.
OneVacancyReused == OneVacancy \cup {[op |-> o1, job |-> j1, expected |-> c2]}

\* Only the vacancies that an operation concerns are known before it; the
\* others are there for a source that answers for the wrong vacancy.
OthersUnknown == \A j \in Jobs : (\A q \in Requests : q.job # j) => cache[j] = NoRaw
RequestedInit == Init /\ OthersUnknown
RequestedSpec == RequestedInit /\ [][RefreshNext]_vars
===============================================================================
