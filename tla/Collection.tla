------------------------------ MODULE Collection ------------------------------
(***************************************************************************)
(* One data root with collectors and refreshes running at the same time:   *)
(* CollectorCycle and VacancyRefresh over the same postings and caches.    *)
(***************************************************************************)
EXTENDS VacancyRefresh, CollectorCycle

VARIABLE concurrent  \* two collectors have been at work at once (history)

collectionVars == <<postingVars, refreshVars, cycleVars, concurrent>>

CollectionInit == PostingInit /\ RefreshInit /\ CycleInit /\ concurrent = FALSE

TwoAtWork == \E c, d \in Collectors : c # d /\ at[c] # "idle" /\ at[d] # "idle"

CollectionNext ==
    \/ RefreshNext /\ UNCHANGED <<cycleVars, concurrent>>
    \/ CycleNext /\ concurrent' = (concurrent \/ TwoAtWork') /\ UNCHANGED refreshVars

CollectionSpec == CollectionInit /\ [][CollectionNext]_collectionVars

-------------------------------------------------------------------------------
Committed(o) == journal[o] # NoRow /\ journal[o].status = "committed"

\* r is the response of a committed refresh.
CommittedResponse(r) == \E o \in Ops : Committed(o) /\ journal[o].new = r

\* While collectors do not overlap, the response that a refresh committed is
\* replaced only by the commit of another refresh, never by a cycle, an import or
\* a failure, and its row stays fetched.  The cycle works on rows without a response, the
\* refresh on rows whose response is also cached, and neither looks again at
\* the other's table before it writes.
RefreshedStaysRefreshed ==
    [][\A j \in Jobs :
        ~concurrent' /\ Fetched(j) /\ CommittedResponse(posting[j].raw) =>
            Fetched(j)' /\ CommittedResponse(posting[j].raw)']_collectionVars

\* With collectors writing the same rows the refreshes still are what the ledger
\* says: collectors store responses between its steps, and no more.
ImplementsSharedLedger == Ledger!SharedLedgerSpec
===============================================================================
