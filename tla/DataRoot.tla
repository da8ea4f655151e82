------------------------------- MODULE DataRoot -------------------------------
(***************************************************************************)
(* A data root from its first opening by this version on: processes open   *)
(* the database, which migrates what an earlier version left, and make     *)
(* refreshes or run the cycles of a collector.                              *)
(***************************************************************************)
EXTENDS JournalMigration, CollectorCycle

ASSUME CollectorsOpen == Collectors \subseteq Openers

rootVars == <<migrationVars, collectorVars>>

RootInit == MigrationInit /\ PostingInit /\ CycleInit

\* A collector has the database open as long as it is at work.
Collect(c) ==
    /\ Idle(c)
    /\ (\E listed \in SUBSET Jobs : Run(c, listed)) \/ Import(c) \/ Cycle(c)
    /\ UNCHANGED migrationVars

\* The death of a collector at work ends its connection.
Collapse(c) ==
    /\ Kill(c)
    /\ Goto(c, "closed")
    /\ UNCHANGED <<journalVars, resultVars, window, asked, deaths, troubled>>

AtRest(p) == p \in Collectors => at[p] = "idle"

RootNext ==
    \/ \E c \in Collectors : Collect(c) \/ Collapse(c)
    \/ /\ \E p \in Openers : OpenStep(p) \/ (AtRest(p) /\ (Close(p) \/ Die(p)))
       /\ UNCHANGED collectorVars
    \/ /\ \E p \in Openers : AtRest(p) /\ Refresh(p)
       /\ UNCHANGED <<collectorVars, troubled>>

RootSpec == RootInit /\ [][RootNext]_rootVars

(***************************************************************************)
(* A collector is started again and again until it has the database open,  *)
(* and works its cycles off as CollectorFairness says.  Fetches time out.  *)
(***************************************************************************)
RootFairness ==
    \A c \in Collectors :
        /\ WF_rootVars(OpenStep(c) /\ UNCHANGED collectorVars)
        /\ WF_rootVars(window[c] # NoOp /\ Refresh(c) /\ UNCHANGED <<collectorVars, troubled>>)
        /\ SF_rootVars(Collect(c) /\ \E listed \in SUBSET Jobs : Run(c, listed))
        /\ WF_rootVars(Collect(c) /\ (Import(c) \/ Cycle(c)))
        /\ \A b \in Boards : SF_rootVars(Collect(c) /\ Discover(c, b, JobsOf(b)))
        /\ \A j \in Jobs :
              /\ SF_rootVars(Collect(c) /\ \E r \in Raws : FetchRow(c, j, r))
              /\ SF_rootVars(Collect(c) /\ job[c] = j /\ StoreRaw(c))

FairRootSpec == RootSpec /\ RootFairness

-------------------------------------------------------------------------------
RootTypeOK == MigrationTypeOK /\ CycleTypeOK
===============================================================================
