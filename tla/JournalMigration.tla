--------------------------- MODULE JournalMigration ---------------------------
(***************************************************************************)
(* `JobDatabase.__init__` (state/vacancies.py) on a database of an earlier *)
(* version: the journal of refreshes is archived and each of its rows is   *)
(* carried over or quarantined, the processing results are bound to an     *)
(* explicit configuration, and every later opening verifies the archive.   *)
(*                                                                         *)
(* Every process opens the database first.  A DDL statement commits at     *)
(* once; the first INSERT begins a transaction that ends with the opening. *)
(* What a refresh does to the journal after that is reduced to the status. *)
(***************************************************************************)
EXTENDS Postings, Naturals

CONSTANTS
    Ops,        \* operation identities
    Openers,    \* processes that open the database
    Journals,   \* the journals that an earlier version may have left
    MaxDeaths,  \* bound on Die
    NoEntry,    \* no row
    NoOp        \* a process that waits for no answer

VARIABLES
    kind,       \* schema of the earlier journal: "036d" or "v2"
    old,        \* old[o]: row of the earlier journal, or NoEntry
    table,      \* schema of vacancy_refreshes: "old", "current" or "absent"
    archived,   \* the archive table exists
    entry,      \* entry[o]: row of the current journal, or NoEntry
    quarantine, \* operations in vacancy_refresh_migration_quarantine
    results,    \* schema of processing_jobs: "v1", "current" or "absent"
    aside,      \* processing_jobs_v1 exists
    relabelled, \* results of a current configuration were put aside (history)
    step,       \* step[p]: what p does next
    window,     \* window[p]: the operation whose fetch p waits for, or NoOp
    asked,      \* operations the official source was asked for (history)
    deaths,     \* deaths so far (bounded by MaxDeaths)
    troubled    \* an opening was interrupted or overlapped another (history)

journalVars == <<kind, old, table, archived, entry, quarantine>>
resultVars == <<results, aside, relabelled>>
migrationVars == <<journalVars, resultVars, step, window, asked, deaths, troubled>>

Unsettled == {"intent", "fetch_started", "indeterminate", "fetched", "object_ready"}
OldRows == [job: Jobs, status: Unsettled \cup {"committed"}, exact: BOOLEAN]
Entries == [job: Jobs, status: Unsettled \cup {"committed"}]
Steps == {"closed", "inspect", "create", "rename", "recreate", "fill", "validate", "results",
          "rename_results", "create_results", "copy_results", "open"}

ASSUME MigrationAssumption ==
    /\ Journals \subseteq [Ops -> OldRows \cup {NoEntry}]
    /\ NoEntry \notin OldRows \cup Entries
    /\ NoOp \notin Ops
    /\ MaxDeaths \in Nat

MigrationTypeOK ==
    /\ kind \in {"036d", "v2"}
    /\ old \in [Ops -> OldRows \cup {NoEntry}]
    /\ table \in {"old", "current", "absent"}
    /\ entry \in [Ops -> Entries \cup {NoEntry}]
    /\ quarantine \subseteq Ops
    /\ results \in {"v1", "current", "absent"}
    /\ archived \in BOOLEAN /\ aside \in BOOLEAN /\ relabelled \in BOOLEAN
    /\ step \in [Openers -> Steps]
    /\ window \in [Openers -> Ops \cup {NoOp}]
    /\ asked \subseteq Ops
    /\ deaths \in 0..MaxDeaths
    /\ troubled \in BOOLEAN

Left == {o \in Ops : old[o] # NoEntry}

MigrationInit ==
    /\ kind \in {"036d", "v2"}
    /\ old \in Journals
    /\ table \in {"old", "absent"}
    /\ Left # {} => table = "old"
    /\ archived = FALSE
    /\ entry = [o \in Ops |-> NoEntry]
    /\ quarantine = {}
    /\ results \in {"v1", "absent"}
    /\ aside = FALSE
    /\ relabelled = FALSE
    /\ step = [p \in Openers |-> "closed"]
    /\ window = [p \in Openers |-> NoOp]
    /\ asked = {}
    /\ deaths = 0
    /\ troubled = FALSE

-------------------------------------------------------------------------------
(***************************************************************************)
(* Which rows are carried over, and what is verified ever after.           *)
(***************************************************************************)
\* _convert_v2_refresh accepts what it can represent, and
\* _convert_legacy_committed_refresh only committed operations.
Converts(o) == old[o].exact /\ (kind = "036d" => old[o].status = "committed")

Carried(o) == [job |-> old[o].job, status |-> old[o].status]

ProgressionsOnward ==      \* mutant: giving up a fetch is taken for a regression
    [s \in Unsettled \cup {"committed"} |->
        IF s = "fetch_started" THEN {s} ELSE Unsettled \cup {"committed"}]

\* allowed_progressions of an archived row.
Progressions ==
    [intent        |-> Unsettled \cup {"committed"},
     fetch_started |-> {"fetch_started", "indeterminate"},
     indeterminate |-> {"indeterminate"},
     fetched       |-> {"fetched", "object_ready", "committed"},
     object_ready  |-> {"object_ready", "committed"},
     committed     |-> {"committed"}]

\* _validate_legacy_dispositions for one archived row: it is either in the
\* current journal, as what it has become, or in quarantine.
Disposed(o) ==
    /\ (entry[o] # NoEntry) # (o \in quarantine)
    /\ kind = "v2" => (Converts(o) <=> entry[o] # NoEntry)
    /\ entry[o] # NoEntry =>
          /\ Converts(o)
          /\ entry[o].job = old[o].job
          /\ entry[o].status \in Progressions[old[o].status]

Valid == archived => \A o \in Left : Disposed(o)

-------------------------------------------------------------------------------
(***************************************************************************)
(* Opening the database.                                                   *)
(***************************************************************************)
Goto(p, next) == step' = [step EXCEPT ![p] = next]

\* A statement fails where ok is false: the opening raises.
GotoIf(p, ok, next) == Goto(p, IF ok THEN next ELSE "closed")

\* executescript(SCHEMA) creates what does not exist.
CreateSchema(p) ==
    /\ step[p] = "closed"
    /\ results' = IF results = "absent" THEN "current" ELSE results
    /\ Goto(p, "inspect")
    /\ UNCHANGED <<journalVars, aside, relabelled>>

\* _migrate_vacancy_refresh_schema looks at the table and for an archive.
Inspect(p) ==
    /\ step[p] = "inspect"
    /\ Goto(p, CASE table = "absent"              -> "create"
                 [] table = "current"             -> "validate"
                 [] table = "old" /\ ~archived    -> "rename"
                 [] OTHER                         -> "closed")
    /\ UNCHANGED <<journalVars, resultVars>>

Rename(p) ==
    /\ step[p] = "rename"
    /\ IF table = "old" /\ ~archived
       THEN archived' = TRUE /\ table' = "absent" /\ Goto(p, "recreate")
       ELSE Goto(p, "closed") /\ UNCHANGED <<archived, table>>
    /\ UNCHANGED <<kind, old, entry, quarantine, resultVars>>

\* CREATE TABLE vacancy_refreshes, of an empty database or after the renaming.
Create(p) ==
    /\ step[p] \in {"create", "recreate"}
    /\ table' = IF table = "absent" THEN "current" ELSE table
    /\ GotoIf(p, table = "absent", IF step[p] = "create" THEN "validate" ELSE "fill")
    /\ UNCHANGED <<kind, old, archived, entry, quarantine, resultVars>>

\* The rows are carried over or quarantined.  With the first row a transaction
\* begins that migrates the results, too, and commits when the database is open.
Fill(p) ==
    /\ step[p] = "fill"
    /\ entry' = [o \in Ops |-> IF o \in Left /\ Converts(o) THEN Carried(o) ELSE entry[o]]
    /\ quarantine' = quarantine \cup {o \in Left : ~Converts(o)}
    /\ IF Left = {}
       THEN Goto(p, "validate") /\ UNCHANGED results
       ELSE Goto(p, "open") /\ results' = "current"
    /\ UNCHANGED <<kind, old, table, archived, aside, relabelled>>

Validate(p) ==
    /\ step[p] = "validate"
    /\ GotoIf(p, Valid, "results")
    /\ UNCHANGED <<journalVars, resultVars>>

-------------------------------------------------------------------------------
(***************************************************************************)
(* _migrate_processing_identity outside of a transaction.                  *)
(***************************************************************************)
InspectResults(p) ==
    /\ step[p] = "results"
    /\ Goto(p, IF results = "current" THEN "open" ELSE "rename_results")
    /\ UNCHANGED <<journalVars, resultVars>>

\* Whatever the table has become since it was inspected.
RenameResults(p) ==
    /\ step[p] = "rename_results"
    /\ IF results # "absent" /\ ~aside
       THEN /\ relabelled' = (relabelled \/ results = "current")
            /\ results' = "absent"
            /\ aside' = TRUE
            /\ Goto(p, "create_results")
       ELSE Goto(p, "closed") /\ UNCHANGED resultVars
    /\ UNCHANGED journalVars

CreateResults(p) ==
    /\ step[p] = "create_results"
    /\ results' = IF results = "absent" THEN "current" ELSE results
    /\ GotoIf(p, results = "absent", "copy_results")
    /\ UNCHANGED <<journalVars, aside, relabelled>>

CopyResultsOnly(p, fits) ==      \* mutant: the renamed table is not dropped
    /\ step[p] = "copy_results"
    /\ fits \/ relabelled
    /\ GotoIf(p, fits, "open")
    /\ UNCHANGED <<journalVars, resultVars>>

\* INSERT ... SELECT and DROP TABLE commit together; two configurations of one
\* result do not fit under the reserved digest.
CopyResults(p, fits) ==
    /\ step[p] = "copy_results"
    /\ fits \/ relabelled
    /\ aside' = ~fits
    /\ GotoIf(p, fits, "open")
    /\ UNCHANGED <<journalVars, results, relabelled>>

Open(p) ==
    /\ \/ CreateSchema(p) \/ Inspect(p) \/ Rename(p) \/ Create(p) \/ Fill(p) \/ Validate(p)
       \/ InspectResults(p) \/ RenameResults(p) \/ CreateResults(p)
       \/ \E fits \in BOOLEAN : CopyResults(p, fits)
    /\ UNCHANGED <<window, asked, deaths>>

-------------------------------------------------------------------------------
(***************************************************************************)
(* What a process does to the journal once the database is open: the steps *)
(* of begin_vacancy_refresh to seal_vacancy_refresh.  Each call of         *)
(* refresh_vacancy loads its operation first, which verifies the archive.  *)
(* The seal, which also writes the posting, is left to VacancyRefresh.     *)
(***************************************************************************)
Idle(p) == step[p] = "open" /\ window[p] = NoOp

MayBeginBesides(o, j) ==      \* mutant: quarantine bars the operation, not the vacancy
    /\ Fetched(j)
    /\ entry[o] = NoEntry
    /\ o \notin quarantine
    /\ \A q \in Ops : entry[q] # NoEntry /\ entry[q].job = j => entry[q].status \notin Unsettled

\* begin_vacancy_refresh: neither the operation nor the vacancy is in quarantine.
MayBegin(o, j) ==
    /\ Fetched(j)
    /\ entry[o] = NoEntry
    /\ o \notin quarantine
    /\ \A q \in quarantine : old[q].job # j
    /\ \A q \in Ops : entry[q] # NoEntry /\ entry[q].job = j => entry[q].status \notin Unsettled

BeginRefresh(p, o, j) ==
    /\ Idle(p)
    /\ Valid
    /\ MayBegin(o, j)
    /\ entry' = [entry EXCEPT ![o] = [job |-> j, status |-> "intent"]]
    /\ UNCHANGED <<window, asked>>

Advance(o, status) == entry' = [entry EXCEPT ![o].status = status]

StartFetch(p, o) ==
    /\ Idle(p)
    /\ Valid
    /\ entry[o] # NoEntry /\ entry[o].status = "intent"
    /\ Advance(o, "fetch_started")
    /\ window' = [window EXCEPT ![p] = o]
    /\ asked' = asked \cup {o}

\* The answer is recorded unless another process has given the fetch up.
RecordFetch(p) ==
    /\ window[p] # NoOp
    /\ IF entry[window[p]].status = "fetch_started"
       THEN Advance(window[p], "fetched")
       ELSE UNCHANGED entry
    /\ window' = [window EXCEPT ![p] = NoOp]
    /\ UNCHANGED asked

FetchFails(p) ==
    /\ window[p] # NoOp
    /\ window' = [window EXCEPT ![p] = NoOp]
    /\ UNCHANGED <<entry, asked>>

\* A replay gives up a fetch that it did not start, or completes the operation.
Replay(p, o) ==
    /\ Idle(p)
    /\ Valid
    /\ entry[o] # NoEntry
    /\ \/ entry[o].status = "fetch_started" /\ Advance(o, "indeterminate")
       \/ entry[o].status = "fetched" /\ Advance(o, "object_ready")
    /\ UNCHANGED <<window, asked>>

Refresh(p) ==
    /\ \/ \E o \in Ops, j \in Jobs : BeginRefresh(p, o, j)
       \/ \E o \in Ops : StartFetch(p, o) \/ Replay(p, o)
       \/ RecordFetch(p) \/ FetchFails(p)
    /\ UNCHANGED <<kind, old, table, archived, quarantine, resultVars, step, deaths>>

-------------------------------------------------------------------------------
Opening(p) == step[p] \notin {"closed", "open"}

TwoOpening == \E p, q \in Openers : p # q /\ Opening(p) /\ Opening(q)

\* The process ends, or the operator ends it while nothing is under way.
Close(p) ==
    /\ Idle(p)
    /\ Goto(p, "closed")
    /\ UNCHANGED <<journalVars, resultVars, window, asked, deaths, troubled>>

Die(p) ==
    /\ step[p] # "closed"
    /\ deaths < MaxDeaths
    /\ deaths' = deaths + 1
    /\ Goto(p, "closed")
    /\ window' = [window EXCEPT ![p] = NoOp]
    /\ troubled' = (troubled \/ Opening(p))
    /\ UNCHANGED <<journalVars, resultVars, asked>>

OpenStep(p) == Open(p) /\ troubled' = (troubled \/ TwoOpening')

MigrationNext ==
    \E p \in Openers : OpenStep(p) \/ Close(p) \/ Die(p) \/ (Refresh(p) /\ UNCHANGED troubled)

MigrationSpec == MigrationInit /\ [][MigrationNext]_migrationVars

-------------------------------------------------------------------------------
\* Once a process has the database open, every archived operation is accounted
\* for, and whatever refreshes make of those that were carried over, a later
\* opening accepts it: no legal use locks the operator out of the database.
OpenedStaysValid == (\E p \in Openers : step[p] = "open") => Valid

\* The official source is never asked again for an operation that an earlier
\* version had begun to fetch, nor is its vacancy fetched by a new operation while
\* it is in quarantine.
InFlightIsNotRefetched ==
    \A o \in asked :
        /\ old[o] # NoEntry => old[o].status = "intent"
        /\ old[o] = NoEntry => \A q \in quarantine : old[q].job # entry[o].job

\* Unless openings are interrupted or overlap, earlier results are where reports
\* and claims look for them, and those of current configurations keep them.
EarlierResultsAreFound ==
    ~troubled /\ (\E p \in Openers : step[p] = "open") =>
        results = "current" /\ ~aside /\ ~relabelled
===============================================================================
