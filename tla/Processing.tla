------------------------------- MODULE Processing -------------------------------
(***************************************************************************)
(* Semantic processing of one profile and track (service/processing.py)    *)
(* over the table `processing_jobs` of state/vacancies.py: a run copies    *)
(* the collector's snapshot, leases a shard, extracts and aligns each of   *)
(* its vacancies, stores the score in the assessment database and the      *)
(* result in its row, and writes the report of its scope.                  *)
(*                                                                         *)
(* Every transaction is one step, but for the report, whose write          *)
(* transaction is open while the files are written.  Time is left out: a   *)
(* lease may have expired at any moment.  The authority (profile and       *)
(* evidence), the board filter and max_total are fixed; the receipt of a   *)
(* run is in AssessmentPromotion, that of the copy is left out.            *)
(***************************************************************************)
EXTENDS Integers, FiniteSets

CONSTANTS
    Jobs,         \* vacancies, numbered in the order of their keys
    MaxVersion,   \* bound on Collect: how many contents a vacancy's page may have
    Readings,     \* what a semantic extraction may read in a content
    Axes,         \* what an evidence alignment may return
    Configs,      \* processing configurations
    Included,     \* pairs <<reading, config>> that the deterministic policies include
    Workers,      \* processes that run ProcessingService.process
    ShardSize,
    None,         \* SQL NULL, no row, no value
    MaxCrashes,   \* bound on Crash
    MaxOvertakes  \* bound on Claim: leases that expire while their owner works

VARIABLES
    collected,    \* collected[j]: content of the fetched row in the collector's database, 0: none
    posting,      \* posting[j]: content in the processing database, 0: none
    row,          \* row[k]: row of `processing_jobs` with the key k
    score,        \* score[j]: score of the assessment of j
    lock,         \* worker with an open write transaction on the processing database
    report,       \* report[g]: results in the report of configuration g
    pc,           \* pc[w]: what worker w does next
    config,       \* config[w]: configuration of w's run
    snapshot,     \* snapshot[w]: the collector's contents that w read and has not yet written
    rows,         \* rows[w]: the results that w read and has not yet reported
    shard,        \* shard[w]: keys that w claimed and has not finished
    result,       \* result[w]: result for the first of them
    crashes,      \* worker deaths so far
    overtakes     \* premature expiries so far

vars == <<collected, posting, row, score, lock, report, pc, config, snapshot, rows, shard, result,
          crashes, overtakes>>
dataVars == <<collected, posting, row, score, report>>

Versions == 1..MaxVersion
Keys == Jobs \X Versions \X Configs
Vacancies == [content: Versions, reading: Readings]
Results == [vacancy: Vacancies, axes: Axes \cup {None}]
Rows == [status: {"leased"}, owner: Workers, result: {None}]
        \cup [status: {"failed"}, owner: {None}, result: {None}]
        \cup [status: {"completed"}, owner: {None}, result: Results]
Reports == [Jobs -> Results \cup {None}]
Contents == [Jobs -> 0..MaxVersion]
Stages == {"idle", "promote", "claim", "work", "score", "complete", "fail", "report"}

ASSUME ProcessingAssumption ==
    /\ Jobs \subseteq Int
    /\ MaxVersion \in Nat
    /\ Included \subseteq Readings \X Configs
    /\ ShardSize \in Nat \ {0}
    /\ None \notin Axes \cup Configs \cup Workers \cup Results \cup Rows
                   \cup Reports \cup Contents
    /\ MaxCrashes \in Nat
    /\ MaxOvertakes \in Nat

ProcessingTypeOK ==
    /\ collected \in Contents
    /\ posting \in Contents
    /\ row \in [Keys -> Rows \cup {None}]
    /\ score \in [Jobs -> Results \cup {None}]
    /\ lock \in Workers \cup {None}
    /\ report \in [Configs -> Reports]
    /\ pc \in [Workers -> Stages]
    /\ config \in [Workers -> Configs \cup {None}]
    /\ snapshot \in [Workers -> Contents \cup {None}]
    /\ rows \in [Workers -> Reports \cup {None}]
    /\ shard \in [Workers -> SUBSET Keys]
    /\ result \in [Workers -> Results \cup {None}]
    /\ crashes \in 0..MaxCrashes
    /\ overtakes \in 0..MaxOvertakes

Init ==
    /\ collected = [j \in Jobs |-> 0]
    /\ posting = [j \in Jobs |-> 0]
    /\ row = [k \in Keys |-> None]
    /\ score = [j \in Jobs |-> None]
    /\ lock = None
    /\ report = [g \in Configs |-> [j \in Jobs |-> None]]
    /\ pc = [w \in Workers |-> "idle"]
    /\ config = [w \in Workers |-> None]
    /\ snapshot = [w \in Workers |-> None]
    /\ rows = [w \in Workers |-> None]
    /\ shard = [w \in Workers |-> {}]
    /\ result = [w \in Workers |-> None]
    /\ crashes = 0
    /\ overtakes = 0

-------------------------------------------------------------------------------
(***************************************************************************)
(* The collector and the copy of its snapshot.                             *)
(***************************************************************************)
\* store_raw of a collector or a refresh: the page of j has another content,
\* perhaps one that it had before, or (record_error) it could not be fetched.
Collect(j, v) ==
    /\ collected[j] # v
    /\ collected' = [collected EXCEPT ![j] = v]
    /\ UNCHANGED <<posting, row, score, lock, report, pc, config, snapshot, rows, shard, result,
                    crashes, overtakes>>

Goto(w, stage) == pc' = [pc EXCEPT ![w] = stage]

\* process: a run starts and reads the collector's database in one transaction.
Start(w, g) ==
    /\ pc[w] = "idle"
    /\ config' = [config EXCEPT ![w] = g]
    /\ snapshot' = [snapshot EXCEPT ![w] = collected]
    /\ Goto(w, "promote")
    /\ UNCHANGED <<dataVars, lock, rows, shard, result, crashes, overtakes>>

\* promote_fetched_from writes what it read in a transaction of the other database.
Promote(w) ==
    /\ pc[w] = "promote"
    /\ lock = None
    /\ posting' = [j \in Jobs |-> IF snapshot[w][j] = 0 THEN posting[j] ELSE snapshot[w][j]]
    /\ snapshot' = [snapshot EXCEPT ![w] = None]
    /\ Goto(w, "claim")
    /\ UNCHANGED <<collected, row, score, lock, report, config, rows, shard, result, crashes, overtakes>>

-------------------------------------------------------------------------------
(***************************************************************************)
(* A shard: claim, evaluate, score, complete or fail.                      *)
(***************************************************************************)
Current(j, g) == <<j, posting[j], g>>
Leased(k) == row[k] # None /\ row[k].status = "leased"
Failed(k) == row[k] # None /\ row[k].status = "failed"
Completed(k) == row[k] # None /\ row[k].status = "completed"

\* w still works on k, under a lease that has not been claimed by another.
Holds(w, k) == k \in shard[w] /\ Leased(k) /\ row[k].owner = w

AvailableFresh(g, expired) ==      \* mutant: a lease that expired is never claimed again
    {k \in {Current(j, g) : j \in {i \in Jobs : posting[i] # 0}} : row[k] = None \/ Failed(k)}

\* The rows of configuration g that a claim may take when the leases of
\* `expired` have run out.
Available(g, expired) ==
    {k \in {Current(j, g) : j \in {i \in Jobs : posting[i] # 0}} :
        row[k] = None \/ Failed(k) \/ k \in expired}

\* ORDER BY key LIMIT shard_size
FirstOf(keys) == {k \in keys : Cardinality({l \in keys : l[1] < k[1]}) < ShardSize}

\* claim_fetched_for_processing
Claim(w, expired) ==
    /\ pc[w] = "claim"
    /\ lock = None
    /\ expired \subseteq {k \in Keys : k[3] = config[w] /\ Leased(k)}
    /\ IF \E v \in Workers, k \in expired : Holds(v, k)
       THEN overtakes < MaxOvertakes /\ overtakes' = overtakes + 1
       ELSE UNCHANGED overtakes
    /\ LET claimed == FirstOf(Available(config[w], expired)) IN
          /\ row' = [k \in Keys |-> IF k \in claimed
                                    THEN [status |-> "leased", owner |-> w, result |-> None]
                                    ELSE row[k]]
          /\ shard' = [shard EXCEPT ![w] = claimed]
    /\ Goto(w, "work")
    /\ UNCHANGED <<collected, posting, score, lock, report, config, snapshot, rows, result, crashes>>

Lowest(keys) == CHOOSE k \in keys : \A l \in keys : k[1] <= l[1]

\* The vacancy of its shard that w works on.
Job(w) == Lowest(shard[w])

ReusableOfAny(k) ==      \* mutant: the content is not compared
    {row[l].result : l \in {l \in Keys : l[1] = k[1] /\ l[3] # k[3] /\ Completed(l)}}

\* reusable_processing_result: results of another configuration, same content.
Reusable(k) ==
    {row[l].result : l \in {l \in Keys :
        l[1] = k[1] /\ l[2] = k[2] /\ l[3] # k[3] /\ Completed(l)}}

\* The extraction: that of the prior result, or a new one of the claimed content.
Extracted(k, prior) ==
    IF prior = None THEN [content: {k[2]}, reading: Readings] ELSE {prior.vacancy}

\* The alignment, for an included vacancy only: the prior one, or a new one.
Aligned(k, prior, vacancy) ==
    IF <<vacancy.reading, k[3]>> \notin Included THEN {None}
    ELSE IF prior = None \/ prior.axes = None THEN Axes
    ELSE {prior.axes}

\* What the evaluation of k may result in.  Of several prior results it is the
\* last updated one that is reused; here any.
Evaluations(k) ==
    LET priors == IF Reusable(k) = {} THEN {None} ELSE Reusable(k) IN
    {r \in Results : \E prior \in priors :
        r.vacancy \in Extracted(k, prior) /\ r.axes \in Aligned(k, prior, r.vacancy)}

StageUnscored(r) == "complete"      \* mutant: included vacancies are not scored
StageOf(r) == IF r.axes = None THEN "complete" ELSE "score"

Evaluate(w) ==
    /\ pc[w] = "work"
    /\ shard[w] # {}
    /\ \E r \in Evaluations(Job(w)) :
          /\ result' = [result EXCEPT ![w] = r]
          /\ Goto(w, StageOf(r))
    /\ UNCHANGED <<dataVars, lock, config, snapshot, rows, shard, crashes, overtakes>>

\* Any step for a vacancy may raise: the semantic worker, the checks of what
\* it returned, a database that stays locked.
Raises(w) ==
    /\ pc[w] \in {"work", "score", "complete"}
    /\ shard[w] # {}
    /\ Goto(w, "fail")
    /\ UNCHANGED <<dataVars, lock, config, snapshot, rows, shard, result, crashes, overtakes>>

\* upsert_score, in the assessment database: no lease is looked at.
Score(w) ==
    /\ pc[w] = "score"
    /\ score' = [score EXCEPT ![Job(w)[1]] = result[w]]
    /\ Goto(w, "complete")
    /\ UNCHANGED <<collected, posting, row, lock, report, config, snapshot, rows, shard, result,
                    crashes, overtakes>>

NextOfShard(w) ==
    /\ shard' = [shard EXCEPT ![w] = @ \ {Job(w)}]
    /\ result' = [result EXCEPT ![w] = None]
    /\ Goto(w, "work")

\* complete_processing
Complete(w) ==
    /\ pc[w] = "complete"
    /\ lock = None
    /\ IF Holds(w, Job(w))
       THEN /\ row' = [row EXCEPT ![Job(w)] =
                  [status |-> "completed", owner |-> None, result |-> result[w]]]
            /\ NextOfShard(w)
       ELSE Goto(w, "fail") /\ UNCHANGED <<row, shard, result>>
    /\ UNCHANGED <<collected, posting, score, lock, report, config, snapshot, rows, crashes, overtakes>>

\* The process ends, killed or by an exception: its leases stay, its transaction is rolled back.
Leave(w) ==
    /\ Goto(w, "idle")
    /\ config' = [config EXCEPT ![w] = None]
    /\ snapshot' = [snapshot EXCEPT ![w] = None]
    /\ rows' = [rows EXCEPT ![w] = None]
    /\ shard' = [shard EXCEPT ![w] = {}]
    /\ result' = [result EXCEPT ![w] = None]
    /\ lock' = IF lock = w THEN None ELSE lock

FailAnyLease(w) ==      \* mutant: the row is failed whoever holds it
    /\ pc[w] = "fail"
    /\ lock = None
    /\ row' = [row EXCEPT ![Job(w)] = [status |-> "failed", owner |-> None, result |-> None]]
    /\ NextOfShard(w)
    /\ UNCHANGED <<collected, posting, score, lock, report, config, snapshot, rows, crashes, overtakes>>

FailKeepsOwner(w) ==      \* mutant: the lease's columns are not cleared
    /\ pc[w] = "fail"
    /\ lock = None
    /\ IF Holds(w, Job(w))
       THEN /\ row' = [row EXCEPT ![Job(w)] = [@ EXCEPT !.status = "failed"]]
            /\ NextOfShard(w)
            /\ UNCHANGED <<config, snapshot, rows, lock>>
       ELSE Leave(w) /\ UNCHANGED row
    /\ UNCHANGED <<collected, posting, score, report, crashes, overtakes>>

\* fail_processing: without the lease it raises, and the run ends.
Fail(w) ==
    /\ pc[w] = "fail"
    /\ lock = None
    /\ IF Holds(w, Job(w))
       THEN /\ row' = [row EXCEPT ![Job(w)] =
                  [status |-> "failed", owner |-> None, result |-> None]]
            /\ NextOfShard(w)
            /\ UNCHANGED <<config, snapshot, rows, lock>>
       ELSE Leave(w) /\ UNCHANGED row
    /\ UNCHANGED <<collected, posting, score, report, crashes, overtakes>>

-------------------------------------------------------------------------------
(***************************************************************************)
(* The report.                                                             *)
(***************************************************************************)
\* The completed results of configuration g for the current contents.
CompletedResults(g) ==
    [j \in Jobs |-> IF posting[j] # 0 /\ Completed(Current(j, g))
                    THEN row[Current(j, g)].result ELSE None]

ReadUnlocked(w) ==      \* mutant: the report's rows are read in autocommit
    /\ pc[w] = "work"
    /\ shard[w] = {}
    /\ rows' = [rows EXCEPT ![w] = CompletedResults(config[w])]
    /\ Goto(w, "report")
    /\ UNCHANGED <<dataVars, lock, config, snapshot, shard, result, crashes, overtakes>>

\* processing_report_snapshot: BEGIN IMMEDIATE and the rows.
ReadForReport(w) ==
    /\ pc[w] = "work"
    /\ shard[w] = {}
    /\ lock = None
    /\ lock' = w
    /\ rows' = [rows EXCEPT ![w] = CompletedResults(config[w])]
    /\ Goto(w, "report")
    /\ UNCHANGED <<dataVars, config, snapshot, shard, result, crashes, overtakes>>

\* write_reports, and the commit that ends the run.
WriteReport(w) ==
    /\ pc[w] = "report"
    /\ report' = [report EXCEPT ![config[w]] = rows[w]]
    /\ Leave(w)
    /\ UNCHANGED <<collected, posting, row, score, crashes, overtakes>>

Crash(w) ==
    /\ pc[w] # "idle"
    /\ crashes < MaxCrashes
    /\ crashes' = crashes + 1
    /\ Leave(w)
    /\ UNCHANGED <<dataVars, overtakes>>

-------------------------------------------------------------------------------
ClaimShard(w) ==
    \E expired \in SUBSET {k \in Keys : Leased(k)} : Claim(w, expired)

Work(w) ==
    \/ Promote(w) \/ ClaimShard(w)
    \/ Evaluate(w) \/ Raises(w) \/ Score(w) \/ Complete(w) \/ Fail(w)
    \/ ReadForReport(w) \/ WriteReport(w)

Next ==
    \/ \E j \in Jobs, v \in 0..MaxVersion : Collect(j, v)
    \/ \E w \in Workers : Work(w) \/ Crash(w) \/ \E g \in Configs : Start(w, g)

Spec == Init /\ [][Next]_vars

\* Leases of configuration g that no running worker holds.
Abandoned(g) == {k \in Keys : k[3] = g /\ Leased(k) /\ \A w \in Workers : ~Holds(w, k)}

ClaimAbandoned(w) == Claim(w, Abandoned(config[w]))

\* A run goes on and gets the lock in the end, runs are started for every
\* configuration, no lease lasts for ever, and from some time on nothing raises.
Fairness ==
    /\ \A w \in Workers : SF_vars(Work(w)) /\ SF_vars(ClaimAbandoned(w))
    /\ \A g \in Configs : SF_vars(\E w \in Workers : Start(w, g))
    /\ <>[][~ \E w \in Workers : Raises(w)]_vars

FairSpec == Spec /\ Fairness

-------------------------------------------------------------------------------
(***************************************************************************)
(* Properties.                                                             *)
(***************************************************************************)

\* A completed result was extracted from the content that its row names, also
\* when it was taken over from another configuration or the page has changed
\* since the claim (claim_fetched_for_processing, reusable_processing_result).
ResultIsOfItsContent ==
    \A k \in Keys : Completed(k) => row[k].result.vacancy.content = k[2]

\* Nothing is processed twice: a completed row keeps its result for ever,
\* whatever a worker does whose lease has expired.
CompletedIsFinal ==
    [][\A k \in Keys : Completed(k) => row'[k] = row[k]]_vars

\* An included result is in the row only if the assessment has been scored:
\* the two databases are written one after the other, a worker may die between
\* them, and a completed row is never claimed again.
CompletedIsScored ==
    \A k \in Keys : Completed(k) /\ row[k].result.axes # None => score[k[1]] # None

\* A report that is written over a report of the same scope loses no result
\* that is still current: concurrent shards report one after the other
\* (processing_report_snapshot).
ReportsKeepResults ==
    [][\A g \in Configs, j \in Jobs :
          report[g][j] # None /\ report[g][j] = CompletedResults(g)[j] =>
              report'[g][j] = report[g][j]]_vars

\* Every content of the processing database is processed in the end, by
\* repeated runs, although workers die and leave their shards leased.
CurrentIsProcessed ==
    \A j \in Jobs, v \in Versions, g \in Configs :
        posting[j] = v ~> Completed(<<j, v, g>>) \/ posting[j] # v

\* When no run is under way, the assessment of a vacancy has the score of its
\* completed current result: this is what a promotion compares.
CompletedIsPromotable ==
    (\A w \in Workers : pc[w] = "idle") =>
        \A j \in Jobs, g \in Configs :
            posting[j] # 0 /\ Completed(Current(j, g))
                /\ row[Current(j, g)].result.axes # None =>
            score[j] = row[Current(j, g)].result
===============================================================================
