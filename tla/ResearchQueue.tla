----------------------------- MODULE ResearchQueue -----------------------------
(***************************************************************************)
(* The assessment store (research/store.py): the opportunity gate, the     *)
(* sealed promotion, the queue of employer research with its leases, the   *)
(* dossiers with their archive evidence and the admission of unchanged     *)
(* vacancy refreshes, with the workers of research/worker.py and the gate  *)
(* of assessment/opportunity.py that run over it.                          *)
(*                                                                         *)
(* Every transaction of the store is one step.  Time is left out: a queued *)
(* row may be available at any moment and a lease may have expired at any  *)
(* moment.  A refresh receipt that does not verify, a promotion that is    *)
(* not current and a replay change nothing and are left out too.           *)
(***************************************************************************)
EXTENDS Naturals

CONSTANTS
    Tasks,        \* assessed vacancies: pairs (profile_id, job_key)
    Facts,        \* values of the columns title, company and url
    Scores,       \* score payloads
    Passing,      \* those whose opportunity passes the gate
    Refreshes,    \* committed, unchanged collection refreshes
    Direct,       \* those that start from the content that was promoted
    Workers,      \* processes that run ResearchWorker.run_one
    Identity,     \* Identity[w]: the worker_id that process w passes
    Legacy,       \* a dossier of the v1 schema
    None,         \* SQL NULL, no row, no value
    MaxFaults     \* bound on Crash and Claim: workers that die, or lose a lease
                  \* that expires while they work, in one behaviour

VARIABLES
    assessment,   \* assessment[t]: row of `assessments`
    promotion,    \* promotion[t]: score sealed by the row of `assessment_promotions`
    gate,         \* gate[t]: decision of an apply_gate call that is not yet stored
    row,          \* row[t]: row of `employer_research_queue`
    event,        \* event[t][r]: dossier that refresh r was admitted over
    dossier,      \* dossier[t]: row of `employer_dossiers`
    evidence,     \* evidence[t]: dossier bound by `employer_research_evidence`
    archive,      \* archive[t]: v2 dossiers whose archive files exist
    pc,           \* pc[w]: what worker w does next
    task,         \* task[w]: the ResearchTask that w claimed
    made,         \* made[w]: the dossier that w's provider returned
    faults        \* worker deaths and premature expiries so far

storeVars == <<assessment, promotion, gate, row, event, dossier, evidence, archive>>
workerVars == <<pc, task, made, faults>>
vars == <<storeVars, workerVars>>

Ids == {Identity[w] : w \in Workers}
Decisions == {"none", "pass", "promoted", "reject"}
States == {"scored", "employer_research_queued", "opportunity_rejected",
           "opportunity_promoted", "employer_researched"}

Assessments == [score: Scores, facts: Facts, decision: Decisions, state: States]
QueueRows == [status: {"queued", "leased", "completed"}, owner: Ids \cup {None},
              refresh: Refreshes \cup {None}]
Bound == [facts: Facts, refresh: Refreshes \cup {None}]      \* dossiers of the v2 schema
Dossiers == Bound \cup {Legacy}
ResearchTasks == [key: Tasks, facts: Facts, promoted: BOOLEAN,
                  refresh: Refreshes \cup {None}]

ASSUME ResearchAssumption ==
    /\ Passing \subseteq Scores
    /\ Direct \subseteq Refreshes
    /\ None \notin Scores \cup Refreshes \cup Assessments \cup QueueRows
                   \cup Dossiers \cup ResearchTasks \cup {"pass", "reject"}
    /\ Legacy \notin Bound
    /\ MaxFaults \in Nat

\* Processes that run at the same time were given worker ids of their own.
DistinctIdentities ==
    \A v, w \in Workers : Identity[v] = Identity[w] => v = w

TypeOK ==
    /\ assessment \in [Tasks -> Assessments \cup {None}]
    /\ promotion \in [Tasks -> Scores \cup {None}]
    /\ gate \in [Tasks -> {"pass", "reject", None}]
    /\ row \in [Tasks -> QueueRows \cup {None}]
    /\ event \in [Tasks -> [Refreshes -> Dossiers \cup {None}]]
    /\ dossier \in [Tasks -> Dossiers \cup {None}]
    /\ evidence \in [Tasks -> Bound \cup {None}]
    /\ archive \in [Tasks -> SUBSET Bound]
    /\ pc \in [Workers -> {"idle", "research", "complete", "fail"}]
    /\ task \in [Workers -> ResearchTasks \cup {None}]
    /\ made \in [Workers -> Dossiers \cup {None}]
    /\ faults \in 0..MaxFaults

Init ==
    /\ assessment = [t \in Tasks |-> None]
    /\ promotion = [t \in Tasks |-> None]
    /\ gate = [t \in Tasks |-> None]
    /\ row = [t \in Tasks |-> None]
    /\ event = [t \in Tasks |-> [r \in Refreshes |-> None]]
    /\ dossier = [t \in Tasks |-> None]
    /\ evidence = [t \in Tasks |-> None]
    /\ archive = [t \in Tasks |-> {}]
    /\ pc = [w \in Workers |-> "idle"]
    /\ task = [w \in Workers |-> None]
    /\ made = [w \in Workers |-> None]
    /\ faults = 0

-------------------------------------------------------------------------------
(***************************************************************************)
(* Assessment, gate and promotion.                                         *)
(***************************************************************************)
HasStatus(t, status) == row[t] # None /\ row[t].status = status
Passed(t) == assessment[t] # None /\ assessment[t].decision \in {"pass", "promoted"}

\* upsert_score: a new score keeps the decision that an earlier score was given.
Assess(t, score, facts) ==
    /\ assessment' = [assessment EXCEPT ![t] =
          IF @ = None
          THEN [score |-> score, facts |-> facts, decision |-> "none", state |-> "scored"]
          ELSE [@ EXCEPT !.score = score, !.facts = facts]]
    /\ UNCHANGED <<promotion, gate, row, event, dossier, evidence, archive, workerVars>>

\* The gated insert: a new queue row, or an old one that loses its bridge.
Admitted(t) ==
    IF row[t] = None THEN [status |-> "queued", owner |-> None, refresh |-> None]
    ELSE [row[t] EXCEPT !.refresh = None]

\* The trigger immutable_leased_refresh_bridge does not abort the gated insert.
CanAdmit(t) == HasStatus(t, "leased") => row[t].refresh = None

Decided(t, decision, state) ==
    [assessment EXCEPT ![t] = [@ EXCEPT !.decision = decision, !.state = state]]

\* apply_gate reads the assessment in one transaction and decides on the copy.
ReadForGate(t) ==
    /\ assessment[t] # None
    /\ gate[t] = None
    /\ gate' = [gate EXCEPT ![t] =
          IF assessment[t].score \in Passing THEN "pass" ELSE "reject"]
    /\ UNCHANGED <<assessment, promotion, row, event, dossier, evidence, archive, workerVars>>

GatePass(t) ==
    /\ gate[t] = "pass"
    /\ CanAdmit(t)
    /\ assessment' = Decided(t, "pass", "employer_research_queued")
    /\ row' = [row EXCEPT ![t] = Admitted(t)]
    /\ gate' = [gate EXCEPT ![t] = None]
    /\ UNCHANGED <<promotion, event, dossier, evidence, archive, workerVars>>

\* The trigger aborts the whole transaction, the decision included.
GateAborts(t) ==
    /\ gate[t] = "pass"
    /\ ~CanAdmit(t)
    /\ gate' = [gate EXCEPT ![t] = None]
    /\ UNCHANGED <<assessment, promotion, row, event, dossier, evidence, archive, workerVars>>

GateReject(t) ==
    /\ gate[t] = "reject"
    /\ assessment' = Decided(t, "reject", "opportunity_rejected")
    /\ row' = IF HasStatus(t, "queued") THEN [row EXCEPT ![t] = None] ELSE row
    /\ gate' = [gate EXCEPT ![t] = None]
    /\ UNCHANGED <<promotion, event, dossier, evidence, archive, workerVars>>

\* promote_processing_gate seals the current score.
Promote(t) ==
    /\ assessment[t] # None
    /\ promotion[t] = None
    /\ CanAdmit(t)
    /\ promotion' = [promotion EXCEPT ![t] = assessment[t].score]
    /\ assessment' = Decided(t, "promoted", "opportunity_promoted")
    /\ row' = [row EXCEPT ![t] = Admitted(t)]
    /\ UNCHANGED <<gate, event, dossier, evidence, archive, workerVars>>

\* The same promotion again: decided by it, with the score that it sealed.
PromoteAgain(t) ==
    /\ assessment[t] # None
    /\ promotion[t] = assessment[t].score
    /\ assessment[t].decision = "promoted"
    /\ CanAdmit(t)
    /\ row' = [row EXCEPT ![t] = Admitted(t)]
    /\ UNCHANGED <<assessment, promotion, gate, event, dossier, evidence, archive, workerVars>>

-------------------------------------------------------------------------------
(***************************************************************************)
(* A worker: claim, research, complete or fail.                            *)
(***************************************************************************)
\* The admitted refresh of the row starts from the dossier that is stored.
BridgeHolds(t) == row[t].refresh # None => event[t][row[t].refresh] = dossier[t]

Working(w, t) == pc[w] # "idle" /\ task[w].key = t

\* w works under the lease of the row.
Holds(w, t) ==
    Working(w, t) /\ HasStatus(t, "leased") /\ row[t].owner = Identity[w]

ClaimQueuedOnly(w, t) ==      \* mutant: a lease that expired is never claimed again
    /\ pc[w] = "idle"
    /\ HasStatus(t, "queued")
    /\ BridgeHolds(t)
    /\ row' = [row EXCEPT ![t] = [@ EXCEPT !.status = "leased", !.owner = Identity[w]]]
    /\ task' = [task EXCEPT ![w] =
          [key |-> t, facts |-> assessment[t].facts,
           promoted |-> promotion[t] # None, refresh |-> row[t].refresh]]
    /\ pc' = [pc EXCEPT ![w] = "research"]
    /\ UNCHANGED <<assessment, promotion, gate, event, dossier, evidence, archive,
                    made, faults>>

\* claim_research: a queued row, or a leased one whose lease has expired.
Claim(w, t) ==
    /\ pc[w] = "idle"
    /\ HasStatus(t, "queued") \/ HasStatus(t, "leased")
    /\ BridgeHolds(t)
    /\ IF \E v \in Workers : Holds(v, t)
       THEN faults < MaxFaults /\ faults' = faults + 1
       ELSE UNCHANGED faults
    /\ row' = [row EXCEPT ![t] = [@ EXCEPT !.status = "leased", !.owner = Identity[w]]]
    /\ task' = [task EXCEPT ![w] =
          [key |-> t, facts |-> assessment[t].facts,
           promoted |-> promotion[t] # None, refresh |-> row[t].refresh]]
    /\ pc' = [pc EXCEPT ![w] = "research"]
    /\ UNCHANGED <<assessment, promotion, gate, event, dossier, evidence, archive, made>>

\* The provider archives its sources and returns a dossier bound to the task.
Research(w) ==
    /\ pc[w] = "research"
    /\ task[w].promoted
    /\ LET d == [facts |-> task[w].facts, refresh |-> task[w].refresh] IN
          /\ made' = [made EXCEPT ![w] = d]
          /\ archive' = [archive EXCEPT ![task[w].key] = @ \cup {d}]
    /\ pc' = [pc EXCEPT ![w] = "complete"]
    /\ UNCHANGED <<assessment, promotion, gate, row, event, dossier, evidence, task, faults>>

\* A provider of the v1 schema: no bindings, no archive.
ResearchLegacy(w) ==
    /\ pc[w] = "research"
    /\ made' = [made EXCEPT ![w] = Legacy]
    /\ pc' = [pc EXCEPT ![w] = "complete"]
    /\ UNCHANGED <<storeVars, task, faults>>

ProviderFails(w) ==
    /\ pc[w] = "research"
    /\ pc' = [pc EXCEPT ![w] = "fail"]
    /\ UNCHANGED <<storeVars, task, made, faults>>

Done(w) ==
    /\ pc' = [pc EXCEPT ![w] = "idle"]
    /\ task' = [task EXCEPT ![w] = None]
    /\ made' = [made EXCEPT ![w] = None]

AcceptsAnyLease(w) ==      \* mutant: the owner of the lease is not compared
    LET t == task[w].key IN
    /\ made[w] # Legacy => made[w] \in archive[t]
    /\ HasStatus(t, "leased")
    /\ BridgeHolds(t)
    /\ row[t].refresh # None => made[w] # Legacy

\* complete_research accepts: archived evidence, the lease, the bridge.
Accepts(w) ==
    LET t == task[w].key IN
    /\ made[w] # Legacy => made[w] \in archive[t]
    /\ HasStatus(t, "leased") /\ row[t].owner = Identity[w]
    /\ BridgeHolds(t)
    /\ row[t].refresh # None => made[w] # Legacy

Complete(w) ==
    /\ pc[w] = "complete"
    /\ Accepts(w)
    /\ LET t == task[w].key IN
          /\ dossier' = [dossier EXCEPT ![t] = made[w]]
          /\ evidence' = [evidence EXCEPT ![t] = IF made[w] = Legacy THEN None ELSE made[w]]
          /\ row' = [row EXCEPT ![t] = [@ EXCEPT !.status = "completed", !.owner = None]]
          /\ assessment' = [assessment EXCEPT ![t] = [@ EXCEPT !.state = "employer_researched"]]
    /\ Done(w)
    /\ UNCHANGED <<promotion, gate, event, archive, faults>>

CompleteRaises(w) ==
    /\ pc[w] = "complete"
    /\ ~Accepts(w)
    /\ pc' = [pc EXCEPT ![w] = "fail"]
    /\ UNCHANGED <<storeVars, task, made, faults>>

\* The row of w's task, back in the queue.
Returned(w, status) ==
    [row EXCEPT ![task[w].key] = [@ EXCEPT !.status = status, !.owner = None]]

FailAnyLease(w) ==      \* mutant: a failure requeues whatever state the row is in
    /\ pc[w] = "fail"
    /\ row' = IF row[task[w].key] = None THEN row ELSE Returned(w, "queued")
    /\ Done(w)
    /\ UNCHANGED <<assessment, promotion, gate, event, dossier, evidence, archive, faults>>

FailForGood(w) ==      \* mutant: a status that nothing in the store reads
    /\ pc[w] = "fail"
    /\ row' = IF Holds(w, task[w].key) THEN Returned(w, "failed") ELSE row
    /\ Done(w)
    /\ UNCHANGED <<assessment, promotion, gate, event, dossier, evidence, archive, faults>>

\* fail_research returns the row to the queue, or raises without the lease.
Fail(w) ==
    /\ pc[w] = "fail"
    /\ row' = IF Holds(w, task[w].key) THEN Returned(w, "queued") ELSE row
    /\ Done(w)
    /\ UNCHANGED <<assessment, promotion, gate, event, dossier, evidence, archive, faults>>

\* The process is killed: the lease stays until it expires.
Crash(w) ==
    /\ pc[w] # "idle"
    /\ faults < MaxFaults
    /\ faults' = faults + 1
    /\ Done(w)
    /\ UNCHANGED storeVars

-------------------------------------------------------------------------------
(***************************************************************************)
(* Completed research becomes stale.                                       *)
(***************************************************************************)
\* _has_current_v2_evidence.
CurrentEvidence(t) ==
    /\ evidence[t] # None
    /\ evidence[t] = dossier[t]
    /\ evidence[t].facts = assessment[t].facts
    /\ evidence[t] \in archive[t]

\* An archived receipt or object is removed or no longer matches its digest.
LoseArchive(t) ==
    /\ \E d \in archive[t] : archive' = [archive EXCEPT ![t] = @ \ {d}]
    /\ UNCHANGED <<assessment, promotion, gate, row, event, dossier, evidence, workerVars>>

RequeuedWithEvidence(t, refresh) ==      \* mutant: the old evidence is not deleted
    /\ row' = [row EXCEPT ![t] = [status |-> "queued", owner |-> None, refresh |-> refresh]]
    /\ assessment' = [assessment EXCEPT ![t] = [@ EXCEPT !.state = "employer_research_queued"]]
    /\ UNCHANGED evidence

\* A completed row goes back to the queue, bound to a refresh or to none.
Requeued(t, refresh) ==
    /\ row' = [row EXCEPT ![t] = [status |-> "queued", owner |-> None, refresh |-> refresh]]
    /\ evidence' = [evidence EXCEPT ![t] = None]
    /\ assessment' = [assessment EXCEPT ![t] = [@ EXCEPT !.state = "employer_research_queued"]]

\* refresh_completed_research_if_needed without a receipt.
RequeueInvalid(t) ==
    /\ HasStatus(t, "completed")
    /\ ~CurrentEvidence(t)
    /\ Requeued(t, row[t].refresh)
    /\ UNCHANGED <<promotion, gate, event, dossier, archive, workerVars>>

\* _has_current_v2_refresh_chain: the dossier was made under the row's refresh.
CurrentChain(t) ==
    /\ CurrentEvidence(t)
    /\ row[t].refresh # None
    /\ dossier[t].refresh = row[t].refresh

AdmitReplayed(t, r) ==      \* mutant: a receipt that was admitted is admitted again
    /\ HasStatus(t, "completed")
    /\ promotion[t] # None
    /\ r \in Direct \/ CurrentChain(t)
    /\ event' = [event EXCEPT ![t][r] = dossier[t]]
    /\ Requeued(t, r)
    /\ UNCHANGED <<promotion, gate, dossier, archive, workerVars>>

\* _requeue_from_unchanged_collection_refresh of a receipt not admitted before.
AdmitRefresh(t, r) ==
    /\ HasStatus(t, "completed")
    /\ promotion[t] # None
    /\ event[t][r] = None
    /\ r \in Direct \/ CurrentChain(t)
    /\ event' = [event EXCEPT ![t][r] = dossier[t]]
    /\ Requeued(t, r)
    /\ UNCHANGED <<promotion, gate, dossier, archive, workerVars>>

-------------------------------------------------------------------------------
Store(t) ==
    \/ \E score \in Scores, facts \in Facts : Assess(t, score, facts)
    \/ ReadForGate(t) \/ GatePass(t) \/ GateAborts(t) \/ GateReject(t)
    \/ Promote(t) \/ PromoteAgain(t)
    \/ LoseArchive(t) \/ RequeueInvalid(t)
    \/ \E r \in Refreshes : AdmitRefresh(t, r)

\* The steps that a worker takes on a task it has claimed.
Work(w) ==
    \/ Research(w) \/ ResearchLegacy(w) \/ ProviderFails(w)
    \/ Complete(w) \/ CompleteRaises(w) \/ Fail(w)

Next ==
    \/ \E t \in Tasks : Store(t)
    \/ \E w \in Workers : Work(w) \/ Crash(w)
    \/ \E w \in Workers, t \in Tasks : Claim(w, t)

Spec == Init /\ [][Next]_vars

\* A worker that runs finishes its call, and workers keep being run for a task.
Fairness ==
    /\ \A w \in Workers : WF_vars(Work(w))
    /\ \A t \in Tasks : SF_vars(\E w \in Workers : Claim(w, t))

LiveSpec == Spec /\ Fairness

-------------------------------------------------------------------------------
(***************************************************************************)
(* Properties.                                                             *)
(***************************************************************************)

\* Evidence that the handoff reads is never left behind: it exists only while
\* the row is completed, and it binds the very dossier that is stored, of a
\* promoted vacancy (complete_research, and every path back to the queue).
EvidenceIsOfStoredDossier ==
    \A t \in Tasks : evidence[t] # None =>
        /\ HasStatus(t, "completed")
        /\ evidence[t] = dossier[t]
        /\ promotion[t] # None

\* The dossier stored for t was researched under refresh r.
MadeUnder(t, r) == dossier[t] \in Bound /\ dossier[t].refresh = r

\* A row that is bound to an admitted refresh either still waits for it, over
\* the dossier that the refresh was admitted over, or has the dossier that was
\* researched under that very refresh: no worker whose lease expired can
\* complete a refreshed row with what it researched before the refresh.
BridgePendingOrDone ==
    \A t \in Tasks : row[t] # None /\ row[t].refresh # None =>
        IF BridgeHolds(t) THEN row[t].status # "completed"
        ELSE row[t].status # "leased" /\ MadeUnder(t, row[t].refresh)

\* An assessment that says employer_researched has a completed queue row and a
\* stored dossier, whatever gate decisions and requeues raced with the worker.
ResearchedIsCompleted ==
    \A t \in Tasks : assessment[t] # None /\ assessment[t].state = "employer_researched" =>
        HasStatus(t, "completed") /\ dossier[t] # None

\* A refresh is bound to a row only when it is admitted, over the dossier of
\* completed research, and once: no replay, gate or promotion brings it back.
RefreshBoundOnce ==
    [][\A t \in Tasks :
          LET bound == IF row'[t] = None THEN None ELSE row'[t].refresh
              was == IF row[t] = None THEN None ELSE row[t].refresh IN
          bound # None /\ bound # was =>
              /\ HasStatus(t, "completed")
              /\ event[t][bound] = None
              /\ event'[t][bound] = dossier[t]]_vars

\* A lease does not outlive its worker for ever: a leased row is completed or
\* returned to the queue, also when the worker is killed or loses its lease.
LeaseIsResolved ==
    \A t \in Tasks : HasStatus(t, "leased") ~> ~HasStatus(t, "leased")

\* Research is claimed only for a vacancy whose latest decision is a pass.
ClaimedIsPassed ==
    [][\A t \in Tasks :
          ~HasStatus(t, "leased") /\ HasStatus(t, "leased")' => Passed(t)]_vars

\* A row that was put back into the queue can be claimed.
QueuedIsClaimable ==
    \A t \in Tasks : HasStatus(t, "queued") => BridgeHolds(t)
===============================================================================
