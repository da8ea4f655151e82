------------------------- MODULE ResearchQueueProofs -------------------------
(***************************************************************************)
(* Proofs about ResearchQueue, for any number of vacancies, workers,       *)
(* refreshes and crashes.  The invariant says of every task that its row,  *)
(* its dossier, its evidence and its admitted refreshes belong together,   *)
(* and of every worker that what it remembers of its task still binds.     *)
(***************************************************************************)
EXTENDS ResearchQueue, TLAPS

USE ResearchAssumption

\* The refreshes admitted for t: each over a dossier made before it.
EventsOK(t) ==
    \A r \in Refreshes :
        /\ event[t][r] \in Bound => event[t][r].refresh # r
        /\ MadeUnder(t, r) => event[t][r] # None

RowOK(t) ==
    row[t] # None =>
        /\ assessment[t] # None
        /\ row[t].status = "completed" => dossier[t] # None
        /\ row[t].refresh # None => event[t][row[t].refresh] # None

BridgeOK(t) ==
    row[t] # None /\ row[t].refresh # None =>
        IF BridgeHolds(t) THEN row[t].status # "completed"
        ELSE row[t].status # "leased" /\ MadeUnder(t, row[t].refresh)

EvidenceOK(t) ==
    evidence[t] # None =>
        HasStatus(t, "completed") /\ evidence[t] = dossier[t] /\ promotion[t] # None

StateOK(t) ==
    assessment[t] # None /\ assessment[t].state = "employer_researched" =>
        HasStatus(t, "completed") /\ dossier[t] # None

TaskOK(t) ==
    /\ gate[t] # None => assessment[t] # None
    /\ RowOK(t) /\ EventsOK(t) /\ EvidenceOK(t) /\ StateOK(t)
    /\ DistinctIdentities => BridgeOK(t)

\* What worker w knows of its task is still true of the store.
WorkerOK(w) ==
    pc[w] # "idle" =>
        /\ task[w] # None
        /\ assessment[task[w].key] # None
        /\ task[w].promoted => promotion[task[w].key] # None
        /\ task[w].refresh # None => event[task[w].key][task[w].refresh] # None
        /\ pc[w] = "complete" =>
              /\ made[w] # None
              /\ made[w] # Legacy => task[w].promoted /\ made[w].refresh = task[w].refresh
        /\ DistinctIdentities /\ Holds(w, task[w].key) =>
              row[task[w].key].refresh = task[w].refresh

ResearchInv ==
    /\ TypeOK
    /\ \A t \in Tasks : TaskOK(t)
    /\ \A w \in Workers : WorkerOK(w)

-------------------------------------------------------------------------------
(***************************************************************************)
(* Frames: what a step leaves alone stays right.                           *)
(***************************************************************************)

\* The row of t in the tables of the store, as seen before and after a step.
Untouched(t) ==
    /\ assessment'[t] = assessment[t] /\ promotion'[t] = promotion[t]
    /\ gate'[t] = gate[t] /\ row'[t] = row[t] /\ event'[t] = event[t]
    /\ dossier'[t] = dossier[t] /\ evidence'[t] = evidence[t]

\* What no step takes away from a task.
Grows(t) ==
    /\ assessment[t] # None => assessment'[t] # None
    /\ promotion[t] # None => promotion'[t] # None
    /\ \A r \in Refreshes : event[t][r] # None => event'[t][r] # None

\* A lease that worker w has after the step it had before, on the same bridge.
NoNewLease(w, t) ==
    HasStatus(t, "leased")' /\ row'[t].owner = Identity[w] =>
        /\ HasStatus(t, "leased")
        /\ row[t].owner = Identity[w]
        /\ row'[t].refresh = row[t].refresh

WorkerRests(w) == pc'[w] = pc[w] /\ task'[w] = task[w] /\ made'[w] = made[w]

\* NULL is no row, no value of a column and no dossier.
LEMMA NullIsNoValue ==
    /\ None \notin Assessments /\ None \notin QueueRows /\ None \notin Dossiers
    /\ None \notin Bound /\ None \notin ResearchTasks /\ None \notin Scores
    /\ None \notin Refreshes /\ None # "pass" /\ None # "reject" /\ None # Legacy
BY DEF Dossiers

\* A task whose rows a step leaves alone stays right.
LEMMA UntouchedTask ==
    ASSUME NEW t \in Tasks, TaskOK(t), Untouched(t)
    PROVE  TaskOK(t)'
<1>1. RowOK(t)' /\ EventsOK(t)' /\ EvidenceOK(t)' /\ StateOK(t)'
  BY DEF TaskOK, Untouched, RowOK, EventsOK, EvidenceOK, StateOK, HasStatus, MadeUnder
<1>2. BridgeOK(t) => BridgeOK(t)'
  BY DEF Untouched, BridgeOK, BridgeHolds, MadeUnder
<1> QED
  BY <1>1, <1>2 DEF TaskOK, Untouched, DistinctIdentities

\* A worker that does not move keeps its knowledge when tasks only grow.
LEMMA RestingWorker ==
    ASSUME TypeOK, NEW w \in Workers, WorkerOK(w), WorkerRests(w),
           \A t \in Tasks : Grows(t),
           \A t \in Tasks : Working(w, t) /\ DistinctIdentities => NoNewLease(w, t)
    PROVE  WorkerOK(w)'
<1> SUFFICES ASSUME pc[w] # "idle"
             PROVE  WorkerOK(w)'
  BY DEF WorkerOK, WorkerRests
<1>1. task[w] \in ResearchTasks /\ task[w].key \in Tasks
  BY DEF TypeOK, WorkerOK, ResearchTasks
<1>2. /\ pc'[w] = pc[w] /\ task'[w] = task[w] /\ made'[w] = made[w]
      /\ Working(w, task[w].key)
  BY DEF WorkerRests, Working
<1>3. task[w].refresh \in Refreshes \cup {None}
  BY <1>1 DEF ResearchTasks
<1>4. DistinctIdentities' = DistinctIdentities
  BY DEF DistinctIdentities
<1>5. ASSUME DistinctIdentities, Holds(w, task[w].key)'
      PROVE  row'[task[w].key].refresh = task[w].refresh
  <2>1. NoNewLease(w, task[w].key)
    BY <1>1, <1>2, <1>5
  <2>2. Holds(w, task[w].key) /\ row'[task[w].key].refresh = row[task[w].key].refresh
    BY <1>2, <1>5, <2>1 DEF NoNewLease, Holds, Working
  <2> QED
    BY <1>5, <2>2 DEF WorkerOK
<1> QED
  BY <1>1, <1>2, <1>3, <1>4, <1>5, <1>2 DEF WorkerOK, Grows, Holds, Working

\* A transaction on one task by nobody's worker.
LEMMA StoreStep ==
    ASSUME ResearchInv, NEW t \in Tasks, UNCHANGED workerVars,
           \A s \in Tasks \ {t} : Untouched(s),
           Grows(t), \A w \in Workers : NoNewLease(w, t),
           TypeOK', TaskOK(t)'
    PROVE  ResearchInv'
<1>1. \A s \in Tasks : TaskOK(s)'
  BY UntouchedTask DEF ResearchInv
<1>2. \A s \in Tasks : Grows(s)
  BY DEF Untouched, Grows
<1>3. \A w \in Workers, s \in Tasks : NoNewLease(w, s)
  BY DEF Untouched, NoNewLease, HasStatus
<1>4. \A w \in Workers : WorkerRests(w)
  BY DEF workerVars, WorkerRests
<1>5. \A w \in Workers : WorkerOK(w)'
  BY <1>2, <1>3, <1>4, RestingWorker DEF ResearchInv
<1> QED
  BY <1>1, <1>5 DEF ResearchInv

-------------------------------------------------------------------------------
(***************************************************************************)
(* Assessment, gate and promotion.                                         *)
(***************************************************************************)

\* A new score or new facts leave decision, state and queue alone.
LEMMA AssessKeeps ==
    ASSUME ResearchInv, NEW t \in Tasks, NEW score \in Scores, NEW facts \in Facts,
           Assess(t, score, facts)
    PROVE  ResearchInv'
<1>1. /\ assessment \in [Tasks -> Assessments \cup {None}] /\ TypeOK /\ TaskOK(t)
      /\ UNCHANGED <<promotion, gate, row, event, dossier, evidence, archive, workerVars>>
  BY DEF ResearchInv, TypeOK, Assess
<1> DEFINE a == IF assessment[t] = None
                THEN [score |-> score, facts |-> facts, decision |-> "none", state |-> "scored"]
                ELSE [assessment[t] EXCEPT !.score = score, !.facts = facts]
<1>2. assessment' = [assessment EXCEPT ![t] = a]
  BY DEF Assess
<1>3. a \in Assessments /\ a # None
  <2>1. CASE assessment[t] = None
    BY <2>1 DEF Assessments, Decisions, States
  <2>2. CASE assessment[t] # None
    BY <1>1, <2>2 DEF Assessments
  <2> QED
    BY <2>1, <2>2, NullIsNoValue
<1>4. a.state = "employer_researched" =>
         assessment[t] # None /\ assessment[t].state = "employer_researched"
  BY <1>1 DEF Assessments
<1> HIDE DEF a
<1>5. assessment'[t] = a /\ \A u \in Tasks \ {t} : assessment'[u] = assessment[u]
  BY <1>1, <1>2
<1>6. TypeOK'
  BY <1>1, <1>2, <1>3 DEF TypeOK, workerVars
<1>7. TaskOK(t)'
  <2>1. RowOK(t)' /\ EventsOK(t)' /\ EvidenceOK(t)' /\ StateOK(t)'
    BY <1>1, <1>3, <1>4, <1>5
    DEF TaskOK, RowOK, EventsOK, EvidenceOK, StateOK, HasStatus, MadeUnder
  <2> QED
    BY <1>1, <1>3, <1>5, <2>1
    DEF TaskOK, BridgeOK, BridgeHolds, MadeUnder, DistinctIdentities
<1> QED
  BY <1>1, <1>3, <1>5, <1>6, <1>7, StoreStep DEF Untouched, Grows, NoNewLease, HasStatus

\* The gated insert makes a row that fits its task and grants no lease.
LEMMA AdmittedRow ==
    ASSUME TypeOK, NEW t \in Tasks, TaskOK(t), CanAdmit(t), row'[t] = Admitted(t)
    PROVE  /\ Admitted(t) \in QueueRows /\ Admitted(t) # None
           /\ Admitted(t).refresh = None
           /\ row[t] = None => Admitted(t).status = "queued"
           /\ row[t] # None => Admitted(t).status = row[t].status
           /\ \A w \in Workers : NoNewLease(w, t)
<1>1. row[t] \in QueueRows \cup {None}
  BY DEF TypeOK
<1>2. CASE row[t] = None
  <2>1. Admitted(t) = [status |-> "queued", owner |-> None, refresh |-> None]
    BY <1>2 DEF Admitted
  <2> QED
    BY <1>2, <2>1, NullIsNoValue DEF QueueRows, NoNewLease, HasStatus
<1>3. CASE row[t] # None
  <2>1. Admitted(t) = [row[t] EXCEPT !.refresh = None]
    BY <1>3 DEF Admitted
  <2>2. /\ Admitted(t) \in QueueRows /\ Admitted(t).refresh = None
        /\ Admitted(t).status = row[t].status /\ Admitted(t).owner = row[t].owner
    BY <1>1, <1>3, <2>1 DEF QueueRows
  <2> QED
    BY <1>3, <2>2, NullIsNoValue DEF CanAdmit, NoNewLease, HasStatus
<1> QED
  BY <1>2, <1>3

\* A step that admits t into the queue, with a decision or without one.
LEMMA AdmitStep ==
    ASSUME ResearchInv, NEW t \in Tasks, CanAdmit(t),
           row' = [row EXCEPT ![t] = Admitted(t)],
           UNCHANGED <<event, dossier, evidence, archive, workerVars>>,
           gate' \in [Tasks -> {"pass", "reject", None}],
           promotion' \in [Tasks -> Scores \cup {None}],
           promotion[t] # None => promotion'[t] # None,
           assessment[t] # None,
           \/ UNCHANGED assessment
           \/ \E decision \in Decisions, state \in States \ {"employer_researched"} :
                 assessment' = Decided(t, decision, state),
           \A u \in Tasks \ {t} : gate'[u] = gate[u] /\ promotion'[u] = promotion[u]
    PROVE  ResearchInv'
<1>1. /\ TypeOK /\ TaskOK(t) /\ row \in [Tasks -> QueueRows \cup {None}]
      /\ assessment \in [Tasks -> Assessments \cup {None}]
  BY DEF ResearchInv, TypeOK
<1>2. row'[t] = Admitted(t) /\ \A u \in Tasks \ {t} : row'[u] = row[u]
  BY <1>1
<1>3. /\ Admitted(t) \in QueueRows /\ Admitted(t) # None
      /\ Admitted(t).refresh = None
      /\ row[t] = None => Admitted(t).status = "queued"
      /\ row[t] # None => Admitted(t).status = row[t].status
      /\ \A w \in Workers : NoNewLease(w, t)
  BY <1>1, <1>2, AdmittedRow
<1>4. /\ assessment' \in [Tasks -> Assessments \cup {None}] /\ assessment'[t] # None
      /\ \A u \in Tasks \ {t} : assessment'[u] = assessment[u]
      /\ assessment'[t].state = "employer_researched" =>
            assessment[t].state = "employer_researched"
  <2>1. CASE UNCHANGED assessment
    BY <1>1, <2>1
  <2>2. CASE \E decision \in Decisions, state \in States \ {"employer_researched"} :
                assessment' = Decided(t, decision, state)
    <3>1. PICK decision \in Decisions, state \in States \ {"employer_researched"} :
                assessment' = Decided(t, decision, state)
      BY <2>2
    <3>2. assessment' = [assessment EXCEPT ![t] =
                            [assessment[t] EXCEPT !.decision = decision, !.state = state]]
      BY <3>1 DEF Decided
    <3>3. assessment[t] \in Assessments
      BY <1>1
    <3>4. /\ [assessment[t] EXCEPT !.decision = decision, !.state = state] \in Assessments
          /\ [assessment[t] EXCEPT !.decision = decision, !.state = state].state = state
      BY <3>3 DEF Assessments
    <3> QED
      BY <1>1, <3>2, <3>3, <3>4, NullIsNoValue
  <2> QED
    BY <2>1, <2>2
<1>5. TypeOK'
  BY <1>1, <1>3, <1>4 DEF TypeOK, workerVars
<1>6. TaskOK(t)'
  <2>1. RowOK(t)' /\ EventsOK(t)'
    BY <1>1, <1>2, <1>3, <1>4 DEF TaskOK, RowOK, EventsOK, MadeUnder, CanAdmit, HasStatus
  <2>2. EvidenceOK(t)' /\ StateOK(t)'
    BY <1>1, <1>2, <1>3, <1>4 DEF TaskOK, EvidenceOK, StateOK, HasStatus
  <2>3. BridgeOK(t)'
    BY <1>2, <1>3 DEF BridgeOK
  <2> QED
    BY <1>4, <2>1, <2>2, <2>3 DEF TaskOK
<1> QED
  BY <1>2, <1>3, <1>4, <1>5, <1>6, StoreStep DEF Untouched, Grows

\* The gate's decision concerns a copy: reading it changes no row.
LEMMA ReadForGateKeeps ==
    ASSUME ResearchInv, NEW t \in Tasks, ReadForGate(t)
    PROVE  ResearchInv'
<1>1. TypeOK /\ TaskOK(t) /\ gate \in [Tasks -> {"pass", "reject", None}]
  BY DEF ResearchInv, TypeOK
<1>2. TypeOK'
  BY <1>1 DEF TypeOK, ReadForGate, workerVars
<1>3. /\ RowOK(t)' /\ EventsOK(t)' /\ EvidenceOK(t)' /\ StateOK(t)'
      /\ BridgeOK(t) => BridgeOK(t)'
  BY <1>1 DEF ReadForGate, TaskOK, RowOK, EventsOK, EvidenceOK, StateOK, BridgeOK,
              BridgeHolds, HasStatus, MadeUnder
<1>4. TaskOK(t)'
  BY <1>1, <1>3 DEF TaskOK, ReadForGate, DistinctIdentities
<1> QED
  BY <1>1, <1>2, <1>4, StoreStep DEF ReadForGate, Untouched, Grows, NoNewLease, HasStatus

\* A decision to pass admits the task into the queue.
LEMMA GatePassKeeps ==
    ASSUME ResearchInv, NEW t \in Tasks, GatePass(t)
    PROVE  ResearchInv'
<1>1. TypeOK /\ TaskOK(t) /\ gate \in [Tasks -> {"pass", "reject", None}]
  BY DEF ResearchInv, TypeOK
<1>2. assessment[t] # None /\ assessment' = Decided(t, "pass", "employer_research_queued")
  BY <1>1, NullIsNoValue DEF GatePass, TaskOK
<1>3. "pass" \in Decisions /\ "employer_research_queued" \in States \ {"employer_researched"}
  BY DEF Decisions, States
<1>4. /\ gate' \in [Tasks -> {"pass", "reject", None}]
      /\ \A u \in Tasks \ {t} : gate'[u] = gate[u]
  BY <1>1 DEF GatePass
<1> QED
  BY <1>1, <1>2, <1>3, <1>4, AdmitStep DEF GatePass, TypeOK

\* A decision that the trigger aborts leaves only the gate's copy behind.
LEMMA GateAbortsKeeps ==
    ASSUME ResearchInv, NEW t \in Tasks, GateAborts(t)
    PROVE  ResearchInv'
<1>1. TypeOK /\ TaskOK(t) /\ gate \in [Tasks -> {"pass", "reject", None}]
  BY DEF ResearchInv, TypeOK
<1>2. TypeOK'
  BY <1>1 DEF TypeOK, GateAborts, workerVars
<1>3. /\ RowOK(t)' /\ EventsOK(t)' /\ EvidenceOK(t)' /\ StateOK(t)'
      /\ BridgeOK(t) => BridgeOK(t)'
  BY <1>1 DEF GateAborts, TaskOK, RowOK, EventsOK, EvidenceOK, StateOK, BridgeOK,
              BridgeHolds, HasStatus, MadeUnder
<1>4. TaskOK(t)'
  BY <1>1, <1>3 DEF TaskOK, GateAborts, DistinctIdentities
<1> QED
  BY <1>1, <1>2, <1>4, StoreStep DEF GateAborts, Untouched, Grows, NoNewLease, HasStatus

\* A rejection takes a waiting row away and leaves a leased or completed one.
LEMMA GateRejectKeeps ==
    ASSUME ResearchInv, NEW t \in Tasks, GateReject(t)
    PROVE  ResearchInv'
<1>1. /\ TypeOK /\ TaskOK(t) /\ gate \in [Tasks -> {"pass", "reject", None}]
      /\ row \in [Tasks -> QueueRows \cup {None}]
      /\ assessment \in [Tasks -> Assessments \cup {None}]
  BY DEF ResearchInv, TypeOK
<1>2. assessment[t] # None /\ assessment[t] \in Assessments
  BY <1>1, NullIsNoValue DEF GateReject, TaskOK
<1> DEFINE a == [assessment[t] EXCEPT !.decision = "reject", !.state = "opportunity_rejected"]
<1>3. a \in Assessments /\ a.state = "opportunity_rejected"
  BY <1>2 DEF Assessments, Decisions, States
<1>4. assessment' = [assessment EXCEPT ![t] = a]
  BY DEF GateReject, Decided
<1> HIDE DEF a
<1>5. assessment'[t] = a /\ a # None /\ \A u \in Tasks \ {t} : assessment'[u] = assessment[u]
  BY <1>1, <1>3, <1>4, NullIsNoValue
<1>6. /\ row'[t] = None \/ (row'[t] = row[t] /\ ~HasStatus(t, "queued"))
      /\ row' \in [Tasks -> QueueRows \cup {None}]
      /\ \A u \in Tasks \ {t} : row'[u] = row[u]
      /\ HasStatus(t, "queued") \/ row'[t] = row[t]
  <2>1. CASE HasStatus(t, "queued")
    BY <1>1, <2>1 DEF GateReject
  <2>2. CASE ~HasStatus(t, "queued")
    BY <1>1, <2>2 DEF GateReject
  <2> QED
    BY <2>1, <2>2
<1>7. TypeOK'
  <2>1. assessment' \in [Tasks -> Assessments \cup {None}]
    BY <1>1, <1>3, <1>4
  <2>2. gate' \in [Tasks -> {"pass", "reject", None}]
    BY <1>1 DEF GateReject
  <2>3. UNCHANGED <<promotion, event, dossier, evidence, archive, workerVars>>
    BY DEF GateReject
  <2> QED
    BY <1>1, <1>6, <2>1, <2>2, <2>3 DEF TypeOK, workerVars
<1>8. HasStatus(t, "completed") => row'[t] = row[t]
  BY <1>6 DEF HasStatus
<1>9. TaskOK(t)'
  <2>1. RowOK(t)' /\ EventsOK(t)'
    BY <1>1, <1>5, <1>6 DEF GateReject, TaskOK, RowOK, EventsOK, MadeUnder
  <2>2. EvidenceOK(t)' /\ StateOK(t)'
    BY <1>1, <1>3, <1>5, <1>8 DEF GateReject, TaskOK, EvidenceOK, StateOK, HasStatus
  <2>3. BridgeOK(t) => BridgeOK(t)'
    BY <1>6 DEF GateReject, BridgeOK, BridgeHolds, MadeUnder
  <2> QED
    BY <1>1, <1>5, <2>1, <2>2, <2>3 DEF TaskOK, DistinctIdentities
<1> QED
  BY <1>1, <1>5, <1>6, <1>7, <1>9, StoreStep
  DEF GateReject, Untouched, Grows, NoNewLease, HasStatus

\* A promotion seals the score and admits the task into the queue.
LEMMA PromoteKeeps ==
    ASSUME ResearchInv, NEW t \in Tasks, Promote(t)
    PROVE  ResearchInv'
<1>1. /\ TypeOK /\ promotion \in [Tasks -> Scores \cup {None}]
      /\ assessment \in [Tasks -> Assessments \cup {None}]
      /\ gate \in [Tasks -> {"pass", "reject", None}]
  BY DEF ResearchInv, TypeOK
<1>2. assessment[t].score \in Scores
  BY <1>1 DEF Promote, Assessments
<1>3. "promoted" \in Decisions /\ "opportunity_promoted" \in States \ {"employer_researched"}
  BY DEF Decisions, States
<1>4. /\ promotion' \in [Tasks -> Scores \cup {None}]
      /\ \A u \in Tasks \ {t} : promotion'[u] = promotion[u]
  BY <1>1, <1>2 DEF Promote
<1>5. gate' = gate /\ promotion[t] = None /\ assessment[t] # None /\ CanAdmit(t)
  BY DEF Promote
<1>6. assessment' = Decided(t, "promoted", "opportunity_promoted")
  BY DEF Promote
<1> QED
  BY <1>1, <1>3, <1>4, <1>5, <1>6, AdmitStep DEF Promote

\* A promotion repeated admits the task again.
LEMMA PromoteAgainKeeps ==
    ASSUME ResearchInv, NEW t \in Tasks, PromoteAgain(t)
    PROVE  ResearchInv'
BY AdmitStep DEF PromoteAgain, ResearchInv, TypeOK

-------------------------------------------------------------------------------
(***************************************************************************)
(* Completed research becomes stale.                                       *)
(***************************************************************************)

\* Lost archive files change no row.
LEMMA LoseArchiveKeeps ==
    ASSUME ResearchInv, NEW t \in Tasks, LoseArchive(t)
    PROVE  ResearchInv'
<1>1. TypeOK /\ TaskOK(t) /\ archive \in [Tasks -> SUBSET Bound]
  BY DEF ResearchInv, TypeOK
<1>2. archive' \in [Tasks -> SUBSET Bound]
  BY <1>1 DEF LoseArchive
<1>3. TypeOK'
  BY <1>1, <1>2 DEF TypeOK, LoseArchive, workerVars
<1>4. \A s \in Tasks : Untouched(s)
  BY DEF LoseArchive, Untouched
<1>5. TaskOK(t)'
  BY <1>1, <1>4, UntouchedTask
<1> QED
  BY <1>3, <1>4, <1>5, StoreStep
  DEF LoseArchive, Untouched, Grows, NoNewLease, HasStatus

\* A row that goes back to the queue with the bridge it had or a new one that
\* is admitted over the stored dossier.
LEMMA RequeueStep ==
    ASSUME ResearchInv, NEW t \in Tasks, NEW r \in Refreshes \cup {None},
           HasStatus(t, "completed"), Requeued(t, r),
           UNCHANGED <<promotion, gate, dossier, archive, workerVars>>,
           event' \in [Tasks -> [Refreshes -> Dossiers \cup {None}]],
           \A u \in Tasks \ {t} : event'[u] = event[u],
           \A q \in Refreshes : event[t][q] # None => event'[t][q] # None,
           r # None => event'[t][r] # None,
           EventsOK(t)',
           DistinctIdentities /\ r # None => event'[t][r] = dossier[t] \/ MadeUnder(t, r)
    PROVE  ResearchInv'
<1>1. /\ TypeOK /\ TaskOK(t) /\ row \in [Tasks -> QueueRows \cup {None}]
      /\ assessment \in [Tasks -> Assessments \cup {None}]
      /\ evidence \in [Tasks -> Bound \cup {None}]
  BY DEF ResearchInv, TypeOK
<1> DEFINE q == [status |-> "queued", owner |-> None, refresh |-> r]
           a == [assessment[t] EXCEPT !.state = "employer_research_queued"]
<1>2. q \in QueueRows /\ q # None /\ q.status = "queued" /\ q.refresh = r
  <2>1. q \in QueueRows
    BY DEF QueueRows
  <2> QED
    BY <2>1, NullIsNoValue
<1>3. assessment[t] \in Assessments
  BY <1>1 DEF TaskOK, RowOK, HasStatus
<1>4. a \in Assessments /\ a.state = "employer_research_queued"
  BY <1>3 DEF Assessments, States
<1>5. /\ row' = [row EXCEPT ![t] = q]
      /\ assessment' = [assessment EXCEPT ![t] = a]
      /\ evidence' = [evidence EXCEPT ![t] = None]
  BY DEF Requeued
<1> HIDE DEF q, a
<1>6. /\ row'[t] = q /\ assessment'[t] = a /\ a # None /\ evidence'[t] = None
      /\ \A u \in Tasks \ {t} :
            row'[u] = row[u] /\ assessment'[u] = assessment[u] /\ evidence'[u] = evidence[u]
  BY <1>1, <1>4, <1>5, NullIsNoValue
<1>7. TypeOK'
  BY <1>1, <1>2, <1>4, <1>5 DEF TypeOK, workerVars
<1>8. TaskOK(t)'
  <2>1. RowOK(t)' /\ EvidenceOK(t)' /\ StateOK(t)'
    BY <1>2, <1>4, <1>6 DEF RowOK, EvidenceOK, StateOK
  <2>2. DistinctIdentities => BridgeOK(t)'
    BY <1>2, <1>6 DEF BridgeOK, BridgeHolds, MadeUnder
  <2> QED
    BY <1>6, <2>1, <2>2 DEF TaskOK, DistinctIdentities
<1> QED
  BY <1>2, <1>6, <1>7, <1>8, StoreStep DEF Untouched, Grows, NoNewLease, HasStatus

\* Completed research whose evidence is not current goes back on its bridge.
LEMMA RequeueInvalidKeeps ==
    ASSUME ResearchInv, NEW t \in Tasks, RequeueInvalid(t)
    PROVE  ResearchInv'
<1>1. TypeOK /\ TaskOK(t) /\ row[t] # None /\ HasStatus(t, "completed")
  BY DEF ResearchInv, RequeueInvalid, HasStatus
<1>2. row[t].refresh \in Refreshes \cup {None}
  BY <1>1 DEF TypeOK, QueueRows
<1>3. event' = event /\ dossier' = dossier
  BY DEF RequeueInvalid
<1>4. EventsOK(t)'
  BY <1>1, <1>3 DEF TaskOK, EventsOK, MadeUnder
<1>5. row[t].refresh # None => event[t][row[t].refresh] # None
  BY <1>1 DEF TaskOK, RowOK
<1>6. DistinctIdentities /\ row[t].refresh # None =>
         event[t][row[t].refresh] = dossier[t] \/ MadeUnder(t, row[t].refresh)
  BY <1>1 DEF TaskOK, BridgeOK, BridgeHolds
<1>7. event \in [Tasks -> [Refreshes -> Dossiers \cup {None}]]
  BY <1>1 DEF TypeOK
<1> QED
  BY <1>1, <1>2, <1>3, <1>4, <1>5, <1>6, <1>7, RequeueStep DEF RequeueInvalid

\* A refresh not admitted before is admitted over the stored dossier.
LEMMA AdmitRefreshKeeps ==
    ASSUME ResearchInv, NEW t \in Tasks, NEW r \in Refreshes, AdmitRefresh(t, r)
    PROVE  ResearchInv'
<1>1. /\ TypeOK /\ TaskOK(t) /\ row[t] # None /\ HasStatus(t, "completed")
      /\ event[t][r] = None /\ dossier' = dossier
  BY DEF ResearchInv, AdmitRefresh, HasStatus
<1>2. dossier[t] # None /\ dossier[t] \in Dossiers
  BY <1>1 DEF TypeOK, TaskOK, RowOK, HasStatus
<1>3. /\ event \in [Tasks -> [Refreshes -> Dossiers \cup {None}]]
      /\ event' = [event EXCEPT ![t][r] = dossier[t]]
  BY <1>1 DEF TypeOK, AdmitRefresh
<1>4. /\ event' \in [Tasks -> [Refreshes -> Dossiers \cup {None}]]
      /\ event'[t][r] = dossier[t]
      /\ \A u \in Tasks \ {t} : event'[u] = event[u]
      /\ \A q \in Refreshes \ {r} : event'[t][q] = event[t][q]
  BY <1>2, <1>3
<1>5. ~MadeUnder(t, r)
  BY <1>1 DEF TaskOK, EventsOK
<1>6. EventsOK(t)'
  BY <1>1, <1>2, <1>4, <1>5 DEF TaskOK, EventsOK, MadeUnder
<1>7. \A q \in Refreshes : event[t][q] # None => event'[t][q] # None
  BY <1>2, <1>4, NullIsNoValue
<1>8. r # None /\ event'[t][r] # None
  BY <1>2, <1>4, NullIsNoValue
<1> QED
  BY <1>1, <1>4, <1>6, <1>7, <1>8, RequeueStep DEF AdmitRefresh

-------------------------------------------------------------------------------
(***************************************************************************)
(* A worker: claim, research, complete or fail.                            *)
(***************************************************************************)

\* A step of worker w on task t, which gives no other worker a lease.
LEMMA WorkerStep ==
    ASSUME ResearchInv, NEW w \in Workers, NEW t \in Tasks,
           \A v \in Workers \ {w} : WorkerRests(v),
           \A s \in Tasks \ {t} : Untouched(s),
           Grows(t),
           \A v \in Workers \ {w} : DistinctIdentities => NoNewLease(v, t),
           TypeOK', TaskOK(t)', WorkerOK(w)'
    PROVE  ResearchInv'
<1>1. \A s \in Tasks : TaskOK(s)'
  BY UntouchedTask DEF ResearchInv
<1>2. \A s \in Tasks : Grows(s)
  BY DEF Untouched, Grows
<1>3. \A v \in Workers \ {w}, s \in Tasks : DistinctIdentities => NoNewLease(v, s)
  BY DEF Untouched, NoNewLease, HasStatus
<1>4. \A v \in Workers \ {w} : WorkerOK(v)'
  BY <1>2, <1>3, RestingWorker DEF ResearchInv
<1> QED
  BY <1>1, <1>4 DEF ResearchInv

\* A step of worker w that leaves the rows of the store alone.
LEMMA PrivateStep ==
    ASSUME ResearchInv, NEW w \in Workers,
           \A v \in Workers \ {w} : WorkerRests(v),
           UNCHANGED <<assessment, promotion, gate, row, event, dossier, evidence>>,
           TypeOK', WorkerOK(w)'
    PROVE  ResearchInv'
<1>1. \A s \in Tasks : Untouched(s) /\ Grows(s)
  BY DEF Untouched, Grows
<1>2. \A s \in Tasks : TaskOK(s)'
  BY <1>1, UntouchedTask DEF ResearchInv
<1>3. \A v \in Workers, s \in Tasks : NoNewLease(v, s)
  BY DEF NoNewLease, HasStatus
<1>4. \A v \in Workers \ {w} : WorkerOK(v)'
  BY <1>1, <1>3, RestingWorker DEF ResearchInv
<1> QED
  BY <1>2, <1>4 DEF ResearchInv

\* A claim leases the row to one worker and copies the row's bridge.
LEMMA ClaimKeeps ==
    ASSUME ResearchInv, NEW w \in Workers, NEW t \in Tasks, Claim(w, t)
    PROVE  ResearchInv'
<1>1. /\ TypeOK /\ TaskOK(t) /\ row[t] # None
      /\ row[t].status \in {"queued", "leased"}
      /\ row \in [Tasks -> QueueRows \cup {None}]
      /\ task \in [Workers -> ResearchTasks \cup {None}]
      /\ pc \in [Workers -> {"idle", "research", "complete", "fail"}]
      /\ faults \in 0..MaxFaults
  BY DEF ResearchInv, TypeOK, Claim, HasStatus
<1>2. assessment[t] # None /\ assessment[t] \in Assessments /\ row[t] \in QueueRows
  BY <1>1 DEF TypeOK, TaskOK, RowOK
<1> DEFINE q == [row[t] EXCEPT !.status = "leased", !.owner = Identity[w]]
           k == [key |-> t, facts |-> assessment[t].facts,
                 promoted |-> promotion[t] # None, refresh |-> row[t].refresh]
<1>3. /\ q \in QueueRows /\ q.status = "leased" /\ q.owner = Identity[w]
      /\ q.refresh = row[t].refresh
  BY <1>2 DEF QueueRows, Ids
<1>4. row[t].refresh \in Refreshes \cup {None} /\ assessment[t].facts \in Facts
  BY <1>2 DEF QueueRows, Assessments
<1>5. k \in ResearchTasks
  BY <1>4 DEF ResearchTasks
<1>6. /\ k.key = t /\ k.refresh = row[t].refresh
      /\ k.promoted => promotion[t] # None
  OBVIOUS
<1>7. /\ row' = [row EXCEPT ![t] = q] /\ task' = [task EXCEPT ![w] = k]
      /\ pc' = [pc EXCEPT ![w] = "research"] /\ BridgeHolds(t)
      /\ UNCHANGED <<assessment, promotion, gate, event, dossier, evidence, archive,
                     made>>
  BY DEF Claim
<1>8. faults' \in 0..MaxFaults
  <2>1. CASE UNCHANGED faults
    BY <1>1, <2>1
  <2>2. CASE faults < MaxFaults /\ faults' = faults + 1
    BY <1>1, <2>2
  <2> QED
    BY <2>1, <2>2 DEF Claim
<1> HIDE DEF q, k
<1>9. /\ row'[t] = q /\ q # None /\ task'[w] = k /\ k # None /\ pc'[w] = "research"
      /\ \A s \in Tasks \ {t} : row'[s] = row[s]
      /\ \A v \in Workers \ {w} : task'[v] = task[v] /\ pc'[v] = pc[v]
  BY <1>1, <1>3, <1>5, <1>7, NullIsNoValue
<1>10. TypeOK'
  BY <1>1, <1>3, <1>5, <1>7, <1>8 DEF TypeOK
<1>11. evidence[t] = None /\ assessment[t].state # "employer_researched"
  BY <1>1, <1>2 DEF TaskOK, EvidenceOK, StateOK, HasStatus
<1>12. TaskOK(t)'
  <2>1. RowOK(t)' /\ EventsOK(t)'
    BY <1>1, <1>2, <1>3, <1>7, <1>9 DEF TaskOK, RowOK, EventsOK, MadeUnder
  <2>2. EvidenceOK(t)' /\ StateOK(t)'
    BY <1>7, <1>11 DEF EvidenceOK, StateOK
  <2>3. BridgeOK(t)'
    BY <1>3, <1>7, <1>9 DEF BridgeOK, BridgeHolds
  <2> QED
    BY <1>2, <1>7, <2>1, <2>2, <2>3 DEF TaskOK
<1>13. WorkerOK(w)'
  <2>1. event[t][k.refresh] # None \/ k.refresh = None
    BY <1>1, <1>6 DEF TaskOK, RowOK
  <2> QED
    BY <1>2, <1>3, <1>6, <1>7, <1>9, <2>1 DEF WorkerOK
<1>14. \A v \in Workers \ {w} : DistinctIdentities => NoNewLease(v, t)
  <2> SUFFICES ASSUME NEW v \in Workers \ {w}, DistinctIdentities
               PROVE  NoNewLease(v, t)
    OBVIOUS
  <2>1. row'[t].owner # Identity[v]
    BY <1>3, <1>9 DEF DistinctIdentities
  <2> QED
    BY <2>1 DEF NoNewLease
<1>15. \A s \in Tasks \ {t} : Untouched(s)
  BY <1>7, <1>9 DEF Untouched
<1>16. Grows(t) /\ \A v \in Workers \ {w} : WorkerRests(v)
  BY <1>7, <1>9 DEF Grows, WorkerRests
<1> QED
  BY <1>10, <1>12, <1>13, <1>14, <1>15, <1>16, WorkerStep

\* What a working worker remembers is well formed.
LEMMA WorkingTask ==
    ASSUME ResearchInv, NEW w \in Workers, pc[w] # "idle"
    PROVE  /\ WorkerOK(w) /\ task[w] # None /\ task[w] \in ResearchTasks
           /\ task[w].key \in Tasks /\ task[w].facts \in Facts
           /\ task[w].refresh \in Refreshes \cup {None}
<1>1. WorkerOK(w) /\ task[w] # None /\ task[w] \in ResearchTasks
  BY DEF ResearchInv, WorkerOK, TypeOK
<1> QED
  BY <1>1 DEF ResearchTasks

\* The provider's dossier carries the bindings of the task.
LEMMA ResearchKeeps ==
    ASSUME ResearchInv, NEW w \in Workers, Research(w)
    PROVE  ResearchInv'
<1>1. /\ WorkerOK(w) /\ task[w].key \in Tasks /\ task[w].facts \in Facts
      /\ task[w].refresh \in Refreshes \cup {None} /\ pc[w] = "research"
      /\ task[w].promoted
  BY WorkingTask DEF Research
<1> DEFINE d == [facts |-> task[w].facts, refresh |-> task[w].refresh]
<1>2. d \in Bound /\ d.refresh = task[w].refresh
  BY <1>1 DEF Bound
<1>3. /\ made' = [made EXCEPT ![w] = d]
      /\ archive' = [archive EXCEPT ![task[w].key] = @ \cup {d}]
      /\ pc' = [pc EXCEPT ![w] = "complete"] /\ task' = task
      /\ UNCHANGED <<assessment, promotion, gate, row, event, dossier, evidence,
                     task, faults>>
  BY DEF Research
<1> HIDE DEF d
<1>4. TypeOK /\ archive \in [Tasks -> SUBSET Bound]
      /\ made \in [Workers -> Dossiers \cup {None}]
      /\ pc \in [Workers -> {"idle", "research", "complete", "fail"}]
  BY DEF ResearchInv, TypeOK
<1>5. archive' \in [Tasks -> SUBSET Bound]
  BY <1>1, <1>2, <1>3, <1>4
<1>6. made' \in [Workers -> Dossiers \cup {None}]
  BY <1>2, <1>3, <1>4 DEF Dossiers
<1>7. TypeOK'
  BY <1>3, <1>4, <1>5, <1>6 DEF TypeOK
<1>8. /\ made'[w] = d /\ pc'[w] = "complete" /\ d # None
      /\ \A v \in Workers \ {w} : WorkerRests(v)
  BY <1>2, <1>3, <1>4, NullIsNoValue DEF WorkerRests
<1>9. WorkerOK(w)'
  BY <1>1, <1>2, <1>3, <1>8 DEF WorkerOK, Holds, Working, HasStatus, DistinctIdentities
<1> QED
  BY <1>3, <1>7, <1>8, <1>9, PrivateStep

\* A dossier of the v1 schema binds nothing.
LEMMA ResearchLegacyKeeps ==
    ASSUME ResearchInv, NEW w \in Workers, ResearchLegacy(w)
    PROVE  ResearchInv'
<1>1. /\ TypeOK /\ made \in [Workers -> Dossiers \cup {None}]
      /\ pc \in [Workers -> {"idle", "research", "complete", "fail"}]
      /\ WorkerOK(w) /\ pc[w] = "research"
  BY DEF ResearchInv, TypeOK, ResearchLegacy
<1>2. TypeOK'
  BY <1>1 DEF TypeOK, ResearchLegacy, storeVars, Dossiers
<1>3. /\ made'[w] = Legacy /\ pc'[w] = "complete"
      /\ \A v \in Workers \ {w} : WorkerRests(v)
  BY <1>1 DEF ResearchLegacy, WorkerRests
<1>4. WorkerOK(w)'
  BY <1>1, <1>3, NullIsNoValue
  DEF WorkerOK, ResearchLegacy, storeVars, Holds, Working, HasStatus, DistinctIdentities
<1> QED
  BY <1>2, <1>3, <1>4, PrivateStep DEF ResearchLegacy, storeVars

\* A worker that goes on to its failure path touches no row.
LEMMA FailurePathKeeps ==
    ASSUME ResearchInv, NEW w \in Workers, ProviderFails(w) \/ CompleteRaises(w)
    PROVE  ResearchInv'
<1>1. /\ TypeOK /\ pc \in [Workers -> {"idle", "research", "complete", "fail"}]
      /\ WorkerOK(w) /\ pc[w] # "idle" /\ pc' = [pc EXCEPT ![w] = "fail"]
      /\ UNCHANGED <<storeVars, task, made, faults>>
  BY DEF ResearchInv, TypeOK, ProviderFails, CompleteRaises
<1>2. TypeOK'
  BY <1>1 DEF TypeOK, storeVars
<1>3. pc'[w] = "fail" /\ \A v \in Workers \ {w} : WorkerRests(v)
  BY <1>1 DEF WorkerRests
<1>4. WorkerOK(w)'
  BY <1>1, <1>3 DEF WorkerOK, storeVars, Holds, Working, HasStatus, DistinctIdentities
<1> QED
  BY <1>1, <1>2, <1>3, <1>4, PrivateStep DEF storeVars

\* A worker that is done forgets its task and leaves the other workers alone.
LEMMA DoneWorker ==
    ASSUME TypeOK, NEW w \in Workers, Done(w)
    PROVE  /\ pc'[w] = "idle" /\ WorkerOK(w)'
           /\ pc' \in [Workers -> {"idle", "research", "complete", "fail"}]
           /\ task' \in [Workers -> ResearchTasks \cup {None}]
           /\ made' \in [Workers -> Dossiers \cup {None}]
           /\ \A v \in Workers \ {w} : WorkerRests(v)
<1>1. pc'[w] = "idle"
  BY DEF TypeOK, Done
<1> QED
  BY <1>1 DEF TypeOK, Done, WorkerOK, WorkerRests

\* A killed worker leaves its lease in the row.
LEMMA CrashKeeps ==
    ASSUME ResearchInv, NEW w \in Workers, Crash(w)
    PROVE  ResearchInv'
<1>1. TypeOK /\ Done(w) /\ UNCHANGED storeVars
  BY DEF ResearchInv, Crash
<1>2. faults' \in 0..MaxFaults
  BY <1>1 DEF TypeOK, Crash
<1>3. TypeOK'
  BY <1>1, <1>2, DoneWorker DEF TypeOK, storeVars
<1> QED
  BY <1>1, <1>3, DoneWorker, PrivateStep DEF storeVars

\* A completion stores the dossier, its evidence and the state together, and
\* with a bridge on the row it is the dossier of that bridge.
LEMMA CompleteKeeps ==
    ASSUME ResearchInv, NEW w \in Workers, Complete(w)
    PROVE  ResearchInv'
<1>0. PICK t \in Tasks : t = task[w].key
  BY WorkingTask DEF Complete
<1> DEFINE q == [row[t] EXCEPT !.status = "completed", !.owner = None]
           a == [assessment[t] EXCEPT !.state = "employer_researched"]
           e == IF made[w] = Legacy THEN None ELSE made[w]
<1>1. /\ TypeOK /\ WorkerOK(w) /\ pc[w] = "complete" /\ TaskOK(t)
      /\ HasStatus(t, "leased") /\ row[t].owner = Identity[w] /\ BridgeHolds(t)
      /\ row[t].refresh # None => made[w] # Legacy
  BY <1>0, WorkingTask DEF ResearchInv, Complete, Accepts
<1>2. /\ row[t] \in QueueRows /\ assessment[t] \in Assessments /\ made[w] \in Dossiers
      /\ made[w] # None /\ row[t].refresh \in Refreshes \cup {None}
  BY <1>0, <1>1 DEF TypeOK, WorkerOK, HasStatus, QueueRows
<1>3. /\ q \in QueueRows /\ q.status = "completed" /\ q.refresh = row[t].refresh
      /\ a \in Assessments /\ e \in Bound \cup {None}
      /\ e # None => e = made[w] /\ made[w] # Legacy
  BY <1>2 DEF QueueRows, Assessments, States, Dossiers
<1>4. /\ row' = [row EXCEPT ![t] = q] /\ assessment' = [assessment EXCEPT ![t] = a]
      /\ dossier' = [dossier EXCEPT ![t] = made[w]]
      /\ evidence' = [evidence EXCEPT ![t] = e]
      /\ Done(w) /\ UNCHANGED <<promotion, gate, event, archive, faults>>
  BY <1>0 DEF Complete
<1> HIDE DEF q, a, e
<1>5. /\ row \in [Tasks -> QueueRows \cup {None}]
      /\ assessment \in [Tasks -> Assessments \cup {None}]
      /\ dossier \in [Tasks -> Dossiers \cup {None}]
      /\ evidence \in [Tasks -> Bound \cup {None}]
      /\ event \in [Tasks -> [Refreshes -> Dossiers \cup {None}]]
  BY <1>1 DEF TypeOK
<1>7. /\ row'[t] = q /\ assessment'[t] = a /\ dossier'[t] = made[w] /\ evidence'[t] = e
      /\ q # None /\ a # None
      /\ \A s \in Tasks \ {t} :
            /\ row'[s] = row[s] /\ assessment'[s] = assessment[s]
            /\ dossier'[s] = dossier[s] /\ evidence'[s] = evidence[s]
  BY <1>3, <1>4, <1>5, NullIsNoValue
<1>8. TypeOK'
  BY <1>1, <1>2, <1>3, <1>4, <1>5, DoneWorker DEF TypeOK
<1>9. /\ made[w] # Legacy => made[w] \in Bound /\ promotion[t] # None
                              /\ made[w].refresh = task[w].refresh
      /\ task[w].refresh # None => event[t][task[w].refresh] # None
      /\ DistinctIdentities => row[t].refresh = task[w].refresh
  BY <1>0, <1>1, <1>2 DEF WorkerOK, Dossiers, Holds, Working
<1>10. TaskOK(t)'
  <2>1. RowOK(t)'
    BY <1>1, <1>2, <1>3, <1>4, <1>7 DEF RowOK, TaskOK, HasStatus
  <2>2. EventsOK(t)'
    <3> SUFFICES ASSUME NEW r \in Refreshes
                 PROVE  /\ event[t][r] \in Bound => event[t][r].refresh # r
                        /\ MadeUnder(t, r)' => event[t][r] # None
      BY <1>4 DEF EventsOK
    <3>1. event[t][r] \in Bound => event[t][r].refresh # r
      BY <1>1 DEF TaskOK, EventsOK
    <3>2. MadeUnder(t, r)' => made[w] # Legacy /\ made[w].refresh = r
      BY <1>7 DEF MadeUnder
    <3> QED
      BY <3>1, <3>2, <1>9, NullIsNoValue
  <2>3. EvidenceOK(t)' /\ StateOK(t)'
    BY <1>2, <1>3, <1>4, <1>7, <1>9 DEF EvidenceOK, StateOK, HasStatus
  <2>4. ASSUME DistinctIdentities
        PROVE  BridgeOK(t)'
    <3> SUFFICES ASSUME row[t].refresh # None
                 PROVE  ~BridgeHolds(t)' /\ MadeUnder(t, row[t].refresh)'
      BY <1>3, <1>7 DEF BridgeOK
    <3>1. made[w] \in Bound /\ made[w].refresh = row[t].refresh
      BY <1>1, <1>9, <2>4
    <3>2. event[t][row[t].refresh] # made[w]
      BY <1>1, <1>2, <3>1 DEF TaskOK, EventsOK
    <3> QED
      BY <1>3, <1>4, <1>7, <3>1, <3>2 DEF BridgeHolds, MadeUnder
  <2> QED
    BY <1>7, <2>1, <2>2, <2>3, <2>4 DEF TaskOK, DistinctIdentities
<1>11. \A v \in Workers \ {w} : NoNewLease(v, t)
  BY <1>3, <1>7 DEF NoNewLease, HasStatus
<1>12. Grows(t) /\ \A s \in Tasks \ {t} : Untouched(s)
  BY <1>4, <1>7 DEF Grows, Untouched
<1> QED
  BY <1>1, <1>4, <1>8, <1>10, <1>11, <1>12, DoneWorker, WorkerStep

\* A failure returns the row to the queue, bridge and all.
LEMMA FailKeeps ==
    ASSUME ResearchInv, NEW w \in Workers, Fail(w)
    PROVE  ResearchInv'
<1>0. PICK t \in Tasks : t = task[w].key
  BY WorkingTask DEF Fail
<1> DEFINE q == [row[t] EXCEPT !.status = "queued", !.owner = None]
<1>1. /\ TypeOK /\ WorkerOK(w) /\ pc[w] = "fail" /\ TaskOK(t) /\ Done(w)
      /\ UNCHANGED <<assessment, promotion, gate, event, dossier, evidence, archive,
                     faults>>
  BY <1>0, WorkingTask DEF ResearchInv, Fail
<1>2. CASE ~Holds(w, t)
  <2>1. UNCHANGED <<assessment, promotion, gate, row, event, dossier, evidence>>
    BY <1>0, <1>1, <1>2 DEF Fail
  <2>2. TypeOK'
    BY <1>1, <2>1, DoneWorker DEF TypeOK
  <2> QED
    BY <1>1, <2>1, <2>2, DoneWorker, PrivateStep
<1>3. CASE Holds(w, t)
  <2>1. row[t] # None /\ row[t].status = "leased" /\ row[t] \in QueueRows
    BY <1>1, <1>3 DEF Holds, HasStatus, TypeOK
  <2>2. q \in QueueRows /\ q.status = "queued" /\ q.refresh = row[t].refresh
    BY <2>1 DEF QueueRows
  <2>3. row' = [row EXCEPT ![t] = q]
    BY <1>0, <1>3 DEF Fail, Returned
  <2>4. row \in [Tasks -> QueueRows \cup {None}]
    BY <1>1 DEF TypeOK
  <2> HIDE DEF q
  <2>5. row'[t] = q /\ q # None /\ \A s \in Tasks \ {t} : row'[s] = row[s]
    BY <2>2, <2>3, <2>4, NullIsNoValue
  <2>6. TypeOK'
    BY <1>1, <2>2, <2>3, <2>4, DoneWorker DEF TypeOK
  <2>7. TaskOK(t)'
    <3>1. RowOK(t)' /\ EventsOK(t)'
      BY <1>1, <2>1, <2>2, <2>5 DEF TaskOK, RowOK, EventsOK, MadeUnder
    <3>2. evidence[t] = None /\ (assessment[t] # None => assessment[t].state # "employer_researched")
      BY <1>1, <2>1 DEF TaskOK, EvidenceOK, StateOK, HasStatus
    <3>3. EvidenceOK(t)' /\ StateOK(t)'
      BY <1>1, <3>2 DEF EvidenceOK, StateOK
    <3>4. BridgeOK(t) => BridgeOK(t)'
      BY <1>1, <2>1, <2>2, <2>5 DEF BridgeOK, BridgeHolds
    <3> QED
      BY <1>1, <3>1, <3>3, <3>4 DEF TaskOK, DistinctIdentities
  <2>8. \A v \in Workers \ {w} : NoNewLease(v, t)
    BY <2>2, <2>5 DEF NoNewLease, HasStatus
  <2>9. Grows(t) /\ \A s \in Tasks \ {t} : Untouched(s)
    BY <1>1, <2>5 DEF Grows, Untouched
  <2> QED
    BY <1>1, <2>6, <2>7, <2>8, <2>9, DoneWorker, WorkerStep
<1> QED
  BY <1>2, <1>3

-------------------------------------------------------------------------------
(***************************************************************************)
(* The theorems.                                                           *)
(***************************************************************************)

\* An empty store is right.
LEMMA InitEstablishes == Init => ResearchInv
<1> SUFFICES ASSUME Init
             PROVE  ResearchInv
  OBVIOUS
<1>1. TypeOK
  BY DEF Init, TypeOK
<1>2. \A t \in Tasks : TaskOK(t)
  BY NullIsNoValue DEF Init, TaskOK, RowOK, EventsOK, EvidenceOK, StateOK, BridgeOK, MadeUnder
<1>3. \A w \in Workers : WorkerOK(w)
  BY DEF Init, WorkerOK
<1> QED
  BY <1>1, <1>2, <1>3 DEF ResearchInv

\* Every step keeps it so.
LEMMA StepKeeps == ResearchInv /\ [Next]_vars => ResearchInv'
<1> SUFFICES ASSUME ResearchInv, [Next]_vars
             PROVE  ResearchInv'
  OBVIOUS
<1>1. ASSUME NEW t \in Tasks, Store(t)
      PROVE  ResearchInv'
  BY <1>1, AssessKeeps, ReadForGateKeeps, GatePassKeeps, GateAbortsKeeps, GateRejectKeeps,
     PromoteKeeps, PromoteAgainKeeps, LoseArchiveKeeps, RequeueInvalidKeeps,
     AdmitRefreshKeeps DEF Store
<1>2. ASSUME NEW w \in Workers, Work(w) \/ Crash(w)
      PROVE  ResearchInv'
  BY <1>2, ResearchKeeps, ResearchLegacyKeeps, FailurePathKeeps, CompleteKeeps, FailKeeps,
     CrashKeeps DEF Work
<1>3. ASSUME NEW w \in Workers, NEW t \in Tasks, Claim(w, t)
      PROVE  ResearchInv'
  BY <1>3, ClaimKeeps
<1>4. CASE UNCHANGED vars
  <2>1. \A t \in Tasks : Untouched(t)
    BY <1>4 DEF vars, storeVars, Untouched
  <2>2. \A t \in Tasks : TaskOK(t)'
    BY <2>1, UntouchedTask DEF ResearchInv
  <2>3. TypeOK'
    BY <1>4 DEF ResearchInv, TypeOK, vars, storeVars, workerVars
  <2>4. \A w \in Workers : WorkerOK(w)'
    BY <1>4 DEF ResearchInv, WorkerOK, vars, storeVars, workerVars, Holds, Working,
                HasStatus, DistinctIdentities
  <2> QED
    BY <2>2, <2>3, <2>4 DEF ResearchInv
<1> QED
  BY <1>1, <1>2, <1>3, <1>4 DEF Next

\* The invariant of the store and its workers holds in every behaviour.
THEOREM ResearchInvariant == Spec => []ResearchInv
<1>1. Init => ResearchInv
  BY InitEstablishes
<1>2. ResearchInv /\ [Next]_vars => ResearchInv'
  BY StepKeeps
<1> QED
  BY <1>1, <1>2, PTL DEF Spec

\* Every table and every worker keeps its type.
THEOREM TypeCorrect == Spec => []TypeOK
<1>1. ResearchInv => TypeOK
  BY DEF ResearchInv
<1> QED
  BY <1>1, ResearchInvariant, PTL

\* Evidence exists only for completed research and binds the stored dossier.
THEOREM EvidenceStored == Spec => []EvidenceIsOfStoredDossier
<1>1. ResearchInv => EvidenceIsOfStoredDossier
  BY DEF ResearchInv, TaskOK, EvidenceOK, EvidenceIsOfStoredDossier
<1> QED
  BY <1>1, ResearchInvariant, PTL

\* With worker ids of their own, no worker completes a refreshed row with
\* research that is older than the refresh.
THEOREM BridgeSound ==
    ASSUME DistinctIdentities
    PROVE  Spec => []BridgePendingOrDone
<1>1. ResearchInv => BridgePendingOrDone
  BY DEF ResearchInv, TaskOK, BridgeOK, BridgePendingOrDone
<1> QED
  BY <1>1, ResearchInvariant, PTL

\* The state employer_researched means a completed row with a dossier.
THEOREM ResearchedCompleted == Spec => []ResearchedIsCompleted
<1>1. ResearchInv => ResearchedIsCompleted
  BY DEF ResearchInv, TaskOK, StateOK, ResearchedIsCompleted
<1> QED
  BY <1>1, ResearchInvariant, PTL

\* What BoundOnce says of one task and one step.
BoundStep(t) ==
    LET bound == IF row'[t] = None THEN None ELSE row'[t].refresh
        was == IF row[t] = None THEN None ELSE row[t].refresh IN
    bound # None /\ bound # was =>
        /\ HasStatus(t, "completed")
        /\ event[t][bound] = None
        /\ event'[t][bound] = dossier[t]

\* A step that keeps or clears the bridge of t binds no refresh.
LEMMA KeepsBridge ==
    ASSUME NEW t \in Tasks,
           \/ row'[t] = row[t] \/ row'[t] = None \/ row'[t].refresh = None
           \/ row[t] # None /\ row'[t].refresh = row[t].refresh
    PROVE  BoundStep(t)
BY DEF BoundStep

\* A step binds a refresh to a row only by admitting it.
LEMMA StepBinds ==
    ASSUME ResearchInv, [Next]_vars, NEW t \in Tasks
    PROVE  BoundStep(t)
<1>1. row \in [Tasks -> QueueRows \cup {None}] /\ TaskOK(t)
  BY DEF ResearchInv, TypeOK
<1>2. ASSUME NEW s \in Tasks, row' = [row EXCEPT ![s] = Admitted(s)]
      PROVE  BoundStep(t)
  <2>1. Admitted(s).refresh = None
    BY <1>1 DEF Admitted, QueueRows
  <2>2. row'[t] = row[t] \/ row'[t].refresh = None
    BY <1>1, <1>2, <2>1
  <2> QED
    BY <2>2, KeepsBridge
<1>3. ASSUME NEW s \in Tasks, NEW status, NEW owner, row[s] # None,
             row' = [row EXCEPT ![s] = [@ EXCEPT !.status = status, !.owner = owner]]
      PROVE  BoundStep(t)
  <2>1. row'[t] = row[t] \/ (row[t] # None /\ row'[t].refresh = row[t].refresh)
    <3> DEFINE q == [row[s] EXCEPT !.status = status, !.owner = owner]
    <3>1. row[s] \in QueueRows
      BY <1>1, <1>3
    <3>2. q.refresh = row[s].refresh
      BY <3>1 DEF QueueRows
    <3>3. row' = [row EXCEPT ![s] = q]
      BY <1>3
    <3> HIDE DEF q
    <3> QED
      BY <1>1, <1>3, <3>2, <3>3
  <2> QED
    BY <2>1, KeepsBridge
<1>4. ASSUME NEW s \in Tasks, Store(s)
      PROVE  BoundStep(t)
  <2>1. CASE \/ \E score \in Scores, facts \in Facts : Assess(s, score, facts)
             \/ ReadForGate(s) \/ GateAborts(s) \/ LoseArchive(s)
    BY <2>1, KeepsBridge DEF Assess, ReadForGate, GateAborts, LoseArchive
  <2>2. CASE GatePass(s) \/ Promote(s) \/ PromoteAgain(s)
    BY <1>2, <2>2 DEF GatePass, Promote, PromoteAgain
  <2>3. CASE GateReject(s)
    <3>1. row'[t] = row[t] \/ row'[t] = None
      BY <1>1, <2>3 DEF GateReject
    <3> QED
      BY <3>1, KeepsBridge
  <2>4. CASE RequeueInvalid(s)
    <3>1. row'[t] = row[t] \/ (row[t] # None /\ row'[t].refresh = row[t].refresh)
      BY <1>1, <2>4 DEF RequeueInvalid, Requeued, HasStatus
    <3> QED
      BY <3>1, KeepsBridge
  <2>5. ASSUME NEW r \in Refreshes, AdmitRefresh(s, r)
        PROVE  BoundStep(t)
    <3>1. CASE s # t
      <4>1. row'[t] = row[t]
        BY <1>1, <2>5, <3>1 DEF AdmitRefresh, Requeued
      <4> QED
        BY <4>1, KeepsBridge
    <3>2. CASE s = t
      <4>1. /\ row'[t] = [status |-> "queued", owner |-> None, refresh |-> r]
            /\ HasStatus(t, "completed") /\ event[t][r] = None
        BY <1>1, <2>5, <3>2 DEF AdmitRefresh, Requeued
      <4>2. event \in [Tasks -> [Refreshes -> Dossiers \cup {None}]]
        BY DEF ResearchInv, TypeOK
      <4>3. event'[t][r] = dossier[t]
        BY <2>5, <3>2, <4>2 DEF AdmitRefresh
      <4> QED
        BY <4>1, <4>3 DEF BoundStep
    <3> QED
      BY <3>1, <3>2
  <2> QED
    BY <1>4, <2>1, <2>2, <2>3, <2>4, <2>5 DEF Store
<1>5. ASSUME NEW w \in Workers, Work(w) \/ Crash(w)
      PROVE  BoundStep(t)
  <2>1. CASE row' = row
    BY <2>1, KeepsBridge
  <2>2. CASE Complete(w)
    <3>1. task[w].key \in Tasks /\ row[task[w].key] # None
      BY <2>2, WorkingTask DEF Complete, Accepts, HasStatus
    <3>2. row' = [row EXCEPT ![task[w].key] = [@ EXCEPT !.status = "completed", !.owner = None]]
      BY <2>2 DEF Complete
    <3> QED
      BY <1>3, <3>1, <3>2
  <2>3. CASE Fail(w) /\ Holds(w, task[w].key)
    <3>1. task[w].key \in Tasks /\ row[task[w].key] # None
      BY <2>3, WorkingTask DEF Fail, Holds, HasStatus
    <3>2. row' = [row EXCEPT ![task[w].key] = [@ EXCEPT !.status = "queued", !.owner = None]]
      BY <2>3 DEF Fail, Returned
    <3> QED
      BY <1>3, <3>1, <3>2
  <2> QED
    BY <1>5, <2>1, <2>2, <2>3
    DEF Work, Crash, Research, ResearchLegacy, ProviderFails, CompleteRaises, Fail, storeVars
<1>6. ASSUME NEW w \in Workers, NEW s \in Tasks, Claim(w, s)
      PROVE  BoundStep(t)
  <2>1. /\ row[s] # None
        /\ row' = [row EXCEPT ![s] = [@ EXCEPT !.status = "leased", !.owner = Identity[w]]]
    BY <1>6 DEF Claim, HasStatus
  <2> QED
    BY <1>3, <2>1
<1>7. CASE UNCHANGED vars
  BY <1>7, KeepsBridge DEF vars, storeVars
<1> QED
  BY <1>4, <1>5, <1>6, <1>7 DEF Next

\* A refresh is bound to a row only by its one admission.
THEOREM BoundOnce == Spec => RefreshBoundOnce
<1>1. ResearchInv /\ [Next]_vars => [\A t \in Tasks : BoundStep(t)]_vars
  BY StepBinds
<1>2. (\A t \in Tasks : BoundStep(t)) =>
      \A t \in Tasks :
          LET bound == IF row'[t] = None THEN None ELSE row'[t].refresh
              was == IF row[t] = None THEN None ELSE row[t].refresh IN
          bound # None /\ bound # was =>
              /\ HasStatus(t, "completed")
              /\ event[t][bound] = None
              /\ event'[t][bound] = dossier[t]
  BY DEF BoundStep
<1> QED
  BY <1>1, <1>2, ResearchInvariant, PTL DEF Spec, RefreshBoundOnce
===============================================================================
