--------------------------- MODULE ProcessingProofs ---------------------------
(***************************************************************************)
(* Theorems about Processing, for any number of vacancies, contents,       *)
(* configurations and workers.                                             *)
(*                                                                         *)
(* ResultIsOfItsContent and CompletedIsScored say what is in the rows; they *)
(* become inductive with what a worker carries between its transactions.   *)
(* A worker that is about to complete holds a result of the content that   *)
(* its key names (CarriesOwnResult) and has stored its score               *)
(* (CarriesScored); a worker that writes a report holds the lock, so the   *)
(* rows it read are the current ones (ReportsUnderLock).                   *)
(*                                                                         *)
(* The second half is about AssessmentPromotion: what a promoter has read  *)
(* stays true (HeldBinds), because a completed row is never written again. *)
(***************************************************************************)
EXTENDS AssessmentPromotion, TLAPS

CarriesOwnResult ==
    \A w \in Workers : pc[w] \in {"score", "complete"} =>
        result[w] \in Results /\ result[w].vacancy.content = Job(w)[2]

CarriesScored ==
    \A w \in Workers :
        pc[w] = "complete" /\ Job(w) \in Keys /\ result[w].axes # None =>
            score[Job(w)[1]] # None

ReportsUnderLock ==
    \A w \in Workers : pc[w] = "report" =>
        lock = w /\ rows[w] = CompletedResults(config[w])

RunIsSetUp ==
    \A w \in Workers :
        /\ pc[w] # "idle" => config[w] \in Configs
        /\ pc[w] = "promote" => snapshot[w] \in Contents

ProcessingInv ==
    /\ ProcessingTypeOK
    /\ ResultIsOfItsContent
    /\ CompletedIsScored
    /\ CarriesOwnResult
    /\ CarriesScored
    /\ ReportsUnderLock
    /\ RunIsSetUp

-------------------------------------------------------------------------------
(***************************************************************************)
(* The operators that the actions use.                                     *)
(***************************************************************************)

\* SQL NULL is none of the values that stand beside it in a column.
LEMMA NoneIsNoValue ==
    /\ None \notin Axes /\ None \notin Configs /\ None \notin Workers
    /\ None \notin Results /\ None \notin Rows
    /\ None \notin Reports /\ None \notin Contents
BY ProcessingAssumption

\* A typed row is absent or in exactly one state, and a completed row has a result.
LEMMA RowStates ==
    ASSUME ProcessingTypeOK, NEW k \in Keys
    PROVE  /\ Completed(k) => row[k].result \in Results /\ ~Leased(k) /\ ~Failed(k)
           /\ Leased(k) => row[k].owner \in Workers
BY NoneIsNoValue DEF ProcessingTypeOK, Completed, Leased, Failed, Rows

\* The results of a report are typed.
LEMMA ResultsTyped ==
    ASSUME ProcessingTypeOK, NEW g \in Configs
    PROVE  CompletedResults(g) \in Reports
<1>1. ASSUME NEW j \in Jobs, posting[j] # 0
      PROVE  Current(j, g) \in Keys
      BY <1>1, ProcessingAssumption DEF ProcessingTypeOK, Contents, Current, Keys, Versions
<1>2. ASSUME NEW j \in Jobs, posting[j] # 0, Completed(Current(j, g))
      PROVE  row[Current(j, g)].result \in Results
      BY <1>1, <1>2, RowStates
<1> QED BY <1>2 DEF CompletedResults, Reports

\* What is evaluated for a key is a typed result of the content it names.
LEMMA EvaluationOfItsContent ==
    ASSUME ProcessingTypeOK, ResultIsOfItsContent, NEW k, NEW r \in Evaluations(k)
    PROVE  r \in Results /\ r.vacancy.content = k[2]
<1>1. PICK prior \in (IF Reusable(k) = {} THEN {None} ELSE Reusable(k)) :
          r.vacancy \in Extracted(k, prior)
      BY DEF Evaluations
<1>2. r \in Results
      BY DEF Evaluations
<1>3. CASE prior = None
      BY <1>1, <1>2, <1>3 DEF Extracted
<1>4. CASE prior # None
  <2>1. PICK l \in Keys : l[2] = k[2] /\ Completed(l) /\ prior = row[l].result
        BY <1>1, <1>4 DEF Reusable
  <2>2. prior.vacancy.content = k[2]
        BY <2>1 DEF ResultIsOfItsContent
  <2> QED BY <1>1, <1>2, <1>4, <2>2 DEF Extracted
<1> QED BY <1>3, <1>4

-------------------------------------------------------------------------------
(***************************************************************************)
(* Every step preserves the invariant.                                     *)
(***************************************************************************)

\* At the start there are no rows, and nobody runs.
LEMMA InitInv == Init => ProcessingInv
<1> SUFFICES ASSUME Init PROVE ProcessingInv
    OBVIOUS
<1>1. ProcessingTypeOK
      BY ProcessingAssumption
      DEF Init, ProcessingTypeOK, Contents, Reports, Stages
<1>2. \A k \in Keys : ~Completed(k)
      BY DEF Init, Completed
<1> QED BY <1>1, <1>2
        DEF Init, ProcessingInv, ResultIsOfItsContent, CompletedIsScored, CarriesOwnResult,
            CarriesScored, ReportsUnderLock, RunIsSetUp

\* What the invariant says of rows, scores and reports depends on nothing else.
LEMMA SameRows ==
    ASSUME row' = row, posting' = posting
    PROVE  /\ \A k : Completed(k)' = Completed(k)
           /\ \A g : CompletedResults(g)' = CompletedResults(g)
BY DEF Completed, CompletedResults, Current

\* A collector touches nothing that the invariant relates.
LEMMA CollectInv ==
    ASSUME ProcessingInv, NEW j \in Jobs, NEW v \in 0..MaxVersion, Collect(j, v)
    PROVE  ProcessingInv'
<1>1. ProcessingTypeOK'
      BY DEF ProcessingInv, ProcessingTypeOK, Collect, Contents
<1>2. row' = row /\ posting' = posting /\ score' = score /\ lock' = lock /\ pc' = pc
      /\ config' = config /\ snapshot' = snapshot /\ rows' = rows /\ shard' = shard
      /\ result' = result
      BY DEF Collect
<1>3. \A w : Job(w)' = Job(w)
      BY <1>2 DEF Job
<1> QED BY <1>1, <1>2, <1>3, SameRows
        DEF ProcessingInv, ResultIsOfItsContent, CompletedIsScored, CarriesOwnResult,
            CarriesScored, ReportsUnderLock, RunIsSetUp

\* A run starts with a configuration and a snapshot and carries nothing.
LEMMA StartInv ==
    ASSUME ProcessingInv, NEW w \in Workers, NEW g \in Configs, Start(w, g)
    PROVE  ProcessingInv'
<1>1. ProcessingTypeOK'
      BY DEF ProcessingInv, ProcessingTypeOK, Start, Goto, dataVars, Stages
<1>2. /\ row' = row /\ posting' = posting /\ score' = score /\ lock' = lock
      /\ rows' = rows /\ shard' = shard /\ result' = result
      /\ \A v \in Workers \ {w} : pc'[v] = pc[v] /\ config'[v] = config[v]
                                   /\ snapshot'[v] = snapshot[v]
      /\ pc'[w] = "promote" /\ config'[w] = g /\ snapshot'[w] = collected
      BY DEF ProcessingInv, ProcessingTypeOK, Start, Goto, dataVars
<1>3. \A v : Job(v)' = Job(v)
      BY <1>2 DEF Job
<1>4. RunIsSetUp'
      BY <1>2 DEF ProcessingInv, ProcessingTypeOK, RunIsSetUp
<1>5. ReportsUnderLock'
      BY <1>2, SameRows DEF ProcessingInv, ReportsUnderLock
<1>6. CarriesOwnResult' /\ CarriesScored'
      BY <1>2, <1>3 DEF ProcessingInv, CarriesOwnResult, CarriesScored
<1> QED BY <1>1, <1>2, <1>4, <1>5, <1>6, SameRows
        DEF ProcessingInv, ResultIsOfItsContent, CompletedIsScored

\* The copied contents change no row; nobody writes a report meanwhile.
LEMMA PromoteInv ==
    ASSUME ProcessingInv, NEW w \in Workers, Promote(w)
    PROVE  ProcessingInv'
<1>1. snapshot[w] \in Contents
      BY DEF ProcessingInv, RunIsSetUp, Promote
<1>2. ProcessingTypeOK'
      BY <1>1 DEF ProcessingInv, ProcessingTypeOK, Promote, Goto, Contents, Stages
<1>3. /\ row' = row /\ score' = score /\ lock = None /\ lock' = lock
      /\ config' = config /\ rows' = rows /\ shard' = shard /\ result' = result
      /\ \A v \in Workers \ {w} : pc'[v] = pc[v] /\ snapshot'[v] = snapshot[v]
      /\ pc'[w] = "claim" /\ pc[w] = "promote"
      BY DEF ProcessingInv, ProcessingTypeOK, Promote, Goto
<1>4. \A v : Job(v)' = Job(v)
      BY <1>3 DEF Job
<1>5. RunIsSetUp'
      BY <1>3 DEF ProcessingInv, RunIsSetUp
<1>6. ReportsUnderLock'
      BY <1>3, NoneIsNoValue DEF ProcessingInv, ReportsUnderLock
<1>7. CarriesOwnResult' /\ CarriesScored'
      BY <1>3, <1>4 DEF ProcessingInv, CarriesOwnResult, CarriesScored
<1>8. ResultIsOfItsContent' /\ CompletedIsScored'
      BY <1>3 DEF ProcessingInv, ResultIsOfItsContent, CompletedIsScored, Completed
<1> QED BY <1>2, <1>5, <1>6, <1>7, <1>8 DEF ProcessingInv

\* A claim takes no completed row.
LEMMA AvailableNotCompleted ==
    ASSUME ProcessingTypeOK, NEW g \in Configs, NEW expired,
           expired \subseteq {k \in Keys : k[3] = g /\ Leased(k)},
           NEW k \in FirstOf(Available(g, expired))
    PROVE  k \in Keys /\ ~Completed(k)
<1>1. k \in Available(g, expired)
      BY DEF FirstOf
<1>2. PICK j \in Jobs : posting[j] # 0 /\ k = Current(j, g)
      BY <1>1 DEF Available
<1>3. k \in Keys
      BY <1>2, ProcessingAssumption DEF ProcessingTypeOK, Contents, Current, Keys, Versions
<1> QED BY <1>1, <1>3 DEF Available, Completed, Failed, Leased

\* A claim takes no completed row, and its owner carries nothing yet.
LEMMA ClaimInv ==
    ASSUME ProcessingInv, NEW w \in Workers, NEW expired, Claim(w, expired)
    PROVE  ProcessingInv'
<1> DEFINE claimed == FirstOf(Available(config[w], expired))
<1>1. config[w] \in Configs
      BY DEF ProcessingInv, RunIsSetUp, Claim
<1>2. \A k \in claimed : k \in Keys /\ ~Completed(k)
      BY <1>1, AvailableNotCompleted DEF Claim, ProcessingInv
<1>3. /\ \A k \in Keys : row'[k] = IF k \in claimed
                                 THEN [status |-> "leased", owner |-> w, result |-> None]
                                 ELSE row[k]
      /\ row' \in [Keys -> Rows \cup {None}]
      BY DEF Claim, ProcessingInv, ProcessingTypeOK, Rows
<1>4. /\ posting' = posting /\ score' = score /\ lock = None /\ lock' = lock
      /\ config' = config /\ snapshot' = snapshot /\ rows' = rows /\ result' = result
      /\ \A v \in Workers \ {w} : pc'[v] = pc[v] /\ shard'[v] = shard[v]
      /\ pc'[w] = "work" /\ pc[w] = "claim" /\ shard' \in [Workers -> SUBSET Keys]
      BY <1>2 DEF ProcessingInv, ProcessingTypeOK, Claim, Goto
<1>5. overtakes' \in 0..MaxOvertakes
      BY ProcessingAssumption DEF ProcessingInv, ProcessingTypeOK, Claim
<1>6. ProcessingTypeOK'
      BY <1>3, <1>4, <1>5 DEF ProcessingInv, ProcessingTypeOK, Claim, Goto, Stages
<1>7. \A v \in Workers \ {w} : Job(v)' = Job(v)
      BY <1>4 DEF Job
<1>8. \A k \in Keys : Completed(k)' => Completed(k) /\ row'[k] = row[k]
      BY <1>3, NoneIsNoValue DEF Completed
<1>9. ResultIsOfItsContent' /\ CompletedIsScored'
      BY <1>4, <1>8 DEF ProcessingInv, ResultIsOfItsContent, CompletedIsScored
<1>10. CarriesOwnResult' /\ CarriesScored'
      BY <1>4, <1>7 DEF ProcessingInv, CarriesOwnResult, CarriesScored
<1>11. ReportsUnderLock'
      BY <1>4, NoneIsNoValue DEF ProcessingInv, ReportsUnderLock
<1>12. RunIsSetUp'
      BY <1>4 DEF ProcessingInv, RunIsSetUp
<1> QED BY <1>6, <1>9, <1>10, <1>11, <1>12 DEF ProcessingInv

\* What a worker evaluates is a result of the content it claimed.
LEMMA EvaluateInv ==
    ASSUME ProcessingInv, NEW w \in Workers, Evaluate(w)
    PROVE  ProcessingInv'
<1>1. PICK r \in Evaluations(Job(w)) :
          result' = [result EXCEPT ![w] = r] /\ pc' = [pc EXCEPT ![w] = StageOf(r)]
      BY DEF Evaluate, Goto
<1>2. r \in Results /\ r.vacancy.content = Job(w)[2]
      BY EvaluationOfItsContent DEF ProcessingInv
<1>3. StageOf(r) \in {"score", "complete"} /\ (StageOf(r) = "complete" => r.axes = None)
      BY DEF StageOf
<1>4. /\ row' = row /\ posting' = posting /\ score' = score /\ lock' = lock
      /\ rows' = rows /\ shard' = shard /\ config' = config /\ snapshot' = snapshot
      /\ collected' = collected /\ report' = report /\ crashes' = crashes
      /\ overtakes' = overtakes
      /\ pc[w] = "work"
      BY DEF Evaluate, dataVars
<1>5. ProcessingTypeOK'
      BY <1>1, <1>2, <1>3, <1>4 DEF ProcessingInv, ProcessingTypeOK, Stages
<1>6. \A v : Job(v)' = Job(v)
      BY <1>4 DEF Job
<1>7. /\ pc'[w] = StageOf(r) /\ result'[w] = r
      /\ \A v \in Workers \ {w} : pc'[v] = pc[v] /\ result'[v] = result[v]
      BY <1>1 DEF ProcessingInv, ProcessingTypeOK
<1>8. CarriesOwnResult'
      BY <1>2, <1>6, <1>7 DEF ProcessingInv, CarriesOwnResult
<1>9. CarriesScored'
      BY <1>3, <1>4, <1>6, <1>7 DEF ProcessingInv, CarriesScored
<1>10. ReportsUnderLock' /\ RunIsSetUp'
      BY <1>3, <1>4, <1>7, SameRows DEF ProcessingInv, ReportsUnderLock, RunIsSetUp
<1> QED BY <1>4, <1>5, <1>8, <1>9, <1>10, SameRows
        DEF ProcessingInv, ResultIsOfItsContent, CompletedIsScored

\* A worker that gives up a vacancy carries no result any more.
LEMMA RaisesInv ==
    ASSUME ProcessingInv, NEW w \in Workers, Raises(w)
    PROVE  ProcessingInv'
<1>1. /\ row' = row /\ posting' = posting /\ score' = score /\ lock' = lock
      /\ rows' = rows /\ shard' = shard /\ config' = config /\ snapshot' = snapshot
      /\ collected' = collected /\ report' = report /\ crashes' = crashes
      /\ overtakes' = overtakes /\ result' = result
      /\ pc' = [pc EXCEPT ![w] = "fail"] /\ pc[w] # "idle"
      BY DEF Raises, Goto, dataVars
<1>2. ProcessingTypeOK'
      BY <1>1 DEF ProcessingInv, ProcessingTypeOK, Stages
<1>3. \A v : Job(v)' = Job(v)
      BY <1>1 DEF Job
<1>4. pc'[w] = "fail" /\ \A v \in Workers \ {w} : pc'[v] = pc[v]
      BY <1>1 DEF ProcessingInv, ProcessingTypeOK
<1>5. CarriesOwnResult' /\ CarriesScored'
      BY <1>1, <1>3, <1>4 DEF ProcessingInv, CarriesOwnResult, CarriesScored
<1>6. ReportsUnderLock' /\ RunIsSetUp'
      BY <1>1, <1>4, SameRows DEF ProcessingInv, ReportsUnderLock, RunIsSetUp
<1> QED BY <1>1, <1>2, <1>5, <1>6, SameRows
        DEF ProcessingInv, ResultIsOfItsContent, CompletedIsScored

\* The stored score is the one that the completion will refer to.
LEMMA ScoreInv ==
    ASSUME ProcessingInv, NEW w \in Workers, Score(w)
    PROVE  ProcessingInv'
<1>1. result[w] \in Results
      BY DEF ProcessingInv, CarriesOwnResult, Score
<1>2. /\ row' = row /\ posting' = posting /\ lock' = lock
      /\ rows' = rows /\ shard' = shard /\ config' = config /\ snapshot' = snapshot
      /\ collected' = collected /\ report' = report /\ crashes' = crashes
      /\ overtakes' = overtakes /\ result' = result /\ pc[w] = "score"
      /\ pc' = [pc EXCEPT ![w] = "complete"]
      /\ score' = [score EXCEPT ![Job(w)[1]] = result[w]]
      BY DEF Score, Goto
<1>3. ProcessingTypeOK'
      BY <1>1, <1>2 DEF ProcessingInv, ProcessingTypeOK, Stages
<1>4. \A v : Job(v)' = Job(v)
      BY <1>2 DEF Job
<1>5. pc'[w] = "complete" /\ \A v \in Workers \ {w} : pc'[v] = pc[v]
      BY <1>2 DEF ProcessingInv, ProcessingTypeOK
<1>6. /\ \A j \in Jobs : score[j] # None => score'[j] # None
      /\ Job(w)[1] \in Jobs => score'[Job(w)[1]] # None
      BY <1>1, <1>2, NoneIsNoValue DEF ProcessingInv, ProcessingTypeOK
<1>7. \A k \in Keys : k[1] \in Jobs
      BY DEF Keys
<1>8. CarriesOwnResult'
      BY <1>2, <1>4, <1>5 DEF ProcessingInv, CarriesOwnResult
<1>9. CarriesScored'
      BY <1>2, <1>4, <1>5, <1>6, <1>7 DEF ProcessingInv, CarriesScored
<1>10. ReportsUnderLock' /\ RunIsSetUp'
      BY <1>2, <1>5, SameRows DEF ProcessingInv, ReportsUnderLock, RunIsSetUp
<1>11. ResultIsOfItsContent'
      BY <1>2, SameRows DEF ProcessingInv, ResultIsOfItsContent
<1>12. CompletedIsScored'
      BY <1>2, <1>6, <1>7, SameRows DEF ProcessingInv, CompletedIsScored
<1> QED BY <1>3, <1>8, <1>9, <1>10, <1>11, <1>12 DEF ProcessingInv

\* A step of w to a stage without obligations, which takes no lock, leaves what
\* the others carry and adds no completed row.
LEMMA QuietStep ==
    ASSUME ProcessingInv, ProcessingTypeOK', NEW w \in Workers,
           pc'[w] \in {"idle", "work", "fail"},
           pc'[w] # "idle" => config'[w] \in Configs,
           \A v \in Workers \ {w} :
               /\ pc'[v] = pc[v] /\ shard'[v] = shard[v] /\ result'[v] = result[v]
               /\ config'[v] = config[v] /\ snapshot'[v] = snapshot[v] /\ rows'[v] = rows[v]
               /\ lock = v => lock' = v,
           lock = None \/ (row' = row /\ posting' = posting),
           score' = score,
           \A k \in Keys : Completed(k)' =>
               \/ Completed(k) /\ row'[k] = row[k]
               \/ /\ row'[k].result.vacancy.content = k[2]
                  /\ row'[k].result.axes # None => score[k[1]] # None
    PROVE  ProcessingInv'
<1>1. \A v \in Workers \ {w} : Job(v)' = Job(v)
      BY DEF Job
<1>2. ResultIsOfItsContent' /\ CompletedIsScored'
      BY DEF ProcessingInv, ResultIsOfItsContent, CompletedIsScored
<1>3. CarriesOwnResult' /\ CarriesScored'
      BY <1>1 DEF ProcessingInv, CarriesOwnResult, CarriesScored
<1>4. RunIsSetUp'
      BY DEF ProcessingInv, RunIsSetUp
<1>5. ReportsUnderLock'
  <2> SUFFICES ASSUME NEW v \in Workers, pc'[v] = "report"
               PROVE  (lock = v /\ rows[v] = CompletedResults(config[v]))'
      BY DEF ReportsUnderLock
  <2>1. v # w
        OBVIOUS
  <2>2. lock = v /\ rows[v] = CompletedResults(config[v])
        BY <2>1 DEF ProcessingInv, ReportsUnderLock
  <2>3. row' = row /\ posting' = posting
        BY <2>2, NoneIsNoValue
  <2> QED BY <2>1, <2>2, <2>3, SameRows
<1> QED BY <1>2, <1>3, <1>4, <1>5 DEF ProcessingInv

\* A row that w completes gets the result that w carries.
LEMMA CompleteInv ==
    ASSUME ProcessingInv, NEW w \in Workers, Complete(w)
    PROVE  ProcessingInv'
<1>1. /\ posting' = posting /\ score' = score /\ lock = None /\ lock' = lock
      /\ rows' = rows /\ config' = config /\ snapshot' = snapshot
      /\ collected' = collected /\ report' = report /\ crashes' = crashes
      /\ overtakes' = overtakes /\ pc[w] = "complete"
      BY DEF Complete
<1>2. result[w] \in Results /\ result[w].vacancy.content = Job(w)[2]
      BY <1>1 DEF ProcessingInv, CarriesOwnResult
<1>3. config[w] \in Configs
      BY <1>1 DEF ProcessingInv, RunIsSetUp
<1>4. CASE Holds(w, Job(w))
  <2>1. Job(w) \in Keys
        BY <1>4 DEF Holds, ProcessingInv, ProcessingTypeOK
  <2>2. /\ row' = [row EXCEPT ![Job(w)] =
                      [status |-> "completed", owner |-> None, result |-> result[w]]]
        /\ shard' = [shard EXCEPT ![w] = @ \ {Job(w)}]
        /\ result' = [result EXCEPT ![w] = None]
        /\ pc' = [pc EXCEPT ![w] = "work"]
        BY <1>4 DEF Complete, NextOfShard, Goto
  <2>3. [status |-> "completed", owner |-> None, result |-> result[w]] \in Rows
        BY <1>2 DEF Rows
  <2>4. ProcessingTypeOK'
        BY <1>1, <2>2, <2>3 DEF ProcessingInv, ProcessingTypeOK, Stages
  <2>5. result[w].axes # None => score[Job(w)[1]] # None
        BY <1>1, <2>1 DEF ProcessingInv, CarriesScored
  <2>6. \A k \in Keys : row'[k] = IF k = Job(w)
            THEN [status |-> "completed", owner |-> None, result |-> result[w]] ELSE row[k]
        BY <2>2 DEF ProcessingInv, ProcessingTypeOK
  <2>7. \A k \in Keys : Completed(k)' =>
            \/ Completed(k) /\ row'[k] = row[k]
            \/ /\ row'[k].result.vacancy.content = k[2]
               /\ row'[k].result.axes # None => score[k[1]] # None
        BY <1>2, <2>5, <2>6 DEF Completed
  <2>8. pc'[w] = "work"
        /\ \A v \in Workers \ {w} : pc'[v] = pc[v] /\ shard'[v] = shard[v]
                                     /\ result'[v] = result[v]
        BY <2>2 DEF ProcessingInv, ProcessingTypeOK
  <2> QED BY <1>1, <1>3, <2>4, <2>7, <2>8, QuietStep
<1>5. CASE ~Holds(w, Job(w))
  <2>1. row' = row /\ shard' = shard /\ result' = result /\ pc' = [pc EXCEPT ![w] = "fail"]
        BY <1>5 DEF Complete, Goto
  <2>2. ProcessingTypeOK'
        BY <1>1, <2>1 DEF ProcessingInv, ProcessingTypeOK, Stages
  <2>3. pc'[w] = "fail" /\ \A v \in Workers \ {w} : pc'[v] = pc[v]
        BY <2>1 DEF ProcessingInv, ProcessingTypeOK
  <2>4. \A k \in Keys : Completed(k)' => Completed(k) /\ row'[k] = row[k]
        BY <2>1 DEF Completed
  <2> QED BY <1>1, <1>3, <2>1, <2>2, <2>3, <2>4, QuietStep
<1> QED BY <1>4, <1>5

\* The end of a run disturbs no other worker.
LEMMA LeaveInv ==
    ASSUME ProcessingInv, NEW w \in Workers, Leave(w),
           row' = row, posting' = posting, score' = score, collected' = collected,
           report' \in [Configs -> Reports], crashes' \in 0..MaxCrashes,
           overtakes' = overtakes
    PROVE  ProcessingInv'
<1>1. ProcessingTypeOK'
      BY DEF Leave, Goto, ProcessingInv, ProcessingTypeOK, Stages
<1>2. pc'[w] = "idle"
      /\ \A v \in Workers \ {w} :
            /\ pc'[v] = pc[v] /\ shard'[v] = shard[v] /\ result'[v] = result[v]
            /\ config'[v] = config[v] /\ snapshot'[v] = snapshot[v] /\ rows'[v] = rows[v]
            /\ lock = v => lock' = v
      BY DEF Leave, Goto, ProcessingInv, ProcessingTypeOK
<1>3. \A k \in Keys : Completed(k)' => Completed(k) /\ row'[k] = row[k]
      BY DEF Completed
<1> QED BY <1>1, <1>2, <1>3, QuietStep

\* A worker fails only a row that it holds, or leaves.
LEMMA FailInv ==
    ASSUME ProcessingInv, NEW w \in Workers, Fail(w)
    PROVE  ProcessingInv'
<1>1. /\ posting' = posting /\ score' = score /\ lock = None
      /\ collected' = collected /\ report' = report /\ crashes' = crashes
      /\ overtakes' = overtakes /\ pc[w] = "fail"
      BY DEF Fail
<1>2. CASE Holds(w, Job(w))
  <2>1. /\ row' = [row EXCEPT ![Job(w)] =
                      [status |-> "failed", owner |-> None, result |-> None]]
        /\ shard' = [shard EXCEPT ![w] = @ \ {Job(w)}]
        /\ result' = [result EXCEPT ![w] = None]
        /\ pc' = [pc EXCEPT ![w] = "work"]
        /\ rows' = rows /\ config' = config /\ snapshot' = snapshot /\ lock' = lock
        BY <1>2 DEF Fail, NextOfShard, Goto
  <2>2. [status |-> "failed", owner |-> None, result |-> None] \in Rows
        BY DEF Rows
  <2>3. ProcessingTypeOK'
        BY <1>1, <2>1, <2>2 DEF ProcessingInv, ProcessingTypeOK, Stages
  <2>4. \A k \in Keys : row'[k] = IF k = Job(w)
            THEN [status |-> "failed", owner |-> None, result |-> None] ELSE row[k]
        BY <2>1 DEF ProcessingInv, ProcessingTypeOK
  <2>5. \A k \in Keys : Completed(k)' => Completed(k) /\ row'[k] = row[k]
        BY <2>4 DEF Completed
  <2>6. pc'[w] = "work"
        /\ \A v \in Workers \ {w} : pc'[v] = pc[v] /\ shard'[v] = shard[v]
                                     /\ result'[v] = result[v]
        BY <2>1 DEF ProcessingInv, ProcessingTypeOK
  <2>7. config[w] \in Configs
        BY <1>1 DEF ProcessingInv, RunIsSetUp
  <2> QED BY <1>1, <2>1, <2>3, <2>5, <2>6, <2>7, QuietStep
<1>3. CASE ~Holds(w, Job(w))
  <2>1. Leave(w) /\ row' = row
        BY <1>3 DEF Fail
  <2> QED BY <1>1, <2>1, LeaveInv DEF ProcessingInv, ProcessingTypeOK
<1> QED BY <1>2, <1>3

\* Whoever reads the rows of a report has the lock.
LEMMA ReadForReportInv ==
    ASSUME ProcessingInv, NEW w \in Workers, ReadForReport(w)
    PROVE  ProcessingInv'
<1>1. /\ row' = row /\ posting' = posting /\ score' = score /\ lock = None /\ lock' = w
      /\ config' = config /\ snapshot' = snapshot /\ shard' = shard /\ result' = result
      /\ collected' = collected /\ report' = report /\ crashes' = crashes
      /\ overtakes' = overtakes /\ pc[w] = "work"
      /\ pc' = [pc EXCEPT ![w] = "report"]
      /\ rows' = [rows EXCEPT ![w] = CompletedResults(config[w])]
      BY DEF ReadForReport, Goto, dataVars
<1>2. config[w] \in Configs
      BY <1>1 DEF ProcessingInv, RunIsSetUp
<1>3. ProcessingTypeOK'
      BY <1>1, <1>2, ResultsTyped DEF ProcessingInv, ProcessingTypeOK, Stages
<1>4. /\ pc'[w] = "report" /\ rows'[w] = CompletedResults(config[w])
      /\ \A v \in Workers \ {w} : pc'[v] = pc[v] /\ rows'[v] = rows[v]
      BY <1>1 DEF ProcessingInv, ProcessingTypeOK
<1>5. \A v \in Workers : pc[v] # "report"
      BY <1>1, NoneIsNoValue DEF ProcessingInv, ReportsUnderLock
<1>6. ReportsUnderLock'
      BY <1>1, <1>4, <1>5, SameRows DEF ReportsUnderLock
<1>7. \A v : Job(v)' = Job(v)
      BY <1>1 DEF Job
<1>8. CarriesOwnResult' /\ CarriesScored'
      BY <1>1, <1>4, <1>7 DEF ProcessingInv, CarriesOwnResult, CarriesScored
<1>9. RunIsSetUp'
      BY <1>1, <1>2, <1>4 DEF ProcessingInv, RunIsSetUp
<1> QED BY <1>1, <1>3, <1>6, <1>8, <1>9, SameRows
        DEF ProcessingInv, ResultIsOfItsContent, CompletedIsScored

\* The report that is written is typed, and the run ends.
LEMMA WriteReportInv ==
    ASSUME ProcessingInv, NEW w \in Workers, WriteReport(w)
    PROVE  ProcessingInv'
<1>1. config[w] \in Configs /\ rows[w] \in Reports
      BY ResultsTyped DEF WriteReport, ProcessingInv, RunIsSetUp, ReportsUnderLock
<1>2. report' \in [Configs -> Reports]
      BY <1>1 DEF WriteReport, ProcessingInv, ProcessingTypeOK
<1> QED BY <1>2, LeaveInv DEF WriteReport, ProcessingInv, ProcessingTypeOK

\* A worker may die at any point.
LEMMA CrashInv ==
    ASSUME ProcessingInv, NEW w \in Workers, Crash(w)
    PROVE  ProcessingInv'
<1>1. crashes' \in 0..MaxCrashes
      BY ProcessingAssumption DEF Crash, ProcessingInv, ProcessingTypeOK
<1> QED BY <1>1, LeaveInv DEF Crash, dataVars, ProcessingInv, ProcessingTypeOK

\* Each step of Next preserves the invariant, and so does stuttering.
LEMMA NextInv == ProcessingInv /\ [Next]_vars => ProcessingInv'
<1> SUFFICES ASSUME ProcessingInv, [Next]_vars PROVE ProcessingInv'
    OBVIOUS
<1>1. ASSUME NEW j \in Jobs, NEW v \in 0..MaxVersion, Collect(j, v) PROVE ProcessingInv'
      BY <1>1, CollectInv
<1>2. ASSUME NEW w \in Workers, Promote(w) PROVE ProcessingInv'
      BY <1>2, PromoteInv
<1>3. ASSUME NEW w \in Workers, ClaimShard(w) PROVE ProcessingInv'
      BY <1>3, ClaimInv DEF ClaimShard
<1>4. ASSUME NEW w \in Workers, Evaluate(w) PROVE ProcessingInv'
      BY <1>4, EvaluateInv
<1>5. ASSUME NEW w \in Workers, Raises(w) PROVE ProcessingInv'
      BY <1>5, RaisesInv
<1>6. ASSUME NEW w \in Workers, Score(w) PROVE ProcessingInv'
      BY <1>6, ScoreInv
<1>7. ASSUME NEW w \in Workers, Complete(w) PROVE ProcessingInv'
      BY <1>7, CompleteInv
<1>8. ASSUME NEW w \in Workers, Fail(w) PROVE ProcessingInv'
      BY <1>8, FailInv
<1>9. ASSUME NEW w \in Workers, ReadForReport(w) PROVE ProcessingInv'
      BY <1>9, ReadForReportInv
<1>10. ASSUME NEW w \in Workers, WriteReport(w) PROVE ProcessingInv'
      BY <1>10, WriteReportInv
<1>11. ASSUME NEW w \in Workers, Crash(w) PROVE ProcessingInv'
      BY <1>11, CrashInv
<1>12. ASSUME NEW w \in Workers, NEW g \in Configs, Start(w, g) PROVE ProcessingInv'
      BY <1>12, StartInv
<1>13. CASE UNCHANGED vars
  <2>1. \A v : Job(v)' = Job(v)
        BY <1>13 DEF vars, Job
  <2> QED BY <1>13, <2>1, SameRows
          DEF vars, ProcessingInv, ProcessingTypeOK, ResultIsOfItsContent, CompletedIsScored,
              CarriesOwnResult, CarriesScored, ReportsUnderLock, RunIsSetUp
<1> QED BY <1>1, <1>2, <1>3, <1>4, <1>5, <1>6, <1>7, <1>8, <1>9, <1>10, <1>11, <1>12, <1>13
        DEF Next, Work

-------------------------------------------------------------------------------
(***************************************************************************)
(* The theorems.                                                           *)
(***************************************************************************)

\* Rows, results, scores, reports and what workers carry belong together at
\* every moment.
THEOREM ProcessingInvariant == Spec => []ProcessingInv
<1> QED BY InitInv, NextInv, PTL DEF Spec

\* Every reachable state of the processing queue is well typed.
THEOREM ProcessingTypeCorrect == Spec => []ProcessingTypeOK
<1>1. ProcessingInv => ProcessingTypeOK
      BY DEF ProcessingInv
<1> QED BY ProcessingInvariant, <1>1, PTL

\* A completed result was extracted from the content that its row names.
THEOREM ResultsOfTheirContent == Spec => []ResultIsOfItsContent
<1>1. ProcessingInv => ResultIsOfItsContent
      BY DEF ProcessingInv
<1> QED BY ProcessingInvariant, <1>1, PTL

\* The assessment of an included completed vacancy has been scored.
THEOREM CompletedScored == Spec => []CompletedIsScored
<1>1. ProcessingInv => CompletedIsScored
      BY DEF ProcessingInv
<1> QED BY ProcessingInvariant, <1>1, PTL

\* Only claims, completions and failures write rows, and none a completed one.
LEMMA CompletedStays ==
    ASSUME ProcessingInv, [Next]_vars, NEW k \in Keys, Completed(k)
    PROVE  row'[k] = row[k]
<1>1. ~Leased(k)
      BY RowStates DEF ProcessingInv
<1>2. ASSUME NEW w \in Workers, ClaimShard(w) PROVE row'[k] = row[k]
  <2>1. PICK expired : Claim(w, expired)
        BY <1>2 DEF ClaimShard
  <2>2. config[w] \in Configs
        BY <2>1 DEF ProcessingInv, RunIsSetUp, Claim
  <2>3. k \notin FirstOf(Available(config[w], expired))
        BY <2>1, <2>2, AvailableNotCompleted DEF Claim, ProcessingInv
  <2> QED BY <2>1, <2>3 DEF Claim
<1>3. ASSUME NEW w \in Workers, Complete(w) PROVE row'[k] = row[k]
      BY <1>1, <1>3 DEF Complete, Holds, ProcessingInv, ProcessingTypeOK
<1>4. ASSUME NEW w \in Workers, Fail(w) PROVE row'[k] = row[k]
      BY <1>1, <1>4 DEF Fail, Holds, ProcessingInv, ProcessingTypeOK
<1>5. CASE row' = row
      BY <1>5
<1> QED BY <1>2, <1>3, <1>4, <1>5
        DEF Next, Work, vars, Collect, Start, Promote, Evaluate, Raises, Score, ReadForReport,
            WriteReport, Crash, dataVars

\* Nothing is processed twice: a completed row keeps its result for ever.
THEOREM CompletedForGood == Spec => CompletedIsFinal
<1>1. ProcessingInv /\ [Next]_vars => [\A k \in Keys : Completed(k) => row'[k] = row[k]]_vars
      BY CompletedStays
<1> QED BY ProcessingInvariant, <1>1, PTL DEF Spec, CompletedIsFinal

\* A report is written from the rows that are current when it is written.
LEMMA ReportIsCurrent ==
    ASSUME ProcessingInv, [Next]_vars, NEW g \in Configs
    PROVE  report'[g] = report[g] \/ report'[g] = CompletedResults(g)
<1>1. ASSUME NEW w \in Workers, WriteReport(w)
      PROVE  report'[g] = report[g] \/ report'[g] = CompletedResults(g)
      BY <1>1 DEF WriteReport, ProcessingInv, ProcessingTypeOK, ReportsUnderLock
<1>2. CASE report' = report
      BY <1>2
<1> QED BY <1>1, <1>2
        DEF Next, Work, vars, Collect, Start, Promote, ClaimShard, Claim, Evaluate, Raises, Score,
            Complete, Fail, ReadForReport, Crash, dataVars

\* A report that replaces another of its scope loses no current result.
THEOREM ReportsLoseNothing == Spec => ReportsKeepResults
<1>1. ProcessingInv /\ [Next]_vars =>
          [\A g \in Configs, j \in Jobs :
              report[g][j] # None /\ report[g][j] = CompletedResults(g)[j] =>
                  report'[g][j] = report[g][j]]_vars
  <2> SUFFICES ASSUME ProcessingInv, [Next]_vars, NEW g \in Configs, NEW j \in Jobs,
                      report[g][j] = CompletedResults(g)[j]
               PROVE  report'[g][j] = report[g][j]
      OBVIOUS
  <2> QED BY ReportIsCurrent
<1> QED BY ProcessingInvariant, <1>1, PTL DEF Spec, ReportsKeepResults

-------------------------------------------------------------------------------
(***************************************************************************)
(* Promotions and handoffs.                                                *)
(***************************************************************************)

\* What a promoter has in hand names a completed result of its content, and a
\* promoter that is about to seal has seen a score for it.
HeldBinds ==
    \A p \in Promoters : at[p] # "idle" => held[p] \in Bindings /\ Binds(held[p])

SealedBinds ==
    \A j \in Jobs : promotion[j] # None =>
        /\ promotion[j].binding.job = j
        /\ Binds(promotion[j].binding)
        /\ promotion[j].score = ScoreOf(promotion[j].binding.result)

HandedSealed ==
    \A h \in handoffs :
        promotion[h.job] # None /\ h.promotion = promotion[h.job] /\ h.score = h.promotion.score

PromotionInv ==
    /\ ProcessingInv
    /\ PromotionTypeOK
    /\ HeldBinds
    /\ SealedBinds
    /\ HandedSealed

LEMMA PromotionInitInv == PromotionInit => PromotionInv
<1> SUFFICES ASSUME PromotionInit PROVE PromotionInv
    OBVIOUS
<1>1. ProcessingInv
      BY InitInv DEF PromotionInit
<1>2. PromotionTypeOK
      BY <1>1 DEF PromotionInit, PromotionTypeOK, ProcessingInv
<1> QED BY <1>1, <1>2 DEF PromotionInit, PromotionInv, HeldBinds, SealedBinds, HandedSealed

\* The row that a binding names is completed, so no run writes it again.
LEMMA BoundRowStays ==
    ASSUME ProcessingInv, [Next]_vars, NEW b \in Bindings, Binds(b)
    PROVE  row'[KeyOf(b)] = row[KeyOf(b)]
<1>1. KeyOf(b) \in Keys
      BY DEF Bindings, Receipts, Keys, KeyOf
<1> QED BY <1>1, CompletedStays DEF Binds

\* A run's state that does not change keeps its invariant.
LEMMA QuietInv ==
    ASSUME ProcessingInv, UNCHANGED vars
    PROVE  ProcessingInv'
BY NextInv

\* A step of a promoter that reads a binding, and writes nothing.
LEMMA PromoterStep ==
    ASSUME PromotionInv, UNCHANGED <<vars, receipts, promotion, handoffs>>,
           NEW p \in Promoters, NEW next \in {"current", "score", "seal"},
           NEW b \in Bindings, Binds(b),
           at' = [at EXCEPT ![p] = next], held' = [held EXCEPT ![p] = b]
    PROVE  PromotionInv'
<1>1. ProcessingInv' /\ row' = row
      BY QuietInv DEF PromotionInv, vars
<1>2. PromotionTypeOK'
      BY <1>1 DEF PromotionInv, PromotionTypeOK, ProcessingInv
<1>3. \A q \in Promoters : /\ held'[q] = IF q = p THEN b ELSE held[q]
                           /\ at'[q] # "idle" => q = p \/ at[q] # "idle"
      BY DEF PromotionInv, PromotionTypeOK
<1>4. HeldBinds'
      BY <1>1, <1>3 DEF PromotionInv, HeldBinds, Binds, Completed, KeyOf
<1>5. SealedBinds' /\ HandedSealed'
      BY <1>1 DEF PromotionInv, SealedBinds, HandedSealed, Binds, Completed, KeyOf, ScoreOf
<1> QED BY <1>1, <1>2, <1>4, <1>5 DEF PromotionInv

\* The steps of a run leave promoters, promotions and handoffs alone.
LEMMA ProcessingStepInv ==
    ASSUME PromotionInv, ProcessingStep
    PROVE  PromotionInv'
<1>1. [Next]_vars /\ ProcessingInv /\ ProcessingInv'
      BY NextInv DEF ProcessingStep, PromotionInv
<1>2. receipts' \subseteq Receipts
  <2>1. CASE receipts' = receipts
        BY <2>1 DEF PromotionInv, PromotionTypeOK
  <2>2. ASSUME NEW w \in Workers, WriteReport(w),
               receipts' = receipts \cup {[config |-> config[w], rows |-> rows[w]]}
        PROVE  receipts' \subseteq Receipts
    <3>1. config[w] \in Configs /\ rows[w] \in Reports
          BY <1>1, <2>2, ResultsTyped DEF WriteReport, ProcessingInv, RunIsSetUp, ReportsUnderLock
    <3> QED BY <2>2, <3>1 DEF PromotionInv, PromotionTypeOK, Receipts
  <2> QED BY <2>1, <2>2 DEF ProcessingStep
<1>3. UNCHANGED <<promotion, handoffs, at, held>>
      BY DEF ProcessingStep, promoterVars
<1>4. PromotionTypeOK'
      BY <1>1, <1>2, <1>3 DEF PromotionInv, PromotionTypeOK, ProcessingInv
<1>5. HeldBinds'
      BY <1>1, <1>3, BoundRowStays DEF PromotionInv, HeldBinds, Binds, Completed, KeyOf
<1>6. SealedBinds'
  <2>1. \A j \in Jobs : promotion[j] # None => promotion[j].binding \in Bindings
        BY DEF PromotionInv, PromotionTypeOK, Promotions
  <2> QED BY <1>1, <1>3, <2>1, BoundRowStays
          DEF PromotionInv, SealedBinds, Binds, Completed, KeyOf, ScoreOf
<1>7. HandedSealed'
      BY <1>3 DEF PromotionInv, HandedSealed
<1> QED BY <1>1, <1>4, <1>5, <1>6, <1>7 DEF PromotionInv

\* What the database of results says to a promoter that asks for it.
LEMMA ReadResultsInv ==
    ASSUME PromotionInv, NEW p \in Promoters, NEW r \in receipts, NEW j \in Jobs,
           ReadResults(p, r, j)
    PROVE  PromotionInv'
<1> DEFINE b == [receipt |-> r, job |-> j, result |-> r.rows[j], content |-> r.rows[j].vacancy.content]
<1>1. /\ UNCHANGED <<vars, receipts, promotion, handoffs>>
      /\ held' = [held EXCEPT ![p] = b] /\ at' = [at EXCEPT ![p] = "current"]
      /\ r.rows = CompletedResults(r.config) /\ r.rows[j] # None /\ r.rows[j].axes # None
      BY DEF ReadResults, Await
<1>2. r \in Receipts /\ r.config \in Configs
      BY DEF PromotionInv, PromotionTypeOK, Receipts
<1>3. r.rows[j] = IF posting[j] # 0 /\ Completed(Current(j, r.config))
                  THEN row[Current(j, r.config)].result ELSE None
      BY <1>1 DEF CompletedResults
<1>4. posting[j] # 0 /\ Completed(Current(j, r.config)) /\ r.rows[j] = row[Current(j, r.config)].result
      BY <1>1, <1>3
<1>5. Current(j, r.config) \in Keys
      BY <1>2, <1>4, ProcessingAssumption
      DEF PromotionInv, ProcessingInv, ProcessingTypeOK, Contents, Current, Keys, Versions
<1>6. r.rows[j] \in Results /\ r.rows[j].vacancy.content = posting[j]
      BY <1>4, <1>5, RowStates DEF PromotionInv, ProcessingInv, ResultIsOfItsContent, Current
<1>7. b \in Bindings
      BY <1>2, <1>6 DEF Bindings, Results, Vacancies
<1>8. Binds(b)
      BY <1>1, <1>4, <1>6 DEF Binds, Current, KeyOf
<1> QED BY <1>1, <1>7, <1>8, PromoterStep

\* The posting is of the content that the result in hand was read from.
LEMMA ReadCurrentInv ==
    ASSUME PromotionInv, NEW p \in Promoters, ReadCurrent(p)
    PROVE  PromotionInv'
<1> DEFINE b == [held[p] EXCEPT !.content = posting[held[p].job]]
<1>1. /\ UNCHANGED <<vars, receipts, promotion, handoffs>> /\ at[p] = "current"
      /\ at' = [at EXCEPT ![p] = "score"] /\ Completed(CurrentKey(p))
      /\ posting[held[p].job] # 0 /\ row[CurrentKey(p)].result = held[p].result
      BY DEF ReadCurrent, Await
<1>2. held[p] \in Bindings /\ Binds(held[p])
      BY <1>1 DEF PromotionInv, HeldBinds
<1>3. CurrentKey(p) = <<held[p].job, posting[held[p].job], held[p].receipt.config>>
      BY DEF CurrentKey, Current
<1>4. posting[held[p].job] \in Versions
  <2>1. held[p].job \in Jobs /\ posting \in [Jobs -> 0..MaxVersion]
        BY <1>2 DEF PromotionInv, ProcessingInv, ProcessingTypeOK, Contents, Bindings
  <2>2. posting[held[p].job] \in 0..MaxVersion
        BY <2>1
  <2>3. posting[held[p].job] # 0
        BY <1>1
  <2> HIDE DEF b
  <2> QED BY <2>2, <2>3, ProcessingAssumption DEF Versions
<1>5. CurrentKey(p) \in Keys
      BY <1>2, <1>3, <1>4 DEF Bindings, Receipts, Keys
<1>6. held[p].result.vacancy.content = posting[held[p].job]
      BY <1>1, <1>3, <1>5 DEF PromotionInv, ProcessingInv, ResultIsOfItsContent
<1>7. held[p].content = posting[held[p].job]
      BY <1>2, <1>6 DEF Binds
<1>8. b = held[p]
      BY <1>2, <1>7 DEF Bindings
<1>9. held' = [held EXCEPT ![p] = b]
      BY DEF ReadCurrent
<1> QED BY <1>1, <1>2, <1>8, <1>9, PromoterStep

\* A promotion is sealed with the score of its result.
LEMMA SealInv ==
    ASSUME PromotionInv, NEW p \in Promoters, Seal(p)
    PROVE  PromotionInv'
<1> DEFINE j == held[p].job
           sealed == [binding |-> held[p], score |-> ScoreOf(score[j])]
<1>1. /\ UNCHANGED <<vars, receipts, handoffs>> /\ at[p] = "seal"
      /\ Scored(j, held[p].result) /\ promotion[j] \in {None, sealed}
      /\ promotion' = [promotion EXCEPT ![j] = sealed]
      /\ at' = [at EXCEPT ![p] = "idle"] /\ held' = [held EXCEPT ![p] = None]
      BY DEF Seal, Await
<1>2. held[p] \in Bindings /\ Binds(held[p]) /\ j \in Jobs
      BY <1>1 DEF PromotionInv, HeldBinds, Bindings
<1>3. sealed.score = ScoreOf(held[p].result) /\ sealed.score \in Scores
      BY <1>1, <1>2 DEF Scored, ScoreOf, Scores, Binds, Bindings, Results, Vacancies
<1>4. sealed \in Promotions
      BY <1>2, <1>3 DEF Promotions
<1> HIDE DEF sealed
<1>5. \A i \in Jobs : promotion'[i] = IF i = j THEN sealed ELSE promotion[i]
      BY <1>1, <1>2 DEF PromotionInv, PromotionTypeOK
<1>6. PromotionTypeOK'
  <2>1. promotion' \in [Jobs -> Promotions \cup {None}]
        BY <1>1, <1>4 DEF PromotionInv, PromotionTypeOK
  <2>2. ProcessingTypeOK'
        BY <1>1, QuietInv DEF PromotionInv, ProcessingInv
  <2> QED BY <1>1, <2>1, <2>2 DEF PromotionInv, PromotionTypeOK
<1>7. HeldBinds'
  <2>1. \A q \in Promoters : at'[q] # "idle" => held'[q] = held[q] /\ at[q] # "idle"
        BY <1>1 DEF PromotionInv, PromotionTypeOK
  <2>2. row' = row
        BY <1>1 DEF vars
  <2> QED BY <2>1, <2>2 DEF PromotionInv, HeldBinds, Binds, Completed, KeyOf
<1>8. SealedBinds'
  <2>1. /\ sealed.binding = held[p] /\ sealed.score = ScoreOf(held[p].result) /\ row' = row
        /\ held[p].job = j
        BY <1>1, <1>3 DEF sealed, vars
  <2>2. ASSUME NEW i \in Jobs, promotion'[i] # None, i = j
        PROVE  /\ promotion'[i].binding.job = i
               /\ Binds(promotion[i].binding)'
               /\ promotion'[i].score = ScoreOf(promotion'[i].binding.result)
    <3>1. promotion'[i] = sealed
          BY <1>5, <2>2
    <3> QED BY <1>2, <2>1, <2>2, <3>1 DEF Binds, Completed, KeyOf
  <2>3. ASSUME NEW i \in Jobs, promotion'[i] # None, i # j
        PROVE  /\ promotion'[i].binding.job = i
               /\ Binds(promotion[i].binding)'
               /\ promotion'[i].score = ScoreOf(promotion'[i].binding.result)
    <3>1. promotion'[i] = promotion[i]
          BY <1>5, <2>3
    <3> QED BY <2>1, <2>3, <3>1 DEF PromotionInv, SealedBinds, Binds, Completed, KeyOf
  <2> QED BY <2>2, <2>3 DEF SealedBinds, ScoreOf
<1>9. HandedSealed'
  <2> SUFFICES ASSUME NEW h \in handoffs
               PROVE  promotion'[h.job] # None /\ h.promotion = promotion'[h.job]
                      /\ h.score = h.promotion.score
      BY <1>1 DEF HandedSealed
  <2>1. h.job \in Jobs /\ promotion[h.job] # None /\ h.promotion = promotion[h.job]
        /\ h.score = h.promotion.score
        BY DEF PromotionInv, PromotionTypeOK, HandedSealed, Handoffs
  <2>2. promotion'[h.job] = promotion[h.job]
        BY <1>1, <1>5, <2>1
  <2> QED BY <2>1, <2>2
<1> QED BY <1>1, <1>6, <1>7, <1>8, <1>9, QuietInv DEF PromotionInv

\* Handing a vacancy over records what the promotion has sealed.
LEMMA ProduceInv ==
    ASSUME PromotionInv, NEW j \in Jobs, Produce(j)
    PROVE  PromotionInv'
<1> DEFINE h == [job |-> j, score |-> ScoreOf(score[j]), promotion |-> promotion[j]]
<1>1. /\ UNCHANGED <<vars, receipts, promotion, at, held>>
      /\ promotion[j] # None /\ ScoreOf(score[j]) = promotion[j].score
      /\ handoffs' = handoffs \cup {h}
      BY DEF Produce, promoterVars
<1>2. promotion[j] \in Promotions /\ promotion[j].score \in Scores
      BY <1>1 DEF PromotionInv, PromotionTypeOK, Promotions
<1>3. h \in Handoffs
      BY <1>1, <1>2 DEF Handoffs
<1>4. ProcessingInv' /\ row' = row
      BY <1>1, QuietInv DEF PromotionInv, vars
<1>5. PromotionTypeOK'
      BY <1>1, <1>3, <1>4 DEF PromotionInv, PromotionTypeOK, ProcessingInv
<1>6. HandedSealed'
      BY <1>1 DEF PromotionInv, HandedSealed
<1>7. HeldBinds' /\ SealedBinds'
      BY <1>1, <1>4 DEF PromotionInv, HeldBinds, SealedBinds, Binds, Completed, KeyOf, ScoreOf
<1> QED BY <1>4, <1>5, <1>6, <1>7 DEF PromotionInv

LEMMA AbandonInv ==
    ASSUME PromotionInv, NEW p \in Promoters, Abandon(p)
    PROVE  PromotionInv'
<1>1. /\ UNCHANGED <<vars, receipts, promotion, handoffs>>
      /\ at' = [at EXCEPT ![p] = "idle"] /\ held' = [held EXCEPT ![p] = None]
      BY DEF Abandon, Await
<1>2. ProcessingInv' /\ row' = row
      BY <1>1, QuietInv DEF PromotionInv, vars
<1>3. PromotionTypeOK'
      BY <1>1, <1>2 DEF PromotionInv, PromotionTypeOK, ProcessingInv
<1>4. \A q \in Promoters : at'[q] # "idle" => held'[q] = held[q] /\ at[q] # "idle"
      BY <1>1 DEF PromotionInv, PromotionTypeOK
<1>5. HeldBinds' /\ SealedBinds' /\ HandedSealed'
      BY <1>1, <1>2, <1>4
      DEF PromotionInv, HeldBinds, SealedBinds, HandedSealed, Binds, Completed, KeyOf, ScoreOf
<1> QED BY <1>2, <1>3, <1>5 DEF PromotionInv

LEMMA CheckScoreInv ==
    ASSUME PromotionInv, NEW p \in Promoters, CheckScore(p)
    PROVE  PromotionInv'
<1>1. /\ UNCHANGED <<vars, receipts, promotion, handoffs>> /\ at[p] = "score"
      /\ at' = [at EXCEPT ![p] = "seal"] /\ held' = held
      BY DEF CheckScore, Await
<1>2. held[p] \in Bindings /\ Binds(held[p])
      BY <1>1 DEF PromotionInv, HeldBinds
<1>3. held' = [held EXCEPT ![p] = held[p]]
      BY <1>1 DEF PromotionInv, PromotionTypeOK
<1> QED BY <1>1, <1>2, <1>3, PromoterStep

LEMMA PromotionNextInv == PromotionInv /\ [PromotionNext]_allVars => PromotionInv'
<1> SUFFICES ASSUME PromotionInv, [PromotionNext]_allVars PROVE PromotionInv'
    OBVIOUS
<1>1. CASE UNCHANGED allVars
  <2>1. UNCHANGED <<vars, receipts, promotion, handoffs, at, held>>
        BY <1>1 DEF allVars, promotionVars, promoterVars
  <2>2. ProcessingInv' /\ row' = row
        BY <2>1, QuietInv DEF PromotionInv, vars
  <2> QED BY <2>1, <2>2
          DEF PromotionInv, PromotionTypeOK, ProcessingInv, HeldBinds, SealedBinds, HandedSealed,
              Binds, Completed, KeyOf, ScoreOf
<1> QED BY <1>1, ProcessingStepInv, ReadResultsInv, ReadCurrentInv, CheckScoreInv, SealInv,
           AbandonInv, ProduceInv DEF PromotionNext

\* The invariant of promotions and handoffs, for any number of promoters.
THEOREM PromotionInvariant == PromotionSpec => []PromotionInv
<1> QED BY PromotionInitInv, PromotionNextInv, PTL DEF PromotionSpec

THEOREM PromotionTypeCorrect == PromotionSpec => []PromotionTypeOK
<1>1. PromotionInv => PromotionTypeOK
      BY DEF PromotionInv
<1> QED BY PromotionInvariant, <1>1, PTL

\* A promotion is of a completed included result and of the content it was read from.
THEOREM PromotionsBind == PromotionSpec => []PromotionIsOfItsContent
<1>1. PromotionInv => PromotionIsOfItsContent
      BY DEF PromotionInv, SealedBinds, PromotionIsOfItsContent
<1> QED BY PromotionInvariant, <1>1, PTL

\* A handoff carries the score of the result that was promoted.
THEOREM HandoffsOfPromoted == PromotionSpec => []HandoffIsOfPromoted
<1>1. PromotionInv => HandoffIsOfPromoted
  <2> SUFFICES ASSUME PromotionInv, NEW h \in handoffs
               PROVE  h.promotion = promotion[h.job] /\ h.score = ScoreOf(h.promotion.binding.result)
      BY DEF HandoffIsOfPromoted
  <2>1. h.job \in Jobs
        BY DEF PromotionInv, PromotionTypeOK, Handoffs
  <2> QED BY <2>1 DEF PromotionInv, HandedSealed, SealedBinds
<1> QED BY PromotionInvariant, <1>1, PTL

\* Promoters leave the queue alone: with them it is what it is without them.
THEOREM PromotionKeepsProcessing == PromotionSpec => Spec
<1>1. PromotionInit => Init
      BY DEF PromotionInit
<1>2. [PromotionNext]_allVars => [Next]_vars
      BY DEF PromotionNext, ProcessingStep, ReadResults, ReadCurrent, CheckScore, Seal, Abandon,
             Produce, allVars
<1> QED BY <1>1, <1>2, PTL DEF PromotionSpec, Spec
===============================================================================
