---------------------------- MODULE SubmissionProofs ----------------------------
(***************************************************************************)
(* What Submission promises for any number of runners, vacancies, attempts *)
(* and packages, and any number of deaths: SubmissionInv is inductive, and *)
(* relative to it CancelledInv, SoloInv and TidyInv, which say what a      *)
(* cancelled click, runners that do not overlap, and no deaths add to it.  *)
(***************************************************************************)
EXTENDS Submission, TLAPS

USE SubmissionAssumption

\* What no step takes back.
Grows ==
    /\ \A a \in Attempts : attempt[a] # None =>
        /\ attempt'[a] # None
        /\ attempt'[a].vacancy = attempt[a].vacancy
        /\ attempt'[a].records \in Nat /\ attempt'[a].records >= attempt[a].records
        /\ attempt[a].intent => attempt'[a].intent
        /\ attempt[a].outcome # None => attempt'[a].outcome = attempt[a].outcome
        /\ attempt[a].release = "receipt" =>
              attempt'[a].release = "receipt" /\ attempt'[a].package = attempt[a].package
    /\ \A v \in Vacancies : token[v] # None =>
        /\ token'[v] # None
        /\ token[v].consumed => token'[v] = token[v]

LEMMA AttemptTypes ==
    ASSUME SubmissionInv, NEW a \in Attempts, attempt[a] # None
    PROVE  attempt[a] \in AttemptRecords /\ attempt[a].records \in 0..Assessed
BY DEF SubmissionInv, SubmissionTypeOK, AttemptRecords

LEMMA TokenTypes ==
    ASSUME SubmissionInv, NEW v \in Vacancies, token[v] # None
    PROVE  token[v] \in Tokens /\ token[v].package \in Packages /\ token[v].consumed \in BOOLEAN
BY DEF SubmissionInv, SubmissionTypeOK, Tokens

LEMMA RunTypes ==
    ASSUME SubmissionInv, NEW r \in Runners, pc[r] # "idle"
    PROVE  /\ run[r] \in Runs /\ vacancy(r) \in Vacancies
           /\ mine(r) \in Attempts \cup {None} /\ run[r].package \in Packages \cup {None}
BY DEF SubmissionInv, RunnerOK, Runs, vacancy, mine

LEMMA OwnTypes ==
    ASSUME SubmissionInv, NEW r \in Runners, pc[r] \notin {"idle", "create"}
    PROVE  /\ mine(r) \in Attempts /\ own(r) # None
           /\ own(r) \in AttemptRecords /\ own(r).records \in 0..Assessed
<1>1. mine(r) \in Attempts /\ own(r) # None
  BY DEF SubmissionInv, RunnerOK, Known, own
<1> QED
  BY <1>1, AttemptTypes DEF own

\* A step that leaves the attempts and the tokens alone takes nothing back.
LEMMA SameGrows ==
    ASSUME SubmissionInv, UNCHANGED <<attempt, token>>
    PROVE  Grows
<1>1. \A a \in Attempts : attempt[a] # None => attempt[a].records \in Nat
  BY AttemptTypes DEF Assessed
<1> QED
  BY <1>1 DEF Grows

\* One that replaces one attempt by a later version of it does not either.
LEMMA WriteGrows ==
    ASSUME SubmissionInv, UNCHANGED token, NEW a \in Attempts, attempt[a] # None,
           NEW s \in AttemptRecords, attempt' = [attempt EXCEPT ![a] = s],
           s.vacancy = attempt[a].vacancy,
           s.records >= attempt[a].records,
           attempt[a].intent => s.intent,
           attempt[a].outcome # None => s.outcome = attempt[a].outcome,
           attempt[a].release = "receipt" =>
              s.release = "receipt" /\ s.package = attempt[a].package
    PROVE  Grows
<1>1. \A b \in Attempts : attempt[b] # None => attempt[b].records \in Nat
  BY AttemptTypes DEF Assessed
<1>2. s # None /\ s.records \in Nat
  BY DEF AttemptRecords, Assessed
<1>3. \A b \in Attempts : attempt'[b] = IF b = a THEN s ELSE attempt[b]
  BY DEF SubmissionInv, SubmissionTypeOK
<1> QED
  BY <1>1, <1>2, <1>3 DEF Grows

\* A runner relies on nothing that another one can take from it.
LEMMA OtherRunner ==
    ASSUME SubmissionInv, Grows, UNCHANGED clicks, NEW q \in Runners,
           pc'[q] = pc[q], run'[q] = run[q],
           pc[q] \in Recording => attempt'[mine(q)].records = own(q).records
    PROVE  RunnerOK(q)'
<1>1. CASE pc[q] = "idle"
  BY <1>1 DEF RunnerOK, WithPackage, Released, Holding
<1>2. CASE pc[q] = "create"
  BY <1>2 DEF RunnerOK, WithPackage, Released, Holding, SubmissionInv
<1>3. CASE pc[q] \notin {"idle", "create"}
  <2>1. /\ mine(q) \in Attempts /\ attempt[mine(q)] # None /\ own(q) = attempt[mine(q)]
        /\ vacancy(q) \in Vacancies
    BY <1>3, OwnTypes, RunTypes DEF own
  <2>2. mine(q)' = mine(q) /\ vacancy(q)' = vacancy(q) /\ own(q)' = attempt'[mine(q)]
    BY DEF mine, vacancy, own
  <2>3. /\ own(q)' # None /\ own(q)'.vacancy = own(q).vacancy
        /\ own(q).intent => own(q)'.intent
        /\ own(q).outcome # None => own(q)'.outcome = own(q).outcome
        /\ own(q).release = "receipt" => own(q)'.release = "receipt"
        /\ token[vacancy(q)] # None => token'[vacancy(q)] # None
        /\ token[vacancy(q)] # None /\ token[vacancy(q)].consumed =>
              token'[vacancy(q)] = token[vacancy(q)]
    <3>1. /\ own(q)' # None /\ own(q)'.vacancy = own(q).vacancy
          /\ own(q).intent => own(q)'.intent
          /\ own(q).outcome # None => own(q)'.outcome = own(q).outcome
          /\ own(q).release = "receipt" => own(q)'.release = "receipt"
      BY <2>1, <2>2 DEF Grows
    <3>2. /\ token[vacancy(q)] # None => token'[vacancy(q)] # None
          /\ token[vacancy(q)] # None /\ token[vacancy(q)].consumed =>
                token'[vacancy(q)] = token[vacancy(q)]
      BY <2>1 DEF Grows
    <3> QED
      BY <3>1, <3>2
  <2>4. ClickedOf(vacancy(q)) = {} => ClickedOf(vacancy(q))' = {}
    <3>1. \A a \in Known' : clicks'[a] > 0 => a \in Known /\ clicks[a] > 0
      BY DEF Known, SubmissionInv
    <3>2. \A a \in Known : attempt'[a].vacancy = attempt[a].vacancy
      BY DEF Known, Grows
    <3> QED
      BY <2>2, <3>1, <3>2 DEF ClickedOf
  <2>5. pc[q] \in Holding => token[vacancy(q)] # None
    BY DEF SubmissionInv, RunnerOK, Holding, WithPackage
  <2>6. RunnerOK(q)
    BY DEF SubmissionInv
  <2>7. /\ pc[q] = "start" => own(q)'.records = Created
        /\ pc[q] = "record" => own(q)'.records < Assessed
    BY <2>2, <2>6 DEF RunnerOK, Recording
  <2>8. mine(q)' \in Known'
    BY <2>1, <2>2, <2>3 DEF Known
  <2> QED
    BY <1>3, <2>2, <2>3, <2>4, <2>5, <2>6, <2>7, <2>8 DEF RunnerOK
<1> QED
  BY <1>1, <1>2, <1>3

\* Clicks stay provable and single while nothing is clicked.
LEMMA ClicksKept ==
    ASSUME SubmissionInv, Grows, UNCHANGED clicks
    PROVE  /\ \A a \in Attempts : clicks'[a] > 0 => attempt'[a] # None
           /\ ClickedOnce'
           /\ ClickIsProvable'
<1>1. \A a \in Attempts : clicks[a] \in Nat
  BY DEF SubmissionInv, SubmissionTypeOK
<1>2. \A a \in Attempts : clicks[a] > 0 => a \in Known
  BY DEF SubmissionInv, Known
<1>3. \A a \in Known : a \in Known' /\ attempt'[a].vacancy = attempt[a].vacancy
  BY DEF Known, Grows
<1>4. ClickedOnce'
  <2> SUFFICES ASSUME NEW a \in Known', NEW b \in Known'
               PROVE  /\ clicks'[a] <= 1
                      /\ clicks'[a] = 1 /\ clicks'[b] = 1
                            /\ attempt'[a].vacancy = attempt'[b].vacancy => a = b
    BY DEF ClickedOnce
  <2>1. a \in Attempts /\ b \in Attempts
    BY DEF Known
  <2> QED
    BY <1>1, <1>2, <1>3, <2>1 DEF SubmissionInv, ClickedOnce
<1>5. ClickIsProvable'
  <2> SUFFICES ASSUME NEW a \in Known', clicks'[a] > 0
               PROVE  /\ attempt'[a].intent
                      /\ attempt'[a].release = "receipt"
                      /\ token'[attempt'[a].vacancy] # None
                      /\ Documents[token'[attempt'[a].vacancy].package]
                            = Documents[attempt'[a].package]
                      /\ token'[attempt'[a].vacancy].consumed
    BY DEF ClickIsProvable
  <2>1. a \in Attempts /\ a \in Known /\ attempt[a] # None
    BY <1>2 DEF Known
  <2>2. attempt[a].vacancy \in Vacancies
    BY <2>1, AttemptTypes DEF AttemptRecords
  <2>3. /\ attempt[a].intent /\ attempt[a].release = "receipt"
        /\ token[attempt[a].vacancy] # None /\ token[attempt[a].vacancy].consumed
        /\ Documents[token[attempt[a].vacancy].package] = Documents[attempt[a].package]
    BY <2>1 DEF SubmissionInv, ClickIsProvable
  <2>4. /\ attempt'[a].vacancy = attempt[a].vacancy /\ attempt'[a].intent
        /\ attempt'[a].release = "receipt" /\ attempt'[a].package = attempt[a].package
    BY <2>1, <2>3 DEF Grows
  <2>5. token'[attempt[a].vacancy] = token[attempt[a].vacancy]
    BY <2>2, <2>3 DEF Grows
  <2> QED
    BY <2>3, <2>4, <2>5
<1> QED
  BY <1>2, <1>3, <1>4, <1>5 DEF Known

\* What is left to show of a step of runner r that does not click.
LEMMA StepKeeps ==
    ASSUME SubmissionInv, SubmissionTypeOK', Grows, UNCHANGED clicks,
           NEW r \in Runners, RunnerOK(r)', CheckpointsFollowArchive',
           \A q \in Runners : q # r => pc'[q] = pc[q] /\ run'[q] = run[q],
           \A a \in Attempts :
              attempt[a] # None /\ attempt'[a].records # attempt[a].records =>
                 pc[r] = "record" /\ a = mine(r),
           pc'[r] \in Recording =>
              \/ pc[r] \in Recording /\ run'[r] = run[r]
              \/ run'[r].attempt \notin Known,
           pc'[r] \in Holding =>
              /\ run'[r] = run[r]
              /\ pc[r] \in Holding \/ ~token[vacancy(r)].consumed
    PROVE  SubmissionInv'
<1>1. \A q \in Runners : RunnerOK(q)'
  <2> SUFFICES ASSUME NEW q \in Runners, q # r PROVE RunnerOK(q)'
    OBVIOUS
  <2>1. pc[q] \in Recording => attempt'[mine(q)].records = own(q).records
    <3> SUFFICES ASSUME pc[q] \in Recording PROVE attempt'[mine(q)].records = own(q).records
      OBVIOUS
    <3>1. mine(q) \in Attempts /\ own(q) # None /\ own(q) = attempt[mine(q)]
      BY OwnTypes DEF Recording, own
    <3>2. ~(pc[r] = "record" /\ mine(q) = mine(r))
      BY DEF SubmissionInv, Recording
    <3> QED
      BY <3>1, <3>2
  <2> QED
    BY <2>1, OtherRunner
<1>2. \A q \in Runners : pc[q] \in Recording => mine(q) \in Known
  BY DEF SubmissionInv, RunnerOK, Recording
<1>3. \A q, p \in Runners :
         pc'[q] \in Recording /\ pc'[p] \in Recording /\ mine(q)' = mine(p)' => q = p
  BY <1>2 DEF SubmissionInv, mine
<1>4. \A q \in Runners : pc[q] \in Holding => token[vacancy(q)].consumed
  BY DEF SubmissionInv, RunnerOK
<1>5. \A q, p \in Runners :
         pc'[q] \in Holding /\ pc'[p] \in Holding /\ vacancy(q)' = vacancy(p)' => q = p
  BY <1>4 DEF SubmissionInv, vacancy
<1> QED
  BY <1>1, <1>3, <1>5, ClicksKept DEF SubmissionInv

\* The same, with the types of what the step writes.
LEMMA MoveKeeps ==
    ASSUME SubmissionInv, Grows, UNCHANGED clicks, NEW r \in Runners,
           NEW x \in Points \cup Closing, pc' = [pc EXCEPT ![r] = x],
           NEW y \in Runs \cup {None}, run' = [run EXCEPT ![r] = y],
           attempt' \in [Attempts -> AttemptRecords \cup {None}],
           started' \subseteq Attempts, completed' \subseteq Attempts, tornLedger' \in BOOLEAN,
           token' \in [Vacancies -> Tokens \cup {None}],
           superseded' \in [Vacancies -> SUBSET (Packages \X Packages)],
           kills' \in Nat, overlapped' \in BOOLEAN,
           CheckpointsFollowArchive', RunnerOK(r)',
           \A a \in Attempts :
              attempt[a] # None /\ attempt'[a].records # attempt[a].records =>
                 pc[r] = "record" /\ a = mine(r),
           x \in Recording => \/ pc[r] \in Recording /\ y = run[r]
                              \/ y.attempt \notin Known,
           x \in Holding => y = run[r] /\ (pc[r] \in Holding \/ ~token[vacancy(r)].consumed)
    PROVE  SubmissionInv' /\ Grows
<1>1. /\ pc'[r] = x /\ run'[r] = y
      /\ \A q \in Runners : q # r => pc'[q] = pc[q] /\ run'[q] = run[q]
      /\ pc' \in [Runners -> Points \cup Closing] /\ run' \in [Runners -> Runs \cup {None}]
  BY DEF SubmissionInv, SubmissionTypeOK
<1>2. SubmissionTypeOK'
  BY <1>1 DEF SubmissionInv, SubmissionTypeOK
<1> QED
  BY <1>1, <1>2, StepKeeps

LEMMA GatesTyped ==
    ASSUME SubmissionInv, UNCHANGED gateVars
    PROVE  /\ UNCHANGED token
           /\ token' \in [Vacancies -> Tokens \cup {None}]
           /\ superseded' \in [Vacancies -> SUBSET (Packages \X Packages)]
BY DEF SubmissionInv, SubmissionTypeOK, gateVars

LEMMA CheckpointsTyped ==
    ASSUME SubmissionInv, Grows, UNCHANGED <<started, completed>>
    PROVE  started' \subseteq Attempts /\ completed' \subseteq Attempts /\ CheckpointsFollowArchive'
<1>1. started \subseteq Attempts /\ completed \subseteq started
  BY DEF SubmissionInv, SubmissionTypeOK, CheckpointsFollowArchive
<1>2. \A a \in Attempts : attempt[a] # None => attempt[a].records \in Nat
  BY AttemptTypes DEF Assessed
<1>3. \A a \in started : /\ attempt[a] # None /\ attempt[a].records >= Created
                         /\ attempt'[a] # None /\ attempt'[a].records >= attempt[a].records
                         /\ attempt'[a].records \in Nat
  BY <1>1 DEF SubmissionInv, CheckpointsFollowArchive, Grows
<1>4. \A a \in started : attempt'[a].records >= Created
  BY <1>1, <1>2, <1>3 DEF Created
<1>5. \A a \in completed : attempt'[a].outcome # None
  BY <1>1, <1>3 DEF SubmissionInv, CheckpointsFollowArchive, Grows
<1> QED
  BY <1>1, <1>3, <1>4, <1>5 DEF CheckpointsFollowArchive

\* A step that touches neither the archive nor the gate.
LEMMA QuietKeeps ==
    ASSUME SubmissionInv, UNCHANGED <<archiveVars, gateVars, clicks>>,
           kills' \in Nat, overlapped' \in BOOLEAN, NEW r \in Runners,
           NEW x \in Points \cup Closing, pc' = [pc EXCEPT ![r] = x],
           NEW y \in Runs \cup {None}, run' = [run EXCEPT ![r] = y],
           RunnerOK(r)', x \notin Recording,
           x \in Holding => y = run[r] /\ pc[r] \in Holding
    PROVE  SubmissionInv' /\ Grows
<1>1. UNCHANGED <<attempt, started, completed, tornLedger, token>>
  BY DEF archiveVars, gateVars
<1>2. Grows
  BY <1>1, SameGrows
<1>3. attempt' \in [Attempts -> AttemptRecords \cup {None}] /\ tornLedger' \in BOOLEAN
  BY <1>1 DEF SubmissionInv, SubmissionTypeOK
<1>4. \A a \in Attempts : attempt'[a].records = attempt[a].records
  BY <1>1
<1> QED
  BY <1>1, <1>2, <1>3, <1>4, GatesTyped, CheckpointsTyped, MoveKeeps

LEMMA LeftRunner ==
    ASSUME SubmissionInv, NEW r \in Runners, Leave(r)
    PROVE  RunnerOK(r)' /\ "idle" \in Points
BY DEF SubmissionInv, SubmissionTypeOK, Leave, RunnerOK, Points, Recording, WithPackage,
       Released, Holding

LEMMA QuietLeave ==
    ASSUME SubmissionInv, UNCHANGED <<archiveVars, gateVars, clicks>>,
           kills' \in Nat, overlapped' \in BOOLEAN, NEW r \in Runners, Leave(r)
    PROVE  SubmissionInv' /\ Grows
<1>1. "idle" \notin Recording /\ "idle" \notin Holding
  BY DEF Recording, Holding
<1> QED
  BY <1>1, LeftRunner, QuietKeeps DEF Leave

\* Points at which a runner relies on nothing but its attempt.
Plain == {"open", "prefill", "questions", "prepare"} \cup Closing

LEMMA PlainPoints ==
    /\ Plain \subseteq Points \cup Closing
    /\ \A x \in Plain : /\ x \notin Recording /\ x \notin WithPackage /\ x \notin Released
                        /\ x \notin Holding
                        /\ x \notin {"idle", "create", "ledger", "record", "start", "intent",
                                     "click", "wait"}
BY DEF Plain, Points, Closing, Outcomes, SubmitOutcomes, Recording, WithPackage, Released, Holding

LEMMA GotoMoves ==
    ASSUME SubmissionInv, NEW r \in Runners, NEW x, Goto(r, x)
    PROVE  /\ pc' = [pc EXCEPT ![r] = x] /\ pc'[r] = x
           /\ run' = [run EXCEPT ![r] = run[r]] /\ run'[r] = run[r]
           /\ run[r] \in Runs \cup {None}
           /\ mine(r)' = mine(r) /\ vacancy(r)' = vacancy(r)
BY DEF SubmissionInv, SubmissionTypeOK, Goto, mine, vacancy

\* An attempt that runner r has at hand is still there.
LEMMA OwnStays ==
    ASSUME SubmissionInv, Grows, NEW r \in Runners, pc[r] \notin {"idle", "create"},
           run'[r] = run[r]
    PROVE  run'[r] \in Runs /\ mine(r)' \in Known' /\ own(r)' = attempt'[mine(r)]
BY OwnTypes, RunTypes DEF Known, mine, own, Grows

LEMMA PlainRunner ==
    ASSUME SubmissionInv, Grows, NEW r \in Runners, pc[r] \notin {"idle", "create"},
           NEW x \in Plain, Goto(r, x)
    PROVE  RunnerOK(r)'
BY PlainPoints, GotoMoves, OwnStays DEF RunnerOK

LEMMA QuietGoto ==
    ASSUME SubmissionInv, UNCHANGED <<archiveVars, gateVars, clicks>>,
           UNCHANGED <<kills, overlapped>>, NEW r \in Runners, pc[r] \notin {"idle", "create"},
           NEW x \in Plain, Goto(r, x)
    PROVE  SubmissionInv' /\ Grows
<1>1. Grows
  BY SameGrows DEF archiveVars, gateVars
<1>2. kills' \in Nat /\ overlapped' \in BOOLEAN
  BY DEF SubmissionInv, SubmissionTypeOK
<1>3. RunnerOK(r)'
  BY <1>1, PlainRunner
<1> QED
  BY <1>2, <1>3, PlainPoints, GotoMoves, QuietKeeps

-------------------------------------------------------------------------------
(***************************************************************************)
(* Steps that touch neither the archive nor the gate.                      *)
(***************************************************************************)
LEMMA PlanKeeps ==
    ASSUME SubmissionInv, NEW r \in Runners, Plan(r)
    PROVE  SubmissionInv' /\ Grows
<1>1. UNCHANGED <<archiveVars, gateVars, clicks>> /\ kills' \in Nat /\ overlapped' \in BOOLEAN
  BY DEF Plan, SubmissionInv, SubmissionTypeOK
<1>2. UNCHANGED attempt
  BY <1>1 DEF archiveVars
<1>3. PICK v \in Vacancies :
        \/ /\ run' = [run EXCEPT ![r] = [vacancy |-> v, attempt |-> None, package |-> None]]
           /\ pc' = [pc EXCEPT ![r] = "create"]
        \/ \E a \in Incomplete(v) :
           /\ run' = [run EXCEPT ![r] = [vacancy |-> v, attempt |-> a, package |-> None]]
           /\ pc' = [pc EXCEPT ![r] = "open"]
  <2>1. \A listed \in Listings, retry \in BOOLEAN : Ready(listed, retry) \subseteq Vacancies
    BY DEF Ready
  <2> QED
    BY <2>1 DEF Plan
<1>4. v \in Vacancies
  OBVIOUS
<1>5. /\ "create" \in Points /\ "open" \in Points
      /\ {"create", "open"} \cap (Recording \cup WithPackage \cup Released \cup Holding) = {}
  BY DEF Points, Recording, WithPackage, Released, Holding
<1>6. CASE /\ run' = [run EXCEPT ![r] = [vacancy |-> v, attempt |-> None, package |-> None]]
           /\ pc' = [pc EXCEPT ![r] = "create"]
  <2>1. [vacancy |-> v, attempt |-> None, package |-> None] \in Runs
    BY <1>4 DEF Runs
  <2>2. RunnerOK(r)'
    BY <1>5, <1>6, <2>1 DEF RunnerOK, SubmissionInv, SubmissionTypeOK
  <2> QED
    BY <1>1, <1>5, <1>6, <2>1, <2>2, QuietKeeps
<1>7. ASSUME NEW a \in Incomplete(v),
             run' = [run EXCEPT ![r] = [vacancy |-> v, attempt |-> a, package |-> None]],
             pc' = [pc EXCEPT ![r] = "open"]
      PROVE  SubmissionInv' /\ Grows
  <2>1. a \in Known /\ a \in Attempts
    BY DEF Incomplete, Prior, Known
  <2>2. [vacancy |-> v, attempt |-> a, package |-> None] \in Runs
    BY <1>4, <2>1 DEF Runs
  <2>3. pc'[r] = "open" /\ run'[r] \in Runs /\ mine(r)' = a
    BY <1>7, <2>2 DEF SubmissionInv, SubmissionTypeOK, mine
  <2>4. mine(r)' \in Known'
    BY <1>2, <2>1, <2>3 DEF Known
  <2>5. RunnerOK(r)'
    BY <1>5, <2>3, <2>4 DEF RunnerOK
  <2> QED
    BY <1>1, <1>5, <1>7, <2>2, <2>5, QuietKeeps
<1> QED
  BY <1>3, <1>6, <1>7

LEMMA OpenKeeps ==
    ASSUME SubmissionInv, NEW r \in Runners, Open(r)
    PROVE  SubmissionInv' /\ Grows
BY QuietGoto DEF Open, Plain, Closing, Outcomes

LEMMA PrepareFailsKeeps ==
    ASSUME SubmissionInv, NEW r \in Runners, PrepareFails(r)
    PROVE  SubmissionInv' /\ Grows
BY QuietGoto DEF PrepareFails, Plain, Closing, Outcomes

LEMMA CancelKeeps ==
    ASSUME SubmissionInv, NEW r \in Runners, Cancel(r)
    PROVE  SubmissionInv' /\ Grows
BY QuietGoto DEF Cancel, Plain, Closing, Outcomes

LEMMA RefuseKeeps ==
    ASSUME SubmissionInv, NEW r \in Runners, Refuse(r)
    PROVE  SubmissionInv' /\ Grows
BY QuietLeave DEF Refuse, SubmissionInv, SubmissionTypeOK

\* What a released runner knows stays true at the next point.
LEMMA PreflightKeeps ==
    ASSUME SubmissionInv, NEW r \in Runners, Preflight(r)
    PROVE  SubmissionInv' /\ Grows
<1>1. /\ pc[r] = "execute"
      /\ UNCHANGED <<archiveVars, gateVars, clicks, kills, overlapped>>
  BY DEF Preflight
<1>2. CASE Goto(r, "blocked")
  BY <1>1, <1>2, QuietGoto DEF Plain, Closing, Outcomes
<1>3. CASE Leave(r)
  BY <1>1, <1>3, QuietLeave DEF SubmissionInv, SubmissionTypeOK
<1>4. CASE Goto(r, "consume")
  <2>1. /\ "consume" \in Points \cap WithPackage \cap Released
        /\ "consume" \notin Recording \cup Holding
        /\ "execute" \in WithPackage \cap Released
    BY DEF Points, WithPackage, Released, Recording, Holding
  <2>2. UNCHANGED <<attempt, token>>
    BY <1>1 DEF archiveVars, gateVars
  <2>3. RunnerOK(r)'
    BY <1>1, <1>4, <2>1, <2>2, GotoMoves, OwnStays, SameGrows DEF RunnerOK, SubmissionInv, own
  <2> QED
    BY <1>1, <1>4, <2>1, <2>3, GotoMoves, QuietKeeps DEF SubmissionInv, SubmissionTypeOK
<1> QED
  BY <1>2, <1>3, <1>4 DEF Preflight

-------------------------------------------------------------------------------
(***************************************************************************)
(* Steps that write the attempt archive.                                   *)
(***************************************************************************)

\* Later versions of an attempt.
Later(new, old) ==
    /\ new \in AttemptRecords
    /\ new.vacancy = old.vacancy
    /\ new.records >= old.records
    /\ old.intent => new.intent
    /\ old.outcome # None => new.outcome = old.outcome
    /\ old.release = "receipt" => new.release = "receipt" /\ new.package = old.package

LEMMA OwnWritten ==
    ASSUME SubmissionInv, NEW r \in Runners, pc[r] \notin {"idle", "create"},
           NEW s, Later(s, own(r)), attempt' = [attempt EXCEPT ![mine(r)] = s], UNCHANGED token
    PROVE  /\ Grows
           /\ attempt' \in [Attempts -> AttemptRecords \cup {None}]
           /\ attempt'[mine(r)] = s
           /\ \A a \in Attempts : a # mine(r) => attempt'[a] = attempt[a]
<1>1. /\ mine(r) \in Attempts /\ attempt[mine(r)] # None /\ own(r) = attempt[mine(r)]
      /\ s \in AttemptRecords
  BY OwnTypes DEF own, Later
<1>2. Grows
  BY <1>1, WriteGrows DEF Later
<1>3. attempt \in [Attempts -> AttemptRecords \cup {None}]
  BY DEF SubmissionInv, SubmissionTypeOK
<1> QED
  BY <1>1, <1>2, <1>3

LEMMA WriteKeeps ==
    ASSUME SubmissionInv, NEW r \in Runners, pc[r] \notin {"idle", "create"},
           NEW s, Later(s, own(r)), attempt' = [attempt EXCEPT ![mine(r)] = s],
           s.records # own(r).records => pc[r] = "record",
           UNCHANGED <<started, completed, tornLedger, gateVars, clicks, kills, overlapped>>,
           NEW x \in Points \cup Closing, Goto(r, x), RunnerOK(r)',
           x \in Recording => pc[r] \in Recording,
           x \in Holding => pc[r] \in Holding
    PROVE  SubmissionInv' /\ Grows
<1>1. UNCHANGED token
  BY DEF gateVars
<1>2. /\ Grows
      /\ attempt' \in [Attempts -> AttemptRecords \cup {None}]
      /\ attempt'[mine(r)] = s
      /\ \A a \in Attempts : a # mine(r) => attempt'[a] = attempt[a]
  BY <1>1, OwnWritten
<1>3. \A a \in Attempts :
         attempt[a] # None /\ attempt'[a].records # attempt[a].records =>
            pc[r] = "record" /\ a = mine(r)
  BY <1>2 DEF own
<1>4. tornLedger' \in BOOLEAN /\ kills' \in Nat /\ overlapped' \in BOOLEAN
  BY DEF SubmissionInv, SubmissionTypeOK
<1> QED
  BY <1>2, <1>3, <1>4, GotoMoves, GatesTyped, CheckpointsTyped, MoveKeeps

\* The call raises, or the attempt is written and the runner goes on.
LEMMA RaisesKeeps ==
    ASSUME SubmissionInv, NEW r \in Runners, UNCHANGED attempt, Leave(r),
           UNCHANGED <<started, completed, tornLedger, gateVars, clicks, kills, overlapped>>
    PROVE  SubmissionInv' /\ Grows
<1>1. UNCHANGED <<archiveVars, gateVars, clicks>>
  BY DEF archiveVars
<1> QED
  BY <1>1, QuietLeave DEF SubmissionInv, SubmissionTypeOK

LEMMA RecordKeeps ==
    ASSUME SubmissionInv, NEW r \in Runners, Record(r)
    PROVE  SubmissionInv' /\ Grows
<1> DEFINE s == [own(r) EXCEPT !.records = @ + 1]
           x == CASE own(r).records = 0            -> "start"
                  [] own(r).records = Assessed - 1 -> "open"
                  [] OTHER                         -> "record"
<1>1. /\ pc[r] = "record" /\ Extend(r, Writable(mine(r)), s, x)
      /\ UNCHANGED <<started, completed, tornLedger, gateVars, clicks, kills, overlapped>>
  BY DEF Record
<1>2. /\ pc[r] \notin {"idle", "create"} /\ mine(r) \in Attempts /\ own(r) # None
      /\ own(r) \in AttemptRecords /\ own(r).records \in 0..2
  BY <1>1, OwnTypes DEF SubmissionInv, RunnerOK, Assessed
<1>3. Later(s, own(r)) /\ s.records = own(r).records + 1
  BY <1>2 DEF Later, AttemptRecords, Assessed
<1>4. CASE UNCHANGED attempt /\ Leave(r)
  BY <1>1, <1>4, RaisesKeeps
<1>5. CASE attempt' = [attempt EXCEPT ![mine(r)] = s] /\ Goto(r, x)
  <2>1. /\ x \in {"start", "open", "record"}
        /\ x = "start" => own(r).records = 0
        /\ x = "record" => own(r).records = 1
    BY <1>2 DEF Assessed
  <2>2. /\ {"start", "open", "record"} \subseteq Points
        /\ {"start", "open", "record"} \cap (WithPackage \cup Released \cup Holding) = {}
        /\ "record" \in Recording /\ "open" \notin Recording
    BY DEF Points, WithPackage, Released, Holding, Recording
  <2> HIDE DEF s, x
  <2>3. Grows /\ attempt'[mine(r)] = s
    BY <1>1, <1>2, <1>3, <1>5, OwnWritten DEF gateVars
  <2>4. /\ pc'[r] = x /\ run'[r] \in Runs /\ mine(r)' \in Known' /\ own(r)' = s
    BY <1>2, <1>5, <2>3, GotoMoves, OwnStays
  <2>5. RunnerOK(r)'
    BY <1>2, <1>3, <2>1, <2>2, <2>4 DEF RunnerOK, Created, Assessed
  <2> QED
    BY <1>1, <1>2, <1>3, <1>5, <2>1, <2>2, <2>5, WriteKeeps
<1> QED
  BY <1>1, <1>4, <1>5 DEF Extend

\* A write after which the runner relies on nothing but its attempt.
LEMMA PlainWriteKeeps ==
    ASSUME SubmissionInv, NEW r \in Runners, pc[r] \notin {"idle", "create"},
           NEW s, Later(s, own(r)), s.records = own(r).records,
           attempt' = [attempt EXCEPT ![mine(r)] = s],
           UNCHANGED <<started, completed, tornLedger, gateVars, clicks, kills, overlapped>>,
           NEW x \in Plain, Goto(r, x)
    PROVE  SubmissionInv' /\ Grows
<1>1. Grows
  BY OwnWritten DEF gateVars
<1>2. RunnerOK(r)'
  BY <1>1, PlainRunner
<1> QED
  BY <1>2, PlainPoints, WriteKeeps

LEMMA PrefillKeeps ==
    ASSUME SubmissionInv, NEW r \in Runners, Prefill(r)
    PROVE  SubmissionInv' /\ Grows
<1> DEFINE n == IF pc[r] = "prefill" THEN 1 ELSE 2
           s == [own(r) EXCEPT !.prefill = n]
           x == IF n = 1 THEN "questions" ELSE "prepare"
<1>1. /\ pc[r] \in {"prefill", "questions"} /\ Extend(r, Writable(mine(r)), s, x)
      /\ UNCHANGED <<started, completed, tornLedger, gateVars, clicks, kills, overlapped>>
  BY DEF Prefill
<1>2. own(r) \in AttemptRecords /\ own(r).records \in 0..Assessed
  BY <1>1, OwnTypes
<1>3. Later(s, own(r)) /\ s.records = own(r).records
  BY <1>2 DEF Later, AttemptRecords, Assessed
<1>4. x \in Plain
  BY DEF Plain
<1> HIDE DEF s, x
<1> QED
  BY <1>1, <1>3, <1>4, RaisesKeeps, PlainWriteKeeps DEF Extend

LEMMA AwaitKeeps ==
    ASSUME SubmissionInv, NEW r \in Runners, Await(r)
    PROVE  SubmissionInv' /\ Grows
<1>1. PICK page \in BOOLEAN, email \in BOOLEAN :
         /\ attempt' = [attempt EXCEPT ![mine(r)].confirmed = page \/ email]
         /\ Goto(r, IF page THEN "submitted_success" ELSE "indeterminate")
  BY DEF Await
<1> DEFINE b == page \/ email
           s == [own(r) EXCEPT !.confirmed = b]
<1>2. /\ pc[r] = "wait"
      /\ UNCHANGED <<started, completed, tornLedger, gateVars, clicks, kills, overlapped>>
  BY DEF Await
<1>3. own(r) \in AttemptRecords /\ own(r).records \in 0..Assessed
  BY <1>2, OwnTypes
<1>4. Later(s, own(r)) /\ s.records = own(r).records
  <2>1. b \in BOOLEAN
    BY Zenon
  <2> HIDE DEF b
  <2> QED
    BY <1>3, <2>1 DEF Later, AttemptRecords, Assessed
<1>5. attempt' = [attempt EXCEPT ![mine(r)] = s]
  BY <1>1 DEF own
<1>6. "submitted_success" \in Plain /\ "indeterminate" \in Plain
  BY DEF Plain, Closing, Outcomes, SubmitOutcomes
<1> HIDE DEF s
<1> QED
  BY <1>1, <1>2, <1>4, <1>5, <1>6, PlainWriteKeeps

LEMMA CloseKeeps ==
    ASSUME SubmissionInv, NEW r \in Runners, Close(r)
    PROVE  SubmissionInv' /\ Grows
<1> DEFINE s == [own(r) EXCEPT !.outcome = pc[r]]
<1>1. /\ pc[r] \in Outcomes /\ pc[r] \notin {"idle", "create", "record"}
      /\ UNCHANGED <<started, completed, tornLedger, gateVars, clicks, kills, overlapped>>
  BY DEF Close, Closing, Outcomes, SubmitOutcomes
<1>2. own(r) \in AttemptRecords /\ own(r).records \in 0..Assessed /\ own(r) # None
  BY <1>1, OwnTypes
<1>3. pc[r] # None
  BY <1>1
<1>4. /\ "ledger" \in Points
      /\ "ledger" \notin Recording \cup WithPackage \cup Released \cup Holding
  BY DEF Points, Recording, WithPackage, Released, Holding
<1>5. CASE UNCHANGED attempt /\ Leave(r)
  BY <1>1, <1>5, RaisesKeeps
<1>6. CASE Writable(mine(r)) /\ attempt' = [attempt EXCEPT ![mine(r)] = s] /\ Goto(r, "ledger")
  <2>1. Later(s, own(r)) /\ s.records = own(r).records /\ s.outcome = pc[r]
    BY <1>1, <1>2, <1>6 DEF Later, AttemptRecords, Assessed, Writable, own
  <2> HIDE DEF s
  <2>2. Grows /\ attempt'[mine(r)] = s
    BY <1>1, <1>6, <2>1, OwnWritten DEF gateVars
  <2>3. pc'[r] = "ledger" /\ run'[r] \in Runs /\ mine(r)' \in Known' /\ own(r)' = s
    BY <1>1, <1>6, <2>2, GotoMoves, OwnStays
  <2>4. RunnerOK(r)'
    BY <1>3, <1>4, <2>1, <2>3 DEF RunnerOK
  <2> QED
    BY <1>1, <1>4, <1>6, <2>1, <2>4, WriteKeeps
<1>7. CASE own(r).outcome = pc[r] /\ Goto(r, "ledger") /\ UNCHANGED attempt
  <2>1. UNCHANGED <<archiveVars, gateVars, clicks>> /\ UNCHANGED token
    BY <1>1, <1>7 DEF archiveVars, gateVars
  <2>2. Grows
    BY <1>7, <2>1, SameGrows
  <2>3. pc'[r] = "ledger" /\ run'[r] \in Runs /\ mine(r)' \in Known' /\ own(r)' = own(r)
    BY <1>1, <1>7, <2>2, GotoMoves, OwnStays DEF own
  <2>4. RunnerOK(r)'
    BY <1>3, <1>4, <1>7, <2>3 DEF RunnerOK
  <2> QED
    BY <1>1, <1>4, <1>7, <2>1, <2>4, GotoMoves, QuietKeeps DEF SubmissionInv, SubmissionTypeOK
<1> QED
  BY <1>5, <1>6, <1>7 DEF Close, Extend

LEMMA FinalizeKeeps ==
    ASSUME SubmissionInv, NEW r \in Runners, Finalize(r)
    PROVE  SubmissionInv' /\ Grows
<1> DEFINE s == [own(r) EXCEPT !.release = "manifest", !.package = run[r].package]
<1>1. /\ pc[r] = "release" /\ "release" \in WithPackage
      /\ UNCHANGED <<started, completed, tornLedger, gateVars, clicks, kills, overlapped>>
  BY DEF Finalize, WithPackage
<1>2. /\ own(r) \in AttemptRecords /\ own(r).records \in 0..Assessed
      /\ run[r].package \in Packages /\ token[vacancy(r)] # None
  BY <1>1, OwnTypes DEF SubmissionInv, RunnerOK
<1>3. /\ {"execute", "receipt"} \subseteq Points \cap WithPackage
      /\ {"execute", "receipt"} \cap (Recording \cup Holding) = {}
      /\ "receipt" \notin Released
  BY DEF Points, WithPackage, Released, Recording, Holding
<1>4. UNCHANGED token
  BY <1>1 DEF gateVars
<1>5. CASE UNCHANGED attempt /\ Leave(r)
  BY <1>1, <1>5, RaisesKeeps
<1>6. CASE own(r).release = "receipt" /\ Goto(r, "execute") /\ UNCHANGED attempt
  <2>1. Grows
    BY <1>4, <1>6, SameGrows
  <2>2. /\ pc'[r] = "execute" /\ run'[r] = run[r] /\ run'[r] \in Runs
        /\ mine(r)' \in Known' /\ own(r)' = own(r) /\ vacancy(r)' = vacancy(r)
    BY <1>1, <1>6, <2>1, GotoMoves, OwnStays DEF own
  <2>3. RunnerOK(r)'
    BY <1>2, <1>3, <1>4, <1>6, <2>2 DEF RunnerOK
  <2>4. UNCHANGED <<archiveVars, gateVars, clicks>>
    BY <1>1, <1>6 DEF archiveVars
  <2> QED
    BY <1>1, <1>3, <1>6, <2>3, <2>4, GotoMoves, QuietKeeps DEF SubmissionInv, SubmissionTypeOK
<1>7. CASE own(r).release = "none" /\ attempt' = [attempt EXCEPT ![mine(r)] = s] /\ Goto(r, "receipt")
  <2>1. Later(s, own(r)) /\ s.records = own(r).records
    <3>1. s \in AttemptRecords
      BY <1>2 DEF AttemptRecords
    <3>2. /\ s.vacancy = own(r).vacancy /\ s.records = own(r).records
          /\ s.outcome = own(r).outcome /\ s.intent = own(r).intent
      BY <1>2 DEF AttemptRecords
    <3> HIDE DEF s
    <3> QED
      BY <1>2, <1>7, <3>1, <3>2 DEF Later, Assessed
  <2> HIDE DEF s
  <2>2. Grows
    BY <1>1, <1>4, <1>7, <2>1, OwnWritten
  <2>3. /\ pc'[r] = "receipt" /\ run'[r] = run[r] /\ run'[r] \in Runs
        /\ mine(r)' \in Known' /\ vacancy(r)' = vacancy(r)
    BY <1>1, <1>7, <2>2, GotoMoves, OwnStays
  <2>4. RunnerOK(r)'
    BY <1>2, <1>3, <1>4, <2>3 DEF RunnerOK
  <2> QED
    BY <1>1, <1>3, <1>7, <2>1, <2>4, WriteKeeps
<1> QED
  BY <1>5, <1>6, <1>7 DEF Finalize, Extend

LEMMA WriteReceiptKeeps ==
    ASSUME SubmissionInv, NEW r \in Runners, WriteReceipt(r)
    PROVE  SubmissionInv' /\ Grows
<1> DEFINE s == [own(r) EXCEPT !.release = "receipt"]
<1>1. /\ pc[r] = "receipt" /\ "receipt" \in WithPackage
      /\ UNCHANGED <<started, completed, tornLedger, gateVars, clicks, kills, overlapped>>
  BY DEF WriteReceipt, WithPackage
<1>2. /\ own(r) \in AttemptRecords /\ own(r).records \in 0..Assessed
      /\ run[r].package \in Packages /\ token[vacancy(r)] # None
  BY <1>1, OwnTypes DEF SubmissionInv, RunnerOK
<1>3. /\ "execute" \in Points \cap WithPackage
      /\ "execute" \notin Recording \cup Holding
  BY DEF Points, WithPackage, Recording, Holding
<1>4. UNCHANGED token
  BY <1>1 DEF gateVars
<1>5. CASE UNCHANGED attempt /\ Leave(r)
  BY <1>1, <1>5, RaisesKeeps
<1>6. CASE own(r).release = "manifest" /\ attempt' = [attempt EXCEPT ![mine(r)] = s] /\ Goto(r, "execute")
  <2>1. Later(s, own(r)) /\ s.records = own(r).records /\ s.release = "receipt"
    BY <1>2, <1>6 DEF Later, AttemptRecords, Assessed
  <2> HIDE DEF s
  <2>2. Grows /\ attempt'[mine(r)] = s
    BY <1>1, <1>4, <1>6, <2>1, OwnWritten
  <2>3. /\ pc'[r] = "execute" /\ run'[r] = run[r] /\ run'[r] \in Runs
        /\ mine(r)' \in Known' /\ vacancy(r)' = vacancy(r) /\ own(r)' = s
    BY <1>1, <1>6, <2>2, GotoMoves, OwnStays
  <2>4. RunnerOK(r)'
    BY <1>2, <1>3, <1>4, <2>1, <2>3 DEF RunnerOK
  <2> QED
    BY <1>1, <1>3, <1>6, <2>1, <2>4, WriteKeeps
<1> QED
  BY <1>5, <1>6 DEF WriteReceipt, Extend

\* The intent is recorded by the one runner that holds the consumed token.
LEMMA RecordIntentKeeps ==
    ASSUME SubmissionInv, NEW r \in Runners, RecordIntent(r)
    PROVE  SubmissionInv' /\ Grows
<1> DEFINE s == [own(r) EXCEPT !.intent = TRUE]
<1>1. /\ pc[r] = "intent" /\ "intent" \in WithPackage \cap Released \cap Holding
      /\ UNCHANGED <<started, completed, tornLedger, gateVars, clicks, kills, overlapped>>
  BY DEF RecordIntent, WithPackage, Released, Holding
<1>2. /\ own(r) \in AttemptRecords /\ own(r).records \in 0..Assessed /\ mine(r) \in Attempts
      /\ run[r].package \in Packages /\ token[vacancy(r)] # None
      /\ own(r).release = "receipt" /\ own(r).vacancy = vacancy(r)
      /\ token[vacancy(r)].consumed /\ ClickedOf(vacancy(r)) = {}
  BY <1>1, OwnTypes DEF SubmissionInv, RunnerOK
<1>3. /\ "click" \in Points \cap WithPackage
      /\ "click" \notin Recording /\ "click" \in Holding
  BY DEF Points, WithPackage, Recording, Holding
<1>4. UNCHANGED token
  BY <1>1 DEF gateVars
<1>5. CASE UNCHANGED attempt /\ Leave(r)
  BY <1>1, <1>5, RaisesKeeps
<1>6. CASE attempt' = [attempt EXCEPT ![mine(r)] = s] /\ Goto(r, "click")
  <2>1. /\ Later(s, own(r)) /\ s.records = own(r).records /\ s.release = "receipt"
        /\ s.intent /\ s.vacancy = own(r).vacancy
    <3>1. s \in AttemptRecords
      BY <1>2 DEF AttemptRecords
    <3>2. /\ s.vacancy = own(r).vacancy /\ s.records = own(r).records
          /\ s.outcome = own(r).outcome /\ s.release = own(r).release
          /\ s.package = own(r).package /\ s.intent
      BY <1>2 DEF AttemptRecords
    <3> HIDE DEF s
    <3> QED
      BY <1>2, <3>1, <3>2 DEF Later, Assessed
  <2> HIDE DEF s
  <2>2. Grows /\ attempt'[mine(r)] = s
        /\ \A a \in Attempts : a # mine(r) => attempt'[a] = attempt[a]
    BY <1>1, <1>4, <1>6, <2>1, OwnWritten
  <2>3. /\ pc'[r] = "click" /\ run'[r] = run[r] /\ run'[r] \in Runs
        /\ mine(r)' \in Known' /\ vacancy(r)' = vacancy(r) /\ own(r)' = s
    BY <1>1, <1>6, <2>2, GotoMoves, OwnStays
  <2>4. ClickedOf(vacancy(r))' = {}
    <3>1. \A a \in Known' : clicks'[a] > 0 => a \in Known /\ clicks[a] > 0
      BY <1>1 DEF Known, SubmissionInv
    <3>2. \A a \in Known : attempt'[a].vacancy = attempt[a].vacancy
      BY <2>2 DEF Known, Grows
    <3> QED
      BY <1>2, <2>3, <3>1, <3>2 DEF ClickedOf
  <2>5. RunnerOK(r)'
    BY <1>2, <1>3, <1>4, <2>1, <2>3, <2>4 DEF RunnerOK
  <2> QED
    BY <1>1, <1>3, <1>6, <2>1, <2>5, WriteKeeps
<1> QED
  BY <1>5, <1>6 DEF RecordIntent, Extend

\* create_attempt: nobody else records the new attempt.
LEMMA CreateKeeps ==
    ASSUME SubmissionInv, NEW r \in Runners, NEW a \in Attempts, Create(r, a)
    PROVE  SubmissionInv' /\ Grows
<1> DEFINE s == [vacancy |-> vacancy(r), records |-> 0, prefill |-> 0, release |-> "none",
                 package |-> None, intent |-> FALSE, confirmed |-> FALSE, outcome |-> None,
                 torn |-> FALSE]
           y == [run[r] EXCEPT !.attempt = a]
<1>1. /\ pc[r] = "create" /\ attempt[a] = None
      /\ attempt' = [attempt EXCEPT ![a] = s]
      /\ run' = [run EXCEPT ![r] = y] /\ pc' = [pc EXCEPT ![r] = "record"]
      /\ UNCHANGED <<started, completed, tornLedger, gateVars, clicks, kills, overlapped>>
  BY DEF Create
<1>2. run[r] \in Runs /\ vacancy(r) \in Vacancies
  BY <1>1, RunTypes
<1>3. y \in Runs /\ y.attempt = a
  BY <1>2 DEF Runs
<1>4. s \in AttemptRecords /\ s # None /\ s.records = 0
  <2>1. 0 \in 0..Assessed /\ 0 \in 0..2
    BY DEF Assessed
  <2>2. s \in AttemptRecords
    BY <1>2, <2>1 DEF AttemptRecords
  <2> QED
    BY <2>2
<1> HIDE DEF s, y
<1>5. attempt \in [Attempts -> AttemptRecords \cup {None}] /\ tornLedger' \in BOOLEAN
      /\ kills' \in Nat /\ overlapped' \in BOOLEAN
  BY <1>1 DEF SubmissionInv, SubmissionTypeOK
<1>6. /\ attempt' \in [Attempts -> AttemptRecords \cup {None}]
      /\ attempt'[a] = s /\ \A b \in Attempts : b # a => attempt'[b] = attempt[b]
  BY <1>1, <1>4, <1>5
<1>7. Grows
  <2>1. \A b \in Attempts : attempt[b] # None =>
           attempt'[b] = attempt[b] /\ attempt[b].records \in Nat
    BY <1>1, <1>6, AttemptTypes DEF Assessed
  <2> QED
    BY <1>1, <2>1 DEF Grows, gateVars
<1>8. /\ "record" \in Points /\ "record" \in Recording
      /\ "record" \notin WithPackage \cup Released \cup Holding
  BY DEF Points, Recording, WithPackage, Released, Holding
<1>9. pc'[r] = "record" /\ run'[r] = y /\ mine(r)' = a /\ own(r)' = s
  BY <1>1, <1>3, <1>6 DEF SubmissionInv, SubmissionTypeOK, mine, own
<1>10. RunnerOK(r)'
  BY <1>3, <1>4, <1>6, <1>8, <1>9 DEF RunnerOK, Known, Assessed
<1>11. a \notin Known
  BY <1>1 DEF Known
<1>12. \A b \in Attempts : ~(attempt[b] # None /\ attempt'[b].records # attempt[b].records)
  BY <1>1, <1>6
<1> QED
  BY <1>1, <1>3, <1>5, <1>6, <1>7, <1>8, <1>10, <1>11, <1>12, GatesTyped, CheckpointsTyped,
     MoveKeeps

-------------------------------------------------------------------------------
(***************************************************************************)
(* Steps that write the checkpoints, the gate, or click; deaths.           *)
(***************************************************************************)
LEMMA StartKeeps ==
    ASSUME SubmissionInv, NEW r \in Runners, Start(r)
    PROVE  SubmissionInv' /\ Grows
<1>1. /\ pc[r] = "start" /\ "start" \in Recording
      /\ UNCHANGED <<attempt, completed, tornLedger, gateVars, clicks, kills, overlapped>>
  BY DEF Start, Recording
<1>2. /\ mine(r) \in Attempts /\ own(r) # None /\ own(r) = attempt[mine(r)]
      /\ own(r).records = Created
  BY <1>1, OwnTypes DEF SubmissionInv, RunnerOK, own
<1>3. UNCHANGED token
  BY <1>1 DEF gateVars
<1>4. CASE UNCHANGED started /\ Leave(r)
  BY <1>1, <1>4, RaisesKeeps
<1>5. CASE started' = started \cup {mine(r)} /\ Goto(r, "record")
  <2>1. Grows
    BY <1>1, <1>3, SameGrows
  <2>2. /\ pc'[r] = "record" /\ run'[r] \in Runs
        /\ mine(r)' \in Known' /\ own(r)' = own(r)
    BY <1>1, <1>2, <1>5, <2>1, GotoMoves, OwnStays
  <2>3. /\ "record" \in Points /\ "record" \in Recording
        /\ "record" \notin WithPackage \cup Released \cup Holding
    BY DEF Points, Recording, WithPackage, Released, Holding
  <2>4. RunnerOK(r)'
    BY <1>2, <2>2, <2>3 DEF RunnerOK, Created, Assessed
  <2>5. started' \subseteq Attempts /\ completed' \subseteq Attempts /\ CheckpointsFollowArchive'
    BY <1>1, <1>2, <1>5 DEF SubmissionInv, SubmissionTypeOK, CheckpointsFollowArchive, Created
  <2>6. /\ attempt' \in [Attempts -> AttemptRecords \cup {None}] /\ tornLedger' \in BOOLEAN
        /\ kills' \in Nat /\ overlapped' \in BOOLEAN
        /\ \A a \in Attempts : attempt'[a].records = attempt[a].records
    BY <1>1 DEF SubmissionInv, SubmissionTypeOK
  <2> QED
    BY <1>1, <1>5, <2>1, <2>3, <2>4, <2>5, <2>6, GatesTyped, GotoMoves, MoveKeeps
<1> QED
  BY <1>4, <1>5 DEF Start

LEMMA CompleteKeeps ==
    ASSUME SubmissionInv, NEW r \in Runners, Complete(r)
    PROVE  SubmissionInv' /\ Grows
<1>1. /\ pc[r] = "ledger" /\ Leave(r)
      /\ UNCHANGED <<attempt, started, tornLedger, gateVars, clicks, kills, overlapped>>
  BY DEF Complete
<1>2. /\ mine(r) \in Attempts /\ own(r) = attempt[mine(r)] /\ own(r).outcome # None
  BY <1>1, OwnTypes DEF SubmissionInv, RunnerOK, own
<1>3. Grows
  BY <1>1, SameGrows DEF gateVars
<1>4. completed' = completed \/ (mine(r) \in started /\ completed' = completed \cup {mine(r)})
  BY DEF Complete
<1>5. started' \subseteq Attempts /\ completed' \subseteq Attempts /\ CheckpointsFollowArchive'
  BY <1>1, <1>2, <1>4 DEF SubmissionInv, SubmissionTypeOK, CheckpointsFollowArchive
<1>6. /\ attempt' \in [Attempts -> AttemptRecords \cup {None}] /\ tornLedger' \in BOOLEAN
      /\ kills' \in Nat /\ overlapped' \in BOOLEAN
      /\ \A a \in Attempts : attempt'[a].records = attempt[a].records
  BY <1>1 DEF SubmissionInv, SubmissionTypeOK
<1>7. "idle" \notin Recording \cup Holding
  BY DEF Recording, Holding
<1> QED
  BY <1>1, <1>3, <1>5, <1>6, <1>7, LeftRunner, GatesTyped, MoveKeeps DEF Leave

\* The archive and the clicks are left alone by a step of the gate.
LEMMA GateKeeps ==
    ASSUME SubmissionInv, NEW r \in Runners,
           UNCHANGED <<archiveVars, clicks, kills, overlapped>>,
           token' \in [Vacancies -> Tokens \cup {None}],
           superseded' \in [Vacancies -> SUBSET (Packages \X Packages)],
           \A v \in Vacancies : token[v] # None =>
              token'[v] # None /\ (token[v].consumed => token'[v] = token[v]),
           NEW x \in Points \cup Closing, pc' = [pc EXCEPT ![r] = x],
           NEW y \in Runs \cup {None}, run' = [run EXCEPT ![r] = y],
           RunnerOK(r)', x \notin Recording,
           x \in Holding => y = run[r] /\ ~token[vacancy(r)].consumed
    PROVE  SubmissionInv' /\ Grows
<1>1. UNCHANGED <<attempt, started, completed, tornLedger>>
  BY DEF archiveVars
<1>2. \A a \in Attempts : attempt[a] # None => attempt[a].records \in Nat
  BY AttemptTypes DEF Assessed
<1>3. Grows
  BY <1>1, <1>2 DEF Grows
<1>4. /\ attempt' \in [Attempts -> AttemptRecords \cup {None}] /\ tornLedger' \in BOOLEAN
      /\ kills' \in Nat /\ overlapped' \in BOOLEAN
      /\ \A a \in Attempts : attempt'[a].records = attempt[a].records
  BY <1>1 DEF SubmissionInv, SubmissionTypeOK
<1> QED
  BY <1>1, <1>3, <1>4, CheckpointsTyped, MoveKeeps

LEMMA IssueKeeps ==
    ASSUME SubmissionInv, NEW r \in Runners, NEW p \in Packages, Issue(r, p)
    PROVE  SubmissionInv' /\ Grows
<1> DEFINE v == vacancy(r)
           y == [run[r] EXCEPT !.package = p]
<1>1. pc[r] = "prepare" /\ UNCHANGED <<archiveVars, clicks, kills, overlapped>>
  BY DEF Issue
<1>2. /\ run[r] \in Runs /\ v \in Vacancies /\ mine(r) \in Known
  BY <1>1, RunTypes DEF SubmissionInv, RunnerOK
<1>3. CASE Goto(r, "abandoned") /\ UNCHANGED gateVars
  BY <1>1, <1>3, QuietGoto DEF Plain, Closing, Outcomes
<1>4. CASE /\ token[v] = None \/ token[v].package = p \/ ~token[v].consumed
           /\ token' = IF token[v] # None /\ token[v].package = p THEN token
                       ELSE [token EXCEPT ![v] = NewToken(p)]
           /\ superseded' = IF token[v] = None \/ token[v].package = p THEN superseded
                            ELSE [superseded EXCEPT ![v] = @ \cup {<<token[v].package, p>>}]
           /\ run' = [run EXCEPT ![r] = y]
           /\ pc' = [pc EXCEPT ![r] = "release"]
  <2>1. NewToken(p) \in Tokens /\ NewToken(p) # None
    <3>1. NewToken(p) \in Tokens
      BY DEF NewToken, Tokens
    <3> QED
      BY <3>1
  <2>2. token \in [Vacancies -> Tokens \cup {None}]
    BY DEF SubmissionInv, SubmissionTypeOK
  <2>3. /\ token' \in [Vacancies -> Tokens \cup {None}] /\ token'[v] # None
        /\ \A w \in Vacancies : w # v => token'[w] = token[w]
        /\ token[v] # None /\ token[v].consumed => token'[v] = token[v]
    BY <1>2, <1>4, <2>1, <2>2
  <2>4. superseded' \in [Vacancies -> SUBSET (Packages \X Packages)]
    <3>1. superseded \in [Vacancies -> SUBSET (Packages \X Packages)]
      BY DEF SubmissionInv, SubmissionTypeOK
    <3>2. token[v] # None => <<token[v].package, p>> \in Packages \X Packages
      BY <1>2, TokenTypes
    <3> QED
      BY <1>2, <1>4, <3>1, <3>2
  <2>5. y \in Runs /\ y.package = p /\ y.vacancy = v /\ y.attempt = mine(r)
    BY <1>2 DEF Runs, vacancy, mine
  <2> HIDE DEF y
  <2>6. pc'[r] = "release" /\ run'[r] = y
    BY <1>4 DEF SubmissionInv, SubmissionTypeOK
  <2>7. mine(r)' \in Known' /\ vacancy(r)' = v /\ run'[r].package = p
    BY <1>1, <1>2, <2>5, <2>6 DEF Known, archiveVars, mine, vacancy
  <2>8. /\ "release" \in Points /\ "release" \notin Recording \cup Released \cup Holding
    BY DEF Points, Recording, WithPackage, Released, Holding
  <2>9. RunnerOK(r)'
    BY <2>3, <2>5, <2>6, <2>7, <2>8 DEF RunnerOK
  <2> QED
    BY <1>1, <1>4, <2>3, <2>4, <2>5, <2>8, <2>9, GateKeeps
<1> QED
  <2>1. [run EXCEPT ![r] = y] = [run EXCEPT ![r].package = p]
    BY DEF SubmissionInv, SubmissionTypeOK
  <2> QED
    BY <1>3, <1>4, <2>1 DEF Issue

\* One transaction consumes the token: its vacancy was never clicked.
LEMMA ConsumeKeeps ==
    ASSUME SubmissionInv, NEW r \in Runners, Consume(r)
    PROVE  SubmissionInv' /\ Grows
<1> DEFINE v == vacancy(r)
           s == [token[v] EXCEPT !.consumed = TRUE]
<1>1. /\ pc[r] = "consume" /\ "consume" \in WithPackage \cap Released
      /\ UNCHANGED <<archiveVars, superseded, clicks, kills, overlapped>>
  BY DEF Consume, WithPackage, Released
<1>2. /\ run[r] \in Runs /\ v \in Vacancies /\ mine(r) \in Known /\ run[r].package \in Packages
      /\ own(r).release = "receipt" /\ token[v] # None
  BY <1>1, RunTypes DEF SubmissionInv, RunnerOK
<1>3. token[v] \in Tokens
  BY <1>2, TokenTypes
<1>4. CASE UNCHANGED token /\ Leave(r)
  <2>1. UNCHANGED gateVars
    BY <1>1, <1>4 DEF gateVars
  <2> QED
    BY <1>1, <1>4, <2>1, QuietLeave DEF SubmissionInv, SubmissionTypeOK
<1>5. CASE /\ token[v] = NewToken(run[r].package) /\ Valid(r)
           /\ token' = [token EXCEPT ![v] = s]
           /\ Goto(r, "intent")
  <2>1. ~token[v].consumed /\ own(r).vacancy = v
    BY <1>5 DEF NewToken, Valid
  <2>2. s \in Tokens /\ s.consumed /\ s # None
    <3>1. s \in Tokens /\ s.consumed
      BY <1>3 DEF Tokens
    <3> QED
      BY <3>1
  <2> HIDE DEF s
  <2>3. /\ token' \in [Vacancies -> Tokens \cup {None}] /\ token'[v] = s
        /\ \A w \in Vacancies : w # v => token'[w] = token[w]
    BY <1>2, <1>5, <2>2 DEF SubmissionInv, SubmissionTypeOK
  <2>4. ClickedOf(v) = {}
    BY <2>1 DEF SubmissionInv, ClickIsProvable, ClickedOf
  <2>5. /\ pc'[r] = "intent" /\ run'[r] = run[r] /\ run'[r] \in Runs
        /\ mine(r)' \in Known' /\ vacancy(r)' = v /\ own(r)' = own(r)
        /\ ClickedOf(v)' = {}
    BY <1>1, <1>2, <1>5, <2>4, GotoMoves
       DEF Known, archiveVars, mine, own, vacancy, ClickedOf
  <2>6. /\ "intent" \in Points \cap WithPackage \cap Released
        /\ "intent" \notin Recording
    BY DEF Points, WithPackage, Released, Recording
  <2>7. RunnerOK(r)'
    BY <1>2, <2>1, <2>2, <2>3, <2>5, <2>6 DEF RunnerOK
  <2>8. superseded' \in [Vacancies -> SUBSET (Packages \X Packages)]
    BY <1>1 DEF SubmissionInv, SubmissionTypeOK
  <2>9. \A w \in Vacancies : token[w] # None =>
           token'[w] # None /\ (token[w].consumed => token'[w] = token[w])
    BY <2>1, <2>2, <2>3
  <2> QED
    BY <1>1, <1>5, <2>1, <2>3, <2>6, <2>7, <2>8, <2>9, GotoMoves, GateKeeps
<1> QED
  <2>1. [token EXCEPT ![v] = s] = [token EXCEPT ![v].consumed = TRUE]
    OBVIOUS
  <2> QED
    BY <1>4, <1>5, <2>1 DEF Consume

\* The only click of the vacancy.
LEMMA ClickKeeps ==
    ASSUME SubmissionInv, NEW r \in Runners, Click(r)
    PROVE  SubmissionInv' /\ Grows
<1> DEFINE v == vacancy(r)
           a == mine(r)
<1>1. /\ pc[r] = "click" /\ Valid(r) /\ Goto(r, "wait")
      /\ clicks' = [clicks EXCEPT ![a] = @ + 1]
      /\ UNCHANGED <<archiveVars, gateVars, kills, overlapped>>
  BY DEF Click
<1>2. UNCHANGED <<attempt, started, completed, tornLedger, token, superseded>>
  BY <1>1 DEF archiveVars, gateVars
<1>3. /\ "click" \in WithPackage \cap Released \cap Holding
      /\ "wait" \in Points \cap WithPackage \cap Released \cap Holding
      /\ "wait" \notin Recording
  BY DEF Points, WithPackage, Released, Holding, Recording
<1>4. /\ run[r] \in Runs /\ v \in Vacancies /\ a \in Known /\ a \in Attempts
      /\ run[r].package \in Packages /\ token[v] # None /\ token[v].consumed
      /\ own(r) = attempt[a] /\ attempt[a].release = "receipt" /\ attempt[a].vacancy = v
      /\ attempt[a].intent /\ ClickedOf(v) = {}
  BY <1>1, <1>3, RunTypes DEF SubmissionInv, RunnerOK, Known, own
<1>5. clicks \in [Attempts -> Nat]
  BY DEF SubmissionInv, SubmissionTypeOK
<1>6. clicks[a] = 0
  BY <1>4, <1>5 DEF ClickedOf
<1>7. /\ clicks' \in [Attempts -> Nat] /\ clicks'[a] = 1
      /\ \A b \in Attempts : b # a => clicks'[b] = clicks[b]
  BY <1>1, <1>4, <1>5, <1>6
<1>8. /\ pc'[r] = "wait" /\ run'[r] = run[r] /\ mine(r)' = a /\ vacancy(r)' = v
      /\ own(r)' = own(r)
      /\ pc' \in [Runners -> Points \cup Closing] /\ run' = run
      /\ \A q \in Runners : q # r => pc'[q] = pc[q]
  <2>1. /\ pc'[r] = "wait" /\ run'[r] = run[r] /\ mine(r)' = a /\ vacancy(r)' = v
        /\ pc' = [pc EXCEPT ![r] = "wait"] /\ run' = run
    BY <1>1, GotoMoves DEF Goto
  <2>2. own(r)' = own(r)
    BY <1>2, <2>1 DEF own
  <2>3. pc \in [Runners -> Points \cup Closing]
    BY DEF SubmissionInv, SubmissionTypeOK
  <2> QED
    BY <1>3, <2>1, <2>2, <2>3
<1>9. SubmissionTypeOK'
  BY <1>1, <1>2, <1>7, <1>8 DEF SubmissionInv, SubmissionTypeOK
<1>10. RunnerOK(r)'
  BY <1>2, <1>3, <1>4, <1>8 DEF RunnerOK, Known
<1>11. ASSUME NEW q \in Runners, q # r
       PROVE  RunnerOK(q)'
  <2>1. RunnerOK(q) /\ pc'[q] = pc[q]
    BY <1>8, <1>11 DEF SubmissionInv
  <2>2. /\ mine(q)' = mine(q) /\ vacancy(q)' = vacancy(q) /\ own(q)' = own(q)
        /\ run'[q] = run[q] /\ Known' = Known
    BY <1>2, <1>8 DEF mine, vacancy, own, Known
  <2>3. pc[q] \in {"intent", "click"} => vacancy(q) # v
    BY <1>1, <1>3, <1>11 DEF SubmissionInv, Holding
  <2>4. pc[q] \in {"intent", "click"} => ClickedOf(vacancy(q))' = ClickedOf(vacancy(q))
    BY <1>2, <1>4, <1>7, <2>2, <2>3 DEF ClickedOf, Known
  <2> QED
    BY <1>2, <2>1, <2>2, <2>4 DEF RunnerOK
<1>12. /\ \A q, p \in Runners :
             pc'[q] \in Recording /\ pc'[p] \in Recording /\ mine(q)' = mine(p)' => q = p
       /\ \A q, p \in Runners :
             pc'[q] \in Holding /\ pc'[p] \in Holding /\ vacancy(q)' = vacancy(p)' => q = p
  BY <1>1, <1>3, <1>8 DEF SubmissionInv, mine, vacancy
<1>13. \A b \in Attempts : clicks'[b] > 0 => attempt'[b] # None
  BY <1>2, <1>4, <1>7 DEF SubmissionInv, Known
<1>14. ClickedOnce'
  <2> SUFFICES ASSUME NEW b \in Known, NEW c \in Known
               PROVE  /\ clicks'[b] <= 1
                      /\ clicks'[b] = 1 /\ clicks'[c] = 1
                            /\ attempt[b].vacancy = attempt[c].vacancy => b = c
    BY <1>2 DEF ClickedOnce, Known
  <2>1. b \in Attempts /\ c \in Attempts
    BY DEF Known
  <2>2. /\ clicks[b] > 0 => attempt[b].vacancy # v
        /\ clicks[c] > 0 => attempt[c].vacancy # v
    BY <1>4 DEF ClickedOf
  <2>3. clicks[b] <= 1 /\ (clicks[b] = 1 /\ clicks[c] = 1
           /\ attempt[b].vacancy = attempt[c].vacancy => b = c)
    BY DEF SubmissionInv, ClickedOnce
  <2> QED
    BY <1>4, <1>5, <1>7, <2>1, <2>2, <2>3
<1>15. ClickIsProvable'
  <2> SUFFICES ASSUME NEW b \in Known, clicks'[b] > 0
               PROVE  /\ attempt[b].intent
                      /\ attempt[b].release = "receipt"
                      /\ token[attempt[b].vacancy] # None
                      /\ Documents[token[attempt[b].vacancy].package]
                            = Documents[attempt[b].package]
                      /\ token[attempt[b].vacancy].consumed
    BY <1>2 DEF ClickIsProvable, Known
  <2>1. CASE b = a
    BY <1>1, <1>4, <2>1 DEF Valid
  <2>2. CASE b # a
    BY <1>7, <2>2 DEF SubmissionInv, ClickIsProvable, Known
  <2> QED
    BY <2>1, <2>2
<1>16. CheckpointsFollowArchive'
  BY <1>2 DEF SubmissionInv, CheckpointsFollowArchive
<1>17. Grows
  BY <1>2, SameGrows
<1> QED
  BY <1>17, <1>9, <1>10, <1>11, <1>12, <1>13, <1>14, <1>15, <1>16 DEF SubmissionInv

LEMMA CrashKeeps ==
    ASSUME SubmissionInv, NEW r \in Runners, Crash(r)
    PROVE  SubmissionInv' /\ Grows
<1>1. /\ pc[r] # "idle" /\ kills' = kills + 1 /\ Leave(r)
      /\ UNCHANGED <<started, completed, gateVars, clicks, overlapped>>
  BY DEF Crash
<1>2. kills' \in Nat /\ overlapped' \in BOOLEAN
  BY <1>1 DEF SubmissionInv, SubmissionTypeOK
<1>3. /\ tornLedger' \in BOOLEAN
      /\ \/ UNCHANGED attempt
         \/ /\ pc[r] \notin {"idle", "create"}
            /\ attempt' = [attempt EXCEPT ![mine(r)].torn = TRUE]
  BY DEF Crash, SubmissionInv, SubmissionTypeOK, Appending, Closing, Outcomes, SubmitOutcomes
<1>4. /\ Grows
      /\ attempt' \in [Attempts -> AttemptRecords \cup {None}]
      /\ \A a \in Attempts : ~(attempt[a] # None /\ attempt'[a].records # attempt[a].records)
  <2>1. CASE UNCHANGED attempt
    BY <1>1, <2>1, SameGrows DEF gateVars, SubmissionInv, SubmissionTypeOK
  <2>2. CASE /\ pc[r] \notin {"idle", "create"}
             /\ attempt' = [attempt EXCEPT ![mine(r)].torn = TRUE]
    <3> DEFINE s == [own(r) EXCEPT !.torn = TRUE]
    <3>1. own(r) \in AttemptRecords /\ own(r).records \in 0..Assessed
      BY <2>2, OwnTypes
    <3>2. Later(s, own(r)) /\ s.records = own(r).records
      <4>1. s \in AttemptRecords
        BY <3>1 DEF AttemptRecords
      <4>2. /\ s.vacancy = own(r).vacancy /\ s.records = own(r).records
            /\ s.outcome = own(r).outcome /\ s.release = own(r).release
            /\ s.package = own(r).package /\ s.intent = own(r).intent
        BY <3>1 DEF AttemptRecords
      <4> HIDE DEF s
      <4> QED
        BY <3>1, <4>1, <4>2 DEF Later, Assessed
    <3>3. attempt' = [attempt EXCEPT ![mine(r)] = s]
      BY <2>2 DEF own
    <3> HIDE DEF s
    <3> QED
      BY <1>1, <2>2, <3>2, <3>3, OwnWritten DEF gateVars, own
  <2> QED
    BY <1>3, <2>1, <2>2
<1>5. "idle" \notin Recording \cup Holding
  BY DEF Recording, Holding
<1> QED
  BY <1>1, <1>2, <1>3, <1>4, <1>5, LeftRunner, GatesTyped, CheckpointsTyped, MoveKeeps DEF Leave

LEMMA InitEstablishes ==
    ASSUME Init
    PROVE  SubmissionInv
<1>1. SubmissionTypeOK
  BY DEF Init, SubmissionTypeOK, Points
<1>2. \A r \in Runners : RunnerOK(r)
  BY DEF Init, RunnerOK, WithPackage, Released, Holding
<1>3. Known = {} /\ \A a \in Attempts : ~(clicks[a] > 0)
  BY DEF Init, Known
<1>4. ClickedOnce /\ ClickIsProvable /\ CheckpointsFollowArchive
  BY <1>3 DEF Init, ClickedOnce, ClickIsProvable, CheckpointsFollowArchive
<1> QED
  BY <1>1, <1>2, <1>3, <1>4 DEF Init, SubmissionInv, Recording, Holding

THEOREM SubmissionStep ==
    ASSUME SubmissionInv, Next
    PROVE  SubmissionInv' /\ Grows
<1>1. PICK r \in Runners : Plan(r) \/ Step(r) \/ Crash(r)
  BY DEF Next
<1>2. ASSUME NEW a \in Attempts, Create(r, a) PROVE SubmissionInv' /\ Grows
  BY <1>2, CreateKeeps
<1>3. ASSUME NEW p \in Packages, Issue(r, p) PROVE SubmissionInv' /\ Grows
  BY <1>3, IssueKeeps
<1>4. CASE Record(r) \/ Start(r) \/ Open(r) \/ Prefill(r) \/ PrepareFails(r)
  BY <1>4, RecordKeeps, StartKeeps, OpenKeeps, PrefillKeeps, PrepareFailsKeeps
<1>5. CASE Finalize(r) \/ WriteReceipt(r) \/ Preflight(r) \/ Consume(r) \/ RecordIntent(r)
  BY <1>5, FinalizeKeeps, WriteReceiptKeeps, PreflightKeeps, ConsumeKeeps, RecordIntentKeeps
<1>6. CASE Click(r) \/ Cancel(r) \/ Await(r) \/ Close(r) \/ Complete(r) \/ Refuse(r)
  BY <1>6, ClickKeeps, CancelKeeps, AwaitKeeps, CloseKeeps, CompleteKeeps, RefuseKeeps
<1>7. CASE Plan(r) \/ Crash(r)
  BY <1>7, PlanKeeps, CrashKeeps
<1> QED
  BY <1>1, <1>2, <1>3, <1>4, <1>5, <1>6, <1>7 DEF Step

LEMMA SubmissionStutter ==
    ASSUME SubmissionInv, UNCHANGED vars
    PROVE  SubmissionInv' /\ Grows
<1>1. UNCHANGED <<attempt, started, completed, tornLedger, token, superseded, clicks, kills,
                  overlapped, pc, run>>
  BY DEF vars, archiveVars, gateVars
<1>2. SubmissionTypeOK' /\ CheckpointsFollowArchive' /\ ClickedOnce' /\ ClickIsProvable'
  BY <1>1 DEF SubmissionInv, SubmissionTypeOK, CheckpointsFollowArchive, ClickedOnce,
     ClickIsProvable, Known
<1>3. Grows /\ \A r \in Runners : pc[r] \in Recording => attempt'[mine(r)].records = own(r).records
  BY <1>1, SameGrows DEF own
<1>4. \A r \in Runners : RunnerOK(r)'
  BY <1>1, <1>3, OtherRunner
<1> QED
  BY <1>1, <1>2, <1>3, <1>4 DEF SubmissionInv, mine, vacancy

-------------------------------------------------------------------------------
(***************************************************************************)
(* A step of one runner, as the others see it.                             *)
(***************************************************************************)
Act(r) == Plan(r) \/ Step(r) \/ Crash(r)

LEMMA OthersStay ==
    ASSUME SubmissionInv, NEW r \in Runners, Act(r)
    PROVE  \A q \in Runners : q # r => pc'[q] = pc[q] /\ run'[q] = run[q]
<1>1. CASE \E x : Goto(r, x)
  BY <1>1 DEF Goto, SubmissionInv, SubmissionTypeOK
<1>2. CASE Leave(r)
  BY <1>2 DEF Leave, SubmissionInv, SubmissionTypeOK
<1>3. CASE Plan(r) \/ (\E a \in Attempts : Create(r, a)) \/ (\E p \in Packages : Issue(r, p))
  BY <1>1, <1>3 DEF Plan, Create, Issue, SubmissionInv, SubmissionTypeOK
<1>4. CASE Record(r) \/ Prefill(r) \/ Finalize(r) \/ WriteReceipt(r) \/ RecordIntent(r) \/ Close(r)
  BY <1>1, <1>2, <1>4 DEF Record, Prefill, Finalize, WriteReceipt, RecordIntent, Close, Extend
<1>5. CASE Start(r) \/ Open(r) \/ PrepareFails(r) \/ Preflight(r) \/ Consume(r) \/ Click(r)
           \/ Cancel(r) \/ Await(r) \/ Complete(r) \/ Refuse(r) \/ Crash(r)
  BY <1>1, <1>2, <1>5 DEF Start, Open, PrepareFails, Preflight, Consume, Click, Cancel, Await,
     Complete, Refuse, Crash
<1> QED
  BY <1>3, <1>4, <1>5 DEF Act, Step

LEMMA HistoryGrows ==
    ASSUME SubmissionInv, NEW r \in Runners, Act(r)
    PROVE  /\ ~overlapped' => ~overlapped
           /\ kills' = 0 => kills = 0 /\ ~Crash(r)
           /\ ~Plan(r) => overlapped' = overlapped /\ pc[r] # "idle"
           /\ Plan(r) /\ ~overlapped' => \A q \in Runners : pc[q] = "idle"
<1>1. kills \in Nat /\ overlapped \in BOOLEAN
  BY DEF SubmissionInv, SubmissionTypeOK
<1>2. CASE Plan(r)
  <2>1. /\ pc[r] = "idle" /\ UNCHANGED kills
        /\ overlapped' = (overlapped \/ \E q \in Runners : pc[q] # "idle")
    BY <1>2 DEF Plan
  <2>2. ~overlapped' => ~overlapped /\ \A q \in Runners : pc[q] = "idle"
    BY <2>1, Zenon
  <2> QED
    BY <1>2, <2>1, <2>2 DEF Crash
<1>3. CASE Crash(r)
  <2>1. pc[r] # "idle" /\ kills' = kills + 1 /\ UNCHANGED overlapped
    BY <1>3 DEF Crash
  <2>2. ~Plan(r)
    BY <2>1 DEF Plan
  <2> QED
    BY <1>1, <2>1, <2>2
<1>4. CASE Step(r)
  <2>1. UNCHANGED <<kills, overlapped>>
    BY <1>4 DEF Step, Create, Record, Start, Open, Prefill, PrepareFails, Issue, Finalize,
       WriteReceipt, Preflight, Consume, RecordIntent, Click, Cancel, Await, Close, Complete, Refuse
  <2>2. pc[r] # "idle"
    BY <1>4 DEF Step, Create, Record, Start, Open, Prefill, PrepareFails, Issue, Finalize,
       WriteReceipt, Preflight, Consume, RecordIntent, Click, Cancel, Await, Close, Complete, Refuse,
       Closing, Outcomes, SubmitOutcomes
  <2>3. Crash(r) => kills' # kills
    BY <1>1 DEF Crash
  <2> QED
    BY <1>1, <1>4, <2>1, <2>2, <2>3 DEF Plan
<1> QED
  BY <1>2, <1>3, <1>4 DEF Act

\* While runners do not overlap, the others are idle.
LEMMA Alone ==
    ASSUME SubmissionInv, SoloInv, NEW r \in Runners, Act(r), ~overlapped'
    PROVE  \A q \in Runners : q # r => pc[q] = "idle" /\ pc'[q] = "idle"
<1>1. ~overlapped
  BY HistoryGrows
<1>2. \A q \in Runners : q # r => pc[q] = "idle"
  BY <1>1, HistoryGrows DEF SoloInv
<1> QED
  BY <1>2, OthersStay

-------------------------------------------------------------------------------
(***************************************************************************)
(* A cancelled click: its vacancy is never clicked, whoever runs.          *)
(***************************************************************************)

\* It is enough that a step cancels nothing and holds no token anew that was
\* consumed before.
LEMMA CancelledKept ==
    ASSUME SubmissionInv, CancelledInv, Grows, UNCHANGED clicks, NEW r \in Runners, Act(r),
           pc'[r] # "gate_rejected",
           \A a \in Attempts : attempt'[a] # None /\ attempt'[a].outcome = "gate_rejected" =>
              /\ attempt[a] # None
              /\ attempt[a].outcome = "gate_rejected" \/ (pc[r] = "gate_rejected" /\ mine(r) = a),
           pc'[r] \in Holding =>
              /\ vacancy(r)' = vacancy(r)
              /\ pc[r] \in Holding \/ ~token[vacancy(r)].consumed
    PROVE  CancelledInv'
<1> SUFFICES ASSUME NEW a \in Known', Cancelled(a)'
             PROVE  NeverClicked(attempt[a].vacancy)'
  BY DEF CancelledInv
<1>1. \A q \in Runners : q # r => /\ pc'[q] = pc[q] /\ mine(q)' = mine(q)
                                  /\ vacancy(q)' = vacancy(q)
  BY OthersStay DEF mine, vacancy
<1>2. a \in Attempts /\ attempt'[a] # None
  BY DEF Known
<1>3. a \in Known /\ Cancelled(a)
  <2>1. CASE attempt'[a].outcome = "gate_rejected"
    BY <1>2, <2>1 DEF Known, Cancelled
  <2>2. CASE \E q \in Runners : pc'[q] = "gate_rejected" /\ mine(q)' = a
    <3>1. PICK q \in Runners : pc'[q] = "gate_rejected" /\ mine(q)' = a
      BY <2>2
    <3>2. pc[q] = "gate_rejected" /\ mine(q) = a
      BY <1>1, <3>1
    <3>3. mine(q) \in Known
      BY <3>2 DEF SubmissionInv, RunnerOK
    <3> QED
      BY <3>2, <3>3 DEF Cancelled
  <2> QED
    BY <2>1, <2>2 DEF Cancelled
<1> DEFINE v == attempt[a].vacancy
<1>4. /\ token[v] # None /\ token[v].consumed
      /\ \A q \in Runners : pc[q] \in Holding => vacancy(q) # v
      /\ ClickedOf(v) = {}
  BY <1>3 DEF CancelledInv, NeverClicked
<1>5. attempt'[a].vacancy = v /\ v \in Vacancies
  <2>1. attempt[a] # None /\ attempt[a] \in AttemptRecords
    BY <1>2, <1>3, AttemptTypes DEF Known
  <2> QED
    BY <1>2, <2>1 DEF Grows, AttemptRecords
<1>6. token'[v] # None /\ token'[v].consumed
  BY <1>4, <1>5 DEF Grows
<1>7. \A q \in Runners : pc'[q] \in Holding => vacancy(q)' # v
  BY <1>1, <1>4
<1>8. v' = v
  BY <1>5
<1> HIDE DEF v
<1>9. ClickedOf(v)' = {}
  <2>1. \A b \in Known' : clicks'[b] > 0 => b \in Known /\ clicks[b] > 0
    BY DEF Known, SubmissionInv
  <2>2. \A b \in Known : attempt'[b].vacancy = attempt[b].vacancy
    BY DEF Known, Grows
  <2> QED
    BY <1>4, <1>8, <2>1, <2>2 DEF ClickedOf
<1>10. NeverClicked(v)'
  BY <1>6, <1>7, <1>8, <1>9 DEF NeverClicked
<1> QED
  BY <1>10 DEF v

\* Only who closes a cancelled attempt writes that outcome.
LEMMA OutcomeWritten ==
    ASSUME SubmissionInv, NEW r \in Runners, pc[r] \notin {"idle", "create"},
           NEW s, attempt' = [attempt EXCEPT ![mine(r)] = s] \/ UNCHANGED attempt,
           s.outcome = "gate_rejected" => own(r).outcome = "gate_rejected" \/ pc[r] = "gate_rejected"
    PROVE  \A a \in Attempts : attempt'[a] # None /\ attempt'[a].outcome = "gate_rejected" =>
              /\ attempt[a] # None
              /\ attempt[a].outcome = "gate_rejected" \/ (pc[r] = "gate_rejected" /\ mine(r) = a)
<1>1. mine(r) \in Attempts /\ own(r) = attempt[mine(r)] /\ attempt[mine(r)] # None
  BY OwnTypes DEF own
<1>2. attempt \in [Attempts -> AttemptRecords \cup {None}]
  BY DEF SubmissionInv, SubmissionTypeOK
<1> QED
  BY <1>1, <1>2

\* A step that leaves the archive alone and moves to a point without a token.
LEMMA CancelledQuiet ==
    ASSUME SubmissionInv, CancelledInv, Grows, UNCHANGED <<clicks, attempt>>,
           NEW r \in Runners, Act(r), pc'[r] \notin Holding \cup {"gate_rejected"}
    PROVE  CancelledInv'
BY CancelledKept

\* One that writes the attempt of the runner, without an outcome.
LEMMA CancelledWrite ==
    ASSUME SubmissionInv, CancelledInv, Grows, UNCHANGED clicks,
           NEW r \in Runners, Act(r), pc[r] \notin {"idle", "create"},
           NEW s, attempt' = [attempt EXCEPT ![mine(r)] = s], s.outcome = own(r).outcome,
           NEW x, Goto(r, x), x # "gate_rejected", x \in Holding => pc[r] \in Holding
    PROVE  CancelledInv'
<1>1. pc'[r] = x /\ vacancy(r)' = vacancy(r)
  BY GotoMoves
<1> QED
  BY <1>1, OutcomeWritten, CancelledKept

LEMMA LeaveMoves ==
    ASSUME SubmissionInv, NEW r \in Runners, Leave(r)
    PROVE  pc'[r] = "idle" /\ run'[r] = None
BY DEF Leave, SubmissionInv, SubmissionTypeOK

LEMMA CancelledLeave ==
    ASSUME SubmissionInv, CancelledInv, Grows, UNCHANGED <<clicks, attempt>>,
           NEW r \in Runners, Act(r), Leave(r)
    PROVE  CancelledInv'
BY LeaveMoves, CancelledQuiet DEF Holding

\* The click that is cancelled held the token, unclicked.
LEMMA CancelCancels ==
    ASSUME SubmissionInv, CancelledInv, Grows, NEW r \in Runners, Act(r), Cancel(r)
    PROVE  CancelledInv'
<1>1. pc[r] = "click" /\ Goto(r, "gate_rejected") /\ UNCHANGED <<attempt, token, clicks>>
  BY DEF Cancel, archiveVars, gateVars
<1>2. /\ pc'[r] = "gate_rejected" /\ mine(r)' = mine(r) /\ mine(r) \in Known
      /\ own(r) = attempt[mine(r)] /\ vacancy(r) \in Vacancies
      /\ "click" \in Holding \cap WithPackage /\ "gate_rejected" \notin Holding
  BY <1>1, GotoMoves, OwnTypes, RunTypes DEF Known, own, Holding, WithPackage
<1>3. /\ own(r).vacancy = vacancy(r) /\ token[vacancy(r)] # None
      /\ token[vacancy(r)].consumed /\ ClickedOf(vacancy(r)) = {}
      /\ \A q \in Runners : q # r /\ pc[q] \in Holding => vacancy(q) # vacancy(r)
  BY <1>1, <1>2 DEF SubmissionInv, RunnerOK
<1>4. \A q \in Runners : q # r => /\ pc'[q] = pc[q] /\ mine(q)' = mine(q)
                                  /\ vacancy(q)' = vacancy(q)
  BY OthersStay DEF mine, vacancy
<1> SUFFICES ASSUME NEW a \in Known, Cancelled(a)'
             PROVE  NeverClicked(attempt[a].vacancy)'
  BY <1>1 DEF CancelledInv, Known
<1>5. Cancelled(a) \/ a = mine(r)
  BY <1>1, <1>2, <1>4 DEF Cancelled
<1>6. NeverClicked(attempt[a].vacancy)
   \/ a = mine(r)
  BY <1>5 DEF CancelledInv
<1> DEFINE v == attempt[a].vacancy
<1>7. /\ token[v] # None /\ token[v].consumed /\ ClickedOf(v) = {}
      /\ \A q \in Runners : q # r /\ pc[q] \in Holding => vacancy(q) # v
  BY <1>2, <1>3, <1>6 DEF NeverClicked
<1>8. ClickedOf(v)' = ClickedOf(v) /\ v' = v
  BY <1>1 DEF ClickedOf, Known
<1> QED
  BY <1>1, <1>2, <1>4, <1>7, <1>8 DEF NeverClicked

\* Nobody who clicks finds a cancelled attempt of the vacancy.
LEMMA CancelledClick ==
    ASSUME SubmissionInv, CancelledInv, Grows, NEW r \in Runners, Act(r), Click(r)
    PROVE  CancelledInv'
<1>1. /\ pc[r] = "click" /\ Goto(r, "wait") /\ UNCHANGED <<attempt, token>>
      /\ clicks' = [clicks EXCEPT ![mine(r)] = @ + 1]
  BY DEF Click, archiveVars, gateVars
<1>2. /\ pc'[r] = "wait" /\ vacancy(r)' = vacancy(r) /\ mine(r)' = mine(r)
      /\ {"click", "wait"} \subseteq Holding
      /\ mine(r) \in Attempts /\ own(r) = attempt[mine(r)] /\ own(r).vacancy = vacancy(r)
  BY <1>1, GotoMoves, OwnTypes DEF own, Holding, SubmissionInv, RunnerOK
<1>3. \A q \in Runners : q # r => /\ pc'[q] = pc[q] /\ mine(q)' = mine(q)
                                  /\ vacancy(q)' = vacancy(q)
  BY OthersStay DEF mine, vacancy
<1> SUFFICES ASSUME NEW a \in Known, Cancelled(a)'
             PROVE  NeverClicked(attempt[a].vacancy)'
  BY <1>1 DEF CancelledInv, Known
<1>4. Cancelled(a)
  BY <1>1, <1>2, <1>3 DEF Cancelled
<1> DEFINE v == attempt[a].vacancy
<1>5. NeverClicked(v) /\ v' = v
  BY <1>1, <1>4 DEF CancelledInv
<1>6. vacancy(r) # v
  BY <1>1, <1>2, <1>5 DEF NeverClicked
<1>7. \A b \in Attempts : b # mine(r) => clicks'[b] = clicks[b]
  BY <1>1, <1>2 DEF SubmissionInv, SubmissionTypeOK
<1> HIDE DEF v
<1>8. ClickedOf(v)' = {}
  BY <1>1, <1>2, <1>5, <1>6, <1>7 DEF ClickedOf, Known, NeverClicked
<1>9. NeverClicked(v)'
  BY <1>1, <1>2, <1>3, <1>5, <1>8 DEF NeverClicked
<1> QED
  BY <1>9 DEF v

\* Whoever consumes a token finds it new.
LEMMA CancelledConsume ==
    ASSUME SubmissionInv, CancelledInv, Grows, NEW r \in Runners, Act(r), Consume(r)
    PROVE  CancelledInv'
<1>1. UNCHANGED <<attempt, clicks>> /\ pc[r] = "consume"
  BY DEF Consume, archiveVars
<1>2. CASE Leave(r)
  BY <1>1, <1>2, CancelledLeave
<1>3. CASE token[vacancy(r)] = NewToken(run[r].package) /\ Goto(r, "intent")
  <2>1. pc'[r] = "intent" /\ vacancy(r)' = vacancy(r) /\ ~token[vacancy(r)].consumed
    BY <1>3, GotoMoves DEF NewToken
  <2> QED
    BY <1>1, <2>1, CancelledKept
<1> QED
  BY <1>2, <1>3 DEF Consume

LEMMA CancelledClose ==
    ASSUME SubmissionInv, CancelledInv, Grows, NEW r \in Runners, Act(r), Close(r)
    PROVE  CancelledInv'
<1> DEFINE s == [own(r) EXCEPT !.outcome = pc[r]]
<1>1. pc[r] \notin {"idle", "create"} /\ UNCHANGED clicks
  BY DEF Close, Closing, Outcomes, SubmitOutcomes
<1>2. \/ Leave(r) /\ UNCHANGED attempt
      \/ Goto(r, "ledger") /\ (UNCHANGED attempt \/ attempt' = [attempt EXCEPT ![mine(r)] = s])
  BY DEF Close, Extend
<1>3. CASE Leave(r) /\ UNCHANGED attempt
  BY <1>1, <1>3, CancelledLeave
<1>4. CASE Goto(r, "ledger") /\ UNCHANGED attempt
  BY <1>1, <1>4, GotoMoves, CancelledQuiet DEF Holding
<1>5. CASE Goto(r, "ledger") /\ attempt' = [attempt EXCEPT ![mine(r)] = s]
  <2>1. s.outcome = pc[r]
    BY <1>1, OwnTypes DEF AttemptRecords
  <2> HIDE DEF s
  <2>2. pc'[r] = "ledger" /\ "ledger" \notin Holding
    BY <1>5, GotoMoves DEF Holding
  <2> QED
    BY <1>1, <1>5, <2>1, <2>2, OutcomeWritten, CancelledKept
<1> QED
  BY <1>2, <1>3, <1>4, <1>5

LEMMA CancelledCreate ==
    ASSUME SubmissionInv, CancelledInv, Grows, NEW r \in Runners, Act(r),
           NEW a \in Attempts, Create(r, a)
    PROVE  CancelledInv'
<1>1. /\ UNCHANGED clicks /\ pc'[r] = "record" /\ attempt'[a].outcome = None
      /\ \A b \in Attempts : b # a => attempt'[b] = attempt[b]
  BY DEF Create, SubmissionInv, SubmissionTypeOK
<1>2. None # "gate_rejected" /\ "record" \notin Holding
  BY DEF Holding, Outcomes
<1> QED
  BY <1>1, <1>2, CancelledKept

\* The writes that record no outcome.
LEMMA CancelledExtend ==
    ASSUME SubmissionInv, CancelledInv, Grows, NEW r \in Runners, Act(r),
           Record(r) \/ Prefill(r) \/ Finalize(r) \/ WriteReceipt(r) \/ RecordIntent(r) \/ Await(r)
    PROVE  CancelledInv'
<1>1. UNCHANGED clicks /\ pc[r] \notin {"idle", "create"}
  BY DEF Record, Prefill, Finalize, WriteReceipt, RecordIntent, Await
<1>2. own(r) \in AttemptRecords
  BY <1>1, OwnTypes
<1>3. ASSUME NEW s, s.outcome = own(r).outcome, NEW ok, NEW x, Extend(r, ok, s, x),
             x # "gate_rejected", x \in Holding => pc[r] \in Holding
      PROVE  CancelledInv'
  BY <1>1, <1>3, CancelledLeave, CancelledWrite DEF Extend
<1>4. CASE Record(r)
  <2> DEFINE s == [own(r) EXCEPT !.records = @ + 1]
             x == CASE own(r).records = 0            -> "start"
                    [] own(r).records = Assessed - 1 -> "open"
                    [] OTHER                         -> "record"
  <2>1. s.outcome = own(r).outcome /\ x # "gate_rejected" /\ x \notin Holding
    BY <1>2 DEF AttemptRecords, Holding
  <2> HIDE DEF s, x
  <2> QED
    BY <1>3, <1>4, <2>1 DEF Record, s, x
<1>5. CASE Prefill(r)
  <2> DEFINE n == IF pc[r] = "prefill" THEN 1 ELSE 2
             s == [own(r) EXCEPT !.prefill = n]
             x == IF n = 1 THEN "questions" ELSE "prepare"
  <2>1. s.outcome = own(r).outcome /\ x # "gate_rejected" /\ x \notin Holding
    BY <1>2 DEF AttemptRecords, Holding
  <2> HIDE DEF s, x
  <2> QED
    BY <1>3, <1>5, <2>1 DEF Prefill, s, x
<1>6. CASE Finalize(r)
  <2> DEFINE s == [own(r) EXCEPT !.release = "manifest", !.package = run[r].package]
  <2>1. s.outcome = own(r).outcome /\ {"execute", "receipt"} \cap Holding = {}
    BY <1>2 DEF AttemptRecords, Holding
  <2> HIDE DEF s
  <2>2. CASE Goto(r, "execute") /\ UNCHANGED attempt
    BY <1>1, <2>1, <2>2, GotoMoves, CancelledQuiet
  <2> QED
    BY <1>3, <1>6, <2>1, <2>2 DEF Finalize, s
<1>7. CASE WriteReceipt(r)
  <2> DEFINE s == [own(r) EXCEPT !.release = "receipt"]
  <2>1. s.outcome = own(r).outcome /\ "execute" \notin Holding
    BY <1>2 DEF AttemptRecords, Holding
  <2> HIDE DEF s
  <2> QED
    BY <1>3, <1>7, <2>1 DEF WriteReceipt, s
<1>8. CASE RecordIntent(r)
  <2> DEFINE s == [own(r) EXCEPT !.intent = TRUE]
  <2>1. s.outcome = own(r).outcome /\ "intent" \in Holding
    BY <1>2 DEF AttemptRecords, Holding
  <2> HIDE DEF s
  <2>2. pc[r] = "intent" /\ Extend(r, Writable(mine(r)), s, "click")
    BY <1>8 DEF RecordIntent, s
  <2> QED
    BY <1>3, <2>1, <2>2
<1>9. CASE Await(r)
  <2>1. PICK page \in BOOLEAN, email \in BOOLEAN :
           /\ attempt' = [attempt EXCEPT ![mine(r)].confirmed = page \/ email]
           /\ Goto(r, IF page THEN "submitted_success" ELSE "indeterminate")
    BY <1>9 DEF Await
  <2> DEFINE b == page \/ email
             s == [own(r) EXCEPT !.confirmed = b]
             x == IF page THEN "submitted_success" ELSE "indeterminate"
  <2>2. attempt' = [attempt EXCEPT ![mine(r)] = s]
    BY <2>1 DEF own
  <2>3. s.outcome = own(r).outcome /\ x # "gate_rejected" /\ x \notin Holding
    <3> HIDE DEF b
    <3> QED
      BY <1>2 DEF AttemptRecords, Holding
  <2> HIDE DEF s, x
  <2> QED
    BY <1>1, <2>1, <2>2, <2>3, CancelledWrite DEF x
<1> QED
  BY <1>4, <1>5, <1>6, <1>7, <1>8, <1>9

\* Whoever dies cancels nothing.
LEMMA CancelledCrash ==
    ASSUME SubmissionInv, CancelledInv, Grows, NEW r \in Runners, Act(r), Crash(r)
    PROVE  CancelledInv'
<1>1. Leave(r) /\ UNCHANGED clicks /\ pc'[r] = "idle"
  BY LeaveMoves DEF Crash
<1>2. \/ UNCHANGED attempt
      \/ /\ pc[r] \notin {"idle", "create"}
         /\ attempt' = [attempt EXCEPT ![mine(r)].torn = TRUE]
  BY DEF Crash, Appending, Closing, Outcomes, SubmitOutcomes
<1>3. CASE UNCHANGED attempt
  BY <1>1, <1>3, CancelledLeave
<1>4. CASE /\ pc[r] \notin {"idle", "create"}
           /\ attempt' = [attempt EXCEPT ![mine(r)].torn = TRUE]
  <2> DEFINE s == [own(r) EXCEPT !.torn = TRUE]
  <2>1. attempt' = [attempt EXCEPT ![mine(r)] = s] /\ s.outcome = own(r).outcome
    BY <1>4, OwnTypes DEF own, AttemptRecords
  <2> HIDE DEF s
  <2> QED
    BY <1>1, <1>4, <2>1, OutcomeWritten, CancelledKept DEF Holding
<1> QED
  BY <1>2, <1>3, <1>4

\* The steps that leave the archive and the clicks alone.
LEMMA CancelledElse ==
    ASSUME SubmissionInv, CancelledInv, Grows, NEW r \in Runners, Act(r),
           \/ Plan(r) \/ Start(r) \/ Open(r) \/ PrepareFails(r) \/ Preflight(r) \/ Complete(r)
           \/ Refuse(r) \/ \E p \in Packages : Issue(r, p)
    PROVE  CancelledInv'
<1>1. UNCHANGED <<attempt, clicks>>
  BY DEF Plan, Start, Open, PrepareFails, Preflight, Complete, Refuse, Issue, archiveVars
<1>2. ASSUME NEW x, Goto(r, x), x \notin Holding \cup {"gate_rejected"} PROVE CancelledInv'
  BY <1>1, <1>2, GotoMoves, CancelledQuiet
<1>3. \A x \in {"create", "record", "open", "blocked", "prefill", "prepare", "abandoned", "consume",
                "release", "idle"} : x \notin Holding \cup {"gate_rejected"}
  BY DEF Holding
<1>4. CASE Plan(r)
  <2>1. pc'[r] \in {"create", "open"}
    BY <1>4 DEF Plan, SubmissionInv, SubmissionTypeOK
  <2> QED
    BY <1>1, <1>3, <2>1, CancelledQuiet
<1>5. CASE \E p \in Packages : Issue(r, p)
  <2>1. pc'[r] \in {"abandoned", "release"}
    BY <1>5 DEF Issue, Goto, SubmissionInv, SubmissionTypeOK
  <2> QED
    BY <1>1, <1>3, <2>1, CancelledQuiet
<1>6. CASE Leave(r)
  BY <1>1, <1>6, CancelledLeave
<1>7. CASE Open(r)
  <2>1. pc'[r] \in {"blocked", "prefill", "prepare"}
    BY <1>7 DEF Open, Goto, SubmissionInv, SubmissionTypeOK
  <2> QED
    BY <1>1, <1>3, <2>1, CancelledQuiet
<1>8. CASE Start(r) \/ PrepareFails(r) \/ Preflight(r) \/ Complete(r) \/ Refuse(r)
  BY <1>2, <1>3, <1>6, <1>8 DEF Start, PrepareFails, Preflight, Complete, Refuse
<1> QED
  BY <1>4, <1>5, <1>7, <1>8

\* No step clicks for the vacancy of a cancelled click.
LEMMA CancelledStep ==
    ASSUME SubmissionInv, CancelledInv, Next
    PROVE  CancelledInv'
<1>1. Grows
  BY SubmissionStep
<1>2. PICK r \in Runners : Act(r)
  BY DEF Next, Act
<1> QED
  BY <1>1, <1>2, CancelCancels, CancelledClick, CancelledConsume, CancelledClose, CancelledCreate,
     CancelledExtend, CancelledCrash, CancelledElse DEF Act, Step

LEMMA CancelledStutter ==
    ASSUME CancelledInv, UNCHANGED vars
    PROVE  CancelledInv'
BY DEF vars, archiveVars, gateVars, CancelledInv, NeverClicked, Cancelled, ClickedOf, Known, mine,
   vacancy

-------------------------------------------------------------------------------
(***************************************************************************)
(* Runners that do not overlap: one attempt bars the posting at a time.    *)
(***************************************************************************)

\* What an idle runner, or one that has just taken its place, satisfies.
LEMMA SoloIdle ==
    ASSUME NEW r \in Runners, pc[r] = "idle"
    PROVE  SoloRunnerOK(r)
BY DEF SoloRunnerOK, AwayFromAttempt, Unintended

\* A step that leaves the archive alone.
LEMMA SoloQuiet ==
    ASSUME SubmissionInv, SoloInv, NEW r \in Runners, Act(r), UNCHANGED attempt,
           ~overlapped' => SoloRunnerOK(r)'
    PROVE  SoloInv'
<1> SUFFICES ASSUME ~overlapped' PROVE SoloInv'
  BY DEF SoloInv
<1>1. ~overlapped /\ \A q \in Runners : q # r => pc'[q] = "idle"
  BY HistoryGrows, Alone
<1>2. \A q \in Runners : SoloRunnerOK(q)'
  BY <1>1, SoloIdle DEF SoloRunnerOK, AwayFromAttempt, Unintended
<1>3. Known' = Known /\ \A a \in Known : Barring(a)' <=> Barring(a)
  BY DEF Known, Barring
<1> QED
  BY <1>1, <1>2, <1>3 DEF SoloInv

\* One that writes the attempt of the runner.
LEMMA SoloWrite ==
    ASSUME SubmissionInv, SoloInv, NEW r \in Runners, Act(r),
           pc[r] \notin {"idle", "create"},
           NEW s \in AttemptRecords, attempt' = [attempt EXCEPT ![mine(r)] = s],
           s.vacancy = own(r).vacancy,
           ~overlapped =>
              /\ s.outcome = None \/ s.intent => Barring(mine(r))
              /\ s.outcome \in {"blocked", "abandoned"} => ~s.intent,
           ~overlapped' => SoloRunnerOK(r)'
    PROVE  SoloInv'
<1> SUFFICES ASSUME ~overlapped' PROVE SoloInv'
  BY DEF SoloInv
<1>1. ~overlapped /\ \A q \in Runners : q # r => pc'[q] = "idle"
  BY HistoryGrows, Alone
<1>2. \A q \in Runners : SoloRunnerOK(q)'
  BY <1>1 DEF SoloRunnerOK, AwayFromAttempt, Unintended
<1>3. /\ mine(r) \in Known /\ attempt'[mine(r)] = s /\ s # None
      /\ s.vacancy = attempt[mine(r)].vacancy
      /\ \A a \in Attempts : a # mine(r) => attempt'[a] = attempt[a]
  BY OwnTypes DEF Known, own, SubmissionInv, SubmissionTypeOK
<1>4. Known' = Known
  BY <1>3 DEF Known
<1>5. \A a \in Known : attempt'[a].vacancy = attempt[a].vacancy /\ (Barring(a)' => Barring(a))
  BY <1>1, <1>3 DEF Known, Barring
<1>6. \A a \in Known : attempt'[a].outcome \in {"blocked", "abandoned"} => ~attempt'[a].intent
  BY <1>1, <1>3 DEF Known, SoloInv
<1> QED
  BY <1>1, <1>2, <1>4, <1>5, <1>6 DEF SoloInv

\* The runner of a step that goes on with its attempt.
LEMMA SoloGoesOn ==
    ASSUME SubmissionInv, SoloInv, ~overlapped, NEW r \in Runners,
           pc[r] \notin {"idle", "create", "ledger"},
           NEW x, pc'[r] = x, mine(r)' = mine(r), x # "create",
           x \notin AwayFromAttempt \cup {"ledger"} => attempt'[mine(r)].outcome = own(r).outcome,
           x \in Unintended => /\ pc[r] \in Unintended
                               /\ attempt'[mine(r)].intent = own(r).intent
    PROVE  SoloRunnerOK(r)'
<1>1. own(r)' = attempt'[mine(r)]
  BY DEF own
<1> QED
  BY <1>1 DEF SoloInv, SoloRunnerOK, AwayFromAttempt, Unintended

LEMMA SoloLeaves ==
    ASSUME SubmissionInv, NEW r \in Runners, Leave(r)
    PROVE  SoloRunnerOK(r)'
BY LeaveMoves DEF SoloRunnerOK, AwayFromAttempt, Unintended

\* The posting that a runner plans is not barred, but for the attempt it resumes.
LEMMA SoloPlan ==
    ASSUME SubmissionInv, SoloInv, NEW r \in Runners, Act(r), Plan(r)
    PROVE  SoloInv'
<1>1. UNCHANGED attempt
  BY DEF Plan, archiveVars
<1>2. PICK v \in Vacancies :
        /\ ~Intended(v)
        /\ \/ /\ Incomplete(v) = {}
              /\ run' = [run EXCEPT ![r] = [vacancy |-> v, attempt |-> None, package |-> None]]
              /\ pc' = [pc EXCEPT ![r] = "create"]
           \/ \E a \in Incomplete(v) :
              /\ run' = [run EXCEPT ![r] = [vacancy |-> v, attempt |-> a, package |-> None]]
              /\ pc' = [pc EXCEPT ![r] = "open"]
  <2>1. \A listed \in Listings, retry \in BOOLEAN :
           \A v \in Ready(listed, retry) : v \in Vacancies /\ ~Intended(v)
    BY DEF Ready
  <2> QED
    BY <2>1 DEF Plan
<1>3. CASE /\ Incomplete(v) = {}
           /\ run' = [run EXCEPT ![r] = [vacancy |-> v, attempt |-> None, package |-> None]]
           /\ pc' = [pc EXCEPT ![r] = "create"]
  <2>1. pc'[r] = "create" /\ vacancy(r)' = v
    BY <1>3 DEF SubmissionInv, SubmissionTypeOK, vacancy
  <2>2. \A a \in Prior(v) : ~Barring(a)
    BY <1>2, <1>3 DEF Incomplete, Intended, Barring
  <2>3. SoloRunnerOK(r)'
    BY <1>1, <2>1, <2>2 DEF SoloRunnerOK, AwayFromAttempt, Unintended, Prior, Known, Barring
  <2> QED
    BY <1>1, <2>3, SoloQuiet
<1>4. ASSUME NEW a \in Incomplete(v),
             run' = [run EXCEPT ![r] = [vacancy |-> v, attempt |-> a, package |-> None]],
             pc' = [pc EXCEPT ![r] = "open"]
      PROVE  SoloInv'
  <2>1. pc'[r] = "open" /\ mine(r)' = a /\ own(r)' = attempt[a]
    BY <1>1, <1>4 DEF SubmissionInv, SubmissionTypeOK, mine, own
  <2>2. attempt[a].outcome = None /\ ~attempt[a].intent
    BY <1>2 DEF Incomplete, Intended
  <2>3. SoloRunnerOK(r)'
    BY <2>1, <2>2 DEF SoloRunnerOK
  <2> QED
    BY <1>1, <2>3, SoloQuiet
<1> QED
  BY <1>2, <1>3, <1>4

\* The new attempt bars its posting alone.
LEMMA SoloCreate ==
    ASSUME SubmissionInv, SoloInv, NEW r \in Runners, Act(r), NEW a \in Attempts, Create(r, a)
    PROVE  SoloInv'
<1> SUFFICES ASSUME ~overlapped' PROVE SoloInv'
  BY DEF SoloInv
<1>1. ~overlapped /\ \A q \in Runners : q # r => pc'[q] = "idle"
  BY HistoryGrows, Alone
<1>2. /\ pc[r] = "create" /\ attempt[a] = None /\ vacancy(r) \in Vacancies
      /\ \A b \in Prior(vacancy(r)) : ~Barring(b)
  BY <1>1, RunTypes DEF Create, SoloInv, SoloRunnerOK
<1>3. /\ attempt'[a].vacancy = vacancy(r) /\ attempt'[a].outcome = None
      /\ ~attempt'[a].intent
      /\ \A b \in Attempts : b # a => attempt'[b] = attempt[b]
      /\ pc'[r] = "record" /\ mine(r)' = a
  BY RunTypes, <1>2 DEF Create, SubmissionInv, SubmissionTypeOK, mine, Runs
<1>4. \A b \in Known' : b = a \/ (b \in Known /\ attempt'[b] = attempt[b])
  BY <1>3 DEF Known
<1>5. \A q \in Runners : SoloRunnerOK(q)'
  BY <1>1, <1>3 DEF SoloRunnerOK, AwayFromAttempt, Unintended, own
<1>6. \A b \in Known : Posting[attempt[b].vacancy] = Posting[vacancy(r)] => ~Barring(b)
  BY <1>2 DEF Prior
<1>7. \A b, c \in Known' :
         /\ Posting[attempt'[b].vacancy] = Posting[attempt'[c].vacancy]
         /\ Barring(b)' /\ Barring(c)'
         => b = c
  BY <1>1, <1>3, <1>4, <1>6 DEF SoloInv, Barring
<1>8. \A b \in Known' : attempt'[b].outcome \in {"blocked", "abandoned"} => ~attempt'[b].intent
  BY <1>1, <1>3, <1>4 DEF SoloInv
<1> QED
  BY <1>1, <1>5, <1>7, <1>8 DEF SoloInv

\* A runner that goes on without a write, or leaves.
LEMMA SoloMove ==
    ASSUME SubmissionInv, SoloInv, NEW r \in Runners, Act(r), UNCHANGED attempt,
           pc[r] \notin {"idle", "create", "ledger"},
           NEW x, pc'[r] = x, mine(r)' = mine(r), x # "create",
           x \in Unintended => pc[r] \in Unintended
    PROVE  SoloInv'
<1>1. ~overlapped' => SoloRunnerOK(r)'
  BY HistoryGrows, SoloGoesOn DEF own
<1> QED
  BY <1>1, SoloQuiet

LEMMA SoloGoto ==
    ASSUME SubmissionInv, SoloInv, NEW r \in Runners, Act(r), UNCHANGED attempt,
           pc[r] \notin {"idle", "create", "ledger"}, NEW x, Goto(r, x), x # "create",
           x \in Unintended => pc[r] \in Unintended
    PROVE  SoloInv'
BY GotoMoves, SoloMove

LEMMA SoloLeave ==
    ASSUME SubmissionInv, SoloInv, NEW r \in Runners, Act(r), UNCHANGED attempt, Leave(r)
    PROVE  SoloInv'
BY SoloLeaves, SoloQuiet

\* A write that is no outcome, or the outcome with which the attempt is closed.
LEMMA SoloExtend ==
    ASSUME SubmissionInv, SoloInv, NEW r \in Runners, Act(r),
           pc[r] \notin {"idle", "create", "ledger"},
           NEW s \in AttemptRecords, attempt' = [attempt EXCEPT ![mine(r)] = s],
           s.vacancy = own(r).vacancy,
           NEW x, Goto(r, x), x # "create",
           \/ s.outcome = own(r).outcome
           \/ x = "ledger" /\ s.outcome = pc[r] /\ pc[r] \in Outcomes,
           s.intent = own(r).intent \/ x \notin Unintended \cup {"ledger"},
           x \in Unintended => pc[r] \in Unintended
    PROVE  SoloInv'
<1>1. /\ pc'[r] = x /\ mine(r)' = mine(r) /\ mine(r) \in Known
      /\ own(r) = attempt[mine(r)] /\ attempt'[mine(r)] = s
  BY GotoMoves, OwnTypes DEF Known, own, SubmissionInv, SubmissionTypeOK
<1>2. ASSUME ~overlapped PROVE own(r).outcome = None /\ (pc[r] \in Unintended => ~own(r).intent)
  BY <1>2 DEF SoloInv, SoloRunnerOK, AwayFromAttempt
<1>3. ~overlapped' => SoloRunnerOK(r)'
  BY <1>1, HistoryGrows, SoloGoesOn
<1>4. {"blocked", "abandoned"} \subseteq Unintended
  BY DEF Unintended
<1>5. ASSUME ~overlapped
      PROVE  /\ s.outcome = None \/ s.intent => Barring(mine(r))
             /\ s.outcome \in {"blocked", "abandoned"} => ~s.intent
  <2>1. Barring(mine(r))
    BY <1>1, <1>2, <1>5 DEF Barring
  <2>2. s.outcome \in {"blocked", "abandoned"} =>
           x = "ledger" /\ s.outcome = pc[r] /\ pc[r] \in Unintended
    BY <1>2, <1>4, <1>5 DEF Outcomes
  <2> QED
    BY <1>2, <1>5, <2>1, <2>2
<1> QED
  BY <1>3, <1>5, SoloWrite

LEMMA UnintendedPoints ==
    /\ {"record", "start", "open", "prefill", "questions", "prepare", "release", "receipt",
        "execute", "consume", "intent", "blocked", "abandoned"} = Unintended
    /\ "ledger" \notin Unintended /\ "click" \notin Unintended /\ "wait" \notin Unintended
    /\ SubmitOutcomes \cap Unintended = {} /\ "gate_rejected" \notin Unintended
BY DEF Unintended, SubmitOutcomes

\* The steps that leave the archive alone.
LEMMA SoloElse ==
    ASSUME SubmissionInv, SoloInv, NEW r \in Runners, Act(r),
           \/ Start(r) \/ Open(r) \/ PrepareFails(r) \/ Preflight(r) \/ Complete(r) \/ Refuse(r)
           \/ Consume(r) \/ Click(r) \/ Cancel(r) \/ \E p \in Packages : Issue(r, p)
    PROVE  SoloInv'
<1>1. UNCHANGED attempt
  BY DEF Start, Open, PrepareFails, Preflight, Complete, Refuse, Consume, Click, Cancel, Issue,
     archiveVars
<1>2. CASE \E p \in Packages : Issue(r, p)
  <2>1. PICK p \in Packages : Issue(r, p)
    BY <1>2
  <2>2. pc[r] = "prepare" /\ run[r] \in Runs
    BY <2>1, RunTypes DEF Issue
  <2>3. pc'[r] \in {"abandoned", "release"} /\ mine(r)' = mine(r)
    BY <2>1, <2>2 DEF Issue, Goto, SubmissionInv, SubmissionTypeOK, mine, Runs
  <2> QED
    BY <1>1, <2>2, <2>3, UnintendedPoints, SoloMove
<1>3. CASE Leave(r)
  BY <1>1, <1>3, SoloLeave
<1>4. CASE Open(r)
  <2>1. pc[r] = "open" /\ pc'[r] \in {"blocked", "prefill", "prepare"} /\ mine(r)' = mine(r)
    BY <1>4 DEF Open, Goto, SubmissionInv, SubmissionTypeOK, mine
  <2> QED
    BY <1>1, <2>1, UnintendedPoints, SoloMove
<1>5. CASE Start(r) \/ PrepareFails(r) \/ Preflight(r) \/ Complete(r) \/ Refuse(r)
  BY <1>1, <1>3, <1>5, UnintendedPoints, SoloGoto
     DEF Start, PrepareFails, Preflight, Complete, Refuse
<1>6. CASE Consume(r) \/ Click(r) \/ Cancel(r)
  BY <1>1, <1>3, <1>6, UnintendedPoints, SoloGoto DEF Consume, Click, Cancel
<1> QED
  BY <1>2, <1>4, <1>5, <1>6

LEMMA SoloClose ==
    ASSUME SubmissionInv, SoloInv, NEW r \in Runners, Act(r), Close(r)
    PROVE  SoloInv'
<1> DEFINE s == [own(r) EXCEPT !.outcome = pc[r]]
<1>1. pc[r] \in Outcomes /\ pc[r] \notin {"idle", "create", "ledger"}
  BY DEF Close, Closing, Outcomes, SubmitOutcomes
<1>2. \/ Leave(r) /\ UNCHANGED attempt
      \/ Goto(r, "ledger") /\ attempt' = [attempt EXCEPT ![mine(r)] = s]
      \/ Goto(r, "ledger") /\ UNCHANGED attempt
  BY DEF Close, Extend
<1>3. CASE Leave(r) /\ UNCHANGED attempt
  BY <1>3, SoloLeave
<1>4. CASE Goto(r, "ledger") /\ attempt' = [attempt EXCEPT ![mine(r)] = s]
  <2>1. /\ s \in AttemptRecords /\ s.vacancy = own(r).vacancy /\ s.outcome = pc[r]
        /\ s.intent = own(r).intent
    BY <1>1, OwnTypes DEF AttemptRecords
  <2> HIDE DEF s
  <2> QED
    BY <1>1, <1>4, <2>1, UnintendedPoints, SoloExtend
<1>5. CASE Goto(r, "ledger") /\ UNCHANGED attempt
  BY <1>1, <1>5, UnintendedPoints, SoloGoto
<1> QED
  BY <1>2, <1>3, <1>4, <1>5

\* The writes that record no outcome.
LEMMA SoloRecords ==
    ASSUME SubmissionInv, SoloInv, NEW r \in Runners, Act(r),
           Record(r) \/ Prefill(r) \/ Finalize(r) \/ WriteReceipt(r) \/ RecordIntent(r) \/ Await(r)
    PROVE  SoloInv'
<1>1. pc[r] \notin {"idle", "create", "ledger"}
  BY DEF Record, Prefill, Finalize, WriteReceipt, RecordIntent, Await
<1>2. own(r) \in AttemptRecords
  BY <1>1, OwnTypes
<1>3. ASSUME NEW s \in AttemptRecords, s.vacancy = own(r).vacancy, s.outcome = own(r).outcome,
             NEW ok, NEW x, Extend(r, ok, s, x), x # "create",
             s.intent = own(r).intent \/ x \notin Unintended \cup {"ledger"},
             x \in Unintended => pc[r] \in Unintended
      PROVE  SoloInv'
  BY <1>1, <1>3, SoloLeave, SoloExtend DEF Extend
<1>4. CASE Record(r)
  <2> DEFINE s == [own(r) EXCEPT !.records = @ + 1]
             x == CASE own(r).records = 0            -> "start"
                    [] own(r).records = Assessed - 1 -> "open"
                    [] OTHER                         -> "record"
  <2>1. pc[r] = "record" /\ own(r).records \in 0..2
    BY <1>4, OwnTypes DEF Record, SubmissionInv, RunnerOK, Assessed
  <2>2. s \in AttemptRecords
    BY <1>2, <2>1 DEF AttemptRecords, Assessed
  <2>3. /\ s.vacancy = own(r).vacancy /\ s.outcome = own(r).outcome /\ s.intent = own(r).intent
        /\ x \in {"start", "open", "record"}
    BY <1>2 DEF AttemptRecords
  <2> HIDE DEF s, x
  <2> QED
    BY <1>3, <1>4, <2>1, <2>2, <2>3, UnintendedPoints DEF Record, s, x
<1>5. CASE Prefill(r)
  <2> DEFINE n == IF pc[r] = "prefill" THEN 1 ELSE 2
             s == [own(r) EXCEPT !.prefill = n]
             x == IF n = 1 THEN "questions" ELSE "prepare"
  <2>1. pc[r] \in {"prefill", "questions"}
    BY <1>5 DEF Prefill
  <2>2. s \in AttemptRecords
    BY <1>2 DEF AttemptRecords
  <2>3. /\ s.vacancy = own(r).vacancy /\ s.outcome = own(r).outcome /\ s.intent = own(r).intent
        /\ x \in {"questions", "prepare"}
    BY <1>2 DEF AttemptRecords
  <2> HIDE DEF s, x
  <2> QED
    BY <1>3, <1>5, <2>1, <2>2, <2>3, UnintendedPoints DEF Prefill, s, x
<1>6. CASE Finalize(r)
  <2> DEFINE s == [own(r) EXCEPT !.release = "manifest", !.package = run[r].package]
  <2>1. pc[r] = "release" /\ run[r].package \in Packages
    BY <1>6 DEF Finalize, SubmissionInv, RunnerOK, WithPackage
  <2>2. s \in AttemptRecords
    BY <1>2, <2>1 DEF AttemptRecords
  <2>3. s.vacancy = own(r).vacancy /\ s.outcome = own(r).outcome /\ s.intent = own(r).intent
    BY <1>2 DEF AttemptRecords
  <2> HIDE DEF s
  <2>4. CASE Goto(r, "execute") /\ UNCHANGED attempt
    BY <1>1, <2>1, <2>4, UnintendedPoints, SoloGoto
  <2> QED
    BY <1>3, <1>6, <2>1, <2>2, <2>3, <2>4, UnintendedPoints DEF Finalize, s
<1>7. CASE WriteReceipt(r)
  <2> DEFINE s == [own(r) EXCEPT !.release = "receipt"]
  <2>1. s \in AttemptRecords
    BY <1>2 DEF AttemptRecords
  <2>2. s.vacancy = own(r).vacancy /\ s.outcome = own(r).outcome /\ s.intent = own(r).intent
    BY <1>2 DEF AttemptRecords
  <2> HIDE DEF s
  <2> QED
    BY <1>3, <1>7, <2>1, <2>2, UnintendedPoints DEF WriteReceipt, s
<1>8. CASE RecordIntent(r)
  <2> DEFINE s == [own(r) EXCEPT !.intent = TRUE]
  <2>1. s \in AttemptRecords
    BY <1>2 DEF AttemptRecords
  <2>2. s.vacancy = own(r).vacancy /\ s.outcome = own(r).outcome
    BY <1>2 DEF AttemptRecords
  <2> HIDE DEF s
  <2> QED
    BY <1>3, <1>8, <2>1, <2>2, UnintendedPoints DEF RecordIntent, s
<1>9. CASE Await(r)
  <2>1. PICK page \in BOOLEAN, email \in BOOLEAN :
           /\ attempt' = [attempt EXCEPT ![mine(r)].confirmed = page \/ email]
           /\ Goto(r, IF page THEN "submitted_success" ELSE "indeterminate")
    BY <1>9 DEF Await
  <2> DEFINE b == page \/ email
             s == [own(r) EXCEPT !.confirmed = b]
             x == IF page THEN "submitted_success" ELSE "indeterminate"
  <2>2. attempt' = [attempt EXCEPT ![mine(r)] = s]
    BY <2>1 DEF own
  <2>3. b \in BOOLEAN
    BY Zenon
  <2> HIDE DEF b
  <2>4. s \in AttemptRecords
    BY <1>2, <2>3 DEF AttemptRecords
  <2>5. /\ s.vacancy = own(r).vacancy /\ s.outcome = own(r).outcome /\ s.intent = own(r).intent
        /\ x \in SubmitOutcomes
    BY <1>2 DEF AttemptRecords, SubmitOutcomes
  <2>6. x \notin Unintended /\ x # "create"
    BY <2>5, UnintendedPoints DEF SubmitOutcomes
  <2> HIDE DEF s, x
  <2> QED
    BY <1>1, <2>1, <2>2, <2>4, <2>5, <2>6, SoloExtend DEF x
<1> QED
  BY <1>4, <1>5, <1>6, <1>7, <1>8, <1>9

\* Whoever dies leaves at most a temporary file.
LEMMA SoloCrash ==
    ASSUME SubmissionInv, SoloInv, NEW r \in Runners, Act(r), Crash(r)
    PROVE  SoloInv'
<1>1. Leave(r)
  BY DEF Crash
<1>2. \/ UNCHANGED attempt
      \/ /\ pc[r] \notin {"idle", "create", "ledger"}
         /\ attempt' = [attempt EXCEPT ![mine(r)].torn = TRUE]
  BY DEF Crash, Appending, Closing, Outcomes, SubmitOutcomes
<1>3. CASE UNCHANGED attempt
  BY <1>1, <1>3, SoloLeave
<1>4. CASE /\ pc[r] \notin {"idle", "create", "ledger"}
           /\ attempt' = [attempt EXCEPT ![mine(r)].torn = TRUE]
  <2> DEFINE s == [own(r) EXCEPT !.torn = TRUE]
  <2>1. /\ mine(r) \in Known /\ own(r) = attempt[mine(r)] /\ own(r) \in AttemptRecords
    BY <1>4, OwnTypes DEF Known, own
  <2>2. attempt' = [attempt EXCEPT ![mine(r)] = s] /\ s \in AttemptRecords
    BY <1>4, <2>1 DEF AttemptRecords
  <2>3. s.vacancy = own(r).vacancy /\ s.outcome = own(r).outcome /\ s.intent = own(r).intent
    BY <2>1 DEF AttemptRecords
  <2> HIDE DEF s
  <2>4. ~overlapped => (s.outcome = None \/ s.intent => Barring(mine(r)))
                       /\ (s.outcome \in {"blocked", "abandoned"} => ~s.intent)
    BY <2>1, <2>3 DEF SoloInv, Barring
  <2> QED
    BY <1>1, <1>4, <2>2, <2>3, <2>4, SoloLeaves, SoloWrite
<1> QED
  BY <1>2, <1>3, <1>4

\* While runners do not overlap, no step opens a second attempt of a posting.
LEMMA SoloStep ==
    ASSUME SubmissionInv, SoloInv, Next
    PROVE  SoloInv'
<1>1. PICK r \in Runners : Act(r)
  BY DEF Next, Act
<1> QED
  BY <1>1, SoloPlan, SoloCreate, SoloElse, SoloClose, SoloRecords, SoloCrash DEF Act, Step

LEMMA SoloStutter ==
    ASSUME SoloInv, UNCHANGED vars
    PROVE  SoloInv'
<1>1. UNCHANGED <<attempt, pc, run, overlapped>>
  BY DEF vars, archiveVars
<1> QED
  BY <1>1 DEF SoloInv, SoloRunnerOK, Barring, Prior, Known, own, mine, vacancy

-------------------------------------------------------------------------------
(***************************************************************************)
(* No deaths, no overlap: what a call that ends leaves behind.             *)
(***************************************************************************)

\* What the runner of such a step may rely on.
LEMMA TidyFacts ==
    ASSUME SubmissionInv, SoloInv, TidyInv, NEW r \in Runners, Act(r), kills' = 0, ~overlapped'
    PROVE  /\ kills = 0 /\ ~overlapped /\ ~Crash(r)
           /\ SoloRunnerOK(r) /\ TidyRunnerOK(r) /\ NothingTorn /\ LedgerReadable
           /\ pc[r] \notin AwayFromAttempt \cup Owing => Tidy(mine(r))
           /\ pc[r] \notin AwayFromAttempt \cup {"ledger"} =>
                 Writable(mine(r)) /\ mine(r) \notin completed
<1>1. kills = 0 /\ ~overlapped /\ ~Crash(r)
  BY HistoryGrows
<1>2. SoloRunnerOK(r) /\ TidyRunnerOK(r) /\ NothingTorn
  BY <1>1 DEF SoloInv, TidyInv
<1>3. LedgerReadable
  BY <1>2 DEF NothingTorn, LedgerReadable, Known, SubmissionInv, CheckpointsFollowArchive,
     SubmissionTypeOK
<1>4. ASSUME pc[r] \notin AwayFromAttempt \cup Owing PROVE Tidy(mine(r))
  <2>1. mine(r) \in Known
    BY <1>4 DEF SubmissionInv, RunnerOK, AwayFromAttempt
  <2>2. \A q \in Runners : pc[q] \in Owing => pc[q] # "idle"
    BY DEF Owing, Recording
  <2>3. \A q \in Runners : pc[q] \in Owing => q = r
    BY <1>1, <1>4, <2>2 DEF SoloInv, AwayFromAttempt
  <2> QED
    BY <1>1, <1>4, <2>1, <2>3 DEF TidyInv
<1>5. ASSUME pc[r] \notin AwayFromAttempt \cup {"ledger"}
      PROVE  Writable(mine(r)) /\ mine(r) \notin completed
  <2>1. mine(r) \in Known /\ own(r).outcome = None /\ own(r) = attempt[mine(r)]
    BY <1>2, <1>5 DEF SubmissionInv, RunnerOK, AwayFromAttempt, SoloRunnerOK, own
  <2> QED
    BY <1>2, <2>1 DEF NothingTorn, Writable, SubmissionInv, CheckpointsFollowArchive
<1> QED
  BY <1>1, <1>2, <1>3, <1>4, <1>5

\* A step of r concerns one attempt, a, and otherwise adds to the archive.
LEMMA TidyKept ==
    ASSUME SubmissionInv, SubmissionInv', SoloInv, TidyInv, Grows, NEW r \in Runners, Act(r),
           NEW a, pc[r] \notin AwayFromAttempt => a = mine(r),
           \A b \in Attempts : b # a => attempt'[b] = attempt[b],
           started \subseteq started', completed \subseteq completed',
           kills' = 0 => NothingTorn',
           kills' = 0 /\ ~overlapped' =>
              /\ TidyRunnerOK(r)'
              /\ a \in Known' => (pc'[r] \in Owing /\ mine(r)' = a) \/ Tidy(a)'
              /\ pc[r] = "intent" => attempt'[a].intent
              /\ \A v \in Vacancies : token'[v] # None /\ token'[v].consumed =>
                    \/ token[v] # None /\ token[v].consumed
                    \/ pc'[r] = "intent" /\ mine(r)' \in Known' /\ own(r)'.vacancy = v
    PROVE  TidyInv'
<1> SUFFICES ASSUME kills' = 0, ~overlapped'
             PROVE  /\ \A q \in Runners : TidyRunnerOK(q)'
                    /\ \A b \in Known' :
                          Tidy(b)' \/ \E q \in Runners : pc'[q] \in Owing /\ mine(q)' = b
                    /\ \A v \in Vacancies : token'[v] # None /\ token'[v].consumed => ConsumedFor(v)'
  BY DEF TidyInv
<1>1. kills = 0 /\ ~overlapped /\ \A q \in Runners : q # r => pc[q] = "idle" /\ pc'[q] = "idle"
  BY TidyFacts, Alone
<1>2. \A q \in Runners : TidyRunnerOK(q)'
  <2>1. \A q \in Runners : pc'[q] = "idle" => TidyRunnerOK(q)'
    BY DEF TidyRunnerOK, Recording, Owing
  <2> QED
    BY <1>1, <2>1
<1>3. ASSUME NEW b \in Known'
      PROVE  Tidy(b)' \/ \E q \in Runners : pc'[q] \in Owing /\ mine(q)' = b
  <2>1. CASE b = a
    BY <2>1
  <2>2. CASE b # a
    <3>1. b \in Known /\ attempt'[b] = attempt[b]
      BY <2>2 DEF Known
    <3>2. Tidy(b)
      <4>1. ~\E q \in Runners : pc[q] \in Owing /\ mine(q) = b
        BY <1>1, <2>2 DEF Owing, Recording, AwayFromAttempt
      <4> QED
        BY <1>1, <3>1, <4>1 DEF TidyInv
    <3> QED
      BY <3>1, <3>2 DEF Tidy
  <2> QED
    BY <2>1, <2>2
<1>4. ASSUME NEW v \in Vacancies, token'[v] # None, token'[v].consumed
      PROVE  ConsumedFor(v)'
  <2>1. CASE pc'[r] = "intent" /\ mine(r)' \in Known' /\ own(r)'.vacancy = v
    <3>1. attempt'[mine(r)'].vacancy = v
      BY <2>1 DEF own
    <3> QED
      BY <2>1, <3>1 DEF ConsumedFor
  <2>2. CASE token[v] # None /\ token[v].consumed
    <3>1. PICK b \in Known :
             /\ attempt[b].vacancy = v
             /\ attempt[b].intent \/ \E q \in Runners : pc[q] = "intent" /\ mine(q) = b
      BY <1>1, <2>2 DEF TidyInv, ConsumedFor
    <3>2. b \in Known' /\ attempt'[b].vacancy = v /\ (attempt[b].intent => attempt'[b].intent)
      BY <3>1 DEF Known, Grows
    <3>3. attempt'[b].intent
      <4>1. CASE attempt[b].intent
        BY <3>2, <4>1
      <4>2. CASE \E q \in Runners : pc[q] = "intent" /\ mine(q) = b
        <5>1. pc[r] = "intent" /\ mine(r) = b
          BY <1>1, <4>2
        <5> QED
          BY <5>1 DEF AwayFromAttempt
      <4> QED
        BY <3>1, <4>1, <4>2
    <3> QED
      BY <3>2, <3>3 DEF ConsumedFor
  <2> QED
    BY <1>4, <2>1, <2>2
<1> QED
  BY <1>2, <1>3, <1>4

LEMMA TidyFree ==
    ASSUME NEW r \in Runners, pc[r] \notin Owing
    PROVE  TidyRunnerOK(r)
BY DEF TidyRunnerOK, Owing, Recording

\* A step that leaves the archive alone, at points at which nothing is owed.
LEMMA TidyQuiet ==
    ASSUME SubmissionInv, SubmissionInv', SoloInv, TidyInv, Grows, NEW r \in Runners, Act(r),
           UNCHANGED archiveVars,
           pc[r] \notin AwayFromAttempt \cup Owing \cup {"intent"}, pc'[r] \notin Owing,
           \A v \in Vacancies : token'[v] # None /\ token'[v].consumed =>
              \/ token[v] # None /\ token[v].consumed
              \/ pc'[r] = "intent" /\ mine(r)' \in Known' /\ own(r)'.vacancy = v
    PROVE  TidyInv'
<1>1. UNCHANGED <<attempt, started, completed, tornLedger>>
  BY DEF archiveVars
<1>2. kills' = 0 => NothingTorn'
  BY <1>1, HistoryGrows DEF NothingTorn, Known, TidyInv
<1>3. TidyRunnerOK(r)'
  BY DEF TidyRunnerOK, Owing, Recording
<1>4. kills' = 0 /\ ~overlapped' => Tidy(mine(r))
  BY TidyFacts
<1>5. ASSUME kills' = 0, ~overlapped', NEW a, a = mine(r) PROVE Tidy(a)'
  BY <1>1, <1>4, <1>5 DEF Tidy
<1> QED
  BY <1>1, <1>2, <1>3, <1>5, TidyKept

\* One that writes the attempt of the runner.
LEMMA TidyWrite ==
    ASSUME SubmissionInv, SubmissionInv', SoloInv, TidyInv, Grows, NEW r \in Runners, Act(r),
           pc[r] \notin AwayFromAttempt, mine(r)' = mine(r),
           NEW s \in AttemptRecords, attempt' = [attempt EXCEPT ![mine(r)] = s],
           s.torn = own(r).torn,
           UNCHANGED <<started, completed, tornLedger, gateVars>>,
           kills' = 0 /\ ~overlapped' =>
              /\ TidyRunnerOK(r)'
              /\ pc'[r] \notin Owing =>
                    /\ mine(r) \in started
                    /\ s.outcome = None
                    /\ s.intent \/ (s.records = Assessed /\ s.prefill # 1 /\ s.release # "manifest")
              /\ pc[r] = "intent" => s.intent
    PROVE  TidyInv'
<1>1. /\ mine(r) \in Known /\ own(r) = attempt[mine(r)] /\ attempt'[mine(r)] = s /\ s # None
      /\ \A b \in Attempts : b # mine(r) => attempt'[b] = attempt[b]
  BY OwnTypes DEF AwayFromAttempt, Known, own, SubmissionInv, SubmissionTypeOK
<1>2. kills' = 0 => NothingTorn'
  BY <1>1, HistoryGrows DEF NothingTorn, Known, TidyInv
<1>3. ASSUME kills' = 0, ~overlapped', pc'[r] \notin Owing, NEW a, a = mine(r) PROVE Tidy(a)'
  BY <1>1, <1>3 DEF Tidy
<1>4. UNCHANGED token
  BY DEF gateVars
<1> QED
  BY <1>1, <1>2, <1>3, <1>4, TidyKept

LEMMA OwingPoints ==
    /\ Owing = {"record", "start", "questions", "receipt", "ledger"}
    /\ AwayFromAttempt = {"idle", "create"} /\ Recording = {"record", "start"}
    /\ AwayFromAttempt \cap Owing = {} /\ Outcomes \cap (Owing \cup AwayFromAttempt) = {}
BY DEF Owing, Recording, AwayFromAttempt, Outcomes, SubmitOutcomes

\* A planned attempt owes nothing yet.
LEMMA TidyPlan ==
    ASSUME SubmissionInv, SubmissionInv', SoloInv, TidyInv, Grows, NEW r \in Runners, Act(r), Plan(r)
    PROVE  TidyInv'
<1>1. /\ pc[r] = "idle"
      /\ UNCHANGED <<attempt, started, completed, tornLedger, token>>
  BY DEF Plan, archiveVars, gateVars
<1>2. pc'[r] \in {"create", "open"}
  BY DEF Plan, SubmissionInv, SubmissionTypeOK
<1>3. kills' = 0 => NothingTorn'
  BY <1>1, HistoryGrows DEF NothingTorn, Known, TidyInv
<1>4. TidyRunnerOK(r)'
  BY <1>2, OwingPoints DEF TidyRunnerOK
<1>5. ASSUME kills' = 0, ~overlapped', NEW a \in Known' PROVE Tidy(a)'
  <2>1. \A q \in Runners : pc[q] \notin Owing
    BY <1>1, <1>5, Alone, OwingPoints
  <2>2. Tidy(a)
    BY <1>1, <1>5, <2>1, TidyFacts DEF TidyInv, Known
  <2> QED
    BY <1>1, <2>2 DEF Tidy
<1>6. pc[r] \in AwayFromAttempt /\ pc[r] # "intent"
  BY <1>1, OwingPoints
<1> QED
  BY <1>1, <1>3, <1>4, <1>5, <1>6, TidyKept

\* A new attempt owes its records.
LEMMA TidyCreate ==
    ASSUME SubmissionInv, SubmissionInv', SoloInv, TidyInv, Grows, NEW r \in Runners, Act(r),
           NEW a \in Attempts, Create(r, a)
    PROVE  TidyInv'
<1>1. /\ pc[r] = "create" /\ attempt[a] = None /\ vacancy(r) \in Vacancies /\ run[r] \in Runs
      /\ UNCHANGED <<started, completed, tornLedger, token, kills>>
  BY RunTypes DEF Create, gateVars
<1>2. /\ attempt'[a].records = 0 /\ attempt'[a].prefill = 0 /\ attempt'[a].release = "none"
      /\ ~attempt'[a].torn
      /\ \A b \in Attempts : b # a => attempt'[b] = attempt[b]
      /\ pc'[r] = "record" /\ mine(r)' = a
  BY <1>1 DEF Create, SubmissionInv, SubmissionTypeOK, mine, Runs
<1>3. kills' = 0 => NothingTorn'
  BY <1>1, <1>2 DEF NothingTorn, Known, TidyInv
<1>4. a \notin started
  BY <1>1 DEF SubmissionInv, CheckpointsFollowArchive
<1>5. TidyRunnerOK(r)'
  BY <1>1, <1>2, <1>4, OwingPoints DEF TidyRunnerOK, own
<1>6. pc[r] \in AwayFromAttempt /\ pc[r] # "intent" /\ pc'[r] \in Owing
  BY <1>1, <1>2, OwingPoints
<1> QED
  BY <1>1, <1>2, <1>3, <1>5, <1>6, TidyKept

\* A call that may raise only after a death or an overlap.
LEMMA TidyRaises ==
    ASSUME SubmissionInv, TidyInv, NEW r \in Runners, Act(r), UNCHANGED <<attempt, tornLedger>>,
           ~(kills' = 0 /\ ~overlapped')
    PROVE  TidyInv'
BY HistoryGrows DEF TidyInv, NothingTorn, Known

\* The records follow one another, the checkpoint of the start after the first.
LEMMA TidyRecord ==
    ASSUME SubmissionInv, SubmissionInv', SoloInv, TidyInv, Grows, NEW r \in Runners, Act(r),
           Record(r)
    PROVE  TidyInv'
<1> DEFINE s == [own(r) EXCEPT !.records = @ + 1]
           x == CASE own(r).records = 0            -> "start"
                  [] own(r).records = Assessed - 1 -> "open"
                  [] OTHER                         -> "record"
<1>1. /\ pc[r] = "record" /\ Extend(r, Writable(mine(r)), s, x)
      /\ UNCHANGED <<started, completed, tornLedger, gateVars>>
  BY DEF Record
<1>2. own(r) \in AttemptRecords /\ own(r).records \in 0..2
  BY <1>1, OwnTypes DEF SubmissionInv, RunnerOK, Assessed
<1>3. /\ s \in AttemptRecords /\ s.records = own(r).records + 1 /\ s.torn = own(r).torn
      /\ s.prefill = own(r).prefill /\ s.release = own(r).release /\ s.outcome = own(r).outcome
      /\ s.intent = own(r).intent
  BY <1>2 DEF AttemptRecords, Assessed
<1>4. /\ own(r).records = 0 => x = "start"
      /\ own(r).records = 1 => x = "record"
      /\ own(r).records = 2 => x = "open"
  BY DEF Assessed
<1> HIDE DEF s, x
<1>5. CASE attempt' = [attempt EXCEPT ![mine(r)] = s] /\ Goto(r, x)
  <2>1. pc'[r] = x /\ mine(r)' = mine(r) /\ own(r)' = s
    BY <1>1, <1>2, <1>5, GotoMoves, OwnTypes DEF own, SubmissionInv, SubmissionTypeOK
  <2>2. ASSUME kills' = 0, ~overlapped'
        PROVE  /\ TidyRunnerOK(r)'
               /\ pc'[r] \notin Owing =>
                    /\ mine(r) \in started
                    /\ s.outcome = None
                    /\ s.intent \/ (s.records = Assessed /\ s.prefill # 1 /\ s.release # "manifest")
    <3>1. /\ own(r).prefill = 0 /\ own(r).release = "none" /\ own(r).outcome = None
          /\ mine(r) \in started <=> own(r).records > 0
      BY <1>1, <2>2, TidyFacts, OwingPoints DEF TidyRunnerOK, SoloRunnerOK
    <3>2. TidyRunnerOK(r)'
      BY <1>1, <1>2, <1>3, <1>4, <2>1, <3>1, OwingPoints DEF TidyRunnerOK
    <3> QED
      BY <1>2, <1>3, <1>4, <2>1, <3>1, <3>2, OwingPoints DEF Assessed
  <2> QED
    BY <1>1, <1>3, <1>5, <2>1, <2>2, TidyWrite, OwingPoints
<1>6. CASE Leave(r) /\ UNCHANGED attempt /\ ~Writable(mine(r))
  <2>1. ~(kills' = 0 /\ ~overlapped')
    BY <1>1, <1>6, TidyFacts, OwingPoints
  <2> QED
    BY <1>1, <1>6, <2>1, TidyRaises
<1> QED
  BY <1>1, <1>5, <1>6 DEF Extend

LEMMA TidyStart ==
    ASSUME SubmissionInv, SubmissionInv', SoloInv, TidyInv, Grows, NEW r \in Runners, Act(r),
           Start(r)
    PROVE  TidyInv'
<1>1. pc[r] = "start" /\ UNCHANGED <<attempt, completed, tornLedger, token>>
  BY DEF Start, gateVars
<1>2. own(r).records = Created
  BY <1>1 DEF SubmissionInv, RunnerOK
<1>3. CASE started' = started \cup {mine(r)} /\ Goto(r, "record")
  <2>1. pc'[r] = "record" /\ mine(r)' = mine(r) /\ own(r)' = own(r)
    BY <1>1, <1>3, GotoMoves DEF own
  <2>2. kills' = 0 => NothingTorn'
    BY <1>1, HistoryGrows DEF NothingTorn, Known, TidyInv
  <2>3. ASSUME kills' = 0, ~overlapped' PROVE TidyRunnerOK(r)'
    BY <1>1, <1>2, <1>3, <2>1, <2>3, TidyFacts, OwingPoints DEF TidyRunnerOK, Created
  <2> QED
    BY <1>1, <1>3, <2>1, <2>2, <2>3, TidyKept, OwingPoints
<1>4. CASE ~(Writable(mine(r)) /\ LedgerReadable /\ mine(r) \notin started)
  <2>1. ASSUME kills' = 0, ~overlapped' PROVE mine(r) \notin started
    BY <1>1, <2>1, TidyFacts, OwingPoints DEF TidyRunnerOK
  <2>2. ~(kills' = 0 /\ ~overlapped')
    BY <1>1, <1>4, <2>1, TidyFacts, OwingPoints
  <2> QED
    BY <1>1, <2>2, TidyRaises
<1> QED
  BY <1>3, <1>4 DEF Start

\* The snapshot and the questions: after the first the runner owes the second.
LEMMA TidyPrefill ==
    ASSUME SubmissionInv, SubmissionInv', SoloInv, TidyInv, Grows, NEW r \in Runners, Act(r),
           Prefill(r)
    PROVE  TidyInv'
<1> DEFINE n == IF pc[r] = "prefill" THEN 1 ELSE 2
           s == [own(r) EXCEPT !.prefill = n]
           x == IF n = 1 THEN "questions" ELSE "prepare"
<1>1. /\ pc[r] \in {"prefill", "questions"} /\ Extend(r, Writable(mine(r)), s, x)
      /\ UNCHANGED <<started, completed, tornLedger, gateVars>>
  BY DEF Prefill
<1>2. own(r) \in AttemptRecords
  BY <1>1, OwnTypes
<1>3. /\ s \in AttemptRecords /\ s.records = own(r).records /\ s.torn = own(r).torn
      /\ s.release = own(r).release /\ s.outcome = own(r).outcome
      /\ s.intent = own(r).intent
  BY <1>2 DEF AttemptRecords
<1>4. /\ pc[r] = "prefill" => x = "questions"
      /\ pc[r] = "questions" => x = "prepare" /\ s.prefill = 2
  BY <1>2 DEF AttemptRecords
<1> HIDE DEF s, x
<1>5. CASE attempt' = [attempt EXCEPT ![mine(r)] = s] /\ Goto(r, x)
  <2>1. pc'[r] = x /\ mine(r)' = mine(r) /\ own(r)' = s
    BY <1>1, <1>2, <1>5, GotoMoves, OwnTypes DEF own, SubmissionInv, SubmissionTypeOK
  <2>2. ASSUME kills' = 0, ~overlapped'
        PROVE  /\ TidyRunnerOK(r)'
               /\ pc'[r] \notin Owing =>
                    /\ mine(r) \in started
                    /\ s.outcome = None
                    /\ s.intent \/ (s.records = Assessed /\ s.prefill # 1 /\ s.release # "manifest")
    <3>1. /\ own(r).outcome = None /\ own(r).records = Assessed
          /\ own(r).release # "manifest" /\ mine(r) \in started
      <4>1. pc[r] \in Unintended /\ pc[r] \notin AwayFromAttempt \cup {"ledger"}
        BY <1>1, UnintendedPoints, OwingPoints
      <4>2. own(r).outcome = None /\ ~own(r).intent /\ own(r) = attempt[mine(r)]
        BY <2>2, <4>1, TidyFacts DEF SoloRunnerOK, own
      <4>3. CASE pc[r] = "prefill"
        BY <2>2, <4>2, <4>3, TidyFacts, OwingPoints DEF Tidy
      <4>4. CASE pc[r] = "questions"
        BY <2>2, <4>2, <4>4, TidyFacts, OwingPoints DEF TidyRunnerOK
      <4> QED
        BY <1>1, <4>2, <4>3, <4>4
    <3>2. TidyRunnerOK(r)'
      BY <1>1, <1>3, <1>4, <2>1, <3>1, OwingPoints DEF TidyRunnerOK
    <3> QED
      BY <1>1, <1>3, <1>4, <2>1, <3>1, <3>2, OwingPoints
  <2> QED
    BY <1>1, <1>3, <1>5, <2>1, <2>2, TidyWrite, OwingPoints
<1>6. CASE UNCHANGED attempt /\ ~Writable(mine(r))
  <2>1. ~(kills' = 0 /\ ~overlapped')
    BY <1>1, <1>6, TidyFacts, OwingPoints
  <2> QED
    BY <1>1, <1>6, <2>1, TidyRaises
<1> QED
  BY <1>1, <1>5, <1>6 DEF Extend

\* The steps that leave the archive and the tokens alone.
LEMMA TidyElse ==
    ASSUME SubmissionInv, SubmissionInv', SoloInv, TidyInv, Grows, NEW r \in Runners, Act(r),
           \/ Open(r) \/ PrepareFails(r) \/ Preflight(r) \/ Click(r) \/ Cancel(r) \/ Refuse(r)
    PROVE  TidyInv'
<1>1. UNCHANGED archiveVars /\ UNCHANGED token
  BY DEF Open, PrepareFails, Preflight, Click, Cancel, Refuse, gateVars
<1>2. pc[r] \in {"open", "prepare", "release", "execute", "click", "wait"}
  BY DEF Open, PrepareFails, Preflight, Click, Cancel, Refuse
<1>3. pc[r] \notin AwayFromAttempt \cup Owing \cup {"intent"}
  BY <1>2, OwingPoints
<1>4. ASSUME NEW x, Goto(r, x), x \notin Owing PROVE TidyInv'
  BY <1>1, <1>3, <1>4, GotoMoves, TidyQuiet
<1>5. CASE Leave(r)
  BY <1>1, <1>3, <1>5, LeaveMoves, OwingPoints, TidyQuiet
<1>6. CASE Open(r)
  <2>1. pc'[r] \in {"blocked", "prefill", "prepare"}
    BY <1>6 DEF Open, Goto, SubmissionInv, SubmissionTypeOK
  <2> QED
    BY <1>1, <1>3, <2>1, OwingPoints, TidyQuiet
<1> QED
  BY <1>4, <1>5, <1>6, OwingPoints DEF PrepareFails, Preflight, Click, Cancel, Refuse

\* A token that is issued is new, or was issued before.
LEMMA TidyIssue ==
    ASSUME SubmissionInv, SubmissionInv', SoloInv, TidyInv, Grows, NEW r \in Runners, Act(r),
           NEW p \in Packages, Issue(r, p)
    PROVE  TidyInv'
<1>1. UNCHANGED archiveVars /\ pc[r] = "prepare"
  BY DEF Issue
<1>2. pc'[r] \in {"abandoned", "release"}
  BY DEF Issue, Goto, SubmissionInv, SubmissionTypeOK
<1>3. token' = token \/ token' = [token EXCEPT ![vacancy(r)] = NewToken(p)]
  BY DEF Issue, gateVars
<1>4. \A v \in Vacancies : token'[v] # None /\ token'[v].consumed =>
         token[v] # None /\ token[v].consumed
  <2>1. ~NewToken(p).consumed
    BY DEF NewToken
  <2>2. \A v \in Vacancies : token'[v] = token[v] \/ token'[v] = NewToken(p)
    BY <1>3 DEF SubmissionInv, SubmissionTypeOK
  <2> QED
    BY <2>1, <2>2
<1> QED
  BY <1>1, <1>2, <1>4, OwingPoints, TidyQuiet

\* The token is consumed for the attempt of the runner.
LEMMA TidyConsume ==
    ASSUME SubmissionInv, SubmissionInv', SoloInv, TidyInv, Grows, NEW r \in Runners, Act(r),
           Consume(r)
    PROVE  TidyInv'
<1>1. UNCHANGED archiveVars /\ UNCHANGED attempt /\ pc[r] = "consume"
  BY DEF Consume, archiveVars
<1>2. CASE UNCHANGED token /\ Leave(r)
  BY <1>1, <1>2, LeaveMoves, OwingPoints, TidyQuiet
<1>3. CASE /\ Valid(r) /\ Goto(r, "intent")
           /\ token' = [token EXCEPT ![vacancy(r)].consumed = TRUE]
  <2>1. /\ pc'[r] = "intent" /\ mine(r)' = mine(r) /\ mine(r) \in Known' /\ own(r)' = own(r)
        /\ own(r).vacancy = vacancy(r)
    BY <1>1, <1>3, GotoMoves, OwnTypes DEF own, Known, Valid
  <2>2. \A v \in Vacancies : v # vacancy(r) => token'[v] = token[v]
    BY <1>3 DEF SubmissionInv, SubmissionTypeOK
  <2> QED
    BY <1>1, <2>1, <2>2, OwingPoints, TidyQuiet
<1> QED
  BY <1>2, <1>3 DEF Consume

\* The manifest of a release is owed its receipt.
LEMMA TidyFinalize ==
    ASSUME SubmissionInv, SubmissionInv', SoloInv, TidyInv, Grows, NEW r \in Runners, Act(r),
           Finalize(r)
    PROVE  TidyInv'
<1> DEFINE s == [own(r) EXCEPT !.release = "manifest", !.package = run[r].package]
<1>1. /\ pc[r] = "release" /\ UNCHANGED <<started, completed, tornLedger, gateVars, token>>
  BY DEF Finalize, gateVars
<1>2. own(r) \in AttemptRecords /\ run[r].package \in Packages
  BY <1>1, OwnTypes DEF SubmissionInv, RunnerOK, WithPackage
<1>3. CASE UNCHANGED attempt /\ (Leave(r) \/ Goto(r, "execute"))
  <2>1. pc'[r] \in {"idle", "execute"}
    BY <1>3, LeaveMoves, GotoMoves
  <2>2. UNCHANGED archiveVars
    BY <1>1, <1>3 DEF archiveVars
  <2> QED
    BY <1>1, <2>1, <2>2, OwingPoints, TidyQuiet
<1>4. CASE /\ own(r).records = Assessed /\ own(r).prefill = 2
           /\ attempt' = [attempt EXCEPT ![mine(r)] = s] /\ Goto(r, "receipt")
  <2>1. /\ s \in AttemptRecords /\ s.records = own(r).records /\ s.torn = own(r).torn
        /\ s.prefill = own(r).prefill /\ s.release = "manifest"
    BY <1>2 DEF AttemptRecords
  <2> HIDE DEF s
  <2>2. pc'[r] = "receipt" /\ mine(r)' = mine(r) /\ own(r)' = s
    BY <1>1, <1>2, <1>4, GotoMoves, OwnTypes DEF own, SubmissionInv, SubmissionTypeOK
  <2>3. ASSUME kills' = 0, ~overlapped' PROVE TidyRunnerOK(r)'
    <3>1. mine(r) \in started
      BY <1>1, <2>3, TidyFacts, OwingPoints DEF Tidy
    <3> QED
      BY <1>1, <1>4, <2>1, <2>2, <3>1, OwingPoints DEF TidyRunnerOK
  <2> QED
    BY <1>1, <1>4, <2>1, <2>2, <2>3, TidyWrite, OwingPoints
<1> QED
  BY <1>3, <1>4 DEF Finalize, Extend

LEMMA TidyReceipt ==
    ASSUME SubmissionInv, SubmissionInv', SoloInv, TidyInv, Grows, NEW r \in Runners, Act(r),
           WriteReceipt(r)
    PROVE  TidyInv'
<1> DEFINE s == [own(r) EXCEPT !.release = "receipt"]
<1>1. /\ pc[r] = "receipt" /\ UNCHANGED <<started, completed, tornLedger, gateVars>>
      /\ Extend(r, own(r).release = "manifest", s, "execute")
  BY DEF WriteReceipt
<1>2. own(r) \in AttemptRecords
  BY <1>1, OwnTypes
<1>3. CASE attempt' = [attempt EXCEPT ![mine(r)] = s] /\ Goto(r, "execute")
  <2>1. /\ s \in AttemptRecords /\ s.records = own(r).records /\ s.torn = own(r).torn
        /\ s.prefill = own(r).prefill /\ s.release = "receipt" /\ s.outcome = own(r).outcome
    BY <1>2 DEF AttemptRecords
  <2> HIDE DEF s
  <2>2. pc'[r] = "execute" /\ mine(r)' = mine(r)
    BY <1>3, GotoMoves
  <2>3. ASSUME kills' = 0, ~overlapped'
        PROVE  /\ mine(r) \in started /\ s.outcome = None
               /\ s.records = Assessed /\ s.prefill # 1 /\ s.release # "manifest"
    <3>1. /\ mine(r) \in started /\ own(r).outcome = None
          /\ own(r).records = Assessed /\ own(r).prefill # 1
      BY <1>1, <2>3, TidyFacts, OwingPoints DEF TidyRunnerOK, SoloRunnerOK
    <3> QED
      BY <2>1, <3>1
  <2>4. TidyRunnerOK(r)'
    BY <2>2, OwingPoints DEF TidyRunnerOK
  <2> QED
    BY <1>1, <1>3, <2>1, <2>2, <2>3, <2>4, TidyWrite, OwingPoints
<1>4. CASE UNCHANGED attempt /\ own(r).release # "manifest"
  <2>1. ~(kills' = 0 /\ ~overlapped')
    BY <1>1, <1>4, TidyFacts, OwingPoints DEF TidyRunnerOK
  <2> QED
    BY <1>1, <1>4, <2>1, TidyRaises
<1> QED
  BY <1>1, <1>3, <1>4 DEF Extend

\* The intent of a consumed token is recorded.
LEMMA TidyIntent ==
    ASSUME SubmissionInv, SubmissionInv', SoloInv, TidyInv, Grows, NEW r \in Runners, Act(r),
           RecordIntent(r)
    PROVE  TidyInv'
<1> DEFINE s == [own(r) EXCEPT !.intent = TRUE]
<1>1. /\ pc[r] = "intent" /\ UNCHANGED <<started, completed, tornLedger, gateVars>>
      /\ Extend(r, Writable(mine(r)), s, "click")
  BY DEF RecordIntent
<1>2. own(r) \in AttemptRecords
  BY <1>1, OwnTypes
<1>3. CASE attempt' = [attempt EXCEPT ![mine(r)] = s] /\ Goto(r, "click")
  <2>1. s \in AttemptRecords /\ s.intent /\ s.torn = own(r).torn /\ s.outcome = own(r).outcome
    BY <1>2 DEF AttemptRecords
  <2> HIDE DEF s
  <2>2. pc'[r] = "click" /\ mine(r)' = mine(r)
    BY <1>3, GotoMoves
  <2>3. ASSUME kills' = 0, ~overlapped' PROVE mine(r) \in started /\ s.outcome = None
    <3>1. mine(r) \in started /\ own(r).outcome = None
      BY <1>1, <2>3, TidyFacts, OwingPoints DEF Tidy, SoloRunnerOK
    <3> QED
      BY <2>1, <3>1
  <2>4. TidyRunnerOK(r)'
    BY <2>2, OwingPoints DEF TidyRunnerOK
  <2> QED
    BY <1>1, <1>3, <2>1, <2>2, <2>3, <2>4, TidyWrite, OwingPoints
<1>4. CASE UNCHANGED attempt /\ ~Writable(mine(r))
  <2>1. ~(kills' = 0 /\ ~overlapped')
    BY <1>1, <1>4, TidyFacts, OwingPoints
  <2> QED
    BY <1>1, <1>4, <2>1, TidyRaises
<1> QED
  BY <1>1, <1>3, <1>4 DEF Extend

LEMMA TidyAwait ==
    ASSUME SubmissionInv, SubmissionInv', SoloInv, TidyInv, Grows, NEW r \in Runners, Act(r),
           Await(r)
    PROVE  TidyInv'
<1>1. PICK page \in BOOLEAN, email \in BOOLEAN :
         /\ attempt' = [attempt EXCEPT ![mine(r)].confirmed = page \/ email]
         /\ Goto(r, IF page THEN "submitted_success" ELSE "indeterminate")
  BY DEF Await
<1> DEFINE b == page \/ email
           s == [own(r) EXCEPT !.confirmed = b]
<1>2. pc[r] = "wait" /\ UNCHANGED <<started, completed, tornLedger, gateVars>>
  BY DEF Await
<1>3. own(r) \in AttemptRecords /\ own(r).intent /\ mine(r) \in Attempts
  BY <1>2, OwnTypes DEF SubmissionInv, RunnerOK
<1>4. attempt' = [attempt EXCEPT ![mine(r)] = s]
  BY <1>1 DEF own
<1>5. b \in BOOLEAN
  BY Zenon
<1> HIDE DEF b
<1>6. s \in AttemptRecords /\ s.intent /\ s.torn = own(r).torn /\ s.outcome = own(r).outcome
  BY <1>3, <1>5 DEF AttemptRecords
<1> HIDE DEF s
<1>7. pc'[r] \in SubmitOutcomes /\ mine(r)' = mine(r)
  BY <1>1, GotoMoves DEF SubmitOutcomes
<1>8. ASSUME kills' = 0, ~overlapped' PROVE mine(r) \in started /\ s.outcome = None
  <2>1. mine(r) \in started /\ own(r).outcome = None
    BY <1>2, <1>8, TidyFacts, OwingPoints DEF Tidy, SoloRunnerOK
  <2> QED
    BY <1>6, <2>1
<1>9. pc'[r] \notin Owing /\ TidyRunnerOK(r)'
  BY <1>7, OwingPoints DEF TidyRunnerOK, Outcomes
<1> QED
  BY <1>2, <1>4, <1>6, <1>7, <1>8, <1>9, TidyWrite, OwingPoints

\* A terminal attempt is owed its checkpoint.
LEMMA TidyClose ==
    ASSUME SubmissionInv, SubmissionInv', SoloInv, TidyInv, Grows, NEW r \in Runners, Act(r),
           Close(r)
    PROVE  TidyInv'
<1> DEFINE s == [own(r) EXCEPT !.outcome = pc[r]]
<1>1. /\ pc[r] \in Outcomes /\ pc[r] \notin AwayFromAttempt \cup Owing \cup {"intent"}
      /\ UNCHANGED <<started, completed, tornLedger, gateVars, token>>
  BY OwingPoints DEF Close, Closing, Outcomes, SubmitOutcomes, gateVars
<1>2. own(r) \in AttemptRecords /\ pc[r] # None
  BY <1>1, OwnTypes, OwingPoints
<1>3. CASE Leave(r) /\ UNCHANGED attempt
  <2>1. UNCHANGED archiveVars
    BY <1>1, <1>3 DEF archiveVars
  <2> QED
    BY <1>1, <1>3, <2>1, LeaveMoves, OwingPoints, TidyQuiet
<1>4. CASE attempt' = [attempt EXCEPT ![mine(r)] = s] /\ Goto(r, "ledger")
  <2>1. s \in AttemptRecords /\ s.torn = own(r).torn
    BY <1>1, <1>2 DEF AttemptRecords
  <2> HIDE DEF s
  <2>2. pc'[r] = "ledger" /\ mine(r)' = mine(r)
    BY <1>4, GotoMoves
  <2>3. ASSUME kills' = 0, ~overlapped' PROVE TidyRunnerOK(r)'
    <3>1. mine(r) \in started
      BY <1>1, <2>3, TidyFacts DEF Tidy
    <3> QED
      BY <1>1, <2>2, <3>1, OwingPoints DEF TidyRunnerOK
  <2> QED
    BY <1>1, <1>4, <2>1, <2>2, <2>3, TidyWrite, OwingPoints
<1>5. CASE own(r).outcome = pc[r] /\ UNCHANGED attempt
  <2>1. ~(kills' = 0 /\ ~overlapped')
    BY <1>1, <1>2, <1>5, TidyFacts, OwingPoints DEF SoloRunnerOK
  <2> QED
    BY <1>1, <1>5, <2>1, TidyRaises
<1> QED
  BY <1>3, <1>4, <1>5 DEF Close, Extend

\* The checkpoint of a terminal attempt.
LEMMA TidyComplete ==
    ASSUME SubmissionInv, SubmissionInv', SoloInv, TidyInv, Grows, NEW r \in Runners, Act(r),
           Complete(r)
    PROVE  TidyInv'
<1>1. /\ pc[r] = "ledger" /\ Leave(r)
      /\ UNCHANGED <<attempt, started, tornLedger, token>>
      /\ completed' = IF LedgerReadable /\ ~own(r).torn /\ mine(r) \in started
                      THEN completed \cup {mine(r)}
                      ELSE completed
  BY DEF Complete, gateVars
<1>2. /\ pc'[r] = "idle" /\ completed \subseteq completed'
      /\ pc[r] \notin AwayFromAttempt
  BY <1>1, LeaveMoves, OwingPoints
<1>3. /\ mine(r) \in Known /\ own(r) = attempt[mine(r)] /\ own(r).outcome # None
  BY <1>1, <1>2, OwingPoints DEF SubmissionInv, RunnerOK, own
<1>4. kills' = 0 => NothingTorn'
  BY <1>1, HistoryGrows DEF NothingTorn, Known, TidyInv
<1>5. ASSUME kills' = 0, ~overlapped', NEW a, a = mine(r) PROVE Tidy(a)'
  <2>1. mine(r) \in started /\ ~own(r).torn /\ LedgerReadable
    BY <1>1, <1>3, <1>5, TidyFacts, OwingPoints DEF TidyRunnerOK, NothingTorn
  <2> QED
    BY <1>1, <1>3, <1>5, <2>1 DEF Tidy
<1>6. TidyRunnerOK(r)'
  BY <1>2, OwingPoints DEF TidyRunnerOK
<1> QED
  BY <1>1, <1>2, <1>4, <1>5, <1>6, TidyKept

\* While nobody dies and no runners overlap, a call leaves nothing owed.
LEMMA TidyStep ==
    ASSUME SubmissionInv, SoloInv, TidyInv, Next
    PROVE  TidyInv'
<1>1. SubmissionInv' /\ Grows
  BY SubmissionStep
<1>2. PICK r \in Runners : Act(r)
  BY DEF Next, Act
<1>3. CASE Crash(r)
  BY <1>2, <1>3, HistoryGrows DEF TidyInv
<1>4. CASE Plan(r) \/ Record(r) \/ Start(r) \/ Prefill(r) \/ \E a \in Attempts : Create(r, a)
  BY <1>1, <1>2, <1>4, TidyPlan, TidyRecord, TidyStart, TidyPrefill, TidyCreate
<1>5. CASE \/ Open(r) \/ PrepareFails(r) \/ Preflight(r) \/ Click(r) \/ Cancel(r) \/ Refuse(r)
           \/ \E p \in Packages : Issue(r, p)
  BY <1>1, <1>2, <1>5, TidyElse, TidyIssue
<1>6. CASE Consume(r) \/ Finalize(r) \/ WriteReceipt(r) \/ RecordIntent(r)
  BY <1>1, <1>2, <1>6, TidyConsume, TidyFinalize, TidyReceipt, TidyIntent
<1>7. CASE Await(r) \/ Close(r) \/ Complete(r)
  BY <1>1, <1>2, <1>7, TidyAwait, TidyClose, TidyComplete
<1> QED
  BY <1>2, <1>3, <1>4, <1>5, <1>6, <1>7 DEF Act, Step

LEMMA TidyStutter ==
    ASSUME TidyInv, UNCHANGED vars
    PROVE  TidyInv'
<1>1. UNCHANGED <<attempt, started, completed, tornLedger, token, kills, overlapped, pc, run>>
  BY DEF vars, archiveVars, gateVars
<1> QED
  BY <1>1 DEF TidyInv, TidyRunnerOK, Tidy, ConsumedFor, NothingTorn, Known, own, mine

-------------------------------------------------------------------------------
LEMMA InitStrengthens ==
    ASSUME Init
    PROVE  CancelledInv /\ SoloInv /\ TidyInv
<1>1. Known = {} /\ (\A r \in Runners : pc[r] = "idle") /\ \A v \in Vacancies : token[v] = None
  BY DEF Init, Known
<1>2. CancelledInv
  BY <1>1 DEF CancelledInv
<1>3. SoloInv
  BY <1>1, SoloIdle DEF SoloInv
<1>4. \A r \in Runners : TidyRunnerOK(r)
  BY <1>1, OwingPoints DEF TidyRunnerOK
<1>5. NothingTorn
  BY <1>1 DEF Init, NothingTorn
<1> QED
  BY <1>1, <1>2, <1>3, <1>4, <1>5 DEF TidyInv

-------------------------------------------------------------------------------
(***************************************************************************)
(* The steps that change nothing of what is promised, and what they keep.  *)
(***************************************************************************)
\* A step that changes nothing of what is promised.
Public(new, old) ==
    /\ new.vacancy = old.vacancy
    /\ new.intent = old.intent
    /\ new.outcome = old.outcome
    /\ new.release # "none" =>
          new.package \in Packages \/ (old.release # "none" /\ new.package = old.package)
    /\ new.release = "receipt" <=> old.release = "receipt"
    /\ old.release = "receipt" => new.package = old.package

SamePublic ==
    /\ \A a \in Attempts : attempt'[a] = None <=> attempt[a] = None
    /\ \A a \in Known : Public(attempt'[a], attempt[a])
    /\ \A v \in Vacancies : Consumed(v)' <=> Consumed(v)
    /\ UNCHANGED clicks

QuietStep(r) ==
    \/ Plan(r) \/ Record(r) \/ Start(r) \/ Open(r) \/ Prefill(r) \/ PrepareFails(r)
    \/ (\E p \in Packages : Issue(r, p)) \/ Finalize(r) \/ Preflight(r) \/ Cancel(r) \/ Await(r)
    \/ Complete(r) \/ Refuse(r) \/ Crash(r)

LEMMA SameTokens ==
    ASSUME UNCHANGED token
    PROVE  \A v \in Vacancies : Consumed(v)' <=> Consumed(v)
BY DEF Consumed

LEMMA SameAttempts ==
    ASSUME UNCHANGED <<attempt, token, clicks>>
    PROVE  SamePublic
BY SameTokens DEF SamePublic, Public, Known

LEMMA WritePublic ==
    ASSUME SubmissionInv, NEW r \in Runners, pc[r] \notin {"idle", "create"},
           NEW s, s # None, attempt' = [attempt EXCEPT ![mine(r)] = s], UNCHANGED <<token, clicks>>,
           Public(s, own(r))
    PROVE  SamePublic
<1>1. mine(r) \in Attempts /\ own(r) = attempt[mine(r)] /\ own(r) # None
  BY OwnTypes DEF own
<1>2. \A a \in Attempts : attempt'[a] = IF a = mine(r) THEN s ELSE attempt[a]
  BY <1>1 DEF SubmissionInv, SubmissionTypeOK
<1>3. \A a \in Attempts : Public(attempt[a], attempt[a])
  BY DEF Public
<1> QED
  BY <1>1, <1>2, <1>3, SameTokens DEF SamePublic, Known

LEMMA ExtendPublic ==
    ASSUME SubmissionInv, NEW r \in Runners, pc[r] \notin {"idle", "create"},
           NEW s, s # None, NEW ok, NEW x, Extend(r, ok, s, x), UNCHANGED <<token, clicks>>,
           Public(s, own(r))
    PROVE  SamePublic
BY WritePublic, SameAttempts DEF Extend

LEMMA IssuePublic ==
    ASSUME SubmissionInv, NEW r \in Runners, NEW p \in Packages, Issue(r, p)
    PROVE  SamePublic
<1> DEFINE v == vacancy(r)
<1>1. UNCHANGED <<attempt, clicks>> /\ pc[r] # "idle"
  BY DEF Issue, archiveVars
<1>2. v \in Vacancies
  BY <1>1, RunTypes
<1>3. UNCHANGED token \/ (~Consumed(v) /\ token' = [token EXCEPT ![v] = NewToken(p)])
  BY DEF Issue, gateVars, Consumed
<1>4. CASE UNCHANGED token
  BY <1>1, <1>4, SameAttempts
<1>5. CASE ~Consumed(v) /\ token' = [token EXCEPT ![v] = NewToken(p)]
  <2>1. \A w \in Vacancies : token'[w] = IF w = v THEN NewToken(p) ELSE token[w]
    BY <1>2, <1>5 DEF SubmissionInv, SubmissionTypeOK
  <2> HIDE DEF v
  <2>2. \A w \in Vacancies : Consumed(w)' <=> Consumed(w)
    BY <1>5, <2>1 DEF Consumed, NewToken
  <2> QED
    BY <1>1, <2>2 DEF SamePublic, Public, Known
<1> QED
  BY <1>3, <1>4, <1>5

LEMMA QuietStepPublic ==
    ASSUME SubmissionInv, NEW r \in Runners, QuietStep(r)
    PROVE  SamePublic
<1>1. ASSUME NEW s, s \in AttemptRecords PROVE s # None
  BY <1>1
<1>2. CASE Plan(r) \/ Start(r) \/ Open(r) \/ PrepareFails(r) \/ Preflight(r) \/ Cancel(r)
           \/ Complete(r) \/ Refuse(r)
  <2>1. UNCHANGED <<attempt, token, clicks>>
    BY <1>2 DEF Plan, Start, Open, PrepareFails, Preflight, Cancel, Complete, Refuse, archiveVars,
       gateVars
  <2> QED
    BY <2>1, SameAttempts
<1>3. CASE \E p \in Packages : Issue(r, p)
  BY <1>3, IssuePublic
<1>4. CASE Record(r)
  <2> DEFINE s == [own(r) EXCEPT !.records = @ + 1]
  <2>1. pc[r] = "record" /\ UNCHANGED <<token, clicks>>
    BY <1>4 DEF Record, gateVars
  <2>2. own(r) \in AttemptRecords /\ own(r).records \in 0..2
    BY <2>1, OwnTypes DEF SubmissionInv, RunnerOK, Assessed
  <2>3. s # None /\ Public(s, own(r))
    BY <2>2 DEF Public, AttemptRecords, Assessed
  <2> HIDE DEF s
  <2> QED
    BY <1>4, <2>1, <2>3, ExtendPublic DEF Record, s
<1>5. CASE Prefill(r)
  <2> DEFINE n == IF pc[r] = "prefill" THEN 1 ELSE 2
             s == [own(r) EXCEPT !.prefill = n]
  <2>1. pc[r] \notin {"idle", "create"} /\ UNCHANGED <<token, clicks>>
    BY <1>5 DEF Prefill, gateVars
  <2>2. s # None /\ Public(s, own(r))
    BY <2>1, OwnTypes DEF Public, AttemptRecords
  <2> HIDE DEF s
  <2> QED
    BY <1>5, <2>1, <2>2, ExtendPublic DEF Prefill, s
<1>6. CASE Finalize(r)
  <2> DEFINE s == [own(r) EXCEPT !.release = "manifest", !.package = run[r].package]
  <2>1. pc[r] = "release" /\ UNCHANGED <<token, clicks>>
    BY <1>6 DEF Finalize, gateVars
  <2>2. run[r].package \in Packages /\ own(r) \in AttemptRecords
    BY <2>1, OwnTypes DEF SubmissionInv, RunnerOK, WithPackage
  <2>3. /\ s \in AttemptRecords /\ s.release = "manifest" /\ s.package \in Packages
        /\ s.vacancy = own(r).vacancy /\ s.intent = own(r).intent /\ s.outcome = own(r).outcome
    BY <2>2 DEF AttemptRecords
  <2> HIDE DEF s
  <2>4. CASE UNCHANGED attempt
    BY <2>1, <2>4, SameAttempts
  <2>5. CASE own(r).release = "none" /\ attempt' = [attempt EXCEPT ![mine(r)] = s]
    BY <2>1, <2>3, <2>5, WritePublic DEF Public
  <2> QED
    BY <1>6, <2>4, <2>5 DEF Finalize, Extend, s
<1>7. CASE Await(r)
  <2>1. PICK page \in BOOLEAN, email \in BOOLEAN :
           attempt' = [attempt EXCEPT ![mine(r)].confirmed = page \/ email]
    BY <1>7 DEF Await
  <2> DEFINE b == page \/ email
             s == [own(r) EXCEPT !.confirmed = b]
  <2>2. pc[r] = "wait" /\ UNCHANGED <<token, clicks>>
    BY <1>7 DEF Await, gateVars
  <2>3. attempt' = [attempt EXCEPT ![mine(r)] = s]
    BY <2>1 DEF own
  <2>4. b \in BOOLEAN
    OBVIOUS
  <2> HIDE DEF b
  <2>5. s # None /\ Public(s, own(r))
    BY <2>2, <2>4, OwnTypes DEF Public, AttemptRecords
  <2> HIDE DEF s
  <2> QED
    BY <2>2, <2>3, <2>5, WritePublic
<1>8. CASE Crash(r)
  <2>1. /\ UNCHANGED <<token, clicks>>
        /\ \/ UNCHANGED attempt
           \/ /\ pc[r] \notin {"idle", "create"}
              /\ attempt' = [attempt EXCEPT ![mine(r)].torn = TRUE]
    BY <1>8 DEF Crash, Appending, Closing, Outcomes, SubmitOutcomes, gateVars
  <2>2. CASE UNCHANGED attempt
    BY <2>1, <2>2, SameAttempts
  <2>3. CASE /\ pc[r] \notin {"idle", "create"}
             /\ attempt' = [attempt EXCEPT ![mine(r)].torn = TRUE]
    <3> DEFINE s == [own(r) EXCEPT !.torn = TRUE]
    <3>1. attempt' = [attempt EXCEPT ![mine(r)] = s]
      BY <2>3 DEF own
    <3>2. own(r) \in AttemptRecords
      BY <2>3, OwnTypes
    <3>3. /\ s \in AttemptRecords /\ s.vacancy = own(r).vacancy /\ s.intent = own(r).intent
          /\ s.outcome = own(r).outcome /\ s.release = own(r).release /\ s.package = own(r).package
      BY <3>2 DEF AttemptRecords
    <3> HIDE DEF s
    <3> QED
      BY <2>1, <2>3, <3>1, <3>3, WritePublic DEF Public
  <2> QED
    BY <2>1, <2>2, <2>3
<1> QED
  BY <1>2, <1>3, <1>4, <1>5, <1>6, <1>7, <1>8 DEF QuietStep

\* What a step may add to what an attempt says: the intent of the runner that
\* declares it, the outcome of the one that closes it.
Adds(r) ==
    \A a \in Attempts : attempt'[a] # None =>
        /\ attempt'[a].release # "none" =>
              \/ attempt'[a].package \in Packages
              \/ /\ attempt[a] # None /\ attempt[a].release # "none"
                 /\ attempt'[a].package = attempt[a].package
        /\ attempt'[a].intent =>
              attempt[a] # None /\ (attempt[a].intent \/ (pc[r] = "intent" /\ mine(r) = a))
        /\ attempt'[a].outcome \in SubmitOutcomes \cup {"gate_rejected"} =>
              /\ attempt[a] # None
              /\ attempt[a].outcome = attempt'[a].outcome
                    \/ (pc[r] = attempt'[a].outcome /\ mine(r) = a)

LEMMA SubmitPoints ==
    /\ "gate_rejected" \notin SubmitOutcomes /\ "ledger" \notin SubmitOutcomes
    /\ "idle" \notin SubmitOutcomes /\ "wait" \notin SubmitOutcomes /\ "click" \notin SubmitOutcomes
    /\ "intent" \notin SubmitOutcomes /\ "record" \notin SubmitOutcomes /\ "execute" \notin SubmitOutcomes
    /\ None \notin SubmitOutcomes \cup {"gate_rejected"}
    /\ SubmitOutcomes \subseteq Points \cup Closing
    /\ SubmitOutcomes \cap {"idle", "create"} = {}
BY DEF SubmitOutcomes, Points, Closing, Outcomes

\* The intents, cancellations and verdicts that a step finds stay borne out.
LEMMA IntentKept ==
    ASSUME SubmissionInv, IntentInv, Grows, NEW r \in Runners, Act(r), Adds(r),
           \A a \in Attempts : clicks[a] > 0 => clicks'[a] > 0,
           pc[r] = "intent" => pc'[r] # "intent",
           pc'[r] = "intent" => vacancy(r)' = vacancy(r) /\ ~token[vacancy(r)].consumed,
           pc'[r] = "gate_rejected" => mine(r)' = mine(r) /\ pc[r] = "click",
           pc'[r] \in SubmitOutcomes => mine(r)' = mine(r) /\ pc[r] = "wait",
           pc'[r] = "wait" => clicks'[mine(r)'] > 0
    PROVE  IntentInv'
<1>1. \A q \in Runners : q # r => /\ pc'[q] = pc[q] /\ mine(q)' = mine(q)
                                  /\ vacancy(q)' = vacancy(q)
  BY OthersStay DEF mine, vacancy
<1>2. \A a \in Known' : attempt'[a].intent =>
         /\ a \in Known /\ attempt'[a].vacancy = attempt[a].vacancy
         /\ attempt[a].intent \/ (pc[r] = "intent" /\ mine(r) = a)
  BY DEF Adds, Grows, Known
<1>3. \A a \in Known' : attempt'[a].release # "none" => attempt'[a].package \in Packages
  BY DEF Adds, Known, IntentInv
<1>4. ASSUME NEW a \in Known', attempt'[a].intent
      PROVE  /\ attempt'[a].release = "receipt"
             /\ token'[attempt'[a].vacancy] # None /\ token'[attempt'[a].vacancy].consumed
             /\ \A q \in Runners : pc'[q] = "intent" => vacancy(q)' # attempt'[a].vacancy
  <2> DEFINE v == attempt[a].vacancy
  <2>1. a \in Known /\ attempt'[a].vacancy = v
    BY <1>2, <1>4
  <2>2. /\ attempt[a].release = "receipt" /\ token[v] # None /\ token[v].consumed
        /\ \A q \in Runners : q # r /\ pc[q] = "intent" => vacancy(q) # v
    <3>1. CASE attempt[a].intent
      BY <2>1, <3>1 DEF IntentInv
    <3>2. CASE pc[r] = "intent" /\ mine(r) = a
      BY <3>2 DEF SubmissionInv, RunnerOK, own, Holding, WithPackage, Released
    <3> QED
      BY <1>2, <1>4, <3>1, <3>2
  <2>3. pc'[r] = "intent" => vacancy(r)' # v
    BY <2>2
  <2>4. v \in Vacancies
    BY <2>1, AttemptTypes DEF Known, AttemptRecords
  <2>5. attempt'[a].release = "receipt" /\ token'[v] # None /\ token'[v].consumed
    BY <2>1, <2>2, <2>4 DEF Grows, Known
  <2>6. \A q \in Runners : pc'[q] = "intent" => vacancy(q)' # v
    BY <1>1, <2>2, <2>3
  <2> QED
    BY <2>1, <2>5, <2>6
<1>5. ASSUME NEW a \in Known', NEW b \in Known', attempt'[a].intent, attempt'[b].intent,
             attempt'[a].vacancy = attempt'[b].vacancy
      PROVE  a = b
  <2>1. pc[r] = "intent" => own(r).vacancy = vacancy(r)
    BY DEF SubmissionInv, RunnerOK, Holding
  <2>2. \A c \in Known : attempt[c].intent /\ pc[r] = "intent" => attempt[c].vacancy # vacancy(r)
    BY DEF IntentInv
  <2> QED
    BY <1>2, <1>5, <2>1, <2>2 DEF IntentInv, own
<1>6. ASSUME NEW a \in Known', Cancelled(a)' PROVE attempt'[a].intent
  <2>1. a \in Attempts /\ attempt'[a] # None
    BY DEF Known
  <2>2. ASSUME NEW q \in Runners, pc[q] \in {"gate_rejected", "click"}, mine(q) = a
        PROVE  attempt'[a].intent
    <3>1. a \in Known
      BY <2>2 DEF SubmissionInv, RunnerOK
    <3>2. attempt[a].intent
      BY <2>2, <3>1 DEF SubmissionInv, RunnerOK, own, IntentInv, Cancelled
    <3> QED
      BY <3>1, <3>2 DEF Grows, Known
  <2>3. CASE attempt'[a].outcome = "gate_rejected"
    <3>1. \/ a \in Known /\ attempt[a].outcome = "gate_rejected"
          \/ pc[r] = "gate_rejected" /\ mine(r) = a
      BY <2>1, <2>3 DEF Adds, Known
    <3>2. CASE a \in Known /\ attempt[a].outcome = "gate_rejected"
      BY <2>1, <3>2 DEF IntentInv, Cancelled, Grows, Known
    <3> QED
      BY <2>2, <3>1, <3>2
  <2>4. CASE \E q \in Runners : pc'[q] = "gate_rejected" /\ mine(q)' = a
    BY <1>1, <2>2, <2>4
  <2> QED
    BY <1>6, <2>3, <2>4 DEF Cancelled
<1>7. ASSUME NEW q \in Runners, pc'[q] = "wait" PROVE clicks'[mine(q)'] > 0
  <2>1. CASE q # r
    <3>1. pc[q] = "wait" /\ mine(q)' = mine(q)
      BY <1>1, <1>7, <2>1
    <3>2. mine(q) \in Attempts /\ clicks[mine(q)] > 0
      BY <3>1, OwnTypes DEF IntentInv
    <3> QED
      BY <3>1, <3>2
  <2> QED
    BY <1>7, <2>1
<1>8. ASSUME NEW a \in Known', Submits(a)' PROVE clicks'[a] > 0
  <2>1. a \in Attempts /\ attempt'[a] # None
    BY DEF Known
  <2>2. ASSUME NEW q \in Runners, pc[q] \in SubmitOutcomes \cup {"wait"}, mine(q) = a
        PROVE  clicks'[a] > 0
    <3>1. pc[q] \notin {"idle", "create"}
      BY <2>2, SubmitPoints
    <3>2. a \in Known
      BY <2>2, <3>1 DEF SubmissionInv, RunnerOK
    <3>3. clicks[a] > 0
      BY <2>2, <3>2 DEF IntentInv, Submits
    <3> QED
      BY <2>1, <3>3
  <2>3. CASE attempt'[a].outcome \in SubmitOutcomes
    <3>1. \/ a \in Known /\ attempt[a].outcome \in SubmitOutcomes
          \/ pc[r] \in SubmitOutcomes /\ mine(r) = a
      BY <2>1, <2>3 DEF Adds, Known
    <3>2. CASE a \in Known /\ attempt[a].outcome \in SubmitOutcomes
      BY <2>1, <3>2 DEF IntentInv, Submits
    <3> QED
      BY <2>2, <3>1, <3>2
  <2>4. CASE \E q \in Runners : pc'[q] \in SubmitOutcomes /\ mine(q)' = a
    BY <1>1, <2>2, <2>4
  <2> QED
    BY <1>8, <2>3, <2>4 DEF Submits
<1> QED
  BY <1>3, <1>4, <1>5, <1>6, <1>7, <1>8 DEF IntentInv

LEMMA PublicAdds ==
    ASSUME SamePublic, NEW r \in Runners
    PROVE  Adds(r) /\ \A a \in Attempts : clicks[a] > 0 => clicks'[a] > 0
BY DEF SamePublic, Public, Adds, Known

LEMMA IntentQuiet ==
    ASSUME SubmissionInv, IntentInv, Grows, NEW r \in Runners, Act(r), QuietStep(r)
    PROVE  IntentInv'
<1>1. SamePublic
  BY QuietStepPublic
<1>2. ASSUME pc'[r] \notin SubmitOutcomes \cup {"intent", "gate_rejected", "wait"}
      PROVE  IntentInv'
  BY <1>1, <1>2, PublicAdds, IntentKept
<1>3. \A x \in {"create", "record", "start", "open", "blocked", "prefill", "questions", "prepare",
                "abandoned", "consume", "release", "receipt", "execute", "idle"} :
         x \notin SubmitOutcomes \cup {"intent", "gate_rejected", "wait"}
  BY DEF SubmitOutcomes
<1>4. ASSUME Leave(r) PROVE IntentInv'
  BY <1>2, <1>3, <1>4, LeaveMoves
<1>5. CASE Plan(r)
  <2>1. pc'[r] \in {"create", "open"}
    BY <1>5 DEF Plan, SubmissionInv, SubmissionTypeOK
  <2> QED
    BY <1>2, <1>3, <2>1
<1>6. CASE \E p \in Packages : Issue(r, p)
  <2>1. pc'[r] \in {"abandoned", "release"}
    BY <1>6 DEF Issue, Goto, SubmissionInv, SubmissionTypeOK
  <2> QED
    BY <1>2, <1>3, <2>1
<1>7. ASSUME NEW x \in {"record", "start", "open", "blocked", "prefill", "questions", "prepare",
                "abandoned", "consume", "receipt", "execute"}, Goto(r, x)
      PROVE  IntentInv'
  BY <1>2, <1>3, <1>7, GotoMoves
<1>8. CASE Record(r) \/ Prefill(r) \/ Finalize(r)
  BY <1>4, <1>7, <1>8 DEF Record, Prefill, Finalize, Extend
<1>9. CASE Start(r) \/ Open(r) \/ PrepareFails(r) \/ Preflight(r) \/ Complete(r) \/ Refuse(r)
           \/ Crash(r)
  BY <1>4, <1>7, <1>9 DEF Start, Open, PrepareFails, Preflight, Complete, Refuse, Crash
<1>10. CASE Cancel(r)
  <2>1. pc'[r] = "gate_rejected" /\ mine(r)' = mine(r) /\ pc[r] = "click"
    BY <1>10, GotoMoves DEF Cancel
  <2> QED
    BY <1>1, <2>1, PublicAdds, SubmitPoints, IntentKept
<1>11. CASE Await(r)
  <2>1. pc'[r] \in SubmitOutcomes /\ mine(r)' = mine(r) /\ pc[r] = "wait"
    BY <1>11, GotoMoves DEF Await, SubmitOutcomes
  <2> QED
    BY <1>1, <2>1, PublicAdds, SubmitPoints, IntentKept
<1> QED
  BY <1>5, <1>6, <1>8, <1>9, <1>10, <1>11 DEF QuietStep

\* One write of the runner's attempt.
LEMMA WriteAdds ==
    ASSUME SubmissionInv, NEW r \in Runners, pc[r] \notin {"idle", "create"},
           NEW s, attempt' = [attempt EXCEPT ![mine(r)] = s],
           s.release # "none" => own(r).release # "none" /\ s.package = own(r).package,
           s.intent => own(r).intent \/ pc[r] = "intent",
           s.outcome = own(r).outcome \/ s.outcome = pc[r]
    PROVE  Adds(r)
<1>1. mine(r) \in Attempts /\ own(r) = attempt[mine(r)] /\ own(r) # None
  BY OwnTypes DEF own
<1>2. \A a \in Attempts : attempt'[a] = IF a = mine(r) THEN s ELSE attempt[a]
  BY <1>1 DEF SubmissionInv, SubmissionTypeOK
<1> QED
  BY <1>1, <1>2 DEF Adds

LEMMA UnchangedAdds ==
    ASSUME UNCHANGED attempt, NEW r \in Runners
    PROVE  Adds(r)
BY DEF Adds

LEMMA IntentUnchanged ==
    ASSUME SubmissionInv, IntentInv, Grows, NEW r \in Runners, Act(r), UNCHANGED <<attempt, clicks>>,
           pc'[r] \in {"idle", "ledger"}
    PROVE  IntentInv'
BY UnchangedAdds, SubmitPoints, IntentKept

LEMMA IntentCreate ==
    ASSUME SubmissionInv, IntentInv, Grows, NEW r \in Runners, Act(r),
           NEW a \in Attempts, Create(r, a)
    PROVE  IntentInv'
<1>1. /\ UNCHANGED clicks /\ pc'[r] = "record"
      /\ attempt'[a].release = "none" /\ ~attempt'[a].intent /\ attempt'[a].outcome = None
      /\ \A b \in Attempts : b # a => attempt'[b] = attempt[b]
  BY DEF Create, SubmissionInv, SubmissionTypeOK
<1>2. Adds(r)
  BY <1>1, SubmitPoints DEF Adds
<1> QED
  BY <1>1, <1>2, SubmitPoints, IntentKept

LEMMA IntentReceipt ==
    ASSUME SubmissionInv, IntentInv, Grows, NEW r \in Runners, Act(r), WriteReceipt(r)
    PROVE  IntentInv'
<1> DEFINE s == [own(r) EXCEPT !.release = "receipt"]
<1>1. /\ pc[r] = "receipt" /\ UNCHANGED clicks
      /\ Extend(r, own(r).release = "manifest", s, "execute")
  BY DEF WriteReceipt
<1>2. own(r) \in AttemptRecords
  BY <1>1, OwnTypes
<1>3. s.intent = own(r).intent /\ s.outcome = own(r).outcome /\ s.package = own(r).package
  BY <1>2 DEF AttemptRecords
<1> HIDE DEF s
<1>4. CASE own(r).release = "manifest" /\ attempt' = [attempt EXCEPT ![mine(r)] = s]
           /\ Goto(r, "execute")
  <2>1. Adds(r) /\ pc'[r] = "execute"
    BY <1>1, <1>3, <1>4, WriteAdds, GotoMoves
  <2> QED
    BY <1>1, <2>1, SubmitPoints, IntentKept
<1>5. CASE UNCHANGED attempt /\ Leave(r)
  BY <1>1, <1>5, LeaveMoves, IntentUnchanged
<1> QED
  BY <1>1, <1>4, <1>5 DEF Extend

LEMMA IntentDeclared ==
    ASSUME SubmissionInv, IntentInv, Grows, NEW r \in Runners, Act(r), RecordIntent(r)
    PROVE  IntentInv'
<1> DEFINE s == [own(r) EXCEPT !.intent = TRUE]
<1>1. /\ pc[r] = "intent" /\ UNCHANGED clicks
      /\ Extend(r, Writable(mine(r)), s, "click")
  BY DEF RecordIntent
<1>2. own(r) \in AttemptRecords
  BY <1>1, OwnTypes
<1>3. s.release = own(r).release /\ s.outcome = own(r).outcome /\ s.package = own(r).package
  BY <1>2 DEF AttemptRecords
<1> HIDE DEF s
<1>4. CASE attempt' = [attempt EXCEPT ![mine(r)] = s] /\ Goto(r, "click")
  <2>1. Adds(r) /\ pc'[r] = "click"
    BY <1>1, <1>3, <1>4, WriteAdds, GotoMoves
  <2> QED
    BY <1>1, <2>1, SubmitPoints, IntentKept
<1>5. CASE UNCHANGED attempt /\ Leave(r)
  BY <1>1, <1>5, LeaveMoves, IntentUnchanged
<1> QED
  BY <1>1, <1>4, <1>5 DEF Extend

LEMMA IntentClose ==
    ASSUME SubmissionInv, IntentInv, Grows, NEW r \in Runners, Act(r), Close(r)
    PROVE  IntentInv'
<1> DEFINE s == [own(r) EXCEPT !.outcome = pc[r]]
<1>1. pc[r] \notin {"idle", "create", "intent"} /\ UNCHANGED clicks
  BY DEF Close, Closing, Outcomes, SubmitOutcomes
<1>2. own(r) \in AttemptRecords
  BY <1>1, OwnTypes
<1>3. /\ s.release = own(r).release /\ s.intent = own(r).intent /\ s.package = own(r).package
      /\ s.outcome = pc[r]
  BY <1>2 DEF AttemptRecords
<1> HIDE DEF s
<1>4. CASE attempt' = [attempt EXCEPT ![mine(r)] = s] /\ Goto(r, "ledger")
  <2>1. Adds(r) /\ pc'[r] = "ledger"
    BY <1>1, <1>3, <1>4, WriteAdds, GotoMoves
  <2> QED
    BY <1>1, <2>1, SubmitPoints, IntentKept
<1>5. CASE UNCHANGED attempt /\ (Leave(r) \/ Goto(r, "ledger"))
  BY <1>1, <1>5, LeaveMoves, GotoMoves, IntentUnchanged
<1> QED
  BY <1>4, <1>5 DEF Close, Extend, s

LEMMA IntentConsume ==
    ASSUME SubmissionInv, IntentInv, Grows, NEW r \in Runners, Act(r), Consume(r)
    PROVE  IntentInv'
<1>1. UNCHANGED <<attempt, clicks>> /\ pc[r] = "consume"
  BY DEF Consume, archiveVars
<1>2. CASE Leave(r)
  BY <1>1, <1>2, LeaveMoves, IntentUnchanged
<1>3. CASE token[vacancy(r)] = NewToken(run[r].package) /\ Goto(r, "intent")
  <2>1. pc'[r] = "intent" /\ vacancy(r)' = vacancy(r) /\ ~token[vacancy(r)].consumed
    BY <1>3, GotoMoves DEF NewToken
  <2> QED
    BY <1>1, <2>1, UnchangedAdds, SubmitPoints, IntentKept
<1> QED
  BY <1>2, <1>3 DEF Consume

LEMMA IntentClick ==
    ASSUME SubmissionInv, IntentInv, Grows, NEW r \in Runners, Act(r), Click(r)
    PROVE  IntentInv'
<1>1. /\ pc[r] = "click" /\ Goto(r, "wait") /\ UNCHANGED attempt
      /\ clicks' = [clicks EXCEPT ![mine(r)] = @ + 1]
  BY DEF Click, archiveVars
<1>2. /\ pc'[r] = "wait" /\ mine(r)' = mine(r) /\ mine(r) \in Attempts
      /\ clicks \in [Attempts -> Nat]
  BY <1>1, GotoMoves, OwnTypes DEF SubmissionInv, SubmissionTypeOK
<1>3. \A a \in Attempts : clicks'[a] = IF a = mine(r) THEN clicks[a] + 1 ELSE clicks[a]
  BY <1>1, <1>2
<1>4. clicks'[mine(r)'] > 0 /\ \A a \in Attempts : clicks[a] > 0 => clicks'[a] > 0
  BY <1>2, <1>3
<1> QED
  BY <1>1, <1>2, <1>4, UnchangedAdds, SubmitPoints, IntentKept

LEMMA IntentStep ==
    ASSUME SubmissionInv, IntentInv, Next
    PROVE  IntentInv'
<1>1. Grows
  BY SubmissionStep
<1>2. PICK r \in Runners : Act(r)
  BY DEF Next, Act
<1>3. QuietStep(r) \/ (\E a \in Attempts : Create(r, a)) \/ WriteReceipt(r) \/ RecordIntent(r)
      \/ Close(r) \/ Consume(r) \/ Click(r)
  BY <1>2 DEF Act, Step, QuietStep
<1> QED
  BY <1>1, <1>2, <1>3, IntentQuiet, IntentCreate, IntentReceipt, IntentDeclared, IntentClose,
     IntentConsume, IntentClick

LEMMA IntentStutter ==
    ASSUME IntentInv, UNCHANGED vars
    PROVE  IntentInv'
BY DEF vars, archiveVars, gateVars, IntentInv, Cancelled, Submits, Known, mine, vacancy

LEMMA InitIntent == Init => IntentInv
BY DEF Init, IntentInv, Known

-------------------------------------------------------------------------------
(***************************************************************************)
(* The refinement: a step of a runner is one of the applications, or none. *)
(***************************************************************************)
\* What is promised of an attempt, of a vacancy.
LEMMA Promises ==
    /\ \A a \in Attempts :
        /\ VacancyOf[a] = IF attempt[a] = None THEN None ELSE attempt[a].vacancy
        /\ ReleasedPackage[a] = IF attempt[a] # None /\ attempt[a].release = "receipt"
                                THEN attempt[a].package ELSE None
        /\ Verdict[a] = IF attempt[a] = None THEN None ELSE attempt[a].outcome
    /\ \A v \in Vacancies :
          ConsumedToken[v] = IF Consumed(v) THEN token[v].package ELSE None
BY DEF VacancyOf, ReleasedPackage, HasReceipt, Verdict, ConsumedToken

LEMMA PromisesNext ==
    /\ \A a \in Attempts :
        /\ VacancyOf'[a] = IF attempt'[a] = None THEN None ELSE attempt'[a].vacancy
        /\ ReleasedPackage'[a] = IF attempt'[a] # None /\ attempt'[a].release = "receipt"
                                THEN attempt'[a].package ELSE None
        /\ Verdict'[a] = IF attempt'[a] = None THEN None ELSE attempt'[a].outcome
    /\ \A v \in Vacancies :
          ConsumedToken'[v] = IF Consumed(v)' THEN token'[v].package ELSE None
BY DEF VacancyOf, ReleasedPackage, HasReceipt, Verdict, ConsumedToken

\* Functions on one domain are equal where their values are, and one value sets
\* them apart.
LEMMA SameFunction ==
    ASSUME NEW S, NEW f, NEW g, f = [x \in S |-> f[x]], g = [x \in S |-> g[x]],
           \A x \in S : g[x] = f[x]
    PROVE  g = f
OBVIOUS

LEMMA OneChanged ==
    ASSUME NEW S, NEW f, NEW g, f = [x \in S |-> f[x]], g = [x \in S |-> g[x]],
           NEW a \in S, \A x \in S : x # a => g[x] = f[x]
    PROVE  g = [f EXCEPT ![a] = g[a]]
OBVIOUS

LEMMA PromisesAreFunctions ==
    /\ VacancyOf = [a \in Attempts |-> VacancyOf[a]] /\ VacancyOf' = [a \in Attempts |-> VacancyOf'[a]]
    /\ ReleasedPackage = [a \in Attempts |-> ReleasedPackage[a]]
    /\ ReleasedPackage' = [a \in Attempts |-> ReleasedPackage'[a]]
    /\ Verdict = [a \in Attempts |-> Verdict[a]] /\ Verdict' = [a \in Attempts |-> Verdict'[a]]
    /\ ConsumedToken = [v \in Vacancies |-> ConsumedToken[v]]
    /\ ConsumedToken' = [v \in Vacancies |-> ConsumedToken'[v]]
BY DEF VacancyOf, ReleasedPackage, Verdict, ConsumedToken

\* A quiet step is a stuttering step of the applications.
LEMMA PublicStutters ==
    ASSUME SubmissionInv, Grows, SamePublic
    PROVE  UNCHANGED Application!appVars
<1>1. \A a \in Attempts : VacancyOf'[a] = VacancyOf[a] /\ ReleasedPackage'[a] = ReleasedPackage[a]
                          /\ Verdict'[a] = Verdict[a]
  BY Promises, PromisesNext DEF SamePublic, Public, Known
<1>2. \A v \in Vacancies : ConsumedToken'[v] = ConsumedToken[v]
  BY Promises, PromisesNext DEF SamePublic, Grows, Consumed
<1>3. IntendedAttempts' = IntendedAttempts /\ UNCHANGED clicks
  BY DEF SamePublic, Public, IntendedAttempts, Known
<1>4. UNCHANGED <<VacancyOf, ReleasedPackage, Verdict, ConsumedToken>>
  BY <1>1, <1>2, PromisesAreFunctions, SameFunction
<1> QED
  BY <1>3, <1>4 DEF Application!appVars, IntendedAttempts

\* What a step of the applications leaves alone.
LEMMA AttemptsPromise ==
    ASSUME UNCHANGED attempt
    PROVE  UNCHANGED <<VacancyOf, ReleasedPackage, Verdict, IntendedAttempts>>
BY DEF VacancyOf, ReleasedPackage, HasReceipt, Verdict, IntendedAttempts, Known

LEMMA TokensPromise ==
    ASSUME UNCHANGED token
    PROVE  UNCHANGED ConsumedToken
BY DEF ConsumedToken, Consumed

LEMMA BeginsApplication ==
    ASSUME SubmissionInv, NEW r \in Runners, NEW a \in Attempts, Create(r, a)
    PROVE  Application!Begin(a, vacancy(r)) /\ vacancy(r) \in Vacancies
<1>1. /\ pc[r] = "create" /\ attempt[a] = None /\ UNCHANGED <<token, clicks>>
      /\ attempt'[a].vacancy = vacancy(r) /\ attempt'[a].release = "none"
      /\ attempt'[a].intent = FALSE /\ attempt'[a].outcome = None
      /\ \A b \in Attempts : b # a => attempt'[b] = attempt[b]
  BY DEF Create, gateVars, SubmissionInv, SubmissionTypeOK
<1>2. vacancy(r) \in Vacancies
  BY <1>1, RunTypes
<1>3. attempt'[a] # None
  <2> DEFINE s == [vacancy |-> vacancy(r), records |-> 0, prefill |-> 0, release |-> "none",
                   package |-> None, intent |-> FALSE, confirmed |-> FALSE, outcome |-> None,
                   torn |-> FALSE]
  <2>1. attempt'[a] = s
    BY DEF Create, SubmissionInv, SubmissionTypeOK
  <2>2. s \in AttemptRecords
    BY <1>2 DEF AttemptRecords, Assessed
  <2> QED
    BY <2>1, <2>2
<1>4. VacancyOf' = [VacancyOf EXCEPT ![a] = vacancy(r)]
  <2>1. VacancyOf'[a] = vacancy(r) /\ \A b \in Attempts : b # a => VacancyOf'[b] = VacancyOf[b]
    BY <1>1, <1>3, Promises, PromisesNext
  <2> QED
    BY <2>1, PromisesAreFunctions, OneChanged
<1>5. UNCHANGED <<ReleasedPackage, Verdict>>
  <2>1. \A b \in Attempts : ReleasedPackage'[b] = ReleasedPackage[b] /\ Verdict'[b] = Verdict[b]
    BY <1>1, <1>3, Promises, PromisesNext
  <2> QED
    BY <2>1, PromisesAreFunctions, SameFunction
<1>6. UNCHANGED IntendedAttempts
  BY <1>1, <1>3 DEF IntendedAttempts, Known
<1>7. VacancyOf[a] = None
  BY <1>1, Promises
<1> QED
  BY <1>1, <1>2, <1>4, <1>5, <1>6, <1>7, TokensPromise DEF Application!Begin, IntendedAttempts

\* A write of the runner's attempt a, as the applications see it.
LEMMA OnePromise ==
    ASSUME SubmissionInv, NEW r \in Runners, pc[r] \notin {"idle", "create"},
           NEW s \in AttemptRecords, attempt' = [attempt EXCEPT ![mine(r)] = s],
           s.vacancy = own(r).vacancy
    PROVE  /\ mine(r) \in Known /\ own(r) = attempt[mine(r)] /\ attempt'[mine(r)] = s
           /\ \A b \in Attempts : b # mine(r) => attempt'[b] = attempt[b]
           /\ Known' = Known
           /\ UNCHANGED VacancyOf
           /\ VacancyOf[mine(r)] = own(r).vacancy /\ own(r).vacancy # None
<1> DEFINE a == mine(r)
<1>1. a \in Attempts /\ own(r) = attempt[a] /\ own(r) # None /\ own(r) \in AttemptRecords
  BY OwnTypes DEF own
<1>2. \A b \in Attempts : attempt'[b] = IF b = a THEN s ELSE attempt[b]
  BY <1>1 DEF SubmissionInv, SubmissionTypeOK
<1>3. s # None
  OBVIOUS
<1> HIDE DEF a
<1>4. Known' = Known
  BY <1>1, <1>2, <1>3 DEF Known
<1>5. \A b \in Attempts : VacancyOf'[b] = VacancyOf[b]
  BY <1>1, <1>2, <1>3, Promises, PromisesNext
<1>6. UNCHANGED VacancyOf
  BY <1>5, PromisesAreFunctions, SameFunction
<1>7. VacancyOf[a] = own(r).vacancy /\ own(r).vacancy # None
  BY <1>1, Promises DEF AttemptRecords
<1> QED
  BY <1>1, <1>2, <1>4, <1>6, <1>7 DEF a, Known

\* The receipt releases the package of the manifest.
LEMMA ReleasesPackage ==
    ASSUME SubmissionInv, IntentInv, NEW r \in Runners, WriteReceipt(r), ~UNCHANGED attempt
    PROVE  \E a \in Attempts, p \in Packages : Application!Release(a, p)
<1> DEFINE a == mine(r)
           p == own(r).package
           s == [own(r) EXCEPT !.release = "receipt"]
<1>1. /\ pc[r] \notin {"idle", "create"} /\ own(r).release = "manifest"
      /\ attempt' = [attempt EXCEPT ![a] = s] /\ UNCHANGED <<token, clicks>>
  BY DEF WriteReceipt, Extend, gateVars
<1>2. own(r) \in AttemptRecords
  BY <1>1, OwnTypes
<1>3. /\ s \in AttemptRecords /\ s.vacancy = own(r).vacancy /\ s.intent = own(r).intent
      /\ s.outcome = own(r).outcome /\ s.release = "receipt" /\ s.package = p
  BY <1>2 DEF AttemptRecords
<1> HIDE DEF s
<1>4. /\ a \in Known /\ own(r) = attempt[a] /\ attempt'[a] = s
      /\ \A b \in Attempts : b # a => attempt'[b] = attempt[b]
      /\ Known' = Known /\ UNCHANGED VacancyOf /\ VacancyOf[a] # None
  BY <1>1, <1>3, OnePromise
<1> HIDE DEF a
<1>5. a \in Attempts /\ attempt[a] # None /\ attempt'[a] # None
  BY <1>4 DEF Known
<1>6. p \in Packages /\ a \notin IntendedAttempts
  BY <1>1, <1>4 DEF IntentInv, IntendedAttempts
<1>7. ReleasedPackage[a] = None
  BY <1>1, <1>4, <1>5, Promises
<1>8. ReleasedPackage' = [ReleasedPackage EXCEPT ![a] = p]
  <2>1. /\ ReleasedPackage'[a] = p
        /\ \A b \in Attempts : b # a => ReleasedPackage'[b] = ReleasedPackage[b]
    BY <1>3, <1>4, <1>5, Promises, PromisesNext
  <2> QED
    BY <1>5, <2>1, PromisesAreFunctions, OneChanged
<1>9. UNCHANGED Verdict
  <2>1. \A b \in Attempts : Verdict'[b] = Verdict[b]
    BY <1>3, <1>4, <1>5, Promises, PromisesNext
  <2> QED
    BY <2>1, PromisesAreFunctions, SameFunction
<1>10. UNCHANGED IntendedAttempts
  <2>1. \A b \in Known : attempt'[b].intent = attempt[b].intent
    BY <1>3, <1>4 DEF Known
  <2> QED
    BY <1>4, <2>1 DEF IntendedAttempts
<1>11. Application!Release(a, p)
  BY <1>1, <1>4, <1>6, <1>7, <1>8, <1>9, <1>10, TokensPromise
     DEF Application!Release, IntendedAttempts
<1> QED
  BY <1>5, <1>6, <1>11

\* Consuming the token takes the one permit of the vacancy.
LEMMA TakesPermit ==
    ASSUME SubmissionInv, NEW r \in Runners, Consume(r), ~UNCHANGED token
    PROVE  \E v \in Vacancies, p \in Packages : Application!Take(v, p)
<1>1. /\ pc[r] = "consume" /\ UNCHANGED <<attempt, clicks>>
      /\ token[vacancy(r)] = NewToken(run[r].package)
      /\ token' = [token EXCEPT ![vacancy(r)].consumed = TRUE]
  BY DEF Consume, archiveVars
<1>2. PICK v \in Vacancies, p \in Packages : v = vacancy(r) /\ p = run[r].package /\ token[v] # None
  BY <1>1, RunTypes DEF SubmissionInv, RunnerOK, WithPackage
<1>3. token \in [Vacancies -> Tokens \cup {None}]
  BY DEF SubmissionInv, SubmissionTypeOK
<1>4. /\ token'[v] = [token[v] EXCEPT !.consumed = TRUE]
      /\ \A w \in Vacancies : w # v => token'[w] = token[w]
  BY <1>1, <1>2, <1>3
<1>5. token'[v] # None /\ token'[v].consumed /\ token'[v].package = p
  <2>1. token[v] \in Tokens /\ token[v].package = p
    BY <1>1, <1>2, <1>3 DEF NewToken
  <2>2. token'[v] \in Tokens /\ token'[v].consumed = TRUE /\ token'[v].package = token[v].package
    BY <1>4, <2>1 DEF Tokens
  <2> QED
    BY <2>1, <2>2
<1>6. ~Consumed(v) /\ token'[v] # None /\ token'[v].consumed /\ token'[v].package = p
  BY <1>1, <1>2, <1>5 DEF Consumed, NewToken
<1>7. ConsumedToken[v] = None
  BY <1>2, <1>6, Promises
<1>8. ConsumedToken' = [ConsumedToken EXCEPT ![v] = p]
  <2>1. \A w \in Vacancies :
           ConsumedToken'[w] = IF token'[w] # None /\ token'[w].consumed THEN token'[w].package ELSE None
    BY DEF ConsumedToken, Consumed
  <2>2. \A w \in Vacancies :
           ConsumedToken[w] = IF token[w] # None /\ token[w].consumed THEN token[w].package ELSE None
    BY DEF ConsumedToken, Consumed
  <2>3. ConsumedToken'[v] = p
    BY <1>6, <2>1
  <2>4. \A w \in Vacancies : w # v => ConsumedToken'[w] = ConsumedToken[w]
    BY <1>4, <2>1, <2>2
  <2> QED
    BY <2>3, <2>4, PromisesAreFunctions, OneChanged
<1>9. Application!Take(v, p)
  BY <1>1, <1>7, <1>8, AttemptsPromise DEF Application!Take, IntendedAttempts
<1> QED
  BY <1>2, <1>9

\* The intent is the first of the vacancy, with its permit taken.
LEMMA IntendsOnce ==
    ASSUME SubmissionInv, IntentInv, NEW r \in Runners, RecordIntent(r), ~UNCHANGED attempt
    PROVE  \E a \in Attempts : Application!Intend(a)
<1>0. PICK a \in Attempts, v \in Vacancies : a = mine(r) /\ v = vacancy(r)
  <2>1. pc[r] \notin {"idle", "create"}
    BY DEF RecordIntent
  <2> QED
    BY <2>1, OwnTypes, RunTypes
<1> DEFINE s == [own(r) EXCEPT !.intent = TRUE]
<1>1. /\ pc[r] = "intent" /\ Writable(a)
      /\ attempt' = [attempt EXCEPT ![a] = s] /\ UNCHANGED <<token, clicks>>
  BY <1>0 DEF RecordIntent, Extend, gateVars
<1>2. /\ own(r) \in AttemptRecords /\ v \in Vacancies /\ token[v] # None /\ token[v].consumed
      /\ own(r).release = "receipt" /\ own(r).vacancy = v
  BY <1>0, <1>1, OwnTypes DEF SubmissionInv, RunnerOK, WithPackage, Released, Holding
<1>3. /\ s \in AttemptRecords /\ s.vacancy = own(r).vacancy /\ s.intent = TRUE
      /\ s.outcome = own(r).outcome /\ s.release = own(r).release /\ s.package = own(r).package
  BY <1>2 DEF AttemptRecords
<1> HIDE DEF s
<1>4. /\ a \in Known /\ own(r) = attempt[a] /\ attempt'[a] = s
      /\ \A b \in Attempts : b # a => attempt'[b] = attempt[b]
      /\ Known' = Known /\ UNCHANGED VacancyOf /\ VacancyOf[a] = v /\ v # None
  <2>1. pc[r] \notin {"idle", "create"} /\ attempt' = [attempt EXCEPT ![mine(r)] = s]
    BY <1>0, <1>1
  <2>2. /\ mine(r) \in Known /\ own(r) = attempt[mine(r)] /\ attempt'[mine(r)] = s
        /\ \A b \in Attempts : b # mine(r) => attempt'[b] = attempt[b]
        /\ Known' = Known /\ UNCHANGED VacancyOf
        /\ VacancyOf[mine(r)] = own(r).vacancy /\ own(r).vacancy # None
    BY <1>3, <2>1, OnePromise
  <2> QED
    BY <1>0, <1>2, <2>2
<1>5. \A b \in IntendedAttempts : VacancyOf[b] # v
  <2>1. \A b \in Known : attempt[b].intent => attempt[b].vacancy # v
    BY <1>0, <1>1 DEF IntentInv
  <2> QED
    BY <2>1, Promises DEF IntendedAttempts, Known
<1>6. attempt[a] # None /\ attempt'[a] # None
  BY <1>4 DEF Known
<1>7. ReleasedPackage[a] # None
  BY <1>2, <1>4, <1>6, Promises DEF IntentInv
<1>8. ConsumedToken[v] # None
  BY <1>2, TokenTypes, Promises DEF Consumed
<1>9. Verdict[a] = None
  BY <1>1, <1>6, Promises DEF Writable
<1>10. UNCHANGED <<ReleasedPackage, Verdict>>
  <2>1. \A b \in Attempts : ReleasedPackage'[b] = ReleasedPackage[b] /\ Verdict'[b] = Verdict[b]
    BY <1>3, <1>4, <1>6, Promises, PromisesNext
  <2> QED
    BY <2>1, PromisesAreFunctions, SameFunction
<1>11. IntendedAttempts' = IntendedAttempts \cup {a}
  BY <1>3, <1>4 DEF IntendedAttempts, Known
<1>12. Application!Intend(a)
  BY <1>1, <1>4, <1>5, <1>7, <1>8, <1>9, <1>10, <1>11, TokensPromise
     DEF Application!Intend, IntendedAttempts
<1> QED
  BY <1>12

\* The click is the first, with the documents of the permit, and not denied.
LEMMA ClicksOnce ==
    ASSUME SubmissionInv, CancelledInv, NEW r \in Runners, Click(r)
    PROVE  \E a \in Attempts : Application!Click(a)
<1> DEFINE a == mine(r)
           v == vacancy(r)
<1>1. /\ pc[r] = "click" /\ Valid(r) /\ UNCHANGED <<attempt, token>>
      /\ clicks' = [clicks EXCEPT ![a] = @ + 1]
  BY DEF Click, archiveVars, gateVars
<1>2. /\ a \in Attempts /\ own(r) = attempt[a] /\ attempt[a] # None /\ v \in Vacancies
      /\ own(r).release = "receipt" /\ own(r).vacancy = v /\ own(r).intent
      /\ token[v] # None /\ token[v].consumed /\ ClickedOf(v) = {}
  BY <1>1, OwnTypes, RunTypes DEF SubmissionInv, RunnerOK, WithPackage, Released, Holding, own
<1>3. /\ token[v].package = run[r].package
      /\ Documents[own(r).package] = Documents[run[r].package]
  BY <1>1 DEF Valid
<1>4. attempt[a].outcome # "gate_rejected"
  <2>1. pc[r] \in Holding
    BY <1>1 DEF Holding
  <2> QED
    BY <1>2, <2>1 DEF CancelledInv, Cancelled, NeverClicked, Known
<1>5. clicks[a] = 0 /\ clicks' = [clicks EXCEPT ![a] = 1]
  <2>1. clicks \in [Attempts -> Nat]
    BY DEF SubmissionInv, SubmissionTypeOK
  <2>2. ~(clicks[a] > 0)
    BY <1>2 DEF ClickedOf, Known
  <2>3. clicks[a] = 0
    BY <1>2, <2>1, <2>2
  <2> QED
    BY <1>1, <2>3
<1>6. /\ a \in IntendedAttempts /\ VacancyOf[a] = v /\ ReleasedPackage[a] = own(r).package
      /\ Verdict[a] = own(r).outcome
  BY <1>2, Promises DEF IntendedAttempts, Known
<1>7. ConsumedToken[v] = token[v].package
  BY <1>2, Promises DEF Consumed
<1> HIDE DEF a, v
<1>8. Application!Click(a)
  BY <1>1, <1>2, <1>3, <1>4, <1>5, <1>6, <1>7, AttemptsPromise, TokensPromise
     DEF Application!Click, IntendedAttempts
<1> QED
  BY <1>2, <1>8

\* The verdict is what the click bears out.
LEMMA ConcludesOnce ==
    ASSUME SubmissionInv, CancelledInv, IntentInv, NEW r \in Runners, Close(r), ~UNCHANGED attempt
    PROVE  \E a \in Attempts, o \in SubmitOutcomes \cup {"gate_rejected"} \cup {"blocked", "abandoned"} :
              Application!Conclude(a, o)
<1> DEFINE a == mine(r)
           s == [own(r) EXCEPT !.outcome = pc[r]]
<1>1. /\ pc[r] \in Outcomes /\ pc[r] \notin {"idle", "create"} /\ Writable(a)
      /\ attempt' = [attempt EXCEPT ![a] = s] /\ UNCHANGED <<token, clicks>>
  BY DEF Close, Extend, gateVars, Closing, Outcomes, SubmitOutcomes
<1>2. own(r) \in AttemptRecords
  BY <1>1, OwnTypes
<1>3. /\ s \in AttemptRecords /\ s.vacancy = own(r).vacancy /\ s.intent = own(r).intent
      /\ s.outcome = pc[r] /\ s.release = own(r).release /\ s.package = own(r).package
  BY <1>1, <1>2 DEF AttemptRecords
<1> HIDE DEF s
<1>4. /\ a \in Known /\ own(r) = attempt[a] /\ attempt'[a] = s
      /\ \A b \in Attempts : b # a => attempt'[b] = attempt[b]
      /\ Known' = Known /\ UNCHANGED VacancyOf /\ VacancyOf[a] # None
  BY <1>1, <1>3, OnePromise
<1>5. clicks[a] \in Nat /\ clicks[a] <= 1
  BY <1>4 DEF SubmissionInv, SubmissionTypeOK, ClickedOnce, Known
<1>6. pc[r] \in SubmitOutcomes => clicks[a] = 1
  <2>1. pc[r] \in SubmitOutcomes => clicks[a] > 0
    BY <1>4 DEF IntentInv, Submits
  <2> QED
    BY <1>5, <2>1
<1>7. pc[r] = "gate_rejected" => a \in IntendedAttempts /\ clicks[a] = 0
  <2> SUFFICES ASSUME pc[r] = "gate_rejected" PROVE a \in IntendedAttempts /\ clicks[a] = 0
    OBVIOUS
  <2>1. Cancelled(a)
    BY DEF Cancelled
  <2>2. attempt[a].intent /\ ClickedOf(attempt[a].vacancy) = {}
    BY <1>4, <2>1 DEF IntentInv, CancelledInv, NeverClicked
  <2>3. ~(clicks[a] > 0)
    BY <1>4, <2>2 DEF ClickedOf
  <2> QED
    BY <1>4, <1>5, <2>2, <2>3 DEF IntendedAttempts
<1> HIDE DEF a
<1>8. a \in Attempts /\ attempt[a] # None /\ attempt'[a] # None
  BY <1>4 DEF Known
<1>9. Verdict[a] = None
  BY <1>1, <1>8, Promises DEF Writable
<1>10. Verdict' = [Verdict EXCEPT ![a] = pc[r]]
  <2>1. Verdict'[a] = pc[r] /\ \A b \in Attempts : b # a => Verdict'[b] = Verdict[b]
    BY <1>3, <1>4, <1>8, Promises, PromisesNext
  <2> QED
    BY <1>8, <2>1, PromisesAreFunctions, OneChanged
<1>11. UNCHANGED ReleasedPackage
  <2>1. \A b \in Attempts : ReleasedPackage'[b] = ReleasedPackage[b]
    BY <1>3, <1>4, <1>8, Promises, PromisesNext
  <2> QED
    BY <2>1, PromisesAreFunctions, SameFunction
<1>12. UNCHANGED IntendedAttempts
  <2>1. \A b \in Known : attempt'[b].intent = attempt[b].intent
    BY <1>3, <1>4 DEF Known
  <2> QED
    BY <1>4, <2>1 DEF IntendedAttempts
<1>13. Application!Conclude(a, pc[r])
  BY <1>1, <1>4, <1>6, <1>7, <1>9, <1>10, <1>11, <1>12, TokensPromise
     DEF Application!Conclude, IntendedAttempts
<1> QED
  BY <1>1, <1>8, <1>13 DEF Outcomes

\* A write that writes nothing promises nothing new.
LEMMA NothingWritten ==
    ASSUME SubmissionInv, Grows, UNCHANGED <<attempt, token, clicks>>
    PROVE  UNCHANGED Application!appVars
BY SameAttempts, PublicStutters

\* Every step of a runner is one of the applications, or changes nothing of them.
LEMMA ApplicationsStep ==
    ASSUME SubmissionInv, CancelledInv, IntentInv, Next
    PROVE  [Application!AppNext]_(Application!appVars)
<1>1. Grows
  BY SubmissionStep
<1>2. PICK r \in Runners : Act(r)
  BY DEF Next, Act
<1>3. SUFFICES ASSUME Application!appVars' # Application!appVars
               PROVE  Application!AppNext
  OBVIOUS
<1>4. CASE QuietStep(r)
  BY <1>1, <1>3, <1>4, QuietStepPublic, PublicStutters
<1>5. CASE \E a \in Attempts : Create(r, a)
  BY <1>3, <1>5, BeginsApplication DEF Application!AppNext
<1>6. CASE WriteReceipt(r)
  <2>1. UNCHANGED <<token, clicks>>
    BY <1>6 DEF WriteReceipt, gateVars
  <2> QED
    BY <1>1, <1>3, <1>6, <2>1, NothingWritten, ReleasesPackage DEF Application!AppNext
<1>7. CASE Consume(r)
  <2>1. UNCHANGED <<attempt, clicks>>
    BY <1>7 DEF Consume, archiveVars
  <2> QED
    BY <1>1, <1>3, <1>7, <2>1, NothingWritten, TakesPermit DEF Application!AppNext
<1>8. CASE RecordIntent(r)
  <2>1. UNCHANGED <<token, clicks>>
    BY <1>8 DEF RecordIntent, gateVars
  <2> QED
    BY <1>1, <1>3, <1>8, <2>1, NothingWritten, IntendsOnce DEF Application!AppNext
<1>9. CASE Click(r)
  BY <1>3, <1>9, ClicksOnce DEF Application!AppNext
<1>10. CASE Close(r)
  <2>1. UNCHANGED <<token, clicks>>
    BY <1>10 DEF Close, gateVars
  <2> QED
    BY <1>1, <1>3, <1>10, <2>1, NothingWritten, ConcludesOnce DEF Application!AppNext
<1>11. QuietStep(r) \/ (\E a \in Attempts : Create(r, a)) \/ WriteReceipt(r) \/ RecordIntent(r)
       \/ Close(r) \/ Consume(r) \/ Click(r)
  BY <1>2 DEF Act, Step, QuietStep
<1> QED
  BY <1>4, <1>5, <1>6, <1>7, <1>8, <1>9, <1>10, <1>11

LEMMA ApplicationsStutter ==
    ASSUME UNCHANGED vars
    PROVE  UNCHANGED Application!appVars
<1>1. UNCHANGED <<attempt, token, clicks>>
  BY DEF vars, archiveVars, gateVars
<1> QED
  BY <1>1, AttemptsPromise, TokensPromise DEF Application!appVars, IntendedAttempts

LEMMA ApplicationsInit == Init => Application!AppInit
BY DEF Init, Application!AppInit, VacancyOf, ReleasedPackage, HasReceipt, ConsumedToken, Consumed,
   Verdict, IntendedAttempts, Known

-------------------------------------------------------------------------------
(***************************************************************************)
(* The theorems.                                                           *)
(***************************************************************************)

\* The inductive invariant holds in every reachable state.
THEOREM SubmissionInvariant == Spec => []SubmissionInv
<1>1. SubmissionInv /\ [Next]_vars => SubmissionInv'
  BY SubmissionStep, SubmissionStutter
<1> QED
  BY <1>1, InitEstablishes, PTL DEF Spec

\* Archive, checkpoints, gate and runners are well typed in every reachable state.
THEOREM TypeCorrect == Spec => []SubmissionTypeOK
<1>1. SubmissionInv => SubmissionTypeOK
  BY DEF SubmissionInv
<1> QED
  BY <1>1, SubmissionInvariant, PTL

\* At most one submit click is ever dispatched for a job key, whatever runners
\* overlap and wherever they die.
THEOREM AtMostOneClick == Spec => []ClickedOnce
<1>1. SubmissionInv => ClickedOnce
  BY DEF SubmissionInv
<1> QED
  BY <1>1, SubmissionInvariant, PTL

\* A click is preceded by its intent, its receipt and its consumed token.
THEOREM ClicksProvable == Spec => []ClickIsProvable
<1>1. SubmissionInv => ClickIsProvable
  BY DEF SubmissionInv
<1> QED
  BY <1>1, SubmissionInvariant, PTL

\* The checkpoint ledger never runs ahead of the archive.
THEOREM CheckpointsFollow == Spec => []CheckpointsFollowArchive
<1>1. SubmissionInv => CheckpointsFollowArchive
  BY DEF SubmissionInv
<1> QED
  BY <1>1, SubmissionInvariant, PTL

\* Intents, outcomes, released packages and consumed tokens are never taken back.
THEOREM RecordsAreFinal == Spec => RecordIsFinal
<1>1. SubmissionInv /\ [Next]_vars => SubmissionInv' /\ Grows
  BY SubmissionStep, SubmissionStutter
<1>2. Grows =>
        /\ \A a \in Known :
            /\ attempt'[a] # None
            /\ attempt[a].intent => attempt'[a].intent
            /\ attempt[a].outcome # None => attempt'[a].outcome = attempt[a].outcome
            /\ attempt[a].release = "receipt" =>
                  attempt'[a].release = "receipt" /\ attempt'[a].package = attempt[a].package
        /\ \A v \in Vacancies :
            token[v] # None /\ token[v].consumed => token'[v] = token[v]
  BY DEF Grows, Known
<1> QED
  BY <1>1, <1>2, SubmissionInvariant, PTL DEF Spec, RecordIsFinal

\* What the plan, the gate and the checkpoints rely on holds in every reachable state.
THEOREM StrengthenedInvariant == Spec => [](SubmissionInv /\ CancelledInv /\ SoloInv /\ TidyInv)
<1> DEFINE I == SubmissionInv /\ CancelledInv /\ SoloInv /\ TidyInv
<1>1. Init => I
  BY InitEstablishes, InitStrengthens
<1>2. I /\ [Next]_vars => I'
  BY SubmissionStep, CancelledStep, SoloStep, TidyStep, SubmissionStutter, CancelledStutter,
     SoloStutter, TidyStutter
<1> QED
  BY <1>1, <1>2, PTL DEF Spec

\* While runners do not overlap, an attempt that is incomplete or may have been
\* clicked is the only such attempt of its posting, under all of its job keys.
THEOREM OneAttempt == Spec => []OneAttemptPerPosting
<1>1. SoloInv => OneAttemptPerPosting
  BY DEF SoloInv, Barring, OneAttemptPerPosting
<1> QED
  BY <1>1, StrengthenedInvariant, PTL

\* No attempt was clicked whose terminal manifest denies it.
THEOREM DenialsAreTrue == Spec => []DeniedIsNotClicked
<1>1. SubmissionInv /\ CancelledInv /\ SoloInv => DeniedIsNotClicked
  <2> SUFFICES ASSUME SubmissionInv, CancelledInv, SoloInv, NEW a \in Known,
                      \/ attempt[a].outcome = "gate_rejected"
                      \/ attempt[a].outcome \in {"blocked", "abandoned"} /\ ~overlapped
               PROVE  clicks[a] = 0
    BY DEF DeniedIsNotClicked
  <2>1. clicks[a] \in Nat
    BY DEF SubmissionInv, SubmissionTypeOK, Known
  <2>2. CASE attempt[a].outcome = "gate_rejected"
    BY <2>1, <2>2 DEF CancelledInv, Cancelled, NeverClicked, ClickedOf
  <2>3. CASE attempt[a].outcome \in {"blocked", "abandoned"} /\ ~overlapped
    BY <2>1, <2>3 DEF SoloInv, SubmissionInv, ClickIsProvable
  <2> QED
    BY <2>2, <2>3
<1> QED
  BY <1>1, StrengthenedInvariant, PTL

\* When every call has ended, without a death and without an overlap, each attempt
\* can be released later, has an intent, or is terminal and checkpointed.
THEOREM NothingHalfDone == Spec => []NothingIsLeftHalfDone
<1>1. SubmissionInv /\ SoloInv /\ TidyInv => NothingIsLeftHalfDone
  <2> SUFFICES ASSUME SubmissionInv, SoloInv, TidyInv, AtRest, kills = 0, ~overlapped,
                      NEW a \in Known
               PROVE  /\ a \in started
                      /\ attempt[a].outcome # None <=> a \in completed
                      /\ attempt[a].outcome = None => Resumable(a) \/ attempt[a].intent
    BY DEF NothingIsLeftHalfDone
  <2>1. Tidy(a)
    BY OwingPoints DEF AtRest, TidyInv
  <2>2. a \in completed => attempt[a].outcome # None
    BY DEF SubmissionInv, CheckpointsFollowArchive
  <2>3. ASSUME attempt[a].outcome = None, ~attempt[a].intent PROVE Resumable(a)
    <3> DEFINE v == attempt[a].vacancy
    <3>1. v \in Vacancies
      BY AttemptTypes DEF AttemptRecords, Known
    <3>2. ASSUME token[v] # None, token[v].consumed PROVE FALSE
      <4>1. PICK b \in Known :
               attempt[b].vacancy = v
               /\ (attempt[b].intent \/ \E r \in Runners : pc[r] = "intent" /\ mine(r) = b)
        BY <3>1, <3>2 DEF TidyInv, ConsumedFor
      <4>2. attempt[b].intent
        BY <4>1 DEF AtRest
      <4>3. a = b
        BY <2>3, <4>1, <4>2 DEF SoloInv, Barring
      <4> QED
        BY <2>3, <4>2, <4>3
    <3> QED
      BY <2>1, <2>3, <3>2 DEF Tidy, Resumable
  <2> QED
    BY <2>1, <2>2, <2>3 DEF Tidy
<1> QED
  BY <1>1, StrengthenedInvariant, PTL

\* What intents, clicks and verdicts say of one another holds in every reachable state.
THEOREM IntentInvariant == Spec => []IntentInv
<1>1. Init => IntentInv
  BY InitIntent
<1>2. SubmissionInv /\ IntentInv /\ [Next]_vars => IntentInv'
  BY IntentStep, IntentStutter
<1> QED
  BY <1>1, <1>2, SubmissionInvariant, PTL DEF Spec

\* The runners implement the applications: whatever they overlap and wherever they
\* die, one permit and one intent of a vacancy, one click of it with the released
\* documents, and verdicts that the click bears out.
THEOREM Refinement == Spec => ImplementsApplications
<1>1. Init => Application!AppInit
  BY ApplicationsInit
<1>2. SubmissionInv /\ CancelledInv /\ IntentInv /\ [Next]_vars
        => [Application!AppNext]_(Application!appVars)
  BY ApplicationsStep, ApplicationsStutter
<1> QED
  BY <1>1, <1>2, StrengthenedInvariant, IntentInvariant, PTL
     DEF Spec, ImplementsApplications, Application!AppSpec
===============================================================================
