------------------------------- MODULE Submission -------------------------------
(***************************************************************************)
(* The production runner of the application subsystem                      *)
(* (src/internal/jaa/career_automation): the ascending queue, the attempt  *)
(* archive, the checkpoint ledger, the one-use release token and the one   *)
(* click that submits an application.                                      *)
(*                                                                         *)
(* A runner is one `execute_next`; `execute_all` repeats it.  The archive  *)
(* is a tree of create-only files without a lock and the gate a SQLite     *)
(* database, so each file that is created and each transaction is a step.  *)
(* A call that raises forgets its locals (Refuse); a process that dies may *)
(* also leave the temporary file of an event behind (Crash).               *)
(***************************************************************************)
EXTENDS Naturals, FiniteSets

CONSTANTS
    Vacancies,  \* vacancies (job keys), numbered in ascending order of fit
    Posting,    \* Posting[v]: the provider posting that v stands for
    Attempts,   \* attempt identities
    Runners,    \* runner processes
    Packages,   \* release manifests of one contact: documents, date, code revision
    Documents,  \* Documents[p]: the documents of package p
    Listings,   \* sets of live and eligible vacancies that a runner may be given
    MaxKills,   \* bound: deaths of a runner
    None        \* no attempt / no outcome / no package / no token

VARIABLES
    attempt,    \* attempt[a]: the attempt archive of a, or None
    started,    \* attempts with an attempt_started checkpoint
    completed,  \* attempts with an attempt_terminal checkpoint
    tornLedger, \* a temporary file is left in the directory of the checkpoints
    token,      \* token[v]: the release token of v for the contact, or None
    superseded, \* superseded[v]: <<manifest, replacement>> of replaced tokens
    clicks,     \* clicks[a]: submit clicks dispatched for attempt a (history)
    kills,      \* deaths of a runner (history)
    overlapped, \* two runners have been at work at once (history)
    pc,         \* pc[r]: what runner r does next
    run         \* run[r]: r's vacancy, attempt and prepared package

archiveVars == <<attempt, started, completed, tornLedger>>
gateVars == <<token, superseded>>
vars == <<archiveVars, gateVars, clicks, kills, overlapped, pc, run>>

SubmitOutcomes == {"submitted_success", "indeterminate"}
Outcomes == SubmitOutcomes \cup {"blocked", "abandoned", "gate_rejected"}
Quarantining == SubmitOutcomes \cup {"blocked"}

\* `records` counts the first events of an attempt: attempt_created, then the
\* vacancy's source identity and capture, its structure and assessment.  `prefill`
\* counts the snapshot of the empty form and its questions.  `confirmed` says
\* that the reconciliation of its click concludes success, `torn` that a
\* temporary file is left in the directory of its events.
Created == 1
Captured == 2
Assessed == 3

AttemptRecords ==
    [vacancy: Vacancies, records: 0..Assessed, prefill: 0..2,
     release: {"none", "manifest", "receipt"}, package: Packages \cup {None},
     intent: BOOLEAN, confirmed: BOOLEAN, outcome: Outcomes \cup {None}, torn: BOOLEAN]

Tokens == [package: Packages, consumed: BOOLEAN]

Runs == [vacancy: Vacancies, attempt: Attempts \cup {None},
         package: Packages \cup {None}]

ASSUME SubmissionAssumption ==
    /\ Vacancies \subseteq Nat
    /\ MaxKills \in Nat
    /\ Listings \subseteq SUBSET Vacancies
    /\ None \notin Vacancies
    /\ None \notin Attempts \cup Packages \cup Outcomes
    /\ None \notin AttemptRecords \cup Tokens \cup Runs

Points == {"idle", "create", "record", "start", "open", "prefill", "questions",
           "prepare", "release", "receipt", "execute", "consume", "intent",
           "click", "wait", "ledger"}

\* What a runner does when it closes its attempt with an outcome.
Closing == Outcomes

SubmissionTypeOK ==
    /\ attempt \in [Attempts -> AttemptRecords \cup {None}]
    /\ started \subseteq Attempts
    /\ completed \subseteq Attempts
    /\ tornLedger \in BOOLEAN
    /\ token \in [Vacancies -> Tokens \cup {None}]
    /\ superseded \in [Vacancies -> SUBSET (Packages \X Packages)]
    /\ clicks \in [Attempts -> Nat]
    /\ kills \in Nat
    /\ overlapped \in BOOLEAN
    /\ pc \in [Runners -> Points \cup Closing]
    /\ run \in [Runners -> Runs \cup {None}]

Init ==
    /\ attempt = [a \in Attempts |-> None]
    /\ started = {}
    /\ completed = {}
    /\ tornLedger = FALSE
    /\ token = [v \in Vacancies |-> None]
    /\ superseded = [v \in Vacancies |-> {}]
    /\ clicks = [a \in Attempts |-> 0]
    /\ kills = 0
    /\ overlapped = FALSE
    /\ pc = [r \in Runners |-> "idle"]
    /\ run = [r \in Runners |-> None]

-------------------------------------------------------------------------------
mine(r) == run[r].attempt
own(r) == attempt[mine(r)]
vacancy(r) == run[r].vacancy

\* The call returns or raises.
Leave(r) ==
    /\ pc' = [pc EXCEPT ![r] = "idle"]
    /\ run' = [run EXCEPT ![r] = None]

Goto(r, point) == pc' = [pc EXCEPT ![r] = point] /\ UNCHANGED run

\* add_artifact: a terminal attempt is immutable, a torn event ledger unreadable.
Writable(a) == attempt[a].outcome = None /\ ~attempt[a].torn

\* The attempt after an event or a file was added to it, or the call raises.
Extend(r, ok, new, point) ==
    IF ok
    THEN attempt' = [attempt EXCEPT ![mine(r)] = new] /\ Goto(r, point)
    ELSE UNCHANGED attempt /\ Leave(r)

\* The ledger opens every attempt that it names when it is verified.
LedgerReadable == ~tornLedger /\ \A a \in started : ~attempt[a].torn

-------------------------------------------------------------------------------
(***************************************************************************)
(* build_ascending_queue over prior_attempts_from_archive.                 *)
(***************************************************************************)
Known == {a \in Attempts : attempt[a] # None}

\* ApplicationArchive.query opens every attempt.
ArchiveReadable == \A a \in Known : attempt[a].records >= Created /\ ~attempt[a].torn

PriorOfKey(v) == {a \in Known : attempt[a].vacancy = v}      \* mutant: job keys only

Prior(v) == {a \in Known : Posting[attempt[a].vacancy] = Posting[v]}
Incomplete(v) == {a \in Prior(v) : attempt[a].outcome = None}

Intended(v) == \E a \in Prior(v) : attempt[a].intent

\* Every blocked outcome of this subsystem is a human-verification boundary,
\* which an operator may choose to retry while no click intent exists.
Quarantined(v, retry) ==
    \E a \in Prior(v) :
        /\ attempt[a].outcome \in Quarantining
        /\ ~(retry /\ attempt[a].outcome = "blocked" /\ ~attempt[a].intent)

Ready(listed, retry) == {v \in listed : ~Intended(v) /\ ~Quarantined(v, retry)}

\* The weakest fit first; an incomplete attempt is resumed, not duplicated.
Plan(r) ==
    /\ pc[r] = "idle"
    /\ ArchiveReadable
    /\ \E listed \in Listings, retry \in BOOLEAN :
        /\ \A v, w \in listed : Posting[v] = Posting[w] => v = w
        /\ \A v \in Ready(listed, retry) : Cardinality(Incomplete(v)) <= 1
        /\ \E v \in Ready(listed, retry) :
            /\ \A w \in Ready(listed, retry) : v <= w
            /\ \/ /\ Incomplete(v) = {}
                  /\ run' = [run EXCEPT ![r] = [vacancy |-> v, attempt |-> None, package |-> None]]
                  /\ pc' = [pc EXCEPT ![r] = "create"]
               \/ \E a \in Incomplete(v) :
                  /\ run' = [run EXCEPT ![r] = [vacancy |-> v, attempt |-> a, package |-> None]]
                  /\ pc' = [pc EXCEPT ![r] = "open"]
    /\ overlapped' = (overlapped \/ \E q \in Runners : pc[q] # "idle")
    /\ UNCHANGED <<archiveVars, gateVars, clicks, kills>>

-------------------------------------------------------------------------------
(***************************************************************************)
(* GreenhouseAttemptRecorder: create, prefill, close.                      *)
(***************************************************************************)

\* create_attempt makes the directories ...
Create(r, a) ==
    /\ pc[r] = "create"
    /\ attempt[a] = None
    /\ attempt' = [attempt EXCEPT ![a] =
          [vacancy |-> vacancy(r), records |-> 0, prefill |-> 0, release |-> "none",
           package |-> None, intent |-> FALSE, confirmed |-> FALSE, outcome |-> None,
           torn |-> FALSE]]
    /\ run' = [run EXCEPT ![r].attempt = a]
    /\ pc' = [pc EXCEPT ![r] = "record"]
    /\ UNCHANGED <<started, completed, tornLedger, gateVars, clicks, kills, overlapped>>

RecordAgain(r) ==      \* mutant: a resumed attempt records its assessment again
    /\ pc[r] \in {"record", "open"}
    /\ Extend(r, Writable(mine(r)),
              [own(r) EXCEPT !.records = @ + 1],
              CASE own(r).records = 0            -> "start"
                [] own(r).records = Assessed - 1 -> "open"
                [] OTHER                         -> "record")
    /\ UNCHANGED <<started, completed, tornLedger, gateVars, clicks, kills, overlapped>>

\* ... then each record is an event of its own; attempt_created is checkpointed
\* before the next one.
Record(r) ==
    /\ pc[r] = "record"
    /\ Extend(r, Writable(mine(r)),
              [own(r) EXCEPT !.records = @ + 1],
              CASE own(r).records = 0            -> "start"
                [] own(r).records = Assessed - 1 -> "open"
                [] OTHER                         -> "record")
    /\ UNCHANGED <<started, completed, tornLedger, gateVars, clicks, kills, overlapped>>

StartAgain(r) ==      \* mutant: the start is not checkpointed
    /\ pc[r] = "start"
    /\ Goto(r, "record")
    /\ UNCHANGED <<archiveVars, gateVars, clicks, kills, overlapped>>

\* record_attempt_started
Start(r) ==
    /\ pc[r] = "start"
    /\ IF Writable(mine(r)) /\ LedgerReadable /\ mine(r) \notin started
       THEN started' = started \cup {mine(r)} /\ Goto(r, "record")
       ELSE UNCHANGED started /\ Leave(r)
    /\ UNCHANGED <<attempt, completed, tornLedger, gateVars, clicks, kills, overlapped>>

\* The page shows a human-verification boundary, or the form.
Open(r) ==
    /\ pc[r] = "open"
    /\ \/ Goto(r, "blocked")
       \/ Goto(r, IF own(r).prefill = 0 THEN "prefill" ELSE "prepare")
    /\ UNCHANGED <<archiveVars, gateVars, clicks, kills, overlapped>>

\* record_prefill: the snapshot, then the questions.
Prefill(r) ==
    /\ pc[r] \in {"prefill", "questions"}
    /\ LET n == IF pc[r] = "prefill" THEN 1 ELSE 2 IN
       Extend(r, Writable(mine(r)), [own(r) EXCEPT !.prefill = n],
              IF n = 1 THEN "questions" ELSE "prepare")
    /\ UNCHANGED <<started, completed, tornLedger, gateVars, clicks, kills, overlapped>>

\* _terminal_required_roles, as far as an attempt may lack them; the archived
\* reconciliation has to conclude the outcome.
MayClose(a, outcome) ==
    /\ attempt[a].records >= Captured
    /\ outcome \in SubmitOutcomes =>
          /\ attempt[a].intent
          /\ attempt[a].release = "receipt"
          /\ attempt[a].confirmed = (outcome = "submitted_success")

CloseAnyway(r) ==      \* mutant: the terminal manifest is replaced
    /\ pc[r] \in Closing
    /\ Extend(r, ~own(r).torn /\ MayClose(mine(r), pc[r]),
              [own(r) EXCEPT !.outcome = pc[r]], "ledger")
    /\ UNCHANGED <<started, completed, tornLedger, gateVars, clicks, kills, overlapped>>

CloseFinally(r) ==      \* mutant: the terminal checkpoint is made in any case
    /\ pc[r] \in Closing
    /\ Goto(r, "ledger")
    /\ attempt' = IF Writable(mine(r)) /\ MayClose(mine(r), pc[r])
                  THEN [attempt EXCEPT ![mine(r)].outcome = pc[r]]
                  ELSE attempt
    /\ UNCHANGED <<started, completed, tornLedger, gateVars, clicks, kills, overlapped>>

\* The evidence and finalize_terminal, by whichever way the attempt ends.  Who
\* is overtaken by a terminal manifest raises when it adds evidence; who has
\* added it already goes on if the outcome is the same.
Close(r) ==
    /\ pc[r] \in Closing
    /\ \/ Extend(r, Writable(mine(r)) /\ MayClose(mine(r), pc[r]),
                 [own(r) EXCEPT !.outcome = pc[r]], "ledger")
       \/ own(r).outcome = pc[r] /\ ~own(r).torn /\ Goto(r, "ledger") /\ UNCHANGED attempt
    /\ UNCHANGED <<started, completed, tornLedger, gateVars, clicks, kills, overlapped>>

\* record_attempt_terminal
Complete(r) ==
    /\ pc[r] = "ledger"
    /\ completed' = IF LedgerReadable /\ ~own(r).torn /\ mine(r) \in started
                    THEN completed \cup {mine(r)}
                    ELSE completed
    /\ Leave(r)
    /\ UNCHANGED <<attempt, started, tornLedger, gateVars, clicks, kills, overlapped>>

-------------------------------------------------------------------------------
(***************************************************************************)
(* The release: a prepared package, its token, its archive receipt.        *)
(***************************************************************************)

\* prepare_release, or the check of the generated documents, raises.
PrepareFails(r) ==
    /\ pc[r] \in {"prepare", "release"}
    /\ Goto(r, "abandoned")
    /\ UNCHANGED <<archiveVars, gateVars, clicks, kills, overlapped>>

NewToken(p) == [package |-> p, consumed |-> FALSE]

\* CandidateAuthorityReleaseGate.issue, one BEGIN IMMEDIATE transaction.  Each
\* manifest is superseded once and replaces another one once (its keys).
Issue(r, p) ==
    /\ pc[r] = "prepare"
    /\ LET v == vacancy(r)
           old == token[v].package
           replaceable == /\ ~token[v].consumed
                          /\ \A s \in superseded[v] : s[1] # old /\ s[2] # p
       IN
       IF token[v] # None /\ old # p /\ ~replaceable
       THEN Goto(r, "abandoned") /\ UNCHANGED gateVars
       ELSE /\ token' = IF token[v] # None /\ old = p THEN token
                        ELSE [token EXCEPT ![v] = NewToken(p)]
            /\ superseded' = IF token[v] = None \/ old = p THEN superseded
                             ELSE [superseded EXCEPT ![v] = @ \cup {<<old, p>>}]
            /\ run' = [run EXCEPT ![r].package = p]
            /\ pc' = [pc EXCEPT ![r] = "release"]
    /\ UNCHANGED <<archiveVars, clicks, kills, overlapped>>

\* finalize_release: an existing receipt is returned, whatever it releases; a
\* manifest (or summary) without a receipt has another time stamp, and raises.
Finalize(r) ==
    /\ pc[r] = "release"
    /\ IF own(r).release = "receipt" /\ Writable(mine(r))
       THEN Goto(r, "execute") /\ UNCHANGED attempt
       ELSE Extend(r, /\ Writable(mine(r))
                      /\ own(r).release = "none"
                      /\ own(r).records = Assessed
                      /\ own(r).prefill = 2,
                   [own(r) EXCEPT !.release = "manifest", !.package = run[r].package],
                   "receipt")
    /\ UNCHANGED <<started, completed, tornLedger, gateVars, clicks, kills, overlapped>>

WriteReceipt(r) ==
    /\ pc[r] = "receipt"
    /\ Extend(r, own(r).release = "manifest", [own(r) EXCEPT !.release = "receipt"], "execute")
    /\ UNCHANGED <<started, completed, tornLedger, gateVars, clicks, kills, overlapped>>

-------------------------------------------------------------------------------
(***************************************************************************)
(* CertifiedGreenhouseSubmitExecutor.execute.                              *)
(***************************************************************************)

\* verify_current_release_token and verify_archive_receipt.
Valid(r) ==
    /\ token[vacancy(r)].package = run[r].package
    /\ own(r).vacancy = vacancy(r)
    /\ Documents[own(r).package] = Documents[run[r].package]
    /\ ~own(r).torn

\* Preflight.  An intent is that of another call, whose token was consumed at
\* another instant than the one of this call's authority, and raises.
Preflight(r) ==
    /\ pc[r] = "execute"
    /\ \/ /\ token[vacancy(r)].package = run[r].package
          /\ ~own(r).intent /\ ~own(r).torn
          /\ Goto(r, "blocked")
       \/ IF Valid(r) /\ ~own(r).intent THEN Goto(r, "consume") ELSE Leave(r)
    /\ UNCHANGED <<archiveVars, gateVars, clicks, kills, overlapped>>

ConsumeAgain(r) ==      \* mutant: consumption is not compared with this call's
    /\ pc[r] = "consume"
    /\ IF token[vacancy(r)].package = run[r].package
       THEN token' = [token EXCEPT ![vacancy(r)].consumed = TRUE] /\ Goto(r, "intent")
       ELSE UNCHANGED token /\ Leave(r)
    /\ UNCHANGED <<archiveVars, superseded, clicks, kills, overlapped>>

\* consume_release_token, verify_consumed_release_token.  Who finds the token
\* consumed raises: it was consumed at the instant of another call's issue.
Consume(r) ==
    /\ pc[r] = "consume"
    /\ IF token[vacancy(r)] = NewToken(run[r].package) /\ Valid(r)
       THEN /\ token' = [token EXCEPT ![vacancy(r)].consumed = TRUE]
            /\ Goto(r, "intent")
       ELSE UNCHANGED token /\ Leave(r)
    /\ UNCHANGED <<archiveVars, superseded, clicks, kills, overlapped>>

SkipIntent(r) ==      \* mutant: the click is dispatched before its durable intent
    /\ pc[r] = "intent"
    /\ Goto(r, "click")
    /\ UNCHANGED <<archiveVars, gateVars, clicks, kills, overlapped>>

\* The click intent is durable before the click.
RecordIntent(r) ==
    /\ pc[r] = "intent"
    /\ Extend(r, Writable(mine(r)), [own(r) EXCEPT !.intent = TRUE], "click")
    /\ UNCHANGED <<started, completed, tornLedger, gateVars, clicks, kills, overlapped>>

\* certified_final_submit_click: revalidate, then the only click.
Click(r) ==
    /\ pc[r] = "click"
    /\ Valid(r)
    /\ clicks' = [clicks EXCEPT ![mine(r)] = @ + 1]
    /\ Goto(r, "wait")
    /\ UNCHANGED <<archiveVars, gateVars, kills, overlapped>>

CancelAfterClick(r) ==      \* mutant: a click that timed out counts as cancelled
    /\ pc[r] \in {"click", "wait"}
    /\ Goto(r, "gate_rejected")
    /\ UNCHANGED <<archiveVars, gateVars, clicks, kills, overlapped>>

\* The revalidation rejects: a proved no-click failure.
Cancel(r) ==
    /\ pc[r] = "click"
    /\ Goto(r, "gate_rejected")
    /\ UNCHANGED <<archiveVars, gateVars, clicks, kills, overlapped>>

\* The confirmation page appears, or it does not and the outcome is
\* indeterminate; the reconciliation also accepts a confirmation e-mail.
Await(r) ==
    /\ pc[r] = "wait"
    /\ \E page, email \in BOOLEAN :
        /\ attempt' = [attempt EXCEPT ![mine(r)].confirmed = page \/ email]
        /\ Goto(r, IF page THEN "submitted_success" ELSE "indeterminate")
    /\ UNCHANGED <<started, completed, tornLedger, gateVars, clicks, kills, overlapped>>

-------------------------------------------------------------------------------
\* The call raises without a trace: the browser fails, the preflight rejects,
\* no confirmation can be checked.
Refuse(r) ==
    /\ pc[r] \in {"open", "execute", "click", "wait"}
    /\ Leave(r)
    /\ UNCHANGED <<archiveVars, gateVars, clicks, kills, overlapped>>

\* Points at which events of the attempt, or a checkpoint, are created.
Appending == {"record", "prefill", "questions", "prepare", "release", "execute", "intent"}
                \cup Closing
Checkpointing == {"start", "ledger"}

\* The process dies; within _atomic_create the temporary file stays behind.
Crash(r) ==
    /\ pc[r] # "idle"
    /\ kills < MaxKills
    /\ kills' = kills + 1
    /\ \/ UNCHANGED <<attempt, tornLedger>>
       \/ /\ pc[r] \in Appending
          /\ Writable(mine(r))
          /\ attempt' = [attempt EXCEPT ![mine(r)].torn = TRUE]
          /\ UNCHANGED tornLedger
       \/ /\ pc[r] \in Checkpointing
          /\ LedgerReadable
          /\ tornLedger' = TRUE
          /\ UNCHANGED attempt
    /\ Leave(r)
    /\ UNCHANGED <<started, completed, gateVars, clicks, overlapped>>

Step(r) ==
    \/ \E a \in Attempts : Create(r, a)
    \/ Record(r) \/ Start(r) \/ Open(r) \/ Prefill(r)
    \/ PrepareFails(r)
    \/ \E p \in Packages : Issue(r, p)
    \/ Finalize(r) \/ WriteReceipt(r)
    \/ Preflight(r) \/ Consume(r) \/ RecordIntent(r) \/ Click(r) \/ Cancel(r) \/ Await(r)
    \/ Close(r) \/ Complete(r) \/ Refuse(r)

Next == \E r \in Runners : Plan(r) \/ Step(r) \/ Crash(r)

Spec == Init /\ [][Next]_vars
-------------------------------------------------------------------------------
(***************************************************************************)
(* What the subsystem promises.                                            *)
(***************************************************************************)

\* "never replay": however many runners work, and wherever they die, at most one
\* submit click is dispatched for a vacancy, in at most one of its attempts.
ClickedOnce ==
    \A a, b \in Known :
        /\ clicks[a] <= 1
        /\ clicks[a] = 1 /\ clicks[b] = 1 /\ attempt[a].vacancy = attempt[b].vacancy => a = b

\* A click that may have happened is durably on record before it happens: its
\* intent, the archive receipt of exactly the documents that were released, and
\* the consumed token; an unknown crash finds the vacancy quarantined.
ClickIsProvable ==
    \A a \in Known : clicks[a] > 0 =>
        /\ attempt[a].intent
        /\ attempt[a].release = "receipt"
        /\ token[attempt[a].vacancy] # None
        /\ Documents[token[attempt[a].vacancy].package] = Documents[attempt[a].package]
        /\ token[attempt[a].vacancy].consumed

\* "The label or later terminal outcome cannot clear it": an intent, a terminal
\* outcome, a released package and a consumed token are never taken back.
RecordIsFinal ==
    [][/\ \A a \in Known :
            /\ attempt'[a] # None
            /\ attempt[a].intent => attempt'[a].intent
            /\ attempt[a].outcome # None => attempt'[a].outcome = attempt[a].outcome
            /\ attempt[a].release = "receipt" =>
                  attempt'[a].release = "receipt" /\ attempt'[a].package = attempt[a].package
       /\ \A v \in Vacancies :
            token[v] # None /\ token[v].consumed => token'[v] = token[v]]_vars

\* While runners do not overlap, a posting has at most one attempt that is
\* incomplete or clicked, under whichever of its equivalent job keys: an
\* incomplete attempt is resumed, not duplicated, and an intent bars every later
\* attempt.
OneAttemptPerPosting ==
    ~overlapped =>
        \A a, b \in Known :
            /\ Posting[attempt[a].vacancy] = Posting[attempt[b].vacancy]
            /\ attempt[a].outcome = None \/ attempt[a].intent
            /\ attempt[b].outcome = None \/ attempt[b].intent
            => a = b

\* "click_may_have_occurred": false of a terminal manifest is true.  With two
\* runners on one attempt it is so only for a cancelled click: the other one
\* may block or abandon the attempt whose click is under way.
DeniedIsNotClicked ==
    \A a \in Known :
        \/ attempt[a].outcome = "gate_rejected"
        \/ attempt[a].outcome \in {"blocked", "abandoned"} /\ ~overlapped
        => clicks[a] = 0

AtRest == \A r \in Runners : pc[r] = "idle"

\* What an interrupted attempt needs to be released by a later run.
Resumable(a) ==
    /\ attempt[a].records = Assessed /\ attempt[a].prefill # 1
    /\ attempt[a].release # "manifest"
    /\ token[attempt[a].vacancy] # None => ~token[attempt[a].vacancy].consumed

\* While no process dies and runners do not overlap, every call that ends, by
\* returning or by raising, leaves its attempt either for a later run to release,
\* or with an intent, or terminal and checkpointed.
NothingIsLeftHalfDone ==
    AtRest /\ kills = 0 /\ ~overlapped =>
        \A a \in Known :
            /\ a \in started
            /\ attempt[a].outcome # None <=> a \in completed
            /\ attempt[a].outcome = None => Resumable(a) \/ attempt[a].intent

\* A checkpoint is never ahead of the archive.
CheckpointsFollowArchive ==
    /\ completed \subseteq started
    /\ \A a \in started : attempt[a] # None /\ attempt[a].records >= Created
    /\ \A a \in completed : attempt[a].outcome # None

\* "A submission is confirmed only by an official ATS receipt or a matching
\* confirmation email; otherwise record it as indeterminate": what reconciliation
\* confirmed is recorded as submitted, unless the process dies.
ConfirmedIsRecorded ==
    AtRest /\ kills = 0 =>
        \A a \in Known : attempt[a].confirmed => attempt[a].outcome = "submitted_success"

-------------------------------------------------------------------------------
(***************************************************************************)
(* The inductive invariant: what a runner may rely on at each point,       *)
(* although other runners work on the same attempt and the same token.     *)
(***************************************************************************)
Recording == {"record", "start"}
WithPackage == {"release", "receipt", "execute", "consume", "intent", "click", "wait"}
Released == WithPackage \ {"release", "receipt"}
Holding == {"intent", "click", "wait"}

ClickedOf(v) == {a \in Known : attempt[a].vacancy = v /\ clicks[a] > 0}

RunnerOK(r) ==
    /\ pc[r] # "idle" => run[r] \in Runs
    /\ pc[r] \notin {"idle", "create"} => mine(r) \in Known
    /\ pc[r] = "start" => own(r).records = Created
    /\ pc[r] = "record" => own(r).records < Assessed
    /\ pc[r] \in WithPackage => run[r].package \in Packages /\ token[vacancy(r)] # None
    /\ pc[r] \in Released => own(r).release = "receipt"
    /\ pc[r] \in Holding => own(r).vacancy = vacancy(r) /\ token[vacancy(r)].consumed
    /\ pc[r] \in {"intent", "click"} => ClickedOf(vacancy(r)) = {}
    /\ pc[r] \in {"click", "wait"} => own(r).intent
    /\ pc[r] = "ledger" => own(r).outcome # None

SubmissionInv ==
    /\ SubmissionTypeOK
    /\ \A r \in Runners : RunnerOK(r)
    /\ \A r, q \in Runners :
          pc[r] \in Recording /\ pc[q] \in Recording /\ mine(r) = mine(q) => r = q
    /\ \A r, q \in Runners :
          pc[r] \in Holding /\ pc[q] \in Holding /\ vacancy(r) = vacancy(q) => r = q
    /\ \A a \in Attempts : clicks[a] > 0 => attempt[a] # None
    /\ ClickedOnce
    /\ ClickIsProvable
    /\ CheckpointsFollowArchive

\* A cancelled click: nobody holds the consumed token of its vacancy any more,
\* and it cannot be consumed again.
Cancelled(a) ==
    \/ attempt[a].outcome = "gate_rejected"
    \/ \E r \in Runners : pc[r] = "gate_rejected" /\ mine(r) = a

NeverClicked(v) ==
    /\ token[v] # None /\ token[v].consumed
    /\ \A r \in Runners : pc[r] \in Holding => vacancy(r) # v
    /\ ClickedOf(v) = {}

CancelledInv == \A a \in Known : Cancelled(a) => NeverClicked(attempt[a].vacancy)

-------------------------------------------------------------------------------
(***************************************************************************)
(* The inductive invariant while runners do not overlap: the plan of a     *)
(* runner stays true of its posting.                                       *)
(***************************************************************************)
Barring(a) == attempt[a].outcome = None \/ attempt[a].intent

AwayFromAttempt == {"idle", "create"}
Unintended == {"record", "start", "open", "prefill", "questions", "prepare", "release",
               "receipt", "execute", "consume", "intent", "blocked", "abandoned"}

SoloRunnerOK(r) ==
    /\ pc[r] = "create" => \A a \in Prior(vacancy(r)) : ~Barring(a)
    /\ pc[r] \notin AwayFromAttempt \cup {"ledger"} => own(r).outcome = None
    /\ pc[r] \in Unintended => ~own(r).intent

SoloInv ==
    ~overlapped =>
        /\ \A r, q \in Runners : pc[r] # "idle" /\ pc[q] # "idle" => r = q
        /\ \A r \in Runners : SoloRunnerOK(r)
        /\ \A a, b \in Known :
              /\ Posting[attempt[a].vacancy] = Posting[attempt[b].vacancy]
              /\ Barring(a) /\ Barring(b)
              => a = b
        /\ \A a \in Known :
              attempt[a].outcome \in {"blocked", "abandoned"} => ~attempt[a].intent

\* What a call that ends leaves of an attempt, and what a runner at work on it
\* may still owe.
Tidy(a) ==
    /\ a \in started
    /\ attempt[a].outcome # None => a \in completed
    /\ attempt[a].outcome = None /\ ~attempt[a].intent =>
          /\ attempt[a].records = Assessed
          /\ attempt[a].prefill # 1
          /\ attempt[a].release # "manifest"

Owing == Recording \cup {"questions", "receipt", "ledger"}

TidyRunnerOK(r) ==
    /\ pc[r] \in Recording =>
          /\ own(r).prefill = 0 /\ own(r).release = "none"
          /\ mine(r) \in started <=> own(r).records > 0 /\ pc[r] # "start"
    /\ pc[r] \in Owing \ Recording => mine(r) \in started
    /\ pc[r] \in {"questions", "receipt"} => own(r).records = Assessed
    /\ pc[r] = "questions" => own(r).release # "manifest"
    /\ pc[r] = "receipt" => own(r).prefill # 1 /\ own(r).release = "manifest"

\* A token is consumed for an attempt that has, or is about to have, an intent.
ConsumedFor(v) ==
    \E a \in Known :
        /\ attempt[a].vacancy = v
        /\ attempt[a].intent \/ \E r \in Runners : pc[r] = "intent" /\ mine(r) = a

NothingTorn == ~tornLedger /\ \A a \in Known : ~attempt[a].torn

TidyInv ==
    /\ kills = 0 => NothingTorn
    /\ kills = 0 /\ ~overlapped =>
        /\ \A r \in Runners : TidyRunnerOK(r)
        /\ \A a \in Known :
              Tidy(a) \/ \E r \in Runners : pc[r] \in Owing /\ mine(r) = a
        /\ \A v \in Vacancies : token[v] # None /\ token[v].consumed => ConsumedFor(v)

-------------------------------------------------------------------------------
(***************************************************************************)
(* The abstract specification.                                             *)
(***************************************************************************)

\* What the intent, the click and the outcome of an attempt say of one another.
Submits(a) ==
    \/ attempt[a].outcome \in SubmitOutcomes
    \/ \E r \in Runners : pc[r] \in SubmitOutcomes /\ mine(r) = a

IntentInv ==
    /\ \A a \in Known : attempt[a].release # "none" => attempt[a].package \in Packages
    /\ \A a \in Known : attempt[a].intent =>
          /\ attempt[a].release = "receipt"
          /\ token[attempt[a].vacancy] # None /\ token[attempt[a].vacancy].consumed
          /\ \A r \in Runners : pc[r] = "intent" => vacancy(r) # attempt[a].vacancy
    /\ \A a, b \in Known :
          /\ attempt[a].intent /\ attempt[b].intent
          /\ attempt[a].vacancy = attempt[b].vacancy
          => a = b
    /\ \A a \in Known : Cancelled(a) => attempt[a].intent
    /\ \A a \in Known : Submits(a) => clicks[a] > 0
    /\ \A r \in Runners : pc[r] = "wait" => clicks[mine(r)] > 0

VacancyOf == [a \in Attempts |-> IF attempt[a] = None THEN None ELSE attempt[a].vacancy]

HasReceipt(a) == attempt[a] # None /\ attempt[a].release = "receipt"

ReleasedPackage == [a \in Attempts |-> IF HasReceipt(a) THEN attempt[a].package ELSE None]

Consumed(v) == token[v] # None /\ token[v].consumed

ConsumedToken == [v \in Vacancies |-> IF Consumed(v) THEN token[v].package ELSE None]

IntendedAttempts == {a \in Known : attempt[a].intent}

Verdict == [a \in Attempts |-> IF attempt[a] = None THEN None ELSE attempt[a].outcome]

Application == INSTANCE Applications WITH
    Submitted <- SubmitOutcomes, Rejected <- "gate_rejected", Other <- {"blocked", "abandoned"},
    vacancyOf <- VacancyOf, released <- ReleasedPackage, permit <- ConsumedToken,
    intended <- IntendedAttempts, verdict <- Verdict

\* Whatever runners overlap and wherever they die, their steps amount to those of
\* the applications: one permit and one intent of a vacancy, one click with the
\* documents that were released, verdicts that the click bears out; and nothing
\* of it is taken back.
ImplementsApplications == Application!AppSpec
===============================================================================
