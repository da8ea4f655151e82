-------------------------- MODULE RefreshLedgerProofs --------------------------
(***************************************************************************)
(* VacancyRefresh implements RefreshLedger, for any number of processes,   *)
(* operations, vacancies, responses and crashes: the invariant RefreshInv  *)
(* makes every step of a process a step of the ledger or a stutter.        *)
(***************************************************************************)
EXTENDS VacancyRefreshProofs

USE RefreshAssumption, NoRawAssumption

\* What the type of a posting does not say: a fetched row has a response.
FetchedHasResponse == \A j \in Jobs : Fetched(j) => posting[j].raw # NoRaw

LEMMA FetchedHasResponseStarts ==
    ASSUME Init
    PROVE  FetchedHasResponse
BY DEF Init, PostingInit, FetchedHasResponse, Fetched, Absent

LEMMA FetchedHasResponseStays ==
    ASSUME RefreshInv, FetchedHasResponse, [RefreshNext]_vars
    PROVE  FetchedHasResponse'
<1>1. CASE UNCHANGED posting
  BY <1>1 DEF FetchedHasResponse, Fetched
<1>2. ASSUME NEW p \in Procs, NEW t \in Stamps, Seal(p, t)
      PROVE  FetchedHasResponse'
  <2>1. CASE UNCHANGED posting
    BY <1>1, <2>1
  <2>2. CASE row(p).status = "object_ready" /\ posting' = Refreshed(row(p))
    <3>1. pc[p] \in Admitted
      BY <1>2 DEF Seal, Admitted, Loaded, Points
    <3>2. row(p) \in Rows /\ RowOK(row(p))
      BY <3>1, AdmittedCall
    <3>3. row(p).new \in Raws
      BY <2>2, <3>2 DEF RowOK, Complete
    <3>4. row(p).new # NoRaw
      BY <3>3
    <3> HIDE <3>3
    <3>5. posting \in [Jobs -> [status: FetchStatuses, raw: Raws \cup {NoRaw}]]
      BY DEF RefreshInv, RefreshTypeOK, PostingTypeOK
    <3>6. \A j \in Jobs : posting'[j] = IF j = row(p).job
                                       THEN [status |-> "fetched", raw |-> row(p).new]
                                       ELSE posting[j]
      BY <2>2, <3>5 DEF Refreshed
    <3> QED
      BY <3>4, <3>6 DEF FetchedHasResponse, Fetched
  <2> QED
    BY <1>2, <2>1, <2>2 DEF Seal
<1>3. UNCHANGED posting \/ \E p \in Procs, t \in Stamps : Seal(p, t)
  BY DEF RefreshNext, Step, Call, ReadPosting, ReadCache, Begin, Reload, WriteOldObject,
     StartFetch, Fetch, FetchFails, MarkIndeterminate, ReadForRecord, RecordFetch,
     WriteNewObject, MarkObjectReady, CheckCurrent, Materialize, WriteReceipt, Crash,
     vars, postingVars
<1> QED
  BY <1>1, <1>2, <1>3

\* The ledger sees nothing of what a process does to its locals, the objects
\* and the cache.
LEMMA Unseen ==
    ASSUME UNCHANGED <<posting, journal, fetches, receipts>>
    PROVE  UNCHANGED Ledger!ledgerVars
BY DEF Ledger!ledgerVars, Ledger!operationVars, JournalStage, JournalContext, JournalAnswer,
       JournalReceipt, StoredResponse, Fetched

LEMMA UnseenPosting ==
    ASSUME UNCHANGED posting
    PROVE  UNCHANGED StoredResponse
BY DEF StoredResponse, Fetched

LEMMA UnseenJournal ==
    ASSUME UNCHANGED journal
    PROVE  UNCHANGED <<JournalStage, JournalContext, JournalAnswer, JournalReceipt>>
BY DEF JournalStage, JournalContext, JournalAnswer, JournalReceipt

\* What the ledger sees of a row.
LEMMA RowSeen ==
    ASSUME NEW o \in Ops, journal[o] # NoRow
    PROVE  /\ JournalStage[o] = StageOf(journal[o].status)
           /\ JournalContext[o] = [job |-> journal[o].job, expected |-> journal[o].expected]
           /\ JournalAnswer[o] = journal[o].new
           /\ JournalReceipt[o] = journal[o].receipt
BY DEF JournalStage, JournalContext, JournalAnswer, JournalReceipt

\* Functions that differ in one value.
LEMMA OneValue ==
    ASSUME NEW S, NEW f, NEW g, f = [x \in S |-> f[x]], g = [x \in S |-> g[x]],
           NEW o \in S, \A x \in S : x # o => g[x] = f[x]
    PROVE  g = [f EXCEPT ![o] = g[o]]
OBVIOUS

LEMMA SameValue ==
    ASSUME NEW S, NEW f, NEW o \in S, NEW v, f = [x \in S |-> f[x]], v = f[o]
    PROVE  [f EXCEPT ![o] = v] = f
OBVIOUS

\* The ledger sees functions.
LEMMA SeenAreFunctions ==
    /\ JournalStage = [o \in Ops |-> JournalStage[o]]
    /\ JournalContext = [o \in Ops |-> JournalContext[o]]
    /\ JournalAnswer = [o \in Ops |-> JournalAnswer[o]]
    /\ JournalReceipt = [o \in Ops |-> JournalReceipt[o]]
    /\ StoredResponse = [j \in Jobs |-> StoredResponse[j]]
BY DEF JournalStage, JournalContext, JournalAnswer, JournalReceipt, StoredResponse

\* What the ledger sees when a row is written.
LEMMA RowWritten ==
    ASSUME RefreshInv, NEW o \in Ops, NEW s \in Rows, journal' = [journal EXCEPT ![o] = s]
    PROVE  /\ JournalStage' = [JournalStage EXCEPT ![o] = StageOf(s.status)]
           /\ JournalContext' = [JournalContext EXCEPT ![o] = [job |-> s.job, expected |-> s.expected]]
           /\ JournalAnswer' = [JournalAnswer EXCEPT ![o] = s.new]
           /\ JournalReceipt' = [JournalReceipt EXCEPT ![o] = s.receipt]
<1>1. s # NoRow
  OBVIOUS
<1>2. /\ journal'[o] = s
      /\ \A a \in Ops : a # o => journal'[a] = journal[a]
  BY DEF RefreshInv, RefreshTypeOK
<1>3. /\ JournalStage'[o] = StageOf(s.status)
      /\ JournalContext'[o] = [job |-> s.job, expected |-> s.expected]
      /\ JournalAnswer'[o] = s.new
      /\ JournalReceipt'[o] = s.receipt
  BY <1>1, <1>2 DEF JournalStage, JournalContext, JournalAnswer, JournalReceipt
<1>4. \A a \in Ops : a # o => /\ JournalStage'[a] = JournalStage[a]
                             /\ JournalContext'[a] = JournalContext[a]
                             /\ JournalAnswer'[a] = JournalAnswer[a]
                             /\ JournalReceipt'[a] = JournalReceipt[a]
  BY <1>2 DEF JournalStage, JournalContext, JournalAnswer, JournalReceipt
<1>5. /\ JournalStage' = [a \in Ops |-> JournalStage'[a]]
      /\ JournalContext' = [a \in Ops |-> JournalContext'[a]]
      /\ JournalAnswer' = [a \in Ops |-> JournalAnswer'[a]]
      /\ JournalReceipt' = [a \in Ops |-> JournalReceipt'[a]]
  BY DEF JournalStage, JournalContext, JournalAnswer, JournalReceipt
<1>6. /\ JournalStage' = [JournalStage EXCEPT ![o] = JournalStage'[o]]
      /\ JournalContext' = [JournalContext EXCEPT ![o] = JournalContext'[o]]
  BY <1>4, <1>5, SeenAreFunctions, OneValue
<1>7. /\ JournalAnswer' = [JournalAnswer EXCEPT ![o] = JournalAnswer'[o]]
      /\ JournalReceipt' = [JournalReceipt EXCEPT ![o] = JournalReceipt'[o]]
  BY <1>4, <1>5, SeenAreFunctions, OneValue
<1> QED
  BY <1>3, <1>6, <1>7

LEMMA StageFacts ==
    /\ StageOf("intent") = "open" /\ StageOf("fetch_started") = "open"
    /\ StageOf("indeterminate") = "unknown"
    /\ StageOf("fetched") = "answered" /\ StageOf("object_ready") = "answered"
    /\ StageOf("committed") = "committed"
BY DEF StageOf

\* The initial journal is an empty ledger.
LEMMA LedgerStarts ==
    ASSUME Init
    PROVE  Ledger!LedgerInit
<1>1. journal = [o \in Ops |-> NoRow] /\ fetches = [o \in Ops |-> 0] /\ receipts = {}
  BY DEF Init, RefreshInit
<1>2. \A j \in Jobs : Fetched(j) => posting[j].raw \in Raws \cup {NoRaw}
  BY InitEstablishes DEF RefreshInv, RefreshTypeOK, PostingTypeOK
<1> QED
  BY <1>1, <1>2 DEF Ledger!LedgerInit, JournalStage, JournalContext, JournalAnswer,
     JournalReceipt, StoredResponse

\* A row that moves on within its stage is not seen to move.
LEMMA SameStage ==
    ASSUME RefreshInv, NEW p \in Procs, op(p) \in Ops, row(p) \in Rows, row(p) # NoRow,
           NEW status \in Statuses, StageOf(status) = StageOf(row(p).status),
           journal' = [journal EXCEPT ![op(p)].status = status],
           UNCHANGED <<posting, fetches, receipts>>
    PROVE  UNCHANGED Ledger!ledgerVars
<1> DEFINE s == [row(p) EXCEPT !.status = status]
<1>1. /\ s \in Rows /\ s.status = status /\ s.job = row(p).job /\ s.expected = row(p).expected
      /\ s.new = row(p).new /\ s.receipt = row(p).receipt
  BY DEF Rows
<1>2. journal' = [journal EXCEPT ![op(p)] = s]
  BY DEF row
<1> HIDE DEF s
<1>3. /\ JournalStage' = [JournalStage EXCEPT ![op(p)] = StageOf(status)]
      /\ JournalContext' = [JournalContext EXCEPT ![op(p)] = [job |-> s.job, expected |-> s.expected]]
      /\ JournalAnswer' = [JournalAnswer EXCEPT ![op(p)] = s.new]
      /\ JournalReceipt' = [JournalReceipt EXCEPT ![op(p)] = s.receipt]
  <2>1. s \in Rows /\ op(p) \in Ops
    BY <1>1
  <2>2. /\ JournalStage' = [JournalStage EXCEPT ![op(p)] = StageOf(s.status)]
        /\ JournalContext' = [JournalContext EXCEPT ![op(p)] = [job |-> s.job, expected |-> s.expected]]
        /\ JournalAnswer' = [JournalAnswer EXCEPT ![op(p)] = s.new]
        /\ JournalReceipt' = [JournalReceipt EXCEPT ![op(p)] = s.receipt]
    BY <2>1, <1>2, RowWritten
  <2>3. StageOf(s.status) = StageOf(status)
    BY <1>1
  <2> QED
    BY <2>2, <2>3
<1>4. /\ JournalStage[op(p)] = StageOf(status)
      /\ JournalContext[op(p)] = [job |-> s.job, expected |-> s.expected]
      /\ JournalAnswer[op(p)] = s.new
      /\ JournalReceipt[op(p)] = s.receipt
  BY <1>1, RowSeen DEF row
<1>5. UNCHANGED <<JournalStage, JournalContext, JournalAnswer, JournalReceipt>>
  BY <1>3, <1>4, SeenAreFunctions, SameValue
<1> QED
  BY <1>5, UnseenPosting DEF Ledger!ledgerVars, Ledger!operationVars

\* begin_vacancy_refresh admits the operation.
LEMMA BeginSeen ==
    ASSUME RefreshInv, NEW p \in Procs, Begin(p)
    PROVE  Ledger!LedgerNext \/ UNCHANGED Ledger!ledgerVars
<1> DEFINE q == request[p]
           s == [job |-> q.job, expected |-> q.expected, status |-> "intent",
                 old |-> raw[p], new |-> NoRaw, receipt |-> NoReceipt]
<1>1. UNCHANGED <<posting, fetches, receipts>>
  BY DEF Begin, postingVars
<1>2. CASE UNCHANGED journal
  BY <1>1, <1>2, Unseen
<1>3. CASE row(p) = NoRow /\ Admissible(q, raw[p]) /\ journal' = [journal EXCEPT ![q.op] = s]
  <2>1. /\ op(p) \in Ops /\ q \in Requests /\ q.job \in Jobs /\ q.expected \in Contents
        /\ raw[p] \in Raws /\ q.op = op(p)
    BY OpOfCall DEF Begin, RefreshInv, CallOK, op
  <2>2. s \in Rows /\ s.status = "intent" /\ s.new = NoRaw /\ s.receipt = NoReceipt
        /\ s.job = q.job /\ s.expected = q.expected
    BY <2>1 DEF Rows, Statuses, PreFetch
  <2> HIDE DEF s
  <2>3. /\ JournalStage' = [JournalStage EXCEPT ![op(p)] = "open"]
        /\ JournalContext' = [JournalContext EXCEPT ![op(p)] = [job |-> q.job, expected |-> q.expected]]
        /\ JournalAnswer' = [JournalAnswer EXCEPT ![op(p)] = NoRaw]
        /\ JournalReceipt' = [JournalReceipt EXCEPT ![op(p)] = NoReceipt]
    <3>1. journal' = [journal EXCEPT ![op(p)] = s]
      BY <1>3, <2>1
    <3>2. /\ JournalStage' = [JournalStage EXCEPT ![op(p)] = StageOf(s.status)]
          /\ JournalContext' = [JournalContext EXCEPT ![op(p)] = [job |-> s.job, expected |-> s.expected]]
          /\ JournalAnswer' = [JournalAnswer EXCEPT ![op(p)] = s.new]
          /\ JournalReceipt' = [JournalReceipt EXCEPT ![op(p)] = s.receipt]
      BY <2>1, <2>2, <3>1, RowWritten
    <3> QED
      BY <2>2, <3>2, StageFacts
  <2>4. /\ JournalStage[op(p)] = "new" /\ JournalAnswer[op(p)] = NoRaw
        /\ JournalReceipt[op(p)] = NoReceipt
    BY <1>3, <2>1 DEF JournalStage, JournalAnswer, JournalReceipt, row
  <2>5. UNCHANGED <<JournalAnswer, JournalReceipt>>
    BY <2>1, <2>3, <2>4, SeenAreFunctions, SameValue
  <2>6. ~Ledger!Barred(q.job)
    <3> SUFFICES ASSUME NEW o \in Ops, JournalStage[o] \notin {"new", "committed"},
                        JournalContext[o].job = q.job
                 PROVE  FALSE
      BY DEF Ledger!Barred
    <3>1. journal[o] # NoRow
      BY DEF JournalStage
    <3>2. /\ journal[o] \in Rows /\ journal[o].status \in Statuses
      BY <3>1 DEF RefreshInv, RefreshTypeOK, Rows
    <3>3. journal[o].job = q.job /\ journal[o].status # "committed"
      <4>1. /\ JournalStage[o] = StageOf(journal[o].status)
            /\ JournalContext[o] = [job |-> journal[o].job, expected |-> journal[o].expected]
        BY <3>1, RowSeen
      <4> QED
        BY <4>1, StageFacts
    <3>4. journal[o].status \in Blocking
      BY <3>2, <3>3 DEF Blocking, Statuses, PreFetch, Complete
    <3> QED
      BY <1>3, <3>1, <3>3, <3>4 DEF Admissible, Blocked
  <2>7. Ledger!HasContent(q.job, q.expected)
    <3>1. StoredResponse[q.job] = raw[p] /\ raw[p].content = q.expected
      BY <1>3, <2>1 DEF Admissible, StoredResponse
    <3> QED
      BY <2>1, <3>1 DEF Ledger!HasContent
  <2>8. Ledger!Admit(op(p))
    BY <1>1, <2>1, <2>3, <2>4, <2>5, <2>6, <2>7, UnseenPosting DEF Ledger!Admit
  <2> QED
    BY <2>1, <2>8 DEF Ledger!LedgerNext
<1> QED
  BY <1>2, <1>3 DEF Begin

\* The one official fetch asks.
LEMMA FetchSeen ==
    ASSUME RefreshInv, NEW p \in Procs, FetchFails(p) \/ \E r \in Raws : Fetch(p, r)
    PROVE  Ledger!LedgerNext
<1>1. /\ pc[p] = "fetch" /\ UNCHANGED <<posting, journal, receipts>>
      /\ fetches' = [fetches EXCEPT ![op(p)] = @ + 1]
  BY DEF FetchFails, Fetch, postingVars
<1>2. pc[p] \in Admitted
  BY <1>1 DEF Admitted, Loaded, Points
<1>3. op(p) \in Ops /\ row(p) \in Rows /\ row(p) # NoRow
  BY <1>2, AdmittedCall
<1>4. row(p).status # "intent" /\ fetches[op(p)] = 0
  BY <1>1 DEF RefreshInv, CallOK, InWindow
<1>5. row(p).status \in Statuses /\ row(p).status \notin Complete
  BY <1>3, <1>4 DEF RefreshInv, OfficialFetchCount, row, Rows
<1>6. row(p).status \in {"fetch_started", "indeterminate"}
  BY <1>4, <1>5 DEF Statuses, PreFetch
<1>7. JournalStage[op(p)] \in {"open", "unknown"}
  BY <1>3, <1>6, RowSeen, StageFacts DEF row
<1>8. fetches' = [fetches EXCEPT ![op(p)] = 1]
  BY <1>1, <1>3, <1>4
<1>9. Ledger!Ask(op(p))
  BY <1>1, <1>4, <1>7, <1>8, UnseenPosting, UnseenJournal DEF Ledger!Ask
<1> QED
  BY <1>3, <1>9 DEF Ledger!LedgerNext

\* mark_vacancy_refresh_indeterminate gives up, or finds the window resolved.
LEMMA MarkSeen ==
    ASSUME RefreshInv, NEW p \in Procs, MarkIndeterminate(p)
    PROVE  Ledger!LedgerNext \/ UNCHANGED Ledger!ledgerVars
<1>1. pc[p] = "abandon" /\ UNCHANGED <<posting, fetches, receipts>>
  BY DEF MarkIndeterminate, postingVars
<1>2. CASE UNCHANGED journal
  BY <1>1, <1>2, Unseen
<1>3. CASE row(p).status = "fetch_started"
           /\ journal' = [journal EXCEPT ![op(p)].status = "indeterminate"]
  <2> DEFINE s == [row(p) EXCEPT !.status = "indeterminate"]
  <2>1. pc[p] \in Admitted
    BY <1>1 DEF Admitted, Loaded, Points
  <2>2. op(p) \in Ops /\ row(p) \in Rows /\ row(p) # NoRow
    BY <2>1, AdmittedCall
  <2>3. /\ s \in Rows /\ s.status = "indeterminate" /\ s.job = row(p).job
        /\ s.expected = row(p).expected /\ s.new = row(p).new /\ s.receipt = row(p).receipt
    BY <2>2 DEF Rows, Statuses, PreFetch
  <2>4. journal' = [journal EXCEPT ![op(p)] = s]
    BY <1>3 DEF row
  <2> HIDE DEF s
  <2>5. /\ JournalStage' = [JournalStage EXCEPT ![op(p)] = StageOf(s.status)]
        /\ JournalContext' = [JournalContext EXCEPT ![op(p)] = [job |-> s.job, expected |-> s.expected]]
        /\ JournalAnswer' = [JournalAnswer EXCEPT ![op(p)] = s.new]
        /\ JournalReceipt' = [JournalReceipt EXCEPT ![op(p)] = s.receipt]
    BY <2>2, <2>3, <2>4, RowWritten
  <2>6. /\ JournalStage[op(p)] = "open"
        /\ JournalContext[op(p)] = [job |-> s.job, expected |-> s.expected]
        /\ JournalAnswer[op(p)] = s.new
        /\ JournalReceipt[op(p)] = s.receipt
    BY <1>3, <2>2, <2>3, RowSeen, StageFacts DEF row
  <2>7. UNCHANGED <<JournalContext, JournalAnswer, JournalReceipt>>
    BY <2>2, <2>5, <2>6, SeenAreFunctions, SameValue
  <2>8. JournalStage' = [JournalStage EXCEPT ![op(p)] = "unknown"]
    BY <2>3, <2>5, StageFacts
  <2>9. Ledger!GiveUp(op(p))
    BY <1>1, <2>6, <2>7, <2>8, UnseenPosting DEF Ledger!GiveUp
  <2> QED
    BY <2>2, <2>9 DEF Ledger!LedgerNext
<1> QED
  BY <1>2, <1>3 DEF MarkIndeterminate

\* record_vacancy_refresh_fetch answers, or finds the window resolved.
LEMMA RecordSeen ==
    ASSUME RefreshInv, NEW p \in Procs, RecordFetch(p)
    PROVE  Ledger!LedgerNext \/ UNCHANGED Ledger!ledgerVars
<1>1. pc[p] = "journalling" /\ UNCHANGED <<posting, fetches, receipts>>
  BY DEF RecordFetch, postingVars
<1>2. CASE UNCHANGED journal
  BY <1>1, <1>2, Unseen
<1>3. CASE row(p).status = "fetch_started"
           /\ journal' = [journal EXCEPT ![op(p)].status = "fetched", ![op(p)].new = raw[p]]
  <2> DEFINE s == [row(p) EXCEPT !.status = "fetched", !.new = raw[p]]
  <2>1. pc[p] \in Admitted
    BY <1>1 DEF Admitted, Loaded, Points
  <2>2. op(p) \in Ops /\ row(p) \in Rows /\ row(p) # NoRow
    BY <2>1, AdmittedCall
  <2>3. raw[p] \in Raws /\ fetches[op(p)] = 1
    BY <1>1 DEF RefreshInv, CallOK
  <2>4. /\ s \in Rows /\ s.status = "fetched" /\ s.job = row(p).job
        /\ s.expected = row(p).expected /\ s.new = raw[p] /\ s.receipt = row(p).receipt
    BY <2>2, <2>3 DEF Rows, Statuses, Complete
  <2>5. journal' = [journal EXCEPT ![op(p)] = s]
    BY <1>3, <2>2 DEF row, RefreshInv, RefreshTypeOK
  <2> HIDE DEF s
  <2>6. /\ JournalStage' = [JournalStage EXCEPT ![op(p)] = StageOf(s.status)]
        /\ JournalContext' = [JournalContext EXCEPT ![op(p)] = [job |-> s.job, expected |-> s.expected]]
        /\ JournalAnswer' = [JournalAnswer EXCEPT ![op(p)] = s.new]
        /\ JournalReceipt' = [JournalReceipt EXCEPT ![op(p)] = s.receipt]
    BY <2>2, <2>4, <2>5, RowWritten
  <2>7. /\ JournalStage[op(p)] = "open"
        /\ JournalContext[op(p)] = [job |-> s.job, expected |-> s.expected]
        /\ JournalReceipt[op(p)] = s.receipt
    BY <1>3, <2>2, <2>4, RowSeen, StageFacts DEF row
  <2>8. UNCHANGED <<JournalContext, JournalReceipt>>
    BY <2>2, <2>6, <2>7, SeenAreFunctions, SameValue
  <2>9. /\ JournalStage' = [JournalStage EXCEPT ![op(p)] = "answered"]
        /\ JournalAnswer' = [JournalAnswer EXCEPT ![op(p)] = raw[p]]
    BY <2>4, <2>6, StageFacts
  <2>10. Ledger!Answer(op(p))
    BY <1>1, <2>3, <2>7, <2>8, <2>9, UnseenPosting DEF Ledger!Answer
  <2> QED
    BY <2>2, <2>10 DEF Ledger!LedgerNext
<1> QED
  BY <1>2, <1>3 DEF RecordFetch

\* seal_vacancy_refresh commits, or finds the row committed or the posting gone.
LEMMA SealSeen ==
    ASSUME RefreshInv, FetchedHasResponse, NEW p \in Procs, NEW t \in Stamps, Seal(p, t)
    PROVE  Ledger!LedgerNext \/ UNCHANGED Ledger!ledgerVars
<1>1. pc[p] = "seal" /\ UNCHANGED <<fetches, receipts>>
  BY DEF Seal
<1>2. CASE UNCHANGED <<journal, posting>>
  BY <1>1, <1>2, Unseen
<1>3. CASE row(p).status = "object_ready" /\ CurrentForSeal(row(p))
           /\ journal' = [journal EXCEPT ![op(p)] = SealedRow(op(p), row(p), t)]
           /\ posting' = Refreshed(row(p))
  <2> DEFINE s == SealedRow(op(p), row(p), t)
  <2>1. pc[p] \in Admitted
    BY <1>1 DEF Admitted, Loaded, Points
  <2>2. op(p) \in Ops /\ row(p) \in Rows /\ row(p) # NoRow /\ RowOK(row(p))
    BY <2>1, AdmittedCall
  <2>3. row(p).new \in Raws /\ row(p).old \in Raws /\ row(p).job \in Jobs
    BY <1>3, <2>2 DEF RowOK, Complete, Rows
  <2>4. /\ s.status = "committed" /\ s.job = row(p).job /\ s.expected = row(p).expected
        /\ s.old = row(p).old /\ s.new = row(p).new
    BY <2>2 DEF SealedRow, Rows
  <2>5. s.receipt \in Sealed
    BY <2>2, <2>3 DEF SealedRow, Rows, Sealed
  <2>6. s \in Rows
    BY <2>2, <2>4, <2>5 DEF SealedRow, Rows, Statuses, Complete
  <2>7. journal' = [journal EXCEPT ![op(p)] = s]
    BY <1>3
  <2> HIDE DEF s
  <2>8. /\ JournalStage' = [JournalStage EXCEPT ![op(p)] = StageOf(s.status)]
        /\ JournalContext' = [JournalContext EXCEPT ![op(p)] = [job |-> s.job, expected |-> s.expected]]
        /\ JournalAnswer' = [JournalAnswer EXCEPT ![op(p)] = s.new]
        /\ JournalReceipt' = [JournalReceipt EXCEPT ![op(p)] = s.receipt]
    BY <2>2, <2>6, <2>7, RowWritten
  <2>9. /\ JournalStage[op(p)] = "answered"
        /\ JournalContext[op(p)] = [job |-> s.job, expected |-> s.expected]
        /\ JournalAnswer[op(p)] = s.new
    BY <1>3, <2>2, <2>4, RowSeen, StageFacts DEF row
  <2>10. UNCHANGED <<JournalContext, JournalAnswer>>
    BY <2>2, <2>8, <2>9, SeenAreFunctions, SameValue
  <2>11. JournalStage' = [JournalStage EXCEPT ![op(p)] = "committed"]
    BY <2>4, <2>8, StageFacts
  <2>12. /\ JournalContext[op(p)].job = row(p).job
         /\ JournalContext[op(p)].expected = row(p).expected
    BY <2>4, <2>9
  <2>13. Ledger!HasContent(row(p).job, row(p).expected)
    <3>1. StoredResponse[row(p).job] = posting[row(p).job].raw
      BY <1>3, <2>3 DEF CurrentForSeal, StoredResponse
    <3>2. posting[row(p).job].raw # NoRaw
      BY <1>3, <2>3 DEF CurrentForSeal, FetchedHasResponse
    <3> QED
      BY <1>3, <2>3, <3>1, <3>2 DEF CurrentForSeal, Ledger!HasContent
  <2>14. StoredResponse' = [StoredResponse EXCEPT ![row(p).job] = s.new]
    <3>1. /\ posting'[row(p).job] = [status |-> "fetched", raw |-> row(p).new]
          /\ \A j \in Jobs : j # row(p).job => posting'[j] = posting[j]
      BY <1>3, <2>3 DEF Refreshed, RefreshInv, RefreshTypeOK, PostingTypeOK
    <3>2. /\ StoredResponse'[row(p).job] = s.new
          /\ \A j \in Jobs : j # row(p).job => StoredResponse'[j] = StoredResponse[j]
      BY <2>3, <2>4, <3>1 DEF StoredResponse, Fetched
    <3>3. StoredResponse' = [j \in Jobs |-> StoredResponse'[j]]
      BY DEF StoredResponse
    <3>4. StoredResponse' = [StoredResponse EXCEPT ![row(p).job] = StoredResponse'[row(p).job]]
      BY <2>3, <3>2, <3>3, SeenAreFunctions, OneValue
    <3> QED
      BY <3>2, <3>4
  <2>15. Ledger!Commit(op(p))
    BY <1>1, <2>5, <2>8, <2>9, <2>10, <2>11, <2>12, <2>13, <2>14 DEF Ledger!Commit
  <2> QED
    BY <2>2, <2>15 DEF Ledger!LedgerNext
<1> QED
  BY <1>2, <1>3 DEF Seal

\* The receipt file tells what was sealed.
LEMMA ReceiptSeen ==
    ASSUME RefreshInv, NEW p \in Procs, WriteReceipt(p)
    PROVE  Ledger!LedgerNext \/ UNCHANGED Ledger!ledgerVars
<1>1. pc[p] = "receipt" /\ UNCHANGED <<posting, journal, fetches>>
  BY DEF WriteReceipt, postingVars
<1>2. CASE UNCHANGED receipts
  BY <1>1, <1>2, Unseen
<1>3. CASE receipts' = receipts \cup {tr[p].receipt}
  <2>1. pc[p] \in Loaded /\ pc[p] \in Admitted
    BY <1>1 DEF Admitted, Loaded, Points
  <2>2. op(p) \in Ops /\ row(p) # NoRow /\ Follows(row(p), tr[p])
    BY <2>1, AdmittedCall
  <2>3. tr[p].status = "committed"
    BY <1>1 DEF RefreshInv, CallOK
  <2>4. row(p) = tr[p]
    BY <2>2, <2>3 DEF Follows
  <2>5. JournalStage[op(p)] = "committed" /\ JournalReceipt[op(p)] = tr[p].receipt
    BY <2>2, <2>3, <2>4, RowSeen, StageFacts DEF row
  <2>6. Ledger!Tell(op(p))
    BY <1>1, <1>3, <2>5, UnseenPosting, UnseenJournal DEF Ledger!Tell, Ledger!operationVars
  <2> QED
    BY <2>2, <2>6 DEF Ledger!LedgerNext
<1> QED
  BY <1>2, <1>3 DEF WriteReceipt

\* The two statuses of one stage.
LEMMA InnerSeen ==
    ASSUME RefreshInv, NEW p \in Procs, StartFetch(p) \/ MarkObjectReady(p)
    PROVE  UNCHANGED Ledger!ledgerVars
<1>1. pc[p] \in {"start", "ready"} /\ UNCHANGED <<posting, fetches, receipts>>
  BY DEF StartFetch, MarkObjectReady, postingVars
<1>2. op(p) \in Ops /\ row(p) \in Rows /\ row(p) # NoRow
  BY <1>1, AdmittedCall DEF Admitted, Loaded, Points
<1>3. CASE UNCHANGED journal
  BY <1>1, <1>3, Unseen
<1>4. CASE row(p).status = "intent" /\ journal' = [journal EXCEPT ![op(p)].status = "fetch_started"]
  <2>1. "fetch_started" \in Statuses /\ StageOf("fetch_started") = StageOf(row(p).status)
    BY <1>4, StageFacts DEF Statuses, PreFetch
  <2> QED
    BY <1>1, <1>2, <1>4, <2>1, SameStage
<1>5. CASE row(p).status = "fetched" /\ journal' = [journal EXCEPT ![op(p)].status = "object_ready"]
  <2>1. "object_ready" \in Statuses /\ StageOf("object_ready") = StageOf(row(p).status)
    BY <1>5, StageFacts DEF Statuses, Complete
  <2> QED
    BY <1>1, <1>2, <1>5, <2>1, SameStage
<1> QED
  BY <1>3, <1>4, <1>5 DEF StartFetch, MarkObjectReady

\* Every other step is unseen.
LEMMA OthersUnseen ==
    ASSUME NEW p \in Procs,
           \/ \E q \in Requests : Call(p, q)
           \/ ReadPosting(p) \/ ReadCache(p) \/ Reload(p) \/ WriteOldObject(p)
           \/ ReadForRecord(p) \/ WriteNewObject(p)
           \/ CheckCurrent(p) \/ Materialize(p) \/ Crash(p)
    PROVE  UNCHANGED Ledger!ledgerVars
<1>1. UNCHANGED <<posting, journal, fetches, receipts>>
  BY DEF Call, ReadPosting, ReadCache, Reload, WriteOldObject, ReadForRecord, WriteNewObject,
     CheckCurrent, Materialize, Crash, postingVars
<1> QED
  BY <1>1, Unseen

\* Every step of a refresh is a step of the ledger or is not seen.
LEMMA LedgerStep ==
    ASSUME RefreshInv, FetchedHasResponse, [RefreshNext]_vars
    PROVE  [Ledger!LedgerNext]_(Ledger!ledgerVars)
<1>1. CASE UNCHANGED vars
  <2>1. UNCHANGED <<posting, journal, fetches, receipts>>
    BY <1>1 DEF vars, refreshVars, postingVars
  <2> QED
    BY <2>1, Unseen
<1>2. ASSUME NEW p \in Procs,
             \/ \E q \in Requests : Call(p, q)
             \/ ReadPosting(p) \/ ReadCache(p) \/ Reload(p) \/ WriteOldObject(p)
             \/ ReadForRecord(p) \/ WriteNewObject(p)
             \/ CheckCurrent(p) \/ Materialize(p) \/ Crash(p)
      PROVE  UNCHANGED Ledger!ledgerVars
  BY <1>2, OthersUnseen
<1>3. ASSUME NEW p \in Procs, StartFetch(p) \/ MarkObjectReady(p)
      PROVE  UNCHANGED Ledger!ledgerVars
  BY <1>3, InnerSeen
<1>4. ASSUME NEW p \in Procs,
             \/ Begin(p) \/ FetchFails(p) \/ \E r \in Raws : Fetch(p, r)
             \/ MarkIndeterminate(p) \/ RecordFetch(p)
             \/ \E t \in Stamps : Seal(p, t)
             \/ WriteReceipt(p)
      PROVE  Ledger!LedgerNext \/ UNCHANGED Ledger!ledgerVars
  BY <1>4, BeginSeen, FetchSeen, MarkSeen, RecordSeen, SealSeen, ReceiptSeen
<1> QED
  BY <1>1, <1>2, <1>3, <1>4 DEF RefreshNext, Step

\* The refresh protocol implements the ledger of its operations.
THEOREM RefreshImplementsLedger == Spec => ImplementsLedger
<1>1. Init => Ledger!LedgerInit
  BY LedgerStarts
<1>2. Init => FetchedHasResponse
  BY FetchedHasResponseStarts
<1>3. RefreshInv /\ FetchedHasResponse /\ [RefreshNext]_vars => FetchedHasResponse'
  BY FetchedHasResponseStays
<1>4. RefreshInv /\ FetchedHasResponse /\ [RefreshNext]_vars
        => [Ledger!LedgerNext]_(Ledger!ledgerVars)
  BY LedgerStep
<1> QED
  BY <1>1, <1>2, <1>3, <1>4, RefreshInvariant, PTL DEF Spec, ImplementsLedger, Ledger!LedgerSpec
===============================================================================
