--------------------------- MODULE CollectionProofs ---------------------------
(***************************************************************************)
(* Proofs about Collection: with any number of collectors next to any      *)
(* number of refreshes, the postings stay well typed, and what the refresh *)
(* journal promises still holds although the collectors change the rows    *)
(* and the caches between any two steps of a refresh: next to collectors,  *)
(* too, the refreshes implement their ledger.                              *)
(***************************************************************************)
EXTENDS Collection, RefreshLedgerProofs, CollectorCycleProofs

\* A collector step disturbs nothing that a refresh relies on but the types.
LEMMA CyclesLeaveRefreshes ==
    ASSUME RefreshInv, UNCHANGED refreshVars, PostingTypeOK'
    PROVE  RefreshInv'
<1>1. UNCHANGED <<journal, objects, receipts, fetches, crashes, pc, request, tr, raw>>
  BY DEF refreshVars
<1>2. RefreshTypeOK'
  BY <1>1 DEF RefreshInv, RefreshTypeOK
<1>3. \A p \in Procs : CallOK(p)'
  BY <1>1 DEF RefreshInv, CallOK, op, row
<1> QED
  BY <1>1, <1>2, <1>3 DEF RefreshInv, OwnReceipt, OfficialFetchCount, OneActiveRefresh,
     ResponsesAreDurable, ReceiptsAreSealed, op

CollectionInv == RefreshInv /\ CollectorInv

\* Both components start right on an empty data root.
LEMMA CollectionInitEstablishes ==
    ASSUME CollectionInit
    PROVE  CollectionInv
<1>1. RefreshInv
  BY InitEstablishes DEF CollectionInit, Init
<1>2. CollectorInv
  BY AgreeStarts DEF CollectionInit, CollectorInit, AgreeInv
<1> QED
  BY <1>1, <1>2 DEF CollectionInv

\* A step of either component keeps both invariants.
LEMMA CollectionStep ==
    ASSUME CollectionInv, [CollectionNext]_collectionVars
    PROVE  CollectionInv'
<1>1. CASE RefreshNext /\ UNCHANGED cycleVars
  <2>1. RefreshInv' /\ PostingTypeOK'
    BY <1>1, RefreshStep DEF CollectionInv, RefreshInv, RefreshTypeOK
  <2> QED
    BY <1>1, <2>1, CycleStutter DEF CollectionInv
<1>2. CASE CycleNext /\ UNCHANGED refreshVars
  <2>1. CollectorInv' /\ PostingTypeOK'
    BY <1>2, CycleStepKeepsTypes DEF CollectionInv, CollectorInv, CycleTypeOK
  <2> QED
    BY <1>2, <2>1, CyclesLeaveRefreshes DEF CollectionInv
<1>3. CASE UNCHANGED collectionVars
  <2>1. UNCHANGED vars /\ UNCHANGED cycleVars
    BY <1>3 DEF collectionVars, vars
  <2>2. RefreshInv' /\ PostingTypeOK'
    BY <2>1, RefreshStutter DEF CollectionInv, RefreshInv, RefreshTypeOK
  <2> QED
    BY <2>1, <2>2, CycleStutter DEF CollectionInv
<1> QED
  BY <1>1, <1>2, <1>3 DEF CollectionNext

\* With collectors around, too, the invariant of the refresh journal holds.
THEOREM CollectionInvariant == CollectionSpec => []CollectionInv
BY CollectionInitEstablishes, CollectionStep, PTL DEF CollectionSpec

\* Rows, caches and the locals of every collector stay well typed.
THEOREM CollectionTypeCorrect == CollectionSpec => []CycleTypeOK
<1>1. CollectionInv => CycleTypeOK
  BY DEF CollectionInv, CollectorInv
<1> QED
  BY <1>1, CollectionInvariant, PTL

\* Collectors never make a refresh ask the official source twice.
THEOREM CollectionFetchesOnce == CollectionSpec => []OfficialFetchCount
<1>1. CollectionInv => OfficialFetchCount
  BY DEF CollectionInv, RefreshInv
<1> QED
  BY <1>1, CollectionInvariant, PTL

\* Nor do they let two operations be active on one vacancy.
THEOREM CollectionOneActive == CollectionSpec => []OneActiveRefresh
<1>1. CollectionInv => OneActiveRefresh
  BY DEF CollectionInv, RefreshInv
<1> QED
  BY <1>1, CollectionInvariant, PTL

\* Nor do they make a receipt file differ from the sealed receipt.
THEOREM CollectionReceiptsSealed == CollectionSpec => []ReceiptsAreSealed
<1>1. CollectionInv => ReceiptsAreSealed
  BY DEF CollectionInv, RefreshInv
<1> QED
  BY <1>1, CollectionInvariant, PTL

\* With any number of collectors writing rows between the steps of a refresh, a
\* commit still replaces the very response it was asked to replace.
THEOREM CollectionCommitReplaces == CollectionSpec => CommitReplacesExpected
<1> DEFINE A == \A o \in Ops :
        journal'[o] # journal[o] /\ journal'[o].status = "committed" =>
            LET j == journal[o].job IN
            /\ posting[j].status = "fetched"
            /\ posting[j].raw.content = journal[o].expected
            /\ posting'[j] = [status |-> "fetched", raw |-> journal[o].new]
<1>1. CollectionInv /\ [CollectionNext]_collectionVars => [A]_vars
  <2> SUFFICES ASSUME CollectionInv, [CollectionNext]_collectionVars PROVE A \/ UNCHANGED vars
    OBVIOUS
  <2>1. CASE RefreshNext
    BY <2>1, StepAdvances DEF CollectionInv, CommitReplaces
  <2>2. CASE UNCHANGED refreshVars
    BY <2>2 DEF refreshVars
  <2>3. CASE UNCHANGED collectionVars
    BY <2>3 DEF collectionVars, vars
  <2> QED
    BY <2>1, <2>2, <2>3 DEF CollectionNext
<1> QED
  BY <1>1, CollectionInvariant, PTL DEF CollectionSpec, CommitReplacesExpected

-------------------------------------------------------------------------------
\* What a collector writes is a response, a row without one, or a failure.
LEMMA CollectorsStoreResponses ==
    ASSUME CollectorInv, FetchedHasResponse, CycleNext
    PROVE  FetchedHasResponse'
<1> SUFFICES ASSUME NEW c \in Collectors,
                    \/ \E listed \in SUBSET Jobs : Run(c, listed)
                    \/ Import(c) \/ Cycle(c) \/ Kill(c)
             PROVE  FetchedHasResponse'
  BY DEF CycleNext
<1>1. \A r \in Raws : r # NoRaw
  BY NoRawAssumption
<1>2. CASE UNCHANGED posting
  BY <1>2 DEF FetchedHasResponse, Fetched
<1>3. ASSUME NEW js, posting' = WithDiscovered(js) PROVE FetchedHasResponse'
  BY <1>3 DEF FetchedHasResponse, Fetched, WithDiscovered, Absent
<1>4. ASSUME NEW r \in Raws, posting' = WithRaw(r) PROVE FetchedHasResponse'
  <2>1. posting \in [Jobs -> [status: FetchStatuses, raw: Raws \cup {NoRaw}]]
    BY DEF CollectorInv, CycleTypeOK, PostingTypeOK
  <2>2. \A j \in Jobs : \/ posting'[j] = posting[j]
                       \/ posting'[j] = [status |-> "fetched", raw |-> r]
    BY <1>4, <2>1 DEF WithRaw
  <2>3. r # NoRaw
    BY <1>1
  <2> QED
    BY <2>2, <2>3 DEF FetchedHasResponse, Fetched
<1>5. ASSUME NEW j \in Jobs, posting' = WithError(j) PROVE FetchedHasResponse'
  <2>1. posting \in [Jobs -> [status: FetchStatuses, raw: Raws \cup {NoRaw}]]
    BY DEF CollectorInv, CycleTypeOK, PostingTypeOK
  <2>2. \A k \in Jobs : posting'[k] = posting[k] \/ posting'[k].status = "error"
    BY <1>5, <2>1 DEF WithError
  <2> QED
    BY <2>2 DEF FetchedHasResponse, Fetched
<1>6. StoreCached(c) \/ StoreRaw(c) => response[c] \in Raws /\ posting' = WithRaw(response[c])
  BY DEF StoreCached, StoreRaw, CollectorInv, HandledOK, Holding
<1>7. RecordError(c) => job[c] \in Jobs /\ posting' = WithError(job[c])
  BY DEF RecordError, CollectorInv, HandledOK, Handling
<1> QED
  BY <1>2, <1>3, <1>4, <1>5, <1>6, <1>7, CycleWrites

\* To the ledger a collector's step is the store of a response, or nothing.
LEMMA CollectorsOverwrite ==
    ASSUME UNCHANGED refreshVars, PostingTypeOK'
    PROVE  Ledger!Overwrite
<1>1. UNCHANGED <<journal, fetches, receipts>>
  BY DEF refreshVars
<1>2. UNCHANGED <<JournalStage, JournalContext, JournalAnswer, JournalReceipt>>
  BY <1>1, UnseenJournal
<1>3. StoredResponse' \in [Jobs -> Raws \cup {NoRaw}]
  BY DEF StoredResponse, PostingTypeOK
<1> QED
  BY <1>1, <1>2, <1>3 DEF Ledger!Overwrite, Ledger!operationVars

\* Next to any number of collectors the refreshes implement the ledger of their
\* operations over responses that others may store, too.
THEOREM CollectionImplementsLedger == CollectionSpec => ImplementsSharedLedger
<1>1. CollectionInit => Ledger!LedgerInit /\ FetchedHasResponse
  BY LedgerStarts, FetchedHasResponseStarts DEF CollectionInit, Init
<1>2. ASSUME CollectionInv, FetchedHasResponse, [CollectionNext]_collectionVars
      PROVE  /\ FetchedHasResponse'
             /\ [Ledger!LedgerNext \/ Ledger!Overwrite]_(Ledger!ledgerVars)
  <2>1. CASE RefreshNext
    BY <1>2, <2>1, FetchedHasResponseStays, LedgerStep DEF CollectionInv
  <2>2. CASE CycleNext /\ UNCHANGED refreshVars
    <3>1. CollectorInv' /\ PostingTypeOK'
      BY <1>2, <2>2, CycleStepKeepsTypes DEF CollectionInv, CollectorInv, CycleTypeOK
    <3> QED
      BY <1>2, <2>2, <3>1, CollectorsStoreResponses, CollectorsOverwrite DEF CollectionInv
  <2>3. CASE UNCHANGED collectionVars
    <3>1. UNCHANGED vars
      BY <2>3 DEF collectionVars, vars
    <3> QED
      BY <1>2, <3>1, FetchedHasResponseStays, LedgerStep DEF CollectionInv
  <2> QED
    BY <1>2, <2>1, <2>2, <2>3 DEF CollectionNext
<1> QED
  BY <1>1, <1>2, CollectionInvariant, PTL
     DEF CollectionSpec, ImplementsSharedLedger, Ledger!SharedLedgerSpec

-------------------------------------------------------------------------------
(***************************************************************************)
(* What collectors that do not overlap leave alone.                        *)
(***************************************************************************)

\* An operation exists only for a vacancy that has a file, and files never vanish.
JournalledHaveFiles ==
    /\ \A o \in Ops : journal[o] # NoRow => cache[journal[o].job] # NoRaw
    /\ \A p \in Procs : pc[p] = "begin" => cache[request[p].job] # NoRaw

SharedInv == /\ CollectionInv /\ OwnInv /\ AllHeldOwn /\ JournalledHaveFiles
             /\ ~concurrent => AllWorkOK /\ ~TwoAtWork

LEMMA SharedStarts ==
    ASSUME CollectionInit
    PROVE  SharedInv
<1>1. CollectionInv /\ OwnInv
  BY CollectionInitEstablishes, OwnStarts DEF CollectionInit, Init
<1>2. AllHeldOwn /\ AllWorkOK
  BY AgreeStarts DEF CollectionInit, CollectorInit, AgreeInv
<1>3. JournalledHaveFiles /\ ~TwoAtWork
  BY DEF CollectionInit, RefreshInit, CycleInit, JournalledHaveFiles, TwoAtWork
<1> QED
  BY <1>1, <1>2, <1>3 DEF SharedInv

\* A refresh writes a row only over a response that is in a file, and a file only
\* where there was one.
LEMMA RefreshWrites ==
    ASSUME RefreshInv, JournalledHaveFiles, [RefreshNext]_vars, NEW j \in Jobs
    PROVE  /\ cache'[j] = NoRaw <=> cache[j] = NoRaw
           /\ \/ posting'[j] = posting[j]
              \/ /\ cache[j] # NoRaw /\ Fetched(j) /\ posting'[j].status = "fetched"
                 /\ \E o \in Ops : CommittedAs(o, posting[j].raw)'
<1>1. cache'[j] = NoRaw <=> cache[j] = NoRaw
  <2>1. CASE UNCHANGED cache
    BY <2>1
  <2>2. ASSUME NEW p \in Procs, Materialize(p)
        PROVE  cache'[j] = NoRaw <=> cache[j] = NoRaw
    <3>1. /\ op(p) \in Ops /\ row(p) # NoRow /\ tr[p] = row(p) /\ row(p).job = request[p].job
          /\ row(p).new \in Raws
      BY <2>2, MaterializedRow DEF Materialize
    <3>2. cache[request[p].job] # NoRaw
      BY <3>1 DEF JournalledHaveFiles, row
    <3>3. tr[p].new # NoRaw
      BY <3>1, NoRawAssumption
    <3> QED
      BY <2>2, <3>2, <3>3 DEF Materialize, RefreshInv, RefreshTypeOK, PostingTypeOK
  <2>3. UNCHANGED cache \/ \E p \in Procs : Materialize(p)
    BY DEF RefreshNext, Step, Call, ReadPosting, ReadCache, Begin, Reload, WriteOldObject,
       StartFetch, Fetch, FetchFails, MarkIndeterminate, ReadForRecord, RecordFetch,
       WriteNewObject, MarkObjectReady, Seal, CheckCurrent, WriteReceipt, Crash,
       vars, postingVars
  <2> QED
    BY <2>1, <2>2, <2>3
<1>2. CASE UNCHANGED posting
  BY <1>1, <1>2
<1>3. ASSUME NEW p \in Procs, NEW t \in Stamps, Seal(p, t), ~UNCHANGED posting
      PROVE  \/ posting'[j] = posting[j]
             \/ /\ cache[j] # NoRaw /\ Fetched(j) /\ posting'[j].status = "fetched"
                /\ \E o \in Ops : CommittedAs(o, posting[j].raw)'
  <2>1. row(p).status = "object_ready" /\ CurrentForSeal(row(p))
    BY <1>3 DEF Seal
  <2>2. PICK i \in Ops, r \in Rows :
              /\ r = journal[i] /\ r # NoRow /\ CurrentForSeal(r)
              /\ CommittedAs(i, r.new)'
              /\ posting'[r.job] = [status |-> "fetched", raw |-> r.new]
              /\ \A k \in Jobs \ {r.job} : posting'[k] = posting[k]
    BY <1>3, <2>1, SealCommits
  <2>3. CASE j = r.job
    <3>1. cache[j] # NoRaw /\ Fetched(j)
      BY <2>2, <2>3 DEF JournalledHaveFiles, CurrentForSeal
    <3>2. posting'[j].status = "fetched" /\ posting'[j].raw = r.new
      BY <2>2, <2>3
    <3>3. /\ journal'[i] # NoRow /\ journal'[i].status = "committed"
          /\ journal'[i].new = posting'[j].raw
      BY <2>2, <3>2 DEF CommittedAs
    <3> QED
      BY <3>1, <3>2, <3>3 DEF CommittedAs
  <2> QED
    BY <2>2, <2>3
<1>4. UNCHANGED posting \/ \E p \in Procs, t \in Stamps : Seal(p, t)
  BY DEF RefreshNext, Step, Call, ReadPosting, ReadCache, Begin, Reload, WriteOldObject,
     StartFetch, Fetch, FetchFails, MarkIndeterminate, ReadForRecord, RecordFetch,
     WriteNewObject, MarkObjectReady, CheckCurrent, Materialize, WriteReceipt, Crash,
     vars, postingVars
<1> QED
  BY <1>1, <1>2, <1>3, <1>4

\* Admission starts from the file, and the journal from the admission.
LEMMA FilesAreThere ==
    ASSUME RefreshInv, JournalledHaveFiles, [RefreshNext]_vars
    PROVE  JournalledHaveFiles'
<1>1. ASSUME NEW o \in Ops, journal'[o] # NoRow PROVE cache'[journal'[o].job] # NoRaw
  <2>1. CASE journal[o] # NoRow
    <3>1. journal'[o].job = journal[o].job /\ journal[o].job \in Jobs
      BY <1>1, <2>1, StepAdvances DEF RowAdvances, RefreshInv, RefreshTypeOK, Rows
    <3> QED
      BY <2>1, <3>1, RefreshWrites DEF JournalledHaveFiles
  <2>2. CASE journal[o] = NoRow
    <3>1. \A p \in Procs :
             (\/ StartFetch(p) \/ MarkIndeterminate(p) \/ RecordFetch(p) \/ MarkObjectReady(p)
              \/ \E t \in Stamps : Seal(p, t))
             => op(p) # o
      BY <2>2, AdmittedCall
         DEF StartFetch, MarkIndeterminate, RecordFetch, MarkObjectReady, Seal, Admitted, Loaded,
             Points, row
    <3>2. \A p \in Procs :
             (\/ StartFetch(p) \/ MarkIndeterminate(p) \/ RecordFetch(p) \/ MarkObjectReady(p)
              \/ \E t \in Stamps : Seal(p, t))
             => journal'[o] = journal[o]
      BY <3>1 DEF StartFetch, MarkIndeterminate, RecordFetch, MarkObjectReady, Seal, op,
         RefreshInv, RefreshTypeOK
    <3>3. PICK p \in Procs : Begin(p)
      BY <1>1, <2>2, <3>2
         DEF RefreshNext, Step, Call, ReadPosting, ReadCache, Reload, WriteOldObject, Fetch,
             FetchFails, ReadForRecord, WriteNewObject, CheckCurrent, Materialize, WriteReceipt,
             Crash, vars, refreshVars
    <3>4. pc[p] = "begin" /\ request[p].job \in Jobs /\ op(p) \in Ops
      BY <3>3, OpOfCall DEF Begin
    <3>5. o = op(p) /\ \E s : journal' = [journal EXCEPT ![op(p)] = s] /\ s.job = request[p].job
      BY <1>1, <2>2, <3>3 DEF Begin, op, RefreshInv, RefreshTypeOK
    <3>6. journal'[o].job = request[p].job
      BY <3>4, <3>5 DEF RefreshInv, RefreshTypeOK
    <3> QED
      BY <3>4, <3>6, RefreshWrites DEF JournalledHaveFiles
  <2> QED
    BY <2>1, <2>2
<1>2. ASSUME NEW q \in Procs, pc'[q] = "begin" PROVE cache'[request'[q].job] # NoRaw
  <2>1. CASE Rests(q)
    <3>1. pc[q] = "begin" /\ request'[q] = request[q] /\ request[q].job \in Jobs
      BY <1>2, <2>1, OpOfCall DEF Rests
    <3> QED
      BY <3>1, RefreshWrites DEF JournalledHaveFiles
  <2>2. CASE ReadCache(q)
    <3>1. /\ cache[request[q].job] # NoRaw /\ UNCHANGED cache /\ request'[q] = request[q]
      BY <1>2, <2>2 DEF ReadCache, Leave, Goto, postingVars, RefreshInv, RefreshTypeOK
    <3> QED
      BY <3>1
  <2> QED
    BY <1>2, <2>1, <2>2, ArrivesAt
<1> QED
  BY <1>1, <1>2 DEF JournalledHaveFiles

\* A refresh takes nothing from a collector that works alone.
LEMMA RefreshSparesWork ==
    ASSUME CollectorInv, AllWorkOK, RefreshInv, JournalledHaveFiles, [RefreshNext]_vars,
           UNCHANGED cycleVars
    PROVE  AllWorkOK'
<1> SUFFICES ASSUME NEW c \in Collectors PROVE WorkOK(c)'
  BY DEF AllWorkOK
<1>1. UNCHANGED <<at, todo, queue, job, response>>
  BY DEF cycleVars
<1>2. \A j \in Jobs : /\ cache'[j] = NoRaw <=> cache[j] = NoRaw
                      /\ Fetched(j) => Fetched(j)'
                      /\ cache[j] = NoRaw \/ Waiting(j) => posting'[j] = posting[j]
  BY RefreshWrites DEF Fetched, Waiting
<1>3. /\ WorkOK(c) /\ HandledOK(c) /\ queue[c] \subseteq Jobs
  BY DEF AllWorkOK, CollectorInv, CycleTypeOK
<1>4. at[c] \in {"restoring", "store", "save", "error"} => job[c] \in Jobs
  BY <1>3 DEF HandledOK, Handling
<1>5. ASSUME at[c] \in Importing, NEW j \in Jobs, cache'[j] # NoRaw
      PROVE  Fetched(j)' \/ j \in todo[c] \/ (at[c] # "import" /\ j = job[c])
  <2>1. Fetched(j) \/ j \in todo[c] \/ (at[c] # "import" /\ j = job[c])
    BY <1>2, <1>3, <1>5 DEF WorkOK
  <2> QED
    BY <1>2, <2>1
<1>7. ASSUME at[c] \in Cycling, NEW j \in Jobs, cache'[j] # NoRaw PROVE Fetched(j)'
  <2>1. Fetched(j)
    BY <1>2, <1>3, <1>7 DEF WorkOK
  <2> QED
    BY <1>2, <2>1
<1>6. /\ \A j \in queue[c] : Waiting(j)' /\ cache'[j] = NoRaw
      /\ at[c] \in {"restoring", "store"} => posting'[job[c]] = posting[job[c]]
      /\ at[c] \in {"store", "save", "error"} => cache'[job[c]] = NoRaw
      /\ at[c] = "save" => posting'[job[c]] = posting[job[c]]
  BY <1>2, <1>3, <1>4 DEF WorkOK, Waiting
<1> QED
  BY <1>1, <1>3, <1>5, <1>6, <1>7 DEF WorkOK, Waiting

\* The row of a committed response is left alone by whoever collects alone.
LEMMA SoleCollectorSpares ==
    ASSUME SharedInv, NEW c \in Collectors, AllWorkOK,
           \/ \E listed \in SUBSET Jobs : Run(c, listed)
           \/ Import(c) \/ Cycle(c) \/ Kill(c),
           NEW j \in Jobs, Fetched(j), CommittedResponse(posting[j].raw)
    PROVE  posting'[j] = posting[j]
<1>1. PostingTypeOK /\ WorkOK(c) /\ HandledOK(c) /\ HeldOwn(c)
  BY DEF SharedInv, CollectionInv, CollectorInv, CycleTypeOK, AllWorkOK, AllHeldOwn
<1>2. cache[j] # NoRaw
  <2>1. PICK o \in Ops : Committed(o) /\ journal[o].new = posting[j].raw
    BY DEF CommittedResponse
  <2>2. journal[o] # NoRow /\ journal[o].new \in Raws
    BY <2>1 DEF Committed, SharedInv, CollectionInv, RefreshInv, RowOK, Complete
  <2>3. journal[o].new # NoRaw
    BY <2>2, NoRawAssumption
  <2>4. journal[o].job = j
    BY <2>1, <2>2, <2>3 DEF SharedInv, OwnInv, AnswersAreOwn, RowsHoldOwnResponse
  <2> QED
    BY <2>2, <2>4 DEF SharedInv, JournalledHaveFiles
<1>3. ASSUME NEW js \in SUBSET Jobs, posting' = WithDiscovered(js) PROVE posting'[j] = posting[j]
  BY <1>1, <1>3, WithDiscoveredRows DEF Fetched
<1>4. CASE StoreCached(c) \/ StoreRaw(c)
  <2>1. /\ job[c] \in Jobs /\ response[c] \in Raws /\ response[c].key = job[c]
        /\ posting' = WithRaw(response[c]) /\ Waiting(job[c])
    BY <1>1, <1>4 DEF StoreCached, StoreRaw, HandledOK, Handling, Holding, HeldOwn, WorkOK
  <2>2. j # job[c]
    BY <2>1 DEF Waiting, Fetched
  <2> QED
    BY <1>1, <2>1, <2>2, WithRawRows
<1>5. CASE RecordError(c)
  <2>1. job[c] \in Jobs /\ posting' = WithError(job[c]) /\ cache[job[c]] = NoRaw
    BY <1>1, <1>5 DEF RecordError, HandledOK, Handling, WorkOK
  <2>2. j # job[c]
    BY <1>2, <2>1
  <2> QED
    BY <1>1, <2>1, <2>2, WithErrorRows
<1> QED
  BY <1>3, <1>4, <1>5, CycleWrites DEF SharedInv, CollectionInv

\* Collectors store a response in the row of its own vacancy.
LEMMA CollectorsKeepOwn ==
    ASSUME CollectorInv, RowsHoldOwnResponse, NEW c \in Collectors,
           \/ \E listed \in SUBSET Jobs : Run(c, listed)
           \/ Import(c) \/ Cycle(c) \/ Kill(c)
    PROVE  RowsHoldOwnResponse'
<1>1. PostingTypeOK /\ HandledOK(c)
  BY DEF CollectorInv, CycleTypeOK
<1> SUFFICES ASSUME NEW j \in Jobs, posting'[j].raw # NoRaw PROVE posting'[j].raw.key = j
  BY DEF RowsHoldOwnResponse
<1>2. posting[j].raw # NoRaw => posting[j].raw.key = j
  BY DEF RowsHoldOwnResponse
<1>3. ASSUME NEW js \in SUBSET Jobs, posting' = WithDiscovered(js) PROVE posting'[j].raw.key = j
  <2>1. posting'[j] = posting[j] \/ posting'[j].raw = NoRaw
    BY <1>1, <1>3, WithDiscoveredRows
  <2> QED
    BY <1>2, <2>1
<1>4. CASE StoreCached(c) \/ StoreRaw(c)
  <2>1. response[c] \in Raws /\ posting' = WithRaw(response[c])
    BY <1>1, <1>4 DEF StoreCached, StoreRaw, HandledOK, Holding
  <2>2. \/ posting'[j] = posting[j]
        \/ j = response[c].key /\ posting'[j] = [status |-> "fetched", raw |-> response[c]]
    BY <1>1, <2>1, WithRawRows
  <2> QED
    BY <1>2, <2>2
<1>5. CASE RecordError(c)
  <2>1. job[c] \in Jobs /\ posting' = WithError(job[c])
    BY <1>1, <1>5 DEF RecordError, HandledOK, Handling
  <2>2. posting'[j].raw = posting[j].raw
    BY <1>1, <2>1, WithErrorRows
  <2> QED
    BY <1>2, <2>2
<1> QED
  BY <1>2, <1>3, <1>4, <1>5, CycleWrites

\* ... and never take a file away.
LEMMA CollectorsKeepFiles ==
    ASSUME CollectorInv, NEW c \in Collectors,
           \/ \E listed \in SUBSET Jobs : Run(c, listed)
           \/ Import(c) \/ Cycle(c) \/ Kill(c),
           NEW j \in Jobs, cache[j] # NoRaw
    PROVE  cache'[j] # NoRaw
<1>1. CASE UNCHANGED cache
  BY <1>1
<1>2. CASE SaveRaw(c)
  <2>1. /\ response[c] \in Raws /\ cache' = [cache EXCEPT ![job[c]] = response[c]]
        /\ cache \in [Jobs -> Raws \cup {NoRaw}]
    BY <1>2 DEF SaveRaw, CollectorInv, CycleTypeOK, PostingTypeOK, HandledOK, Holding
  <2>2. response[c] # NoRaw
    BY <2>1, NoRawAssumption
  <2> QED
    BY <2>1, <2>2
<1> QED
  BY <1>1, <1>2, CycleWrites

\* A collector that acts while no two are at work is the only one.
LEMMA SoleAtWork ==
    ASSUME CollectorInv, ~TwoAtWork, ~TwoAtWork', NEW c \in Collectors,
           \/ \E listed \in SUBSET Jobs : Run(c, listed)
           \/ Import(c) \/ Cycle(c) \/ Kill(c)
    PROVE  OnlyAtWork(c)
<1> SUFFICES ASSUME NEW d \in Collectors \ {c}, at[d] # "idle" PROVE FALSE
  BY DEF OnlyAtWork
<1>1. at'[d] = at[d] /\ at[c] = "idle"
  BY OthersStay DEF TwoAtWork
<1>2. \E listed \in SUBSET Jobs : Run(c, listed)
  BY <1>1 DEF Import, Cycle, Kill, ReadCached, ImportCached, StoreCached, EndImport, BeginCycle,
     Discover, EndDiscovery, FetchRow, FetchRowFails, StoreRaw, SaveRaw, StoreFails, RecordError,
     EndCycle
<1>3. at'[c] = "import"
  BY <1>2 DEF Run, Enter, CollectorInv, CycleTypeOK
<1> QED
  BY <1>1, <1>3 DEF TwoAtWork

\* A committed operation keeps its response.
LEMMA CommittedStays ==
    ASSUME RefreshInv, [RefreshNext]_vars, NEW o \in Ops, Committed(o)
    PROVE  Committed(o)' /\ journal'[o].new = journal[o].new
<1>1. journal[o].new # NoRaw
  BY NoRawAssumption DEF Committed, RefreshInv, RowOK, Complete
<1> QED
  BY <1>1, StepAdvances DEF RowAdvances, Committed, Progressions

\* One step of both components together keeps all of this.
LEMMA SharedStep ==
    ASSUME SharedInv, [CollectionNext]_collectionVars
    PROVE  SharedInv'
<1> USE DEF SharedInv
<1>1. CollectionInv'
  BY CollectionStep
<1>2. ASSUME [RefreshNext]_vars, UNCHANGED <<cycleVars, concurrent>> PROVE SharedInv'
  <2>1. OwnInv' /\ JournalledHaveFiles'
    BY <1>2, OwnStep, FilesAreThere DEF CollectionInv
  <2>2. AllHeldOwn' /\ (~TwoAtWork => ~TwoAtWork')
    BY <1>2 DEF AllHeldOwn, HeldOwn, TwoAtWork, cycleVars
  <2>3. AllWorkOK => AllWorkOK'
    BY <1>2, RefreshSparesWork DEF CollectionInv
  <2> QED
    BY <1>1, <1>2, <2>1, <2>2, <2>3
<1>3. ASSUME CycleNext, UNCHANGED refreshVars, concurrent' = (concurrent \/ TwoAtWork')
      PROVE  SharedInv'
  <2>1. PICK c \in Collectors : \/ \E listed \in SUBSET Jobs : Run(c, listed)
                               \/ Import(c) \/ Cycle(c) \/ Kill(c)
    BY <1>3 DEF CycleNext
  <2>2. CollectorInv /\ PostingTypeOK /\ HandledOK(c) /\ HeldOwn(c)
    BY DEF CollectionInv, CollectorInv, CycleTypeOK, AllHeldOwn
  <2>3. AllHeldOwn' /\ FilesHoldOwnResponse'
    BY <1>3, <2>2, CycleKeepsOwn DEF OwnInv
  <2>4. AnswersAreOwn'
    BY <1>3 DEF OwnInv, AnswersAreOwn, refreshVars
  <2>5. RowsHoldOwnResponse'
    BY <2>1, <2>2, CollectorsKeepOwn DEF OwnInv
  <2>6. \A j \in Jobs : cache[j] # NoRaw => cache'[j] # NoRaw
    BY <2>1, <2>2, CollectorsKeepFiles
  <2>7. JournalledHaveFiles'
    <3>1. /\ \A o \in Ops : journal[o] # NoRow => journal[o].job \in Jobs
          /\ \A p \in Procs : pc[p] = "begin" => request[p].job \in Jobs
      BY OpOfCall DEF CollectionInv, RefreshInv, RefreshTypeOK, Rows
    <3> QED
      BY <1>3, <2>6, <3>1 DEF JournalledHaveFiles, refreshVars
  <2>8. ASSUME ~concurrent' PROVE AllWorkOK' /\ ~TwoAtWork'
    <3>1. ~concurrent /\ ~TwoAtWork' /\ AllWorkOK /\ ~TwoAtWork
      BY <1>3, <2>8
    <3>2. OnlyAtWork(c)
      BY <2>1, <2>2, <3>1, SoleAtWork
    <3> QED
      BY <2>1, <2>2, <3>1, <3>2, SoleStep
  <2> QED
    BY <1>1, <2>3, <2>4, <2>5, <2>7, <2>8 DEF OwnInv
<1>4. UNCHANGED collectionVars => UNCHANGED vars /\ UNCHANGED <<cycleVars, concurrent>>
  BY DEF collectionVars, vars
<1> QED
  BY <1>2, <1>3, <1>4 DEF CollectionNext

\* Each row keeps a response of its own vacancy, whoever writes it.
THEOREM CollectionRowsHoldOwn == CollectionSpec => []RowsHoldOwnResponse
<1>1. SharedInv => RowsHoldOwnResponse
  BY DEF SharedInv, OwnInv
<1> QED
  BY <1>1, SharedStarts, SharedStep, PTL DEF CollectionSpec

\* While collectors do not overlap, what a refresh committed stays: a row has a
\* committed response only if its vacancy has a file, and a sole collector writes
\* only rows of vacancies that had neither a response nor a file.
THEOREM RefreshedStays == CollectionSpec => RefreshedStaysRefreshed
<1> DEFINE A == \A j \in Jobs :
        ~concurrent' /\ Fetched(j) /\ CommittedResponse(posting[j].raw) =>
            Fetched(j)' /\ CommittedResponse(posting[j].raw)'
<1>1. SharedInv /\ [CollectionNext]_collectionVars => [A]_collectionVars
  <2> SUFFICES ASSUME SharedInv, [CollectionNext]_collectionVars, NEW j \in Jobs,
                      ~concurrent', Fetched(j), CommittedResponse(posting[j].raw)
               PROVE  Fetched(j)' /\ CommittedResponse(posting[j].raw)'
    OBVIOUS
  <2>1. PICK o \in Ops : Committed(o) /\ journal[o].new = posting[j].raw
    BY DEF CommittedResponse
  <2>2. ASSUME [RefreshNext]_vars PROVE Committed(o)' /\ journal'[o].new = journal[o].new
    BY <2>1, <2>2, CommittedStays DEF SharedInv, CollectionInv
  <2>3. CASE [RefreshNext]_vars
    <3>1. CASE posting'[j] = posting[j]
      BY <2>1, <2>2, <2>3, <3>1 DEF CommittedResponse, Fetched
    <3>2. CASE posting'[j].status = "fetched" /\ \E i \in Ops : CommittedAs(i, posting[j].raw)'
      BY <3>2 DEF CommittedResponse, Committed, CommittedAs, Fetched
    <3> QED
      BY <2>3, <3>1, <3>2, RefreshWrites DEF SharedInv, CollectionInv
  <2>4. CASE CycleNext /\ UNCHANGED refreshVars /\ concurrent' = (concurrent \/ TwoAtWork')
    <3>1. AllWorkOK
      BY <2>4 DEF SharedInv
    <3>2. posting'[j] = posting[j]
      BY <2>4, <3>1, SoleCollectorSpares DEF CycleNext
    <3> QED
      BY <2>1, <2>4, <3>2 DEF CommittedResponse, Committed, Fetched, refreshVars
  <2>5. UNCHANGED collectionVars => [RefreshNext]_vars
    BY DEF collectionVars, vars
  <2> QED
    BY <2>3, <2>4, <2>5 DEF CollectionNext
<1> QED
  BY <1>1, SharedStarts, SharedStep, PTL DEF CollectionSpec, RefreshedStaysRefreshed
===============================================================================
