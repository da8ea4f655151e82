---------------------------- MODULE VacancyRefresh ----------------------------
(***************************************************************************)
(* `Collector.refresh_vacancy` (collectors/engine.py) over the journal     *)
(* `vacancy_refreshes` (state/vacancies.py): refetch one vacancy from its  *)
(* official source exactly once, however often the operation is replayed.  *)
(*                                                                         *)
(* Every process is one run of `market-aligner refresh-vacancy`.  Nothing  *)
(* but SQLite transactions keeps processes apart, so each transaction,     *)
(* each file operation and the official fetch is a step of its own.  A     *)
(* process that raises or is killed returns to "idle" and loses its        *)
(* locals; the journal, the objects, the postings and the cache survive.   *)
(***************************************************************************)
EXTENDS Postings, Naturals

CONSTANTS
    Ops,        \* operation identities chosen by the operator
    Procs,      \* processes that may run refresh_vacancy at the same time
    Requests,   \* calls an operator may make: [op, job, expected]
    MaxCrashes, \* bound on Crash: process deaths in one behaviour
    NoRow,      \* the operation has no journal row
    NoRequest,  \* a process that executes no call
    NoReceipt   \* a row that is not committed

VARIABLES
    journal,    \* journal[o]: row of vacancy_refreshes, or NoRow
    objects,    \* content-addressed objects that are durable
    receipts,   \* external receipt files
    fetches,    \* fetches[o]: official fetches made for o (history variable)
    crashes,    \* process deaths so far (bounded by MaxCrashes)
    pc,         \* pc[p]: what process p does next
    request,    \* request[p]: the arguments of p's call
    tr,         \* tr[p]: p's snapshot `transition` of the journal row
    raw         \* raw[p]: bytes p holds (the old response, then the fetched one)

refreshVars == <<journal, objects, receipts, fetches, crashes, pc, request, tr, raw>>
vars == <<postingVars, refreshVars>>

Blocking == {"intent", "fetch_started", "indeterminate", "fetched", "object_ready"}
PreFetch == {"intent", "fetch_started", "indeterminate"}
Complete == {"fetched", "object_ready", "committed"}
Statuses == PreFetch \cup Complete

Sealed == [op: Ops, old: Raws, new: Raws, changed: BOOLEAN, finished: Stamps]

Rows == [job: Jobs, expected: Contents, status: Statuses, old: Raws,
         new: Raws \cup {NoRaw}, receipt: Sealed \cup {NoReceipt}]

ASSUME RefreshAssumption ==
    /\ Requests \subseteq [op: Ops, job: Jobs, expected: Contents]
    /\ NoRow \notin Rows
    /\ NoRequest \notin Requests
    /\ NoReceipt \notin Sealed
    /\ MaxCrashes \in Nat

Points == {"idle", "posting", "cache", "begin", "begun", "objects", "start",
           "claimed", "fetch", "record", "journalling", "recorded", "abandon",
           "object", "ready", "readied", "seal", "sealed", "check",
           "materialize", "receipt"}

RefreshTypeOK ==
    /\ journal \in [Ops -> Rows \cup {NoRow}]
    /\ objects \subseteq Raws
    /\ receipts \subseteq Sealed
    /\ fetches \in [Ops -> Nat]
    /\ crashes \in 0..MaxCrashes
    /\ pc \in [Procs -> Points]
    /\ request \in [Procs -> Requests \cup {NoRequest}]
    /\ tr \in [Procs -> Rows \cup {NoRow}]
    /\ raw \in [Procs -> Raws \cup {NoRaw}]
    /\ PostingTypeOK

RefreshInit ==
    /\ journal = [o \in Ops |-> NoRow]
    /\ objects = {}
    /\ receipts = {}
    /\ fetches = [o \in Ops |-> 0]
    /\ crashes = 0
    /\ pc = [p \in Procs |-> "idle"]
    /\ request = [p \in Procs |-> NoRequest]
    /\ tr = [p \in Procs |-> NoRow]
    /\ raw = [p \in Procs |-> NoRaw]

-------------------------------------------------------------------------------
(***************************************************************************)
(* How a process moves through refresh_vacancy.                            *)
(***************************************************************************)
op(p) == request[p].op
row(p) == journal[op(p)]

\* The call ends, by returning or by raising: its locals are gone.
Leave(p) ==
    /\ pc' = [pc EXCEPT ![p] = "idle"]
    /\ request' = [request EXCEPT ![p] = NoRequest]
    /\ tr' = [tr EXCEPT ![p] = NoRow]
    /\ raw' = [raw EXCEPT ![p] = NoRaw]

Goto(p, point) ==
    /\ pc' = [pc EXCEPT ![p] = point]
    /\ UNCHANGED <<request, tr>>

\* Go on to a point when ok, or leave where the code raises.
GotoOrLeave(p, ok, point) ==
    IF ok THEN Goto(p, point) /\ UNCHANGED raw ELSE Leave(p)

\* The journalled context is the one of this call.
SameContext(r, q) == r.job = q.job /\ r.expected = q.expected

AfterFetchNoReplay(status) ==      \* mutant: a committed operation is not answered again
    CASE status = "fetched"      -> "object"
      [] status = "object_ready" -> "seal"
      [] OTHER                   -> "idle"

\* The tests on `status` after the fetch section.
AfterFetch(status) ==
    CASE status = "fetched"      -> "object"
      [] status = "object_ready" -> "seal"
      [] status = "committed"    -> "check"
      [] OTHER                   -> "idle"

ResumeNoMark(status) ==      \* mutant: an unresolved window is refused but not marked
    IF status = "intent" THEN "start" ELSE AfterFetch(status)

\* The tests on `status` of a transition that this call did not fetch.
Resume(status) ==
    CASE status = "intent"        -> "start"
      [] status = "fetch_started" -> "abandon"
      [] OTHER                    -> AfterFetch(status)

\* _verify_refresh_objects: the objects the transition claims are readable.
ObjectsVerified(r) ==
    /\ r.old \in objects
    /\ r.status \in {"object_ready", "committed"} => r.new \in objects

-------------------------------------------------------------------------------
(***************************************************************************)
(* Admission: from the call to the journalled intent.                      *)
(***************************************************************************)

\* The call reads the operation's row; another context for the same id raises.
Call(p, q) ==
    /\ pc[p] = "idle"
    /\ journal[q.op] # NoRow => SameContext(journal[q.op], q)
    /\ pc' = [pc EXCEPT ![p] = IF journal[q.op] = NoRow THEN "posting" ELSE "objects"]
    /\ request' = [request EXCEPT ![p] = q]
    /\ tr' = [tr EXCEPT ![p] = journal[q.op]]
    /\ UNCHANGED <<postingVars, journal, objects, receipts, fetches, crashes, raw>>

ReadPosting(p) ==
    /\ pc[p] = "posting"
    /\ LET j == request[p].job IN
       GotoOrLeave(p, Fetched(j) /\ posting[j].raw.content = request[p].expected, "cache")
    /\ UNCHANGED <<postingVars, journal, objects, receipts, fetches, crashes>>

ReadCache(p) ==
    /\ pc[p] = "cache"
    /\ LET old == cache[request[p].job] IN
       IF old = NoRaw
       THEN Leave(p)
       ELSE Goto(p, "begin") /\ raw' = [raw EXCEPT ![p] = old]
    /\ UNCHANGED <<postingVars, journal, objects, receipts, fetches, crashes>>

\* An operation of this vacancy that bars another one from starting.
Blocked(j) ==
    \E o \in Ops : journal[o] # NoRow /\ journal[o].job = j /\ journal[o].status \in Blocking

AdmissibleUnblocked(q, old) ==      \* mutant: no look at the vacancy's other operations
    /\ Fetched(q.job)
    /\ posting[q.job].raw.content = q.expected
    /\ posting[q.job].raw = old

\* begin_vacancy_refresh, one BEGIN IMMEDIATE transaction.
Admissible(q, old) ==
    /\ ~Blocked(q.job)
    /\ Fetched(q.job)
    /\ posting[q.job].raw.content = q.expected
    /\ posting[q.job].raw = old

Begin(p) ==
    /\ pc[p] = "begin"
    /\ raw' = [raw EXCEPT ![p] = NoRaw]
    /\ LET q == request[p] IN
       \/ /\ row(p) # NoRow
          /\ SameContext(row(p), q)
          /\ Goto(p, "begun")
          /\ UNCHANGED journal
       \/ /\ row(p) = NoRow
          /\ Admissible(q, raw[p])
          /\ journal' = [journal EXCEPT ![q.op] =
                [job |-> q.job, expected |-> q.expected, status |-> "intent",
                 old |-> raw[p], new |-> NoRaw, receipt |-> NoReceipt]]
          /\ Goto(p, "begun")
       \/ /\ IF row(p) = NoRow THEN ~Admissible(q, raw[p]) ELSE ~SameContext(row(p), q)
          /\ Leave(p)
          /\ UNCHANGED journal
    /\ UNCHANGED <<postingVars, objects, receipts, fetches, crashes>>

-------------------------------------------------------------------------------
(***************************************************************************)
(* Every load of the row after a transaction, and where the call goes on.  *)
(***************************************************************************)
AfterReload(point, status) ==
    CASE point = "begun"    -> "objects"
      [] point = "claimed"  -> IF status = "fetch_started" THEN "fetch" ELSE "idle"
      [] point = "recorded" -> AfterFetch(status)
      [] point = "readied"  -> IF status = "fetched" THEN "idle" ELSE AfterFetch(status)
      [] point = "sealed"   -> IF status = "committed" THEN "check" ELSE "idle"

Proceed(p, point) ==
    IF point = "idle" THEN Leave(p)
    ELSE /\ pc' = [pc EXCEPT ![p] = point]
         /\ tr' = [tr EXCEPT ![p] = row(p)]
         /\ raw' = [raw EXCEPT ![p] = NoRaw]
         /\ UNCHANGED request

Reload(p) ==
    /\ pc[p] \in {"begun", "claimed", "recorded", "readied", "sealed"}
    /\ IF pc[p] = "begun" \/ ObjectsVerified(row(p))
       THEN Proceed(p, AfterReload(pc[p], row(p).status))
       ELSE Leave(p)
    /\ UNCHANGED <<postingVars, journal, objects, receipts, fetches, crashes>>

-------------------------------------------------------------------------------
(***************************************************************************)
(* The official fetch.                                                     *)
(***************************************************************************)

\* _write_refresh_object of the old response: temporary file, fsync, rename.
WriteOldObject(p) ==
    /\ pc[p] = "objects"
    /\ objects' = objects \cup {tr[p].old}
    /\ LET next == Resume(tr[p].status) IN
       IF next # "idle" /\ (tr[p].status \in {"object_ready", "committed"} => tr[p].new \in objects)
       THEN Goto(p, next) /\ UNCHANGED raw
       ELSE Leave(p)
    /\ UNCHANGED <<postingVars, journal, receipts, fetches, crashes>>

StartFetchAgain(p) ==      \* mutant: an unresolved window may be entered again
    /\ pc[p] = "start"
    /\ journal' = [journal EXCEPT ![op(p)].status = "fetch_started"]
    /\ Goto(p, "claimed")
    /\ UNCHANGED <<postingVars, objects, receipts, fetches, crashes, raw>>

\* start_vacancy_refresh_fetch: the window is entered at most once.
StartFetch(p) ==
    /\ pc[p] = "start"
    /\ IF row(p).status = "intent"
       THEN /\ Goto(p, "claimed")
            /\ journal' = [journal EXCEPT ![op(p)].status = "fetch_started"]
            /\ UNCHANGED raw
       ELSE Leave(p) /\ UNCHANGED journal
    /\ UNCHANGED <<postingVars, objects, receipts, fetches, crashes>>

\* adapter.fetch answers with some response, possibly of another vacancy.
Fetch(p, response) ==
    /\ pc[p] = "fetch"
    /\ fetches' = [fetches EXCEPT ![op(p)] = @ + 1]
    /\ raw' = [raw EXCEPT ![p] = response]
    /\ Goto(p, "record")
    /\ UNCHANGED <<postingVars, journal, objects, receipts, crashes>>

\* adapter.fetch raises.
FetchFails(p) ==
    /\ pc[p] = "fetch"
    /\ fetches' = [fetches EXCEPT ![op(p)] = @ + 1]
    /\ Goto(p, "abandon")
    /\ UNCHANGED <<postingVars, journal, objects, receipts, crashes, raw>>

\* mark_vacancy_refresh_indeterminate; the call raises in any case.
MarkIndeterminate(p) ==
    /\ pc[p] = "abandon"
    /\ journal' = IF row(p).status = "fetch_started"
                  THEN [journal EXCEPT ![op(p)].status = "indeterminate"]
                  ELSE journal
    /\ Leave(p)
    /\ UNCHANGED <<postingVars, objects, receipts, fetches, crashes>>

ReadAnyForRecord(p) ==      \* mutant: no look at the vacancy that answered
    /\ pc[p] = "record"
    /\ IF row(p).status = "fetch_started"
       THEN Goto(p, "journalling") /\ UNCHANGED raw
       ELSE GotoOrLeave(p, row(p).new = raw[p], "recorded")
    /\ UNCHANGED <<postingVars, journal, objects, receipts, fetches, crashes>>

\* record_vacancy_refresh_fetch reads the row in autocommit ...
ReadForRecord(p) ==
    /\ pc[p] = "record"
    /\ IF raw[p].key # request[p].job
       THEN Goto(p, "abandon") /\ UNCHANGED raw
       ELSE IF row(p).status = "fetch_started"
            THEN Goto(p, "journalling") /\ UNCHANGED raw
            ELSE GotoOrLeave(p, row(p).new = raw[p], "recorded")
    /\ UNCHANGED <<postingVars, journal, objects, receipts, fetches, crashes>>

RecordLateFetch(p) ==      \* mutant: UPDATE without the status in its WHERE
    /\ pc[p] = "journalling"
    /\ journal' = [journal EXCEPT ![op(p)].status = "fetched", ![op(p)].new = raw[p]]
    /\ Goto(p, "recorded")
    /\ UNCHANGED <<postingVars, objects, receipts, fetches, crashes, raw>>

\* ... and updates it where it is still fetch_started, whatever the row count.
RecordFetch(p) ==
    /\ pc[p] = "journalling"
    /\ journal' = IF row(p).status = "fetch_started"
                  THEN [journal EXCEPT ![op(p)].status = "fetched", ![op(p)].new = raw[p]]
                  ELSE journal
    /\ Goto(p, "recorded")
    /\ UNCHANGED <<postingVars, objects, receipts, fetches, crashes, raw>>

-------------------------------------------------------------------------------
(***************************************************************************)
(* From the fetched bytes to the commit.                                   *)
(***************************************************************************)
MaterializeEarly(p) ==      \* mutant: the cache is replaced before the commit
    /\ pc[p] = "object"
    /\ objects' = objects \cup {tr[p].new}
    /\ cache' = [cache EXCEPT ![request[p].job] = tr[p].new]
    /\ Goto(p, "ready")
    /\ UNCHANGED <<posting, journal, receipts, fetches, crashes, raw>>

SkipNewObject(p) ==      \* mutant: ready before the object is durable
    /\ pc[p] = "object"
    /\ Goto(p, "ready")
    /\ UNCHANGED <<postingVars, journal, objects, receipts, fetches, crashes, raw>>

WriteNewObject(p) ==
    /\ pc[p] = "object"
    /\ objects' = objects \cup {tr[p].new}
    /\ Goto(p, "ready")
    /\ UNCHANGED <<postingVars, journal, receipts, fetches, crashes, raw>>

\* mark_vacancy_refresh_object_ready
MarkObjectReady(p) ==
    /\ pc[p] = "ready"
    /\ IF row(p).new = tr[p].new /\ row(p).status \in Complete
       THEN Goto(p, "readied") /\ UNCHANGED raw
       ELSE Leave(p)
    /\ journal' = IF row(p).new = tr[p].new /\ row(p).status = "fetched"
                  THEN [journal EXCEPT ![op(p)].status = "object_ready"]
                  ELSE journal
    /\ UNCHANGED <<postingVars, objects, receipts, fetches, crashes>>

CurrentForSeal(r) == Fetched(r.job) /\ posting[r.job].raw.content = r.expected

\* The row sealed at time `finished`, with its receipt basis.
SealedRow(o, r, finished) ==
    [r EXCEPT !.status = "committed",
              !.receipt = [op |-> o, old |-> r.old, new |-> r.new,
                           changed |-> r.new.content # r.old.content,
                           finished |-> finished]]

\* The posting is updated under the journalled vacancy key.
Refreshed(r) == [posting EXCEPT ![r.job] = [status |-> "fetched", raw |-> r.new]]

SealBlindly(p, finished) ==      \* mutant: no compare in the compare-and-swap
    /\ pc[p] = "seal"
    /\ IF row(p).status = "object_ready"
       THEN /\ journal' = [journal EXCEPT ![op(p)] = SealedRow(op(p), row(p), finished)]
            /\ posting' = Refreshed(row(p))
       ELSE UNCHANGED <<journal, posting>>
    /\ GotoOrLeave(p, row(p).status \in {"object_ready", "committed"}, "sealed")
    /\ UNCHANGED <<cache, objects, receipts, fetches, crashes>>

\* seal_vacancy_refresh, one BEGIN IMMEDIATE transaction over row and posting.
Seal(p, finished) ==
    /\ pc[p] = "seal"
    /\ IF row(p).status = "object_ready" /\ CurrentForSeal(row(p))
       THEN /\ journal' = [journal EXCEPT ![op(p)] = SealedRow(op(p), row(p), finished)]
            /\ posting' = Refreshed(row(p))
            /\ Goto(p, "sealed") /\ UNCHANGED raw
       ELSE /\ GotoOrLeave(p, row(p).status = "committed", "sealed")
            /\ UNCHANGED <<journal, posting>>
    /\ UNCHANGED <<cache, objects, receipts, fetches, crashes>>

-------------------------------------------------------------------------------
(***************************************************************************)
(* After the commit: the convenience cache and the external receipt.       *)
(***************************************************************************)
SkipCheck(p) ==      \* mutant: a superseded replay goes on to the cache
    /\ pc[p] = "check"
    /\ Goto(p, "materialize") /\ UNCHANGED raw
    /\ UNCHANGED <<postingVars, journal, objects, receipts, fetches, crashes>>

\* A committed refresh that another response superseded is not materialized.
CheckCurrent(p) ==
    /\ pc[p] = "check"
    /\ LET j == request[p].job IN
       GotoOrLeave(p, Fetched(j) /\ posting[j].raw.content = tr[p].new.content
                                /\ posting[j].raw.at = tr[p].new.at, "materialize")
    /\ UNCHANGED <<postingVars, journal, objects, receipts, fetches, crashes>>

\* _replace_durable_bytes
Materialize(p) ==
    /\ pc[p] = "materialize"
    /\ cache' = [cache EXCEPT ![request[p].job] = tr[p].new]
    /\ Goto(p, "receipt")
    /\ UNCHANGED <<posting, journal, objects, receipts, fetches, crashes, raw>>

\* CollectionService.refresh_vacancy compares the file and writes the receipt.
WriteReceipt(p) ==
    /\ pc[p] = "receipt"
    /\ receipts' = IF cache[request[p].job] = tr[p].new
                   THEN receipts \cup {tr[p].receipt}
                   ELSE receipts
    /\ Leave(p)
    /\ UNCHANGED <<postingVars, journal, objects, fetches, crashes>>

-------------------------------------------------------------------------------
\* The process dies, or a call it makes raises, at any point of the code.
Crash(p) ==
    /\ pc[p] # "idle"
    /\ crashes < MaxCrashes
    /\ crashes' = crashes + 1
    /\ Leave(p)
    /\ UNCHANGED <<postingVars, journal, objects, receipts, fetches>>

Step(p) ==
    \/ ReadPosting(p) \/ ReadCache(p) \/ Begin(p) \/ Reload(p)
    \/ WriteOldObject(p) \/ StartFetch(p)
    \/ \E r \in Raws : Fetch(p, r)
    \/ FetchFails(p) \/ MarkIndeterminate(p) \/ ReadForRecord(p) \/ RecordFetch(p)
    \/ WriteNewObject(p) \/ MarkObjectReady(p)
    \/ \E t \in Stamps : Seal(p, t)
    \/ CheckCurrent(p) \/ Materialize(p) \/ WriteReceipt(p)

RefreshNext ==
    \E p \in Procs :
        \/ \E q \in Requests : Call(p, q)
        \/ Step(p)
        \/ Crash(p)

Init == PostingInit /\ RefreshInit

Spec == Init /\ [][RefreshNext]_vars

\* Processes keep running and the operator keeps replaying each operation.
Fairness ==
    \A p \in Procs :
        /\ WF_vars(Step(p))
        /\ \A q \in Requests : SF_vars(Call(p, q))

FairSpec == Spec /\ Fairness

-------------------------------------------------------------------------------
(***************************************************************************)
(* What a refresh promises.                                                *)
(***************************************************************************)

\* The official source is asked at most once for an operation, however often
\* and by however many processes it is replayed; no fetch precedes the durable
\* window, and a journalled response stems from exactly one fetch
\* ("official_fetch_count": 1 of the sealed receipt).
OfficialFetchCount ==
    \A o \in Ops :
        /\ fetches[o] <= 1
        /\ journal[o] = NoRow \/ journal[o].status = "intent" => fetches[o] = 0
        /\ journal[o] # NoRow /\ journal[o].status \in Complete => fetches[o] = 1

\* Two operations are never active, or unreconciled, on the same vacancy.
OneActiveRefresh ==
    \A o1, o2 \in Ops :
        /\ journal[o1] # NoRow /\ journal[o1].status \in Blocking
        /\ journal[o2] # NoRow /\ journal[o2].status \in Blocking
        /\ journal[o1].job = journal[o2].job
        => o1 = o2

\* The bytes a refresh may have to prove are durable before the step that
\* depends on them: the old response before the official fetch, the new one
\* before the commit, so a crash in between loses neither.
ResponsesAreDurable ==
    \A o \in Ops : journal[o] # NoRow =>
        /\ journal[o].status # "intent" => journal[o].old \in objects
        /\ journal[o].status \in {"object_ready", "committed"} => journal[o].new \in objects

\* A receipt file repeats the sealed receipt of a committed operation, so an
\* operation never has two different receipts, whichever process wrote them.
ReceiptsAreSealed ==
    \A r \in receipts :
        /\ journal[r.op] # NoRow
        /\ journal[r.op].status = "committed"
        /\ journal[r.op].receipt = r

Progressions ==
    [intent        |-> {"intent", "fetch_started"},
     fetch_started |-> {"fetch_started", "indeterminate", "fetched"},
     indeterminate |-> {"indeterminate"},
     fetched       |-> {"fetched", "object_ready"},
     object_ready  |-> {"object_ready", "committed"},
     committed     |-> {"committed"}]

\* A journal row only advances, and what it has recorded never changes: its
\* context and old response, a journalled response, a sealed receipt.  In
\* particular a late answer never revives an indeterminate operation.
JournalOnlyAdvances ==
    [][\A o \in Ops : journal[o] # NoRow =>
        /\ journal'[o] # NoRow
        /\ journal'[o].status \in Progressions[journal[o].status]
        /\ journal'[o].job = journal[o].job
        /\ journal'[o].expected = journal[o].expected
        /\ journal'[o].old = journal[o].old
        /\ journal[o].new # NoRaw => journal'[o].new = journal[o].new
        /\ journal[o].receipt # NoReceipt => journal'[o].receipt = journal[o].receipt]_vars

\* An operation is committed only together with the posting, and only over a
\* fetched posting of the content it was asked to replace: a response another
\* writer stored in the meantime is never overwritten.
CommitReplacesExpected ==
    [][\A o \in Ops :
        journal'[o] # journal[o] /\ journal'[o].status = "committed" =>
            LET j == journal[o].job IN
            /\ posting[j].status = "fetched"
            /\ posting[j].raw.content = journal[o].expected
            /\ posting'[j] = [status |-> "fetched", raw |-> journal[o].new]]_vars

\* A row holds a response of its own vacancy, whichever vacancy the source
\* answered for ("adapter returned a different vacancy identity").
RowsHoldOwnResponse ==
    \A j \in Jobs : posting[j].raw # NoRaw => posting[j].raw.key = j

\* While only refreshes write: the cache file of a row that is not the current
\* response is repaired by replaying an operation that committed that response.
CacheIsRepairable ==
    \A j \in Jobs : Fetched(j) /\ cache[j] # posting[j].raw =>
        \E o \in Ops : /\ journal[o] # NoRow
                       /\ journal[o].status = "committed"
                       /\ journal[o].new = posting[j].raw

-------------------------------------------------------------------------------
(***************************************************************************)
(* The abstract specification that the protocol implements.                *)
(***************************************************************************)
StageOf(status) ==
    CASE status \in {"intent", "fetch_started"} -> "open"
      [] status = "indeterminate"               -> "unknown"
      [] status \in {"fetched", "object_ready"} -> "answered"
      [] status = "committed"                   -> "committed"

\* The journal without what only its processes need.
JournalStage == [o \in Ops |-> IF journal[o] = NoRow THEN "new" ELSE StageOf(journal[o].status)]

JournalContext ==
    [o \in Ops |-> IF journal[o] = NoRow THEN NoRow
                   ELSE [job |-> journal[o].job, expected |-> journal[o].expected]]

JournalAnswer == [o \in Ops |-> IF journal[o] = NoRow THEN NoRaw ELSE journal[o].new]

JournalReceipt == [o \in Ops |-> IF journal[o] = NoRow THEN NoReceipt ELSE journal[o].receipt]

StoredResponse == [j \in Jobs |-> IF Fetched(j) THEN posting[j].raw ELSE NoRaw]

Ledger == INSTANCE RefreshLedger WITH
    Responses <- Raws, Receipts <- Sealed, NoContext <- NoRow, NoResponse <- NoRaw,
    stage <- JournalStage, context <- JournalContext, asked <- fetches,
    answer <- JournalAnswer, receipt <- JournalReceipt,
    current <- StoredResponse, told <- receipts

\* Twenty steps of any number of processes, replayed and killed at any of them,
\* amount to the five steps of the ledger: one question, one answer, one
\* replacement of the expected response, one receipt.
ImplementsLedger == Ledger!LedgerSpec

-------------------------------------------------------------------------------
(***************************************************************************)
(* Progress under FairSpec, while only refreshes write.                    *)
(***************************************************************************)

\* Replayed long enough, an admitted operation is committed or indeterminate,
\* whatever point it crashed at.
EveryOperationSettles ==
    \A o \in Ops :
        journal[o] # NoRow ~> /\ journal[o] # NoRow
                              /\ journal[o].status \in {"indeterminate", "committed"}

\* A committed operation gets its receipt, unless another one supersedes it.
CommittedIsAnswered ==
    \A o \in Ops :
        (journal[o] # NoRow /\ journal[o].status = "committed")
            ~> /\ journal[o] # NoRow
               /\ \/ journal[o].receipt \in receipts
                  \/ posting[journal[o].job].raw # journal[o].new

\* The cache of a row ends up with the current response and keeps it.
CacheConverges == \A j \in Jobs : <>[](Fetched(j) => cache[j] = posting[j].raw)

-------------------------------------------------------------------------------
(***************************************************************************)
(* The inductive invariant behind the safety properties: what a row holds  *)
(* at each status, and what a process may rely on at each point although   *)
(* other processes run between its steps.                                  *)
(***************************************************************************)
Loaded == Points \ {"idle", "posting", "cache", "begin", "begun"}
Admitted == Loaded \cup {"begun"}
InWindow == {"claimed", "fetch"}

RowOK(r) ==
    /\ r.status \in PreFetch => r.new = NoRaw
    /\ r.status \in Complete => r.new \in Raws
    /\ r.status = "committed" <=> r.receipt # NoReceipt

OwnReceipt(o) == journal[o].receipt # NoReceipt => journal[o].receipt.op = o

\* Row r is snapshot t, or has advanced since.
Follows(r, t) ==
    /\ r.old = t.old
    /\ t.status \in Complete => r.new = t.new /\ r.status \in Complete
    /\ t.status = "committed" => r = t

CallOK(p) ==
    /\ pc[p] # "idle" => request[p] \in Requests
    /\ pc[p] \in Admitted => row(p) # NoRow /\ SameContext(row(p), request[p])
    /\ pc[p] \in Loaded => tr[p] # NoRow /\ RowOK(tr[p]) /\ Follows(row(p), tr[p])
    /\ pc[p] \in {"begin", "record", "journalling"} => raw[p] \in Raws
    /\ pc[p] = "start" => row(p).old \in objects
    /\ pc[p] \in InWindow => row(p).status # "intent" /\ fetches[op(p)] = 0
    /\ pc[p] \in {"record", "journalling"} => fetches[op(p)] = 1
    /\ pc[p] \in {"object", "ready"} => tr[p].status = "fetched"
    /\ pc[p] = "ready" => tr[p].new \in objects
    /\ pc[p] \in {"check", "materialize", "receipt"} => tr[p].status = "committed"

\* The promises above, together with what makes them inductive: a journalled
\* row is well formed, the fetch window of an operation has one occupant, and
\* each running call can rely on its snapshot.
RefreshInv ==
    /\ RefreshTypeOK
    /\ \A o \in Ops : journal[o] # NoRow => RowOK(journal[o]) /\ OwnReceipt(o)
    /\ \A p \in Procs : CallOK(p)
    /\ \A p, q \in Procs :
          pc[p] \in InWindow /\ pc[q] \in InWindow /\ op(p) = op(q) => p = q
    /\ OfficialFetchCount
    /\ OneActiveRefresh
    /\ ResponsesAreDurable
    /\ ReceiptsAreSealed
===============================================================================
