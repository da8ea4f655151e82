------------------------- MODULE CollectorCycleProofs -------------------------
(***************************************************************************)
(* Proofs about CollectorCycle: with any number of collectors the rows and *)
(* files stay well typed; with one at work, a file that a fetched row has  *)
(* holds the response of the row.                                          *)
(***************************************************************************)
EXTENDS CollectorCycle, TLAPS

USE NoRawAssumption, CycleAssumption

\* Between these stages and their next step a collector handles a vacancy ...
Handling == {"importing", "restoring", "store", "save", "error"}
\* ... and at these it holds a response.
Holding == {"importing", "restoring", "store", "save"}

HandledOK(c) ==
    /\ at[c] \in Handling => job[c] \in Jobs
    /\ at[c] \in Holding => response[c] \in Raws

\* The types of a data root with both components, in an inductive form.
CollectorInv == CycleTypeOK /\ \A c \in Collectors : HandledOK(c)

\* store_raw keeps the type of the postings.
LEMMA WithRawType ==
    ASSUME PostingTypeOK, NEW r \in Raws
    PROVE  WithRaw(r) \in [Jobs -> [status: FetchStatuses, raw: Raws \cup {NoRaw}]]
BY DEF PostingTypeOK, WithRaw, Raws, FetchStatuses

\* So does record_error.
LEMMA WithErrorType ==
    ASSUME PostingTypeOK, NEW j \in Jobs
    PROVE  WithError(j) \in [Jobs -> [status: FetchStatuses, raw: Raws \cup {NoRaw}]]
<1>1. CASE posting[j].status = "absent"
  BY <1>1 DEF PostingTypeOK, WithError
<1>2. CASE posting[j].status # "absent"
  <2>1. [posting[j] EXCEPT !.status = "error"] \in [status: FetchStatuses, raw: Raws \cup {NoRaw}]
    BY DEF PostingTypeOK, FetchStatuses
  <2> QED
    BY <1>2, <2>1 DEF PostingTypeOK, WithError
<1> QED
  BY <1>1, <1>2

\* So does the upsert of discovered vacancies.
LEMMA WithDiscoveredType ==
    ASSUME PostingTypeOK, NEW js
    PROVE  WithDiscovered(js) \in [Jobs -> [status: FetchStatuses, raw: Raws \cup {NoRaw}]]
<1>1. [Absent EXCEPT !.status = "discovered"] \in [status: FetchStatuses, raw: Raws \cup {NoRaw}]
  BY DEF Absent, FetchStatuses
<1> QED
  BY <1>1 DEF PostingTypeOK, WithDiscovered

\* Every collector action, by what it does to the shared rows and files.
LEMMA CycleStepKeepsTypes ==
    ASSUME CollectorInv, CycleNext
    PROVE  CollectorInv'
<1> SUFFICES ASSUME NEW c \in Collectors,
                    \/ \E listed \in SUBSET Jobs : Run(c, listed)
                    \/ Import(c) \/ Cycle(c) \/ Kill(c)
             PROVE  CollectorInv'
  BY DEF CycleNext
<1> USE DEF CollectorInv
<1>1. ASSUME NEW listed \in SUBSET Jobs, Run(c, listed) PROVE CollectorInv'
  BY <1>1, WithDiscoveredType
     DEF Run, Enter, CycleTypeOK, PostingTypeOK, Stages, HandledOK, Handling, Holding
<1>2. ASSUME NEW j \in Jobs, ReadCached(c, j) PROVE CollectorInv'
  <2>1. CASE cache[j] = NoRaw
    BY <1>2, <2>1 DEF ReadCached, CycleTypeOK, PostingTypeOK, postingVars, HandledOK, Handling, Holding
  <2>2. CASE cache[j] # NoRaw
    <3>1. cache[j] \in Raws
      BY <2>2 DEF CycleTypeOK, PostingTypeOK
    <3>2. CycleTypeOK'
      <4>1. /\ at' = [at EXCEPT ![c] = "importing"]
            /\ todo' = [todo EXCEPT ![c] = @ \ {j}]
            /\ job' = [job EXCEPT ![c] = j]
            /\ response' = [response EXCEPT ![c] = cache[j]]
            /\ UNCHANGED <<posting, cache, polled, kills, due, queue>>
        BY <1>2, <2>2 DEF ReadCached, Enter, Hold, postingVars
      <4> QED
        BY <3>1, <4>1 DEF CycleTypeOK, PostingTypeOK, Stages
    <3> QED
      BY <1>2, <2>2, <3>1, <3>2 DEF ReadCached, Enter, Hold, CycleTypeOK, HandledOK, Handling, Holding
  <2> QED
    BY <2>1, <2>2
<1>3. CASE ImportCached(c)
  <2>1. at[c] = "importing" /\ job[c] \in Jobs /\ response[c] \in Raws
    BY <1>3 DEF ImportCached, HandledOK, Handling, Holding
  <2>2. PostingTypeOK' /\ CycleTypeOK'
    BY <1>3, WithDiscoveredType DEF ImportCached, Enter, Hold, CycleTypeOK, PostingTypeOK, Stages
  <2>3. /\ at' = [at EXCEPT ![c] = "import"] \/ at' = [at EXCEPT ![c] = "restoring"]
        /\ at' = [at EXCEPT ![c] = "restoring"] => UNCHANGED <<job, response>>
        /\ \A d \in Collectors \ {c} : job'[d] = job[d] /\ response'[d] = response[d]
    BY <1>3, <2>1 DEF ImportCached, Enter, Hold, CycleTypeOK
  <2> QED
    BY <2>1, <2>2, <2>3 DEF CycleTypeOK, HandledOK, Handling, Holding
<1>4. CASE StoreCached(c)
  <2>1. response[c] \in Raws
    BY <1>4 DEF StoreCached, HandledOK, Holding
  <2>2. PostingTypeOK' /\ CycleTypeOK'
    BY <1>4, <2>1, WithRawType DEF StoreCached, Enter, Hold, CycleTypeOK, PostingTypeOK, Stages
  <2> QED
    BY <1>4, <2>2 DEF StoreCached, Enter, Hold, CycleTypeOK, HandledOK, Handling, Holding
<1>5. CASE EndImport(c)
  BY <1>5 DEF EndImport, Enter, CycleTypeOK, PostingTypeOK, postingVars, Stages, HandledOK,
     Handling, Holding
<1>6. ASSUME NEW bs \in SUBSET Boards, BeginCycle(c, bs) PROVE CollectorInv'
  BY <1>6 DEF BeginCycle, Enter, CycleTypeOK, PostingTypeOK, postingVars, Stages, HandledOK,
     Handling, Holding
<1>7. ASSUME NEW b \in Boards, NEW rows \in SUBSET Jobs, Discover(c, b, rows) PROVE CollectorInv'
  <2>1. Unfetched(rows) \subseteq Jobs
    BY DEF Unfetched
  <2> QED
    BY <1>7, <2>1, WithDiscoveredType
       DEF Discover, CycleTypeOK, PostingTypeOK, HandledOK, Handling, Holding
<1>8. CASE EndDiscovery(c)
  BY <1>8 DEF EndDiscovery, Enter, CycleTypeOK, PostingTypeOK, postingVars, Stages, HandledOK,
     Handling, Holding
<1>9. ASSUME NEW j \in Jobs, NEW r \in Raws, FetchRow(c, j, r) PROVE CollectorInv'
  BY <1>9 DEF FetchRow, Enter, Hold, CycleTypeOK, PostingTypeOK, postingVars, Stages, HandledOK,
     Handling, Holding
<1>10. ASSUME NEW j \in Jobs, FetchRowFails(c, j) PROVE CollectorInv'
  BY <1>10 DEF FetchRowFails, Enter, Hold, CycleTypeOK, PostingTypeOK, postingVars, Stages,
     HandledOK, Handling, Holding
<1>11. CASE StoreRaw(c)
  BY <1>11, WithRawType
     DEF StoreRaw, Enter, CycleTypeOK, PostingTypeOK, Stages, HandledOK, Handling, Holding
<1>12. CASE SaveRaw(c)
  BY <1>12 DEF SaveRaw, Enter, Hold, CycleTypeOK, PostingTypeOK, Stages, HandledOK, Handling,
     Holding
<1>13. CASE StoreFails(c)
  BY <1>13 DEF StoreFails, Enter, CycleTypeOK, PostingTypeOK, postingVars, Stages, HandledOK,
     Handling, Holding
<1>14. CASE RecordError(c)
  BY <1>14, WithErrorType
     DEF RecordError, Enter, Hold, CycleTypeOK, PostingTypeOK, Stages, HandledOK, Handling, Holding
<1>15. ASSUME NEW next \in Stages, EndCycle(c, next) PROVE CollectorInv'
  BY <1>15 DEF EndCycle, Enter, CycleTypeOK, PostingTypeOK, postingVars, Stages, HandledOK,
     Handling, Holding
<1>16. CASE Kill(c)
  BY <1>16 DEF Kill, Enter, Hold, CycleTypeOK, PostingTypeOK, postingVars, Stages, HandledOK,
     Handling, Holding
<1> QED
  BY <1>1, <1>2, <1>3, <1>4, <1>5, <1>6, <1>7, <1>8, <1>9, <1>10, <1>11, <1>12, <1>13, <1>14,
     <1>15, <1>16 DEF Import, Cycle

\* A step of the refreshes leaves every collector where it was.
LEMMA CycleStutter ==
    ASSUME CollectorInv, UNCHANGED cycleVars, PostingTypeOK'
    PROVE  CollectorInv'
BY DEF CollectorInv, CycleTypeOK, HandledOK, cycleVars

-------------------------------------------------------------------------------
(***************************************************************************)
(* The responses that collectors hold and write.                           *)
(***************************************************************************)
HeldOwn(c) == at[c] \in Holding => response[c].key = job[c]

AllHeldOwn == \A c \in Collectors : HeldOwn(c)

\* What store_raw, record_error and upsert_discovered leave in each row.
LEMMA WithRawRows ==
    ASSUME PostingTypeOK, NEW r \in Raws, NEW j \in Jobs
    PROVE  WithRaw(r)[j] = IF j = r.key /\ posting[j].status # "absent"
                           THEN [status |-> "fetched", raw |-> r] ELSE posting[j]
BY DEF PostingTypeOK, WithRaw, Raws

LEMMA WithErrorRows ==
    ASSUME PostingTypeOK, NEW k \in Jobs, NEW j \in Jobs
    PROVE  /\ WithError(k)[j].raw = posting[j].raw
           /\ j # k => WithError(k)[j] = posting[j]
           /\ WithError(k)[k].status = IF posting[k].status = "absent" THEN "absent" ELSE "error"
BY DEF PostingTypeOK, WithError

LEMMA WithDiscoveredRows ==
    ASSUME PostingTypeOK, NEW js, NEW j \in Jobs
    PROVE  WithDiscovered(js)[j] = IF j \in js /\ posting[j].status = "absent"
                                   THEN [status |-> "discovered", raw |-> NoRaw] ELSE posting[j]
BY DEF WithDiscovered, Absent

\* A collector's step does one of these things to the rows and files.
LEMMA CycleWrites ==
    ASSUME CollectorInv, NEW c \in Collectors,
           \/ \E listed \in SUBSET Jobs : Run(c, listed)
           \/ Import(c) \/ Cycle(c) \/ Kill(c)
    PROVE  /\ \/ UNCHANGED posting
              \/ \E js \in SUBSET Jobs : posting' = WithDiscovered(js)
              \/ StoreCached(c) \/ StoreRaw(c) \/ RecordError(c)
           /\ \/ UNCHANGED cache
              \/ SaveRaw(c)
<1>1. \A listed \in SUBSET Jobs : Run(c, listed) => posting' = WithDiscovered(listed) /\ UNCHANGED cache
  BY DEF Run
<1>2. \A b \in Boards, rows \in SUBSET Jobs :
         Discover(c, b, rows) => posting' = WithDiscovered(rows) /\ UNCHANGED cache
  BY DEF Discover
<1>3. ImportCached(c) =>
         \/ UNCHANGED <<posting, cache>>
         \/ posting' = WithDiscovered({job[c]}) /\ job[c] \in Jobs /\ UNCHANGED cache
  BY DEF ImportCached, CollectorInv, HandledOK, Handling
<1>4. StoreCached(c) \/ StoreRaw(c) \/ RecordError(c) => UNCHANGED cache
  BY DEF StoreCached, StoreRaw, RecordError
<1>5. \/ \E j \in Jobs : ReadCached(c, j) \/ FetchRowFails(c, j) \/ \E r \in Raws : FetchRow(c, j, r)
      \/ \E bs \in SUBSET Boards : BeginCycle(c, bs)
      \/ EndImport(c) \/ EndDiscovery(c) \/ StoreFails(c)
      \/ \E next \in Stages : EndCycle(c, next)
      \/ Kill(c)
      => UNCHANGED <<posting, cache>>
  BY DEF ReadCached, FetchRowFails, FetchRow, BeginCycle, EndImport, EndDiscovery, StoreFails,
     EndCycle, Kill, postingVars
<1>6. SaveRaw(c) => UNCHANGED posting
  BY DEF SaveRaw
<1> QED
  BY <1>1, <1>2, <1>3, <1>4, <1>5, <1>6 DEF Import, Cycle

\* Files keep the responses of their own vacancies, and so do collectors.
LEMMA CycleKeepsOwn ==
    ASSUME CollectorInv, AllHeldOwn, FilesHoldOwnResponse, CycleNext
    PROVE  AllHeldOwn' /\ FilesHoldOwnResponse'
<1> SUFFICES ASSUME NEW c \in Collectors,
                    \/ \E listed \in SUBSET Jobs : Run(c, listed)
                    \/ Import(c) \/ Cycle(c) \/ Kill(c)
             PROVE  AllHeldOwn' /\ FilesHoldOwnResponse'
  BY DEF CycleNext
<1>1. FilesHoldOwnResponse'
  <2>1. CASE UNCHANGED cache
    BY <2>1 DEF FilesHoldOwnResponse
  <2>2. CASE SaveRaw(c)
    <3>1. response[c].key = job[c]
      BY <2>2 DEF SaveRaw, AllHeldOwn, HeldOwn, Holding
    <3> QED
      BY <2>2, <3>1 DEF SaveRaw, FilesHoldOwnResponse, CollectorInv, CycleTypeOK, PostingTypeOK
  <2> QED
    BY <2>1, <2>2, CycleWrites
<1>2. \A d \in Collectors \ {c} : at'[d] = at[d] /\ job'[d] = job[d] /\ response'[d] = response[d]
  BY DEF Run, Import, Cycle, Kill, ReadCached, ImportCached, StoreCached, EndImport, BeginCycle,
     Discover, EndDiscovery, FetchRow, FetchRowFails, StoreRaw, SaveRaw, StoreFails, RecordError,
     EndCycle, Enter, Hold, CollectorInv, CycleTypeOK
<1>3. HeldOwn(c)'
  <2>1. at \in [Collectors -> Stages] /\ job \in [Collectors -> Jobs \cup {NoJob}]
        /\ response \in [Collectors -> Raws \cup {NoRaw}]
    BY DEF CollectorInv, CycleTypeOK
  <2>2. HeldOwn(c)
    BY DEF AllHeldOwn
  <2>3. CASE at'[c] \notin Holding
    BY <2>3 DEF HeldOwn
  <2>4. ASSUME NEW j \in Jobs, ReadCached(c, j) PROVE HeldOwn(c)'
    BY <2>1, <2>2, <2>4 DEF ReadCached, HeldOwn, Enter, Hold, FilesHoldOwnResponse
  <2>5. ASSUME NEW j \in Jobs, NEW r \in Raws, FetchRow(c, j, r) PROVE HeldOwn(c)'
    BY <2>1, <2>5 DEF FetchRow, HeldOwn, Enter, Hold
  <2>6. CASE ImportCached(c) \/ StoreRaw(c)
    BY <2>1, <2>2, <2>6 DEF ImportCached, StoreRaw, HeldOwn, Enter, Hold, Holding
  <2>7. (\E listed \in SUBSET Jobs : Run(c, listed)) \/ StoreCached(c) \/ EndImport(c)
        \/ (\E bs \in SUBSET Boards : BeginCycle(c, bs)) \/ EndDiscovery(c)
        => at'[c] \notin Holding
    BY <2>1 DEF Run, StoreCached, EndImport, BeginCycle, EndDiscovery, Enter, Holding
  <2>8. (\E b \in Boards, rows \in SUBSET Jobs : Discover(c, b, rows))
        \/ (\E j \in Jobs : FetchRowFails(c, j)) \/ SaveRaw(c) \/ StoreFails(c) \/ RecordError(c)
        \/ (\E next \in Stages : EndCycle(c, next)) \/ Kill(c)
        => at'[c] \notin Holding
    BY <2>1 DEF Discover, FetchRowFails, SaveRaw, StoreFails, RecordError, EndCycle, Kill, Enter,
       Holding
  <2> QED
    BY <2>3, <2>4, <2>5, <2>6, <2>7, <2>8 DEF Import, Cycle
<1> QED
  BY <1>1, <1>2, <1>3 DEF AllHeldOwn, HeldOwn

-------------------------------------------------------------------------------
(***************************************************************************)
(* One collector at work.                                                  *)
(***************************************************************************)
Waiting(j) == posting[j].status \in {"discovered", "error"}

Importing == {"import", "importing", "restoring"}
Cycling == {"cycle", "discover", "fetch", "store", "save", "error"}

\* What a collector can rely on while it is the only one at work: once it has
\* imported the cache every file has its row, and what it queues, fetches and
\* stores has neither a response nor a file.
WorkOK(c) ==
    /\ at[c] \in {"idle", "cycle"} \cup Importing => queue[c] = {}
    /\ at[c] \in Importing => \A j \in Jobs :
          cache[j] # NoRaw => \/ Fetched(j) \/ j \in todo[c]
                              \/ at[c] # "import" /\ j = job[c]
    /\ at[c] \in Cycling => \A j \in Jobs : cache[j] # NoRaw => Fetched(j)
    /\ at[c] \in {"restoring", "store"} => Waiting(job[c])
    /\ \A j \in queue[c] : Waiting(j) /\ cache[j] = NoRaw
    /\ at[c] \in {"store", "save", "error"} => job[c] \notin queue[c] /\ cache[job[c]] = NoRaw
    /\ at[c] = "save" => posting[job[c]] = [status |-> "fetched", raw |-> response[c]]

AllWorkOK == \A c \in Collectors : WorkOK(c)

OnlyAtWork(c) == \A d \in Collectors \ {c} : at[d] = "idle"

\* What a step leaves the other collectors.
LEMMA OthersStay ==
    ASSUME CollectorInv, NEW c \in Collectors,
           \/ \E listed \in SUBSET Jobs : Run(c, listed)
           \/ Import(c) \/ Cycle(c) \/ Kill(c)
    PROVE  \A d \in Collectors \ {c} :
              /\ at'[d] = at[d] /\ job'[d] = job[d] /\ response'[d] = response[d]
              /\ queue'[d] = queue[d] /\ todo'[d] = todo[d]
BY DEF Run, Import, Cycle, Kill, ReadCached, ImportCached, StoreCached, EndImport, BeginCycle,
     Discover, EndDiscovery, FetchRow, FetchRowFails, StoreRaw, SaveRaw, StoreFails, RecordError,
     EndCycle, Enter, Hold, CollectorInv, CycleTypeOK

\* The actions that read and restore the cache.
LEMMA ImportWorks ==
    ASSUME CollectorInv, AllHeldOwn, NEW c \in Collectors, WorkOK(c),
           (\E listed \in SUBSET Jobs : Run(c, listed)) \/ Import(c)
    PROVE  WorkOK(c)'
<1>1. /\ at \in [Collectors -> Stages] /\ job \in [Collectors -> Jobs \cup {NoJob}]
      /\ response \in [Collectors -> Raws \cup {NoRaw}]
      /\ queue \in [Collectors -> SUBSET Jobs] /\ todo \in [Collectors -> SUBSET Jobs]
      /\ PostingTypeOK
  BY DEF CollectorInv, CycleTypeOK
<1>2. ASSUME NEW listed \in SUBSET Jobs, Run(c, listed) PROVE WorkOK(c)'
  BY <1>1, <1>2 DEF Run, Enter, WorkOK, Importing, Cycling, Waiting
<1>3. ASSUME NEW j \in Jobs, ReadCached(c, j) PROVE WorkOK(c)'
  <2>1. CASE cache[j] = NoRaw
    BY <1>1, <1>3, <2>1 DEF ReadCached, postingVars, WorkOK, Importing, Cycling, Waiting, Fetched
  <2>2. CASE cache[j] # NoRaw
    BY <1>1, <1>3, <2>2 DEF ReadCached, Enter, Hold, postingVars, WorkOK, Importing, Cycling, Waiting, Fetched
  <2> QED
    BY <2>1, <2>2
<1>4. CASE ImportCached(c)
  <2>1. CASE Fetched(job[c])
    BY <1>1, <1>4, <2>1 DEF ImportCached, Enter, Hold, WorkOK, Importing, Cycling, Waiting, Fetched
  <2>2. CASE ~Fetched(job[c])
    <3>1. job[c] \in Jobs
      BY <1>4 DEF ImportCached, CollectorInv, HandledOK, Handling
    <3>2. /\ at'[c] = "restoring" /\ UNCHANGED <<cache, job, queue, todo>>
          /\ posting' = WithDiscovered({job[c]}) /\ queue[c] = {}
      BY <1>1, <1>4, <2>2 DEF ImportCached, Enter, WorkOK, Importing
    <3>3. Waiting(job[c])'
      BY <1>1, <2>2, <3>1, <3>2, WithDiscoveredRows DEF Waiting, Fetched, PostingTypeOK, FetchStatuses
    <3>4. \A j \in Jobs : Fetched(j) => Fetched(j)'
      BY <1>1, <3>2, WithDiscoveredRows DEF Fetched
    <3> QED
      BY <1>4, <3>2, <3>3, <3>4 DEF ImportCached, WorkOK, Importing, Cycling, Waiting
  <2> QED
    BY <2>1, <2>2
<1>5. CASE StoreCached(c)
  <2>1. response[c] \in Raws /\ response[c].key = job[c] /\ job[c] \in Jobs /\ Waiting(job[c])
    BY <1>5 DEF StoreCached, CollectorInv, HandledOK, Handling, Holding, AllHeldOwn, HeldOwn, WorkOK
  <2>2. \A j \in Jobs : posting'[j] = IF j = job[c] THEN [status |-> "fetched", raw |-> response[c]]
                                     ELSE posting[j]
    BY <1>1, <1>5, <2>1, WithRawRows DEF StoreCached, Waiting
  <2>3. UNCHANGED <<cache, queue, todo>> /\ at'[c] = "import" /\ queue[c] = {}
    BY <1>1, <1>5 DEF StoreCached, Enter, WorkOK, Importing
  <2> QED
    BY <1>5, <2>1, <2>2, <2>3 DEF StoreCached, WorkOK, Importing, Cycling, Fetched
<1>6. CASE EndImport(c)
  BY <1>1, <1>6 DEF EndImport, Enter, postingVars, WorkOK, Importing, Cycling, Waiting, Fetched
<1> QED
  BY <1>2, <1>3, <1>4, <1>5, <1>6 DEF Import

\* The actions of the cycle, and death.
LEMMA CycleWorks ==
    ASSUME CollectorInv, AllHeldOwn, NEW c \in Collectors, WorkOK(c), Cycle(c) \/ Kill(c)
    PROVE  WorkOK(c)'
<1>1. /\ at \in [Collectors -> Stages] /\ job \in [Collectors -> Jobs \cup {NoJob}]
      /\ response \in [Collectors -> Raws \cup {NoRaw}]
      /\ queue \in [Collectors -> SUBSET Jobs] /\ todo \in [Collectors -> SUBSET Jobs]
      /\ PostingTypeOK
  BY DEF CollectorInv, CycleTypeOK
<1>2. ASSUME NEW b \in Boards, NEW rows \in SUBSET Jobs, Discover(c, b, rows) PROVE WorkOK(c)'
  <2>1. /\ UNCHANGED <<cache, at, job>> /\ at[c] = "discover"
        /\ posting' = WithDiscovered(rows) /\ queue'[c] = queue[c] \cup Unfetched(rows)
    BY <1>1, <1>2 DEF Discover
  <2>2. \A j \in Jobs : Fetched(j) => Fetched(j)'
    BY <1>1, <2>1, WithDiscoveredRows DEF Fetched
  <2>3. \A j \in queue[c] : Waiting(j)' /\ cache'[j] = NoRaw
    BY <1>1, <2>1, WithDiscoveredRows DEF Waiting, WorkOK
  <2>4. \A j \in Unfetched(rows) : Waiting(j)' /\ cache'[j] = NoRaw
    <3> SUFFICES ASSUME NEW j \in Unfetched(rows) PROVE Waiting(j)' /\ cache'[j] = NoRaw
      OBVIOUS
    <3>1. j \in rows /\ j \in Jobs /\ ~Fetched(j)
      BY DEF Unfetched
    <3>2. cache[j] = NoRaw
      BY <2>1, <3>1 DEF WorkOK, Cycling
    <3>3. Waiting(j)'
      BY <1>1, <2>1, <3>1, WithDiscoveredRows DEF Waiting, Fetched, PostingTypeOK, FetchStatuses
    <3> QED
      BY <2>1, <3>2, <3>3
  <2> QED
    BY <2>1, <2>2, <2>3, <2>4 DEF WorkOK, Importing, Cycling
<1>3. ASSUME NEW j \in Jobs, NEW r \in Raws, FetchRow(c, j, r) PROVE WorkOK(c)'
  BY <1>1, <1>3 DEF FetchRow, Enter, Hold, postingVars, WorkOK, Importing, Cycling, Waiting, Fetched
<1>4. ASSUME NEW j \in Jobs, FetchRowFails(c, j) PROVE WorkOK(c)'
  BY <1>1, <1>4 DEF FetchRowFails, Enter, Hold, postingVars, WorkOK, Importing, Cycling, Waiting, Fetched
<1>5. CASE StoreRaw(c)
  <2>1. response[c] \in Raws /\ response[c].key = job[c] /\ job[c] \in Jobs /\ Waiting(job[c])
    BY <1>5 DEF StoreRaw, CollectorInv, HandledOK, Handling, Holding, AllHeldOwn, HeldOwn, WorkOK
  <2>2. /\ UNCHANGED <<cache, job, response, queue, todo>> /\ at[c] = "store" /\ at'[c] = "save"
        /\ posting' = WithRaw(response[c])
    BY <1>1, <1>5 DEF StoreRaw, Enter
  <2>3. posting'[job[c]] = [status |-> "fetched", raw |-> response[c]]
    BY <1>1, <2>1, <2>2, WithRawRows DEF Waiting
  <2>4. \A j \in Jobs \ {job[c]} : posting'[j] = posting[j]
    BY <1>1, <2>1, <2>2, WithRawRows
  <2>5. /\ \A j \in Jobs : cache[j] # NoRaw => Fetched(j)
        /\ \A j \in queue[c] : Waiting(j) /\ cache[j] = NoRaw
        /\ job[c] \notin queue[c] /\ cache[job[c]] = NoRaw
    BY <2>2 DEF WorkOK, Cycling
  <2>6. /\ \A j \in Jobs : cache'[j] # NoRaw => Fetched(j)'
        /\ \A j \in queue'[c] : Waiting(j)' /\ cache'[j] = NoRaw
    BY <1>1, <2>2, <2>4, <2>5 DEF Waiting, Fetched
  <2> QED
    BY <2>2, <2>3, <2>5, <2>6 DEF WorkOK, Importing, Cycling
<1>6. CASE SaveRaw(c)
  <2>1. response[c] \in Raws /\ job[c] \in Jobs
    BY <1>6 DEF SaveRaw, CollectorInv, HandledOK, Handling, Holding
  <2>2. /\ UNCHANGED <<posting, queue, todo>> /\ at[c] = "save" /\ at'[c] = "fetch"
        /\ cache' = [cache EXCEPT ![job[c]] = response[c]]
    BY <1>1, <1>6 DEF SaveRaw, Enter
  <2>3. Fetched(job[c]) /\ job[c] \notin queue[c]
    BY <2>2 DEF WorkOK, Fetched
  <2>4. /\ \A j \in Jobs : cache'[j] # NoRaw => Fetched(j)'
        /\ \A j \in queue'[c] : Waiting(j)' /\ cache'[j] = NoRaw
    BY <1>1, <2>2, <2>3 DEF WorkOK, Cycling, Waiting, Fetched, PostingTypeOK
  <2> QED
    BY <2>2, <2>4 DEF WorkOK, Importing, Cycling
<1>7. CASE RecordError(c)
  <2>1. job[c] \in Jobs
    BY <1>7 DEF RecordError, CollectorInv, HandledOK, Handling
  <2>2. /\ UNCHANGED <<cache, queue, todo>> /\ at[c] = "error" /\ at'[c] = "fetch"
        /\ posting' = WithError(job[c])
    BY <1>1, <1>7 DEF RecordError, Enter
  <2>3. /\ \A j \in Jobs : cache[j] # NoRaw => Fetched(j)
        /\ \A j \in queue[c] : Waiting(j) /\ cache[j] = NoRaw
        /\ job[c] \notin queue[c] /\ cache[job[c]] = NoRaw
    BY <2>2 DEF WorkOK, Cycling
  <2>4. \A j \in Jobs \ {job[c]} : posting'[j] = posting[j]
    BY <1>1, <2>1, <2>2, WithErrorRows
  <2>5. /\ \A j \in Jobs : cache'[j] # NoRaw => Fetched(j)'
        /\ \A j \in queue'[c] : Waiting(j)' /\ cache'[j] = NoRaw
    BY <1>1, <2>2, <2>3, <2>4 DEF Waiting, Fetched
  <2> QED
    BY <2>2, <2>5 DEF WorkOK, Importing, Cycling
<1>8. CASE StoreFails(c)
  BY <1>1, <1>8 DEF StoreFails, Enter, postingVars, WorkOK, Importing, Cycling, Waiting, Fetched
<1>9. ASSUME NEW bs \in SUBSET Boards, BeginCycle(c, bs) PROVE WorkOK(c)'
  BY <1>1, <1>9 DEF BeginCycle, Enter, postingVars, WorkOK, Importing, Cycling, Waiting, Fetched
<1>10. CASE EndDiscovery(c)
  BY <1>1, <1>10 DEF EndDiscovery, Enter, postingVars, WorkOK, Importing, Cycling, Waiting, Fetched
<1>11. ASSUME NEW next \in Stages, EndCycle(c, next) PROVE WorkOK(c)'
  BY <1>1, <1>11 DEF EndCycle, Enter, postingVars, WorkOK, Importing, Cycling, Waiting, Fetched
<1>12. CASE Kill(c)
  BY <1>1, <1>12 DEF Kill, Enter, Hold, postingVars, WorkOK, Importing, Cycling, Waiting, Fetched
<1> QED
  BY <1>2, <1>3, <1>4, <1>5, <1>6, <1>7, <1>8, <1>9, <1>10, <1>11, <1>12 DEF Cycle

\* Nobody else at work before and after a step: all can still rely on their work.
LEMMA SoleStep ==
    ASSUME CollectorInv, AllHeldOwn, AllWorkOK, NEW c \in Collectors, OnlyAtWork(c),
           \/ \E listed \in SUBSET Jobs : Run(c, listed)
           \/ Import(c) \/ Cycle(c) \/ Kill(c)
    PROVE  AllWorkOK'
<1>1. WorkOK(c)'
  BY ImportWorks, CycleWorks DEF AllWorkOK
<1>2. ASSUME NEW d \in Collectors \ {c} PROVE WorkOK(d)'
  <2>1. at[d] = "idle" /\ queue[d] = {}
    BY DEF OnlyAtWork, AllWorkOK, WorkOK
  <2> QED
    BY <2>1, OthersStay DEF WorkOK, Importing, Cycling
<1> QED
  BY <1>1, <1>2 DEF AllWorkOK

\* A collector that restores a file holds what is in it.
RestoresFile(c) == at[c] \in {"importing", "restoring"} => response[c] = cache[job[c]]

OneCollector == \A c, d \in Collectors : c = d

AgreeInv == /\ CollectorInv /\ AllHeldOwn /\ FilesHoldOwnResponse /\ AllWorkOK
            /\ \A c \in Collectors : RestoresFile(c)
            /\ CacheAgreesWithRow

\* What a first collector finds.
LEMMA AgreeStarts ==
    ASSUME CollectorInit
    PROVE  AgreeInv
<1>1. CollectorInv
  BY DEF CollectorInit, PostingInit, CycleInit, CollectorInv, CycleTypeOK, PostingTypeOK, HandledOK,
     Handling, Holding, Stages, FetchStatuses, Absent
<1>2. AllHeldOwn /\ AllWorkOK /\ \A c \in Collectors : RestoresFile(c)
  BY DEF CollectorInit, CycleInit, AllHeldOwn, HeldOwn, Holding, AllWorkOK, WorkOK, Importing,
     Cycling, RestoresFile
<1>3. FilesHoldOwnResponse /\ CacheAgreesWithRow
  BY DEF CollectorInit, PostingInit, FilesHoldOwnResponse, CacheAgreesWithRow, Fetched, Absent
<1> QED
  BY <1>1, <1>2, <1>3 DEF AgreeInv

\* The steps of the only collector.
LEMMA AgreeStep ==
    ASSUME OneCollector, AgreeInv, CycleNext
    PROVE  AgreeInv'
<1> PICK c \in Collectors :
           \/ \E listed \in SUBSET Jobs : Run(c, listed)
           \/ Import(c) \/ Cycle(c) \/ Kill(c)
  BY DEF CycleNext
<1> USE DEF AgreeInv
<1>1. CollectorInv' /\ AllHeldOwn' /\ FilesHoldOwnResponse'
  BY CycleStepKeepsTypes, CycleKeepsOwn
<1>2. AllWorkOK'
  BY SoleStep DEF OneCollector, OnlyAtWork
<1>3. /\ at \in [Collectors -> Stages] /\ job \in [Collectors -> Jobs \cup {NoJob}]
      /\ response \in [Collectors -> Raws \cup {NoRaw}] /\ PostingTypeOK
      /\ WorkOK(c) /\ RestoresFile(c) /\ HeldOwn(c)
  BY DEF CollectorInv, CycleTypeOK, AllWorkOK, AllHeldOwn
<1>4. RestoresFile(c)'
  <2>1. CASE at'[c] \notin {"importing", "restoring"}
    BY <2>1 DEF RestoresFile
  <2>2. ASSUME NEW j \in Jobs, ReadCached(c, j) PROVE RestoresFile(c)'
    BY <1>3, <2>2 DEF ReadCached, Enter, Hold, postingVars, RestoresFile
  <2>3. CASE ImportCached(c)
    BY <1>3, <2>3 DEF ImportCached, Enter, Hold, RestoresFile
  <2>4. (\E listed \in SUBSET Jobs : Run(c, listed)) \/ StoreCached(c) \/ EndImport(c)
        \/ (\E bs \in SUBSET Boards : BeginCycle(c, bs)) \/ EndDiscovery(c)
        => at'[c] \notin {"importing", "restoring"}
    BY <1>3 DEF Run, StoreCached, EndImport, BeginCycle, EndDiscovery, Enter
  <2>5. (\E b \in Boards, rows \in SUBSET Jobs : Discover(c, b, rows))
        \/ (\E j \in Jobs : FetchRowFails(c, j) \/ \E r \in Raws : FetchRow(c, j, r))
        \/ StoreRaw(c) \/ SaveRaw(c) \/ StoreFails(c) \/ RecordError(c)
        \/ (\E next \in Stages : EndCycle(c, next)) \/ Kill(c)
        => at'[c] \notin {"importing", "restoring"}
    BY <1>3 DEF Discover, FetchRow, FetchRowFails, StoreRaw, SaveRaw, StoreFails, RecordError,
       EndCycle, Kill, Enter
  <2> QED
    BY <2>1, <2>2, <2>3, <2>4, <2>5 DEF Import, Cycle
<1>5. CacheAgreesWithRow'
  <2>1. CASE UNCHANGED <<posting, cache>>
    BY <2>1 DEF CacheAgreesWithRow, Fetched
  <2>2. ASSUME NEW js \in SUBSET Jobs, posting' = WithDiscovered(js), UNCHANGED cache
        PROVE  CacheAgreesWithRow'
    BY <1>3, <2>2, WithDiscoveredRows DEF CacheAgreesWithRow, Fetched
  <2>3. CASE job[c] \in Jobs /\ posting' = WithError(job[c]) /\ UNCHANGED cache
    <3>1. posting'[job[c]].status # "fetched"
      BY <1>3, <2>3, WithErrorRows
    <3>2. \A j \in Jobs \ {job[c]} : posting'[j] = posting[j]
      BY <1>3, <2>3, WithErrorRows
    <3> QED
      BY <2>3, <3>1, <3>2 DEF CacheAgreesWithRow, Fetched
  <2>4. CASE StoreCached(c) \/ StoreRaw(c)
    <3>1. /\ job[c] \in Jobs /\ response[c] \in Raws /\ response[c].key = job[c]
          /\ posting' = WithRaw(response[c]) /\ UNCHANGED cache
      BY <1>3, <2>4 DEF StoreCached, StoreRaw, CollectorInv, HandledOK, Handling, Holding, HeldOwn
    <3>2. cache[job[c]] = NoRaw \/ cache[job[c]] = response[c]
      BY <1>3, <2>4 DEF StoreCached, StoreRaw, RestoresFile, WorkOK
    <3>3. \A j \in Jobs \ {job[c]} : posting'[j] = posting[j]
      BY <1>3, <3>1, WithRawRows
    <3>4. posting'[job[c]] = [status |-> "fetched", raw |-> response[c]]
      BY <1>3, <2>4, <3>1, WithRawRows DEF StoreCached, StoreRaw, WorkOK, Waiting
    <3> QED
      BY <3>1, <3>2, <3>3, <3>4 DEF CacheAgreesWithRow, Fetched
  <2>5. CASE SaveRaw(c)
    <3>1. /\ posting[job[c]].raw = response[c] /\ UNCHANGED posting
          /\ cache' = [cache EXCEPT ![job[c]] = response[c]]
      BY <1>3, <2>5 DEF SaveRaw, WorkOK
    <3> QED
      BY <1>3, <3>1 DEF CacheAgreesWithRow, Fetched, PostingTypeOK
  <2>6. RecordError(c) => job[c] \in Jobs /\ posting' = WithError(job[c]) /\ UNCHANGED cache
    BY DEF RecordError, CollectorInv, HandledOK, Handling
  <2> QED
    BY <2>1, <2>2, <2>3, <2>4, <2>5, <2>6, CycleWrites
<1> QED
  BY <1>1, <1>2, <1>4, <1>5 DEF OneCollector

\* Rows, files and the locals of any number of collectors stay well typed.
THEOREM CollectorTypeCorrect == CollectorSpec => []CycleTypeOK
<1>1. CollectorInit => CollectorInv
  BY AgreeStarts DEF AgreeInv
<1>2. CollectorInv /\ [CycleNext]_collectorVars => CollectorInv'
  <2>1. CollectorInv /\ UNCHANGED collectorVars => CollectorInv'
    BY CycleStutter DEF CollectorInv, CycleTypeOK, PostingTypeOK, collectorVars, postingVars
  <2> QED
    BY <2>1, CycleStepKeepsTypes
<1>3. CollectorInv => CycleTypeOK
  BY DEF CollectorInv
<1> QED
  BY <1>1, <1>2, <1>3, PTL DEF CollectorSpec

\* A single collector, however often it dies, is restarted and fails to save, never
\* leaves a fetched row with a file of another response.
THEOREM OneCollectorAgrees ==
    ASSUME OneCollector
    PROVE  CollectorSpec => []CacheAgreesWithRow
<1>1. AgreeInv /\ [CycleNext]_collectorVars => AgreeInv'
  <2>1. AgreeInv /\ UNCHANGED collectorVars => AgreeInv'
    BY DEF AgreeInv, CollectorInv, CycleTypeOK, PostingTypeOK, HandledOK, AllHeldOwn, HeldOwn,
       FilesHoldOwnResponse, AllWorkOK, WorkOK, Waiting, Fetched, RestoresFile,
       CacheAgreesWithRow, collectorVars, postingVars, cycleVars
  <2> QED
    BY <2>1, AgreeStep
<1>2. AgreeInv => CacheAgreesWithRow
  BY DEF AgreeInv
<1> QED
  BY <1>1, <1>2, AgreeStarts, PTL DEF CollectorSpec
===============================================================================
