---------------------------- MODULE CollectorCycle ----------------------------
(***************************************************************************)
(* `Collector.run` and `Collector.cycle` (collectors/engine.py): import the *)
(* raw cache, discover the vacancies of every due board, fetch those that   *)
(* have no response and store each response in the row and in the cache.    *)
(*                                                                         *)
(* A collector is one `market-aligner collect` process.  Its main thread    *)
(* handles the discoveries and the fetches one at a time as they complete;  *)
(* a response that waits in the pool is any response, so it is chosen when  *)
(* it is taken.  Database transactions and file operations of different    *)
(* processes interleave.                                                    *)
(***************************************************************************)
EXTENDS Postings, Naturals

CONSTANTS
    Collectors, \* collector processes on the same data root
    Boards,     \* enabled boards
    Board,      \* Board[j]: the board of vacancy j
    MaxKills    \* bound on Kill: collector deaths in one behaviour

VARIABLES
    polled,     \* boards polled within their minimum poll interval
    kills,      \* collector deaths so far (bounded by MaxKills)
    at,         \* at[c]: what collector c does next
    todo,       \* todo[c]: cached vacancies still to import
    due,        \* due[c]: boards whose discovery is not handled yet
    queue,      \* queue[c]: vacancies c will fetch
    job,        \* job[c]: the vacancy c handles, or NoJob
    response    \* response[c]: the response c holds

cycleVars == <<polled, kills, at, todo, due, queue, job, response>>
collectorVars == <<postingVars, cycleVars>>

CONSTANT NoJob

ASSUME CycleAssumption ==
    /\ Board \in [Jobs -> Boards]
    /\ NoJob \notin Jobs
    /\ MaxKills \in Nat

Stages == {"idle", "import", "importing", "restoring", "cycle", "discover", "fetch",
           "store", "save", "error"}

CycleTypeOK ==
    /\ polled \subseteq Boards
    /\ kills \in 0..MaxKills
    /\ at \in [Collectors -> Stages]
    /\ todo \in [Collectors -> SUBSET Jobs]
    /\ due \in [Collectors -> SUBSET Boards]
    /\ queue \in [Collectors -> SUBSET Jobs]
    /\ job \in [Collectors -> Jobs \cup {NoJob}]
    /\ response \in [Collectors -> Raws \cup {NoRaw}]
    /\ PostingTypeOK

CycleInit ==
    /\ polled = {}
    /\ kills = 0
    /\ at = [c \in Collectors |-> "idle"]
    /\ todo = [c \in Collectors |-> {}]
    /\ due = [c \in Collectors |-> {}]
    /\ queue = [c \in Collectors |-> {}]
    /\ job = [c \in Collectors |-> NoJob]
    /\ response = [c \in Collectors |-> NoRaw]

JobsOf(b) == {j \in Jobs : Board[j] = b}

\* boards_with_pending_discoveries: some row of the board is not fetched.
Pending == {b \in Boards : \E j \in JobsOf(b) : posting[j].status \in {"discovered", "error"}}

Enter(c, stage) == at' = [at EXCEPT ![c] = stage]

Hold(c, j, r) ==
    /\ job' = [job EXCEPT ![c] = j]
    /\ response' = [response EXCEPT ![c] = r]

-------------------------------------------------------------------------------
(***************************************************************************)
(* migrate_existing: what the caches hold is not fetched again.            *)
(***************************************************************************)

\* The URL listing is read back; it names rows that exist or legacy ones.
Run(c, listed) ==
    /\ at[c] = "idle"
    /\ posting' = WithDiscovered(listed)
    /\ todo' = [todo EXCEPT ![c] = Jobs]
    /\ Enter(c, "import")
    /\ UNCHANGED <<cache, polled, kills, due, queue, job, response>>

ReadCached(c, j) ==
    /\ at[c] = "import"
    /\ j \in todo[c]
    /\ todo' = [todo EXCEPT ![c] = @ \ {j}]
    /\ IF cache[j] = NoRaw
       THEN UNCHANGED <<at, job, response>>
       ELSE Enter(c, "importing") /\ Hold(c, j, cache[j])
    /\ UNCHANGED <<postingVars, polled, kills, due, queue>>

\* has_raw, then upsert_discovered for a row that has no response.
ImportCached(c) ==
    /\ at[c] = "importing"
    /\ IF Fetched(job[c])
       THEN Enter(c, "import") /\ Hold(c, NoJob, NoRaw) /\ UNCHANGED posting
       ELSE /\ Enter(c, "restoring")
            /\ posting' = WithDiscovered({job[c]})
            /\ UNCHANGED <<job, response>>
    /\ UNCHANGED <<cache, polled, kills, todo, due, queue>>

StoreCached(c) ==
    /\ at[c] = "restoring"
    /\ posting' = WithRaw(response[c])
    /\ Enter(c, "import")
    /\ Hold(c, NoJob, NoRaw)
    /\ UNCHANGED <<cache, polled, kills, todo, due, queue>>

EndImport(c) ==
    /\ at[c] = "import"
    /\ todo[c] = {}
    /\ Enter(c, "cycle")
    /\ UNCHANGED <<postingVars, polled, kills, todo, due, queue, job, response>>

-------------------------------------------------------------------------------
(***************************************************************************)
(* cycle                                                                   *)
(***************************************************************************)
DueWhenTimely(bs) == (Boards \ polled) \subseteq bs      \* mutant: pending boards are not due

\* A board is due when it has pending rows or was not polled recently enough.
\* Whether the interval of a polled board has elapsed is up to the clock.
Due(bs) == Pending \cup (Boards \ polled) \subseteq bs

BeginCycle(c, bs) ==
    /\ at[c] = "cycle"
    /\ Due(bs)
    /\ due' = [due EXCEPT ![c] = bs]
    /\ Enter(c, "discover")
    /\ UNCHANGED <<postingVars, polled, kills, todo, queue, job, response>>

QueueEvery(rows) == rows      \* mutant: rows that have a response are fetched again

\* The discovered rows that are fetched in this cycle.
Unfetched(rows) == {j \in rows : ~Fetched(j)}

\* Discovery of a due board ends with the rows it yielded, all of its matches,
\* those before a failure, or none; each is upserted and maybe queued.
Discover(c, b, rows) ==
    /\ at[c] = "discover"
    /\ b \in due[c]
    /\ rows \subseteq JobsOf(b)
    /\ posting' = WithDiscovered(rows)
    /\ queue' = [queue EXCEPT ![c] = @ \cup Unfetched(rows)]
    /\ polled' = polled \cup {b}
    /\ due' = [due EXCEPT ![c] = @ \ {b}]
    /\ UNCHANGED <<cache, kills, at, todo, job, response>>

EndDiscovery(c) ==
    /\ at[c] = "discover"
    /\ due[c] = {}
    /\ Enter(c, "fetch")
    /\ UNCHANGED <<postingVars, polled, kills, todo, due, queue, job, response>>

\* The adapter, or the Scrapling chain after it, answers for a queued row.
FetchRow(c, j, r) ==
    /\ at[c] = "fetch"
    /\ j \in queue[c]
    /\ r.key = j
    /\ queue' = [queue EXCEPT ![c] = @ \ {j}]
    /\ Enter(c, "store")
    /\ Hold(c, j, r)
    /\ UNCHANGED <<postingVars, polled, kills, todo, due>>

FetchRowFails(c, j) ==
    /\ at[c] = "fetch"
    /\ j \in queue[c]
    /\ queue' = [queue EXCEPT ![c] = @ \ {j}]
    /\ Enter(c, "error")
    /\ Hold(c, j, NoRaw)
    /\ UNCHANGED <<postingVars, polled, kills, todo, due>>

StoreRaw(c) ==
    /\ at[c] = "store"
    /\ posting' = WithRaw(response[c])
    /\ Enter(c, "save")
    /\ UNCHANGED <<cache, polled, kills, todo, due, queue, job, response>>

SaveRaw(c) ==
    /\ at[c] = "save"
    /\ cache' = [cache EXCEPT ![job[c]] = response[c]]
    /\ Enter(c, "fetch")
    /\ Hold(c, NoJob, NoRaw)
    /\ UNCHANGED <<posting, polled, kills, todo, due, queue>>

\* store_raw or _save_raw raises: disk full, database locked, ...
StoreFails(c) ==
    /\ at[c] \in {"store", "save"}
    /\ Enter(c, "error")
    /\ UNCHANGED <<postingVars, polled, kills, todo, due, queue, job, response>>

RecordError(c) ==
    /\ at[c] = "error"
    /\ posting' = WithError(job[c])
    /\ Enter(c, "fetch")
    /\ Hold(c, NoJob, NoRaw)
    /\ UNCHANGED <<cache, polled, kills, todo, due, queue>>

\* The cycle is over; `run` sleeps and starts another one, or returns.
EndCycle(c, next) ==
    /\ at[c] = "fetch"
    /\ queue[c] = {}
    /\ next \in {"cycle", "idle"}
    /\ Enter(c, next)
    /\ UNCHANGED <<postingVars, polled, kills, todo, due, queue, job, response>>

\* The collector process dies.
Kill(c) ==
    /\ at[c] # "idle"
    /\ kills < MaxKills
    /\ kills' = kills + 1
    /\ Enter(c, "idle")
    /\ todo' = [todo EXCEPT ![c] = {}]
    /\ due' = [due EXCEPT ![c] = {}]
    /\ queue' = [queue EXCEPT ![c] = {}]
    /\ Hold(c, NoJob, NoRaw)
    /\ UNCHANGED <<postingVars, polled>>

-------------------------------------------------------------------------------
Import(c) ==
    \/ \E j \in Jobs : ReadCached(c, j)
    \/ ImportCached(c) \/ StoreCached(c) \/ EndImport(c)

Cycle(c) ==
    \/ \E bs \in SUBSET Boards : BeginCycle(c, bs)
    \/ \E b \in Boards, rows \in SUBSET Jobs : Discover(c, b, rows)
    \/ EndDiscovery(c)
    \/ \E j \in Jobs, r \in Raws : FetchRow(c, j, r)
    \/ \E j \in Jobs : FetchRowFails(c, j)
    \/ StoreRaw(c) \/ SaveRaw(c) \/ StoreFails(c) \/ RecordError(c)
    \/ \E next \in Stages : EndCycle(c, next)

CycleNext ==
    \E c \in Collectors :
        \/ \E listed \in SUBSET Jobs : Run(c, listed)
        \/ Import(c)
        \/ Cycle(c)
        \/ Kill(c)

CollectorInit == PostingInit /\ CycleInit

CollectorSpec == CollectorInit /\ [][CycleNext]_collectorVars

(***************************************************************************)
(* A collector that is started again and again works each cycle off.  Each *)
(* vacancy stays listed on its board, and neither discovery nor the fetch  *)
(* of a row fails for ever.                                                *)
(***************************************************************************)
CollectorFairness ==
    \A c \in Collectors :
        /\ WF_collectorVars(\E listed \in SUBSET Jobs : Run(c, listed))
        /\ WF_collectorVars(Import(c) \/ Cycle(c))
        /\ \A b \in Boards : SF_collectorVars(Discover(c, b, JobsOf(b)))
        /\ \A j \in Jobs :
              /\ SF_collectorVars(\E r \in Raws : FetchRow(c, j, r))
              /\ SF_collectorVars(job[c] = j /\ StoreRaw(c))

FairCollectorSpec == CollectorSpec /\ CollectorFairness

-------------------------------------------------------------------------------
\* With one collector: what the cache holds for a fetched row is the response
\* of the row, across failed saves, deaths and imports.  This is the response
\* that a refresh must find to start from.
CacheAgreesWithRow ==
    \A j \in Jobs : Fetched(j) /\ cache[j] # NoRaw => cache[j] = posting[j].raw

\* A discovered vacancy is fetched in the end although the collector may die
\* after its board was polled: its board is due at once, not when the polling
\* interval has elapsed.
DiscoveredIsFetched ==
    \A j \in Jobs : posting[j].status = "discovered" ~> Fetched(j)
===============================================================================
