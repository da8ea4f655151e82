------------------------------- MODULE Postings -------------------------------
(***************************************************************************)
(* The part of a collector database that the collection cycle and the      *)
(* vacancy refresh share: the rows of the table `postings` and the raw     *)
(* cache file of every vacancy (state/vacancies.py, collectors/engine.py). *)
(*                                                                         *)
(* A raw response is abstracted to its vacancy key, its content identity   *)
(* (`content_hash`) and its fetch time stamp (`fetched_at`); two responses *)
(* are the same bytes iff the three agree.  The URL, the posting date and  *)
(* the wording of errors are left out.                                     *)
(***************************************************************************)
CONSTANTS
    Jobs,       \* board-qualified vacancy keys
    Contents,   \* content identities of official responses
    Stamps,     \* values of fetched_at
    NoRaw       \* no response / no file

VARIABLES
    posting,    \* posting[j]: row of `postings` for vacancy j
    cache       \* cache[j]: the file <raw_cache>/<board>/<job>.json

Raws == [key: Jobs, content: Contents, at: Stamps]

ASSUME NoRawAssumption == NoRaw \notin Raws

postingVars == <<posting, cache>>

FetchStatuses == {"absent", "discovered", "fetched", "error"}

Absent == [status |-> "absent", raw |-> NoRaw]

PostingTypeOK ==
    /\ posting \in [Jobs -> [status: FetchStatuses, raw: Raws \cup {NoRaw}]]
    /\ cache \in [Jobs -> Raws \cup {NoRaw}]

(***************************************************************************)
(* A vacancy is first seen without a cache file and a row, with the file   *)
(* that an earlier cycle saved along with its row, or with a file of a     *)
(* legacy raw cache that the database does not know yet.                   *)
(***************************************************************************)
PostingInit ==
    /\ cache \in [Jobs -> Raws \cup {NoRaw}]
    /\ \A j \in Jobs : cache[j] # NoRaw => cache[j].key = j
    /\ \E known \in SUBSET {j \in Jobs : cache[j] # NoRaw} :
          posting = [j \in Jobs |-> IF j \in known
                                   THEN [status |-> "fetched", raw |-> cache[j]]
                                   ELSE Absent]

Fetched(j) == posting[j].status = "fetched"

\* Every file holds a response of the vacancy it is named after.
FilesHoldOwnResponse == \A j \in Jobs : cache[j] # NoRaw => cache[j].key = j

\* Postings whose raw response is r (store_raw is an UPDATE: no row, no effect).
WithRaw(r) ==
    IF posting[r.key].status = "absent" THEN posting
    ELSE [posting EXCEPT ![r.key] = [status |-> "fetched", raw |-> r]]

\* record_error changes the status and keeps the stored response.
WithError(j) ==
    IF posting[j].status = "absent" THEN posting
    ELSE [posting EXCEPT ![j].status = "error"]

WithPending(js) ==      \* mutant: a status the readers of the table do not know
    [j \in Jobs |-> IF j \in js /\ posting[j].status = "absent"
                    THEN [Absent EXCEPT !.status = "pending"]
                    ELSE posting[j]]

\* upsert_discovered inserts a row or leaves the response of the row alone.
WithDiscovered(js) ==
    [j \in Jobs |-> IF j \in js /\ posting[j].status = "absent"
                    THEN [Absent EXCEPT !.status = "discovered"]
                    ELSE posting[j]]
===============================================================================
