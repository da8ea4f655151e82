------------------------- MODULE VacancyRefreshProofs -------------------------
(***************************************************************************)
(* Proofs about VacancyRefresh, for any number of processes, operations,   *)
(* vacancies, responses and crashes: the invariant RefreshInv is           *)
(* inductive, and the safety properties of the journal follow from it.     *)
(***************************************************************************)
EXTENDS VacancyRefresh, TLAPS

USE RefreshAssumption, NoRawAssumption

\* What any step may do to a journal row r that another process relies on.
Advances(r, s) ==
    /\ s.job = r.job /\ s.expected = r.expected /\ s.old = r.old
    /\ r.status # "intent" => s.status # "intent"
    /\ r.status \in Complete => s.new = r.new /\ s.status \in Complete
    /\ r.status = "committed" => s = r

JournalAdvances ==
    \A o \in Ops : journal[o] # NoRow => journal'[o] # NoRow /\ Advances(journal[o], journal'[o])

\* The locals of every process but p stay as they are.
OthersRest(p) ==
    \A q \in Procs \ {p} : /\ pc'[q] = pc[q] /\ request'[q] = request[q]
                           /\ tr'[q] = tr[q] /\ raw'[q] = raw[q]

\* p enters no fetch window in this step.
NoEntry(p) == pc'[p] \in InWindow => pc[p] \in InWindow /\ request'[p] = request[p]

RowsOK == \A o \in Ops : journal[o] # NoRow => RowOK(journal[o]) /\ OwnReceipt(o)
OneInWindow == \A p, q \in Procs :
    pc[p] \in InWindow /\ pc[q] \in InWindow /\ op(p) = op(q) => p = q

\* The operation of a running call is an operation.
LEMMA OpOfCall ==
    ASSUME RefreshInv, NEW p \in Procs, pc[p] # "idle"
    PROVE  /\ request[p] \in Requests
           /\ op(p) \in Ops
           /\ request[p].job \in Jobs
           /\ request[p].expected \in Contents
           /\ row(p) \in Rows \cup {NoRow}
BY DEF RefreshInv, RefreshTypeOK, CallOK, op, row

\* A process that another one leaves alone can still rely on what it relied on.
LEMMA OtherCallOK ==
    ASSUME RefreshInv, NEW p \in Procs, NEW q \in Procs \ {p},
           OthersRest(p), JournalAdvances, objects \subseteq objects',
           pc[q] \in InWindow \cup {"record", "journalling"} => fetches'[op(q)] = fetches[op(q)]
    PROVE  CallOK(q)'
<1>1. CallOK(q) /\ pc[q] \in Points
  BY DEF RefreshInv, RefreshTypeOK
<1>2. /\ pc'[q] = pc[q] /\ request'[q] = request[q] /\ tr'[q] = tr[q] /\ raw'[q] = raw[q]
      /\ op(q)' = op(q)
  BY DEF OthersRest, op
<1>3. CASE pc[q] \notin Admitted
  BY <1>1, <1>2, <1>3 DEF CallOK, Admitted, Loaded, InWindow, Points
<1>4. CASE pc[q] \in Admitted
  <2>1. op(q) \in Ops /\ row(q) # NoRow /\ SameContext(row(q), request[q])
    BY <1>1, <1>4, OpOfCall DEF CallOK, Admitted, Loaded
  <2>2. row(q)' = journal'[op(q)] /\ row(q)' # NoRow /\ Advances(row(q), row(q)')
    BY <1>2, <2>1 DEF JournalAdvances, row
  <2>3. SameContext(row(q)', request'[q])
    BY <1>2, <2>1, <2>2 DEF SameContext, Advances
  <2>4. pc[q] \in Loaded => Follows(row(q)', tr'[q])
    BY <1>1, <1>2, <2>2 DEF CallOK, Advances, Follows
  <2>5. pc[q] \in InWindow => row(q)'.status # "intent" /\ fetches'[op(q)'] = 0
    BY <1>1, <1>2, <2>2 DEF CallOK, Advances
  <2>6. pc[q] = "start" => row(q)'.old \in objects'
    BY <1>1, <1>2, <2>2 DEF CallOK, Advances
  <2>7. pc[q] \in {"record", "journalling"} => fetches'[op(q)'] = 1
    BY <1>1, <1>2 DEF CallOK
  <2> QED
    BY <1>1, <1>2, <2>2, <2>3, <2>4, <2>5, <2>6, <2>7 DEF CallOK
<1> QED
  BY <1>3, <1>4

\* What is left to show of a step of p once the other processes are set aside.
LEMMA StepOfOne ==
    ASSUME RefreshInv, NEW p \in Procs,
           OthersRest(p), JournalAdvances, objects \subseteq objects',
           \A q \in Procs \ {p} :
              pc[q] \in InWindow \cup {"record", "journalling"}
                 => fetches'[op(q)] = fetches[op(q)],
           NoEntry(p), RefreshTypeOK', RowsOK', CallOK(p)',
           OfficialFetchCount', OneActiveRefresh', ResponsesAreDurable', ReceiptsAreSealed'
    PROVE  RefreshInv'
<1>1. \A q \in Procs : CallOK(q)'
  BY OtherCallOK
<1>2. OneInWindow'
  <2> SUFFICES ASSUME NEW q \in Procs, NEW r \in Procs,
                      pc'[q] \in InWindow, pc'[r] \in InWindow, op(q)' = op(r)'
               PROVE  q = r
    BY DEF OneInWindow
  <2>1. /\ pc[q] \in InWindow /\ op(q) = op(q)'
        /\ pc[r] \in InWindow /\ op(r) = op(r)'
    BY DEF OthersRest, NoEntry, op
  <2> QED
    BY <2>1 DEF RefreshInv
<1> QED
  BY <1>1, <1>2 DEF RefreshInv, RowsOK, OneInWindow

\* A step that leaves the journal, the receipts and the fetch counts alone.
LEMMA QuietStep ==
    ASSUME RefreshInv, NEW p \in Procs,
           OthersRest(p), UNCHANGED <<journal, receipts, fetches>>, objects \subseteq objects',
           NoEntry(p), RefreshTypeOK', CallOK(p)'
    PROVE  RefreshInv'
<1>1. JournalAdvances
  BY DEF JournalAdvances, Advances
<1>2. RowsOK' /\ OfficialFetchCount' /\ OneActiveRefresh' /\ ReceiptsAreSealed'
  BY DEF RefreshInv, RowsOK, OwnReceipt, OfficialFetchCount, OneActiveRefresh, ReceiptsAreSealed
<1>3. ResponsesAreDurable'
  BY DEF RefreshInv, ResponsesAreDurable
<1> QED
  BY <1>1, <1>2, <1>3, StepOfOne

-------------------------------------------------------------------------------
\* How the two ways a call goes on, and the end of a call, leave the types.
LEMMA LeaveStep ==
    ASSUME RefreshInv, NEW p \in Procs, Leave(p)
    PROVE  /\ OthersRest(p) /\ NoEntry(p) /\ CallOK(p)'
           /\ pc' \in [Procs -> Points]
           /\ request' \in [Procs -> Requests \cup {NoRequest}]
           /\ tr' \in [Procs -> Rows \cup {NoRow}]
           /\ raw' \in [Procs -> Raws \cup {NoRaw}]
<1>1. pc'[p] = "idle"
  BY DEF RefreshInv, RefreshTypeOK, Leave
<1>2. CallOK(p)' /\ NoEntry(p)
  BY <1>1 DEF CallOK, NoEntry, Admitted, Loaded, InWindow
<1> QED
  BY <1>2 DEF RefreshInv, RefreshTypeOK, Leave, OthersRest, Points

\* A call that moves to a point of no entry keeps the invariant.
LEMMA GotoStep ==
    ASSUME RefreshInv, NEW p \in Procs, NEW point \in Points, Goto(p, point),
           raw' \in [Procs -> Raws \cup {NoRaw}],
           \A q \in Procs \ {p} : raw'[q] = raw[q]
    PROVE  /\ OthersRest(p)
           /\ pc' \in [Procs -> Points] /\ pc'[p] = point
           /\ request' = request
           /\ tr' = tr
           /\ op(p)' = op(p)
BY DEF RefreshInv, RefreshTypeOK, Goto, OthersRest, op

\* The end of a call that leaves everything but the locals as it is.
LEMMA LeavingStep ==
    ASSUME RefreshInv, NEW p \in Procs, Leave(p), crashes' \in 0..MaxCrashes,
           UNCHANGED <<postingVars, journal, objects, receipts, fetches>>
    PROVE  RefreshInv'
<1>1. RefreshTypeOK'
  BY LeaveStep DEF RefreshInv, RefreshTypeOK, PostingTypeOK, postingVars
<1> QED
  BY <1>1, LeaveStep, QuietStep

-------------------------------------------------------------------------------
\* A call or replay starts on a well-formed request.
LEMMA CallKeeps ==
    ASSUME RefreshInv, NEW p \in Procs, NEW q \in Requests, Call(p, q)
    PROVE  RefreshInv'
<1>1. /\ q.op \in Ops
      /\ pc' = [pc EXCEPT ![p] = IF journal[q.op] = NoRow THEN "posting" ELSE "objects"]
      /\ request' = [request EXCEPT ![p] = q]
      /\ tr' = [tr EXCEPT ![p] = journal[q.op]]
      /\ UNCHANGED <<postingVars, journal, objects, receipts, fetches, crashes, raw>>
  BY DEF Call
<1>2. RefreshTypeOK'
  BY <1>1 DEF RefreshInv, RefreshTypeOK, PostingTypeOK, postingVars, Points
<1>3. OthersRest(p)
  BY <1>1 DEF RefreshInv, RefreshTypeOK, OthersRest
<1>4. pc'[p] \in {"posting", "objects"} /\ request'[p] = q /\ op(p)' = q.op /\ tr'[p] = journal[q.op]
      /\ (pc'[p] = "objects" => journal[q.op] # NoRow)
  BY <1>1 DEF RefreshInv, RefreshTypeOK, op
<1>5. NoEntry(p)
  BY <1>4 DEF NoEntry, InWindow
<1>6. row(p)' = journal[q.op]
  BY <1>1, <1>4 DEF row
<1>7. CASE journal[q.op] = NoRow
  <2>1. pc'[p] = "posting"
    BY <1>1, <1>7 DEF RefreshInv, RefreshTypeOK
  <2>2. CallOK(p)'
    BY <1>4, <2>1 DEF CallOK, Admitted, Loaded, InWindow
  <2> QED
    BY <1>1, <1>2, <1>3, <1>5, <2>2, QuietStep
<1>8. CASE journal[q.op] # NoRow
  <2>1. pc'[p] = "objects"
    BY <1>1, <1>8 DEF RefreshInv, RefreshTypeOK
  <2>2. SameContext(journal[q.op], q)
    BY <1>8 DEF Call
  <2>3. RowOK(journal[q.op]) /\ Follows(journal[q.op], journal[q.op])
    BY <1>1, <1>8 DEF RefreshInv, Follows
  <2>4. CallOK(p)'
    <3>1. row(p)' # NoRow /\ SameContext(row(p)', request'[p])
      BY <1>4, <1>6, <1>8, <2>2
    <3>2. tr'[p] # NoRow /\ RowOK(tr'[p]) /\ Follows(row(p)', tr'[p])
      BY <1>4, <1>6, <1>8, <2>3
    <3> QED
      BY <1>4, <2>1, <3>1, <3>2 DEF CallOK, InWindow, SameContext, RowOK, Follows
  <2> QED
    BY <1>1, <1>2, <1>3, <1>5, <2>4, QuietStep
<1> QED
  BY <1>7, <1>8

\* A step that goes on to a point and touches neither the journal nor the
\* receipts nor the fetch counts.
LEMMA QuietGoto ==
    ASSUME RefreshInv, NEW p \in Procs, NEW point \in Points, Goto(p, point),
           raw' \in [Procs -> Raws \cup {NoRaw}],
           \A q \in Procs \ {p} : raw'[q] = raw[q],
           UNCHANGED <<journal, receipts, fetches, crashes>>,
           objects \subseteq objects', objects' \subseteq Raws, PostingTypeOK',
           point \in InWindow => pc[p] \in InWindow,
           CallOK(p)'
    PROVE  RefreshInv'
<1>1. /\ OthersRest(p) /\ NoEntry(p)
      /\ pc' \in [Procs -> Points] /\ request' = request /\ tr' = tr
  BY GotoStep DEF NoEntry
<1>2. RefreshTypeOK'
  BY <1>1 DEF RefreshInv, RefreshTypeOK
<1> QED
  BY <1>1, <1>2, QuietStep

\* A new call that finds another content than it expects leaves.
LEMMA ReadPostingKeeps ==
    ASSUME RefreshInv, NEW p \in Procs, ReadPosting(p)
    PROVE  RefreshInv'
<1>1. /\ pc[p] = "posting" /\ request[p] \in Requests
      /\ UNCHANGED <<postingVars, journal, objects, receipts, fetches, crashes>>
  BY DEF ReadPosting, RefreshInv, CallOK
<1>2. CASE Leave(p)
  BY <1>1, <1>2, LeavingStep DEF RefreshInv, RefreshTypeOK
<1>3. CASE Goto(p, "cache") /\ UNCHANGED raw
  <2>1. CallOK(p)'
    BY <1>1, <1>3, GotoStep DEF CallOK, Points, Admitted, Loaded, InWindow,
       RefreshInv, RefreshTypeOK
  <2> QED
    BY <1>1, <1>3, <2>1, QuietGoto
       DEF RefreshInv, RefreshTypeOK, PostingTypeOK, postingVars, Points, InWindow
<1> QED
  BY <1>2, <1>3 DEF ReadPosting, GotoOrLeave

\* A new call without cached bytes leaves; otherwise it carries them.
LEMMA ReadCacheKeeps ==
    ASSUME RefreshInv, NEW p \in Procs, ReadCache(p)
    PROVE  RefreshInv'
<1>1. /\ pc[p] = "cache" /\ request[p] \in Requests /\ request[p].job \in Jobs
      /\ UNCHANGED <<postingVars, journal, objects, receipts, fetches, crashes>>
  BY OpOfCall DEF ReadCache
<1>2. CASE Leave(p)
  BY <1>1, <1>2, LeavingStep DEF RefreshInv, RefreshTypeOK
<1>3. CASE /\ cache[request[p].job] # NoRaw
           /\ Goto(p, "begin")
           /\ raw' = [raw EXCEPT ![p] = cache[request[p].job]]
  <2>1. raw' \in [Procs -> Raws \cup {NoRaw}] /\ raw'[p] \in Raws
        /\ \A q \in Procs \ {p} : raw'[q] = raw[q]
    BY <1>1, <1>3 DEF RefreshInv, RefreshTypeOK, PostingTypeOK
  <2>2. CallOK(p)'
    BY <1>1, <1>3, <2>1, GotoStep DEF CallOK, Points, Admitted, Loaded, InWindow
  <2> QED
    BY <1>1, <1>3, <2>1, <2>2, QuietGoto
       DEF RefreshInv, RefreshTypeOK, PostingTypeOK, postingVars, Points, InWindow
<1> QED
  BY <1>2, <1>3 DEF ReadCache

\* Where a reloading process may go, and what it can rely on there.
LEMMA ReloadKeeps ==
    ASSUME RefreshInv, NEW p \in Procs, Reload(p)
    PROVE  RefreshInv'
<1> DEFINE point == AfterReload(pc[p], row(p).status)
<1>1. /\ pc[p] \in {"begun", "claimed", "recorded", "readied", "sealed"}
      /\ UNCHANGED <<postingVars, journal, objects, receipts, fetches, crashes>>
      /\ op(p) \in Ops /\ request[p] \in Requests
  BY OpOfCall DEF Reload
<1>2. /\ row(p) # NoRow /\ row(p) \in Rows /\ SameContext(row(p), request[p]) /\ RowOK(row(p))
      /\ pc[p] = "claimed" => row(p).status # "intent" /\ fetches[op(p)] = 0
  BY <1>1, OpOfCall DEF RefreshInv, CallOK, Admitted, Loaded, Points, InWindow, row
<1>3. CASE Leave(p)
  BY <1>1, <1>3, LeavingStep DEF RefreshInv, RefreshTypeOK
<1>4. CASE point # "idle" /\ Proceed(p, point)
  <2>1. row(p).status \in Statuses
    BY <1>2 DEF Rows
  <2>2. /\ point \in {"objects", "fetch", "object", "seal", "check"}
        /\ point = "fetch" => pc[p] = "claimed" /\ row(p).status = "fetch_started"
        /\ point = "object" => row(p).status = "fetched"
        /\ point = "check" => row(p).status = "committed"
    BY <1>1, <1>4, <2>1 DEF AfterReload, AfterFetch, Statuses, PreFetch, Complete
  <2>3. /\ pc' = [pc EXCEPT ![p] = point] /\ tr' = [tr EXCEPT ![p] = row(p)]
        /\ raw' = [raw EXCEPT ![p] = NoRaw] /\ request' = request
    BY <1>4 DEF Proceed
  <2>4. pc'[p] = point /\ tr'[p] = row(p) /\ op(p)' = op(p) /\ row(p)' = row(p)
    BY <1>1, <2>3 DEF RefreshInv, RefreshTypeOK, op, row
  <2>5. OthersRest(p) /\ NoEntry(p)
    BY <2>2, <2>3, <2>4 DEF OthersRest, NoEntry, InWindow, RefreshInv, RefreshTypeOK
  <2>6. RefreshTypeOK'
    BY <1>1, <1>2, <2>2, <2>3
       DEF RefreshInv, RefreshTypeOK, PostingTypeOK, postingVars, Points
  <2>7. Follows(row(p), row(p))
    BY DEF Follows
  <2>8. CallOK(p)'
    <3>1. row(p)' # NoRow /\ SameContext(row(p)', request'[p])
          /\ tr'[p] # NoRow /\ RowOK(tr'[p]) /\ Follows(row(p)', tr'[p])
      BY <1>2, <2>3, <2>4, <2>7
    <3>2. pc'[p] \in InWindow => row(p)'.status # "intent" /\ fetches'[op(p)'] = 0
      BY <1>1, <1>2, <2>2, <2>4 DEF InWindow
    <3> QED
      BY <1>1, <2>2, <2>3, <2>4, <3>1, <3>2 DEF CallOK, SameContext, RowOK, Follows
  <2> QED
    BY <1>1, <2>5, <2>6, <2>8, QuietStep
<1> QED
  BY <1>3, <1>4 DEF Reload, Proceed

\* A running call whose row is journalled: what its step starts from.
LEMMA AdmittedCall ==
    ASSUME RefreshInv, NEW p \in Procs, pc[p] \in Admitted
    PROVE  /\ op(p) \in Ops /\ request[p] \in Requests
           /\ row(p) \in Rows /\ row(p) # NoRow /\ RowOK(row(p))
           /\ SameContext(row(p), request[p])
           /\ pc[p] \in Loaded =>
                 /\ tr[p] \in Rows /\ RowOK(tr[p]) /\ Follows(row(p), tr[p])
<1>1. pc[p] # "idle" /\ CallOK(p)
  BY DEF Admitted, Loaded, RefreshInv
<1>2. op(p) \in Ops /\ request[p] \in Requests /\ row(p) \in Rows \cup {NoRow}
  BY <1>1, OpOfCall
<1>3. row(p) # NoRow /\ SameContext(row(p), request[p])
  BY <1>1 DEF CallOK
<1>4. RowOK(row(p))
  BY <1>2, <1>3 DEF RefreshInv, row
<1>5. pc[p] \in Loaded => tr[p] \in Rows /\ RowOK(tr[p]) /\ Follows(row(p), tr[p])
  BY <1>1 DEF CallOK, RefreshInv, RefreshTypeOK
<1> QED
  BY <1>2, <1>3, <1>4, <1>5

\* Every quiet step of a loaded call that goes on keeps its snapshot and row.
LEMMA LoadedGoto ==
    ASSUME RefreshInv, NEW p \in Procs, pc[p] \in Loaded,
           NEW point \in Loaded, Goto(p, point), point \notin InWindow,
           raw' \in [Procs -> Raws \cup {NoRaw}],
           \A q \in Procs \ {p} : raw'[q] = raw[q],
           UNCHANGED <<journal, receipts, fetches, crashes>>,
           objects \subseteq objects', objects' \subseteq Raws, PostingTypeOK',
           point \in {"record", "journalling"} => raw'[p] \in Raws /\ fetches[op(p)] = 1,
           point = "start" => row(p).old \in objects',
           point \in {"object", "ready"} => tr[p].status = "fetched",
           point = "ready" => tr[p].new \in objects',
           point \in {"check", "materialize", "receipt"} => tr[p].status = "committed"
    PROVE  RefreshInv'
<1>1. /\ pc[p] \in Admitted /\ point \in Points /\ point # "begin"
  BY DEF Admitted, Loaded
<1>2. pc'[p] = point /\ request'[p] = request[p] /\ tr'[p] = tr[p] /\ op(p)' = op(p)
      /\ row(p)' = row(p)
  BY <1>1, GotoStep DEF row
<1>3. /\ row(p) # NoRow /\ SameContext(row(p), request[p]) /\ request[p] \in Requests
      /\ tr[p] # NoRow /\ RowOK(tr[p]) /\ Follows(row(p), tr[p])
  BY <1>1, AdmittedCall DEF RefreshInv, CallOK
<1>4. SameContext(row(p)', request'[p]) /\ RowOK(tr'[p]) /\ Follows(row(p)', tr'[p])
  BY <1>2, <1>3
<1>5. CallOK(p)'
  BY <1>1, <1>2, <1>3, <1>4 DEF CallOK
<1> QED
  BY <1>1, <1>5, QuietGoto DEF RefreshInv, RefreshTypeOK

\* Storing the old bytes adds an object and removes none.
LEMMA WriteOldObjectKeeps ==
    ASSUME RefreshInv, NEW p \in Procs, WriteOldObject(p)
    PROVE  RefreshInv'
<1> DEFINE next == Resume(tr[p].status)
<1>1. /\ pc[p] = "objects" /\ pc[p] \in Loaded /\ pc[p] \in Admitted
      /\ objects' = objects \cup {tr[p].old}
      /\ UNCHANGED <<postingVars, journal, receipts, fetches, crashes>>
  BY DEF WriteOldObject, Loaded, Admitted, Points
<1>2. /\ tr[p] \in Rows /\ RowOK(tr[p]) /\ Follows(row(p), tr[p])
      /\ tr[p].old \in Raws /\ tr[p].status \in Statuses
  BY <1>1, AdmittedCall DEF Rows
<1>3. objects' \subseteq Raws /\ PostingTypeOK'
  BY <1>1, <1>2 DEF RefreshInv, RefreshTypeOK, PostingTypeOK, postingVars
<1>4. CASE Leave(p)
  <2>1. RefreshTypeOK'
    BY <1>1, <1>3, <1>4, LeaveStep DEF RefreshInv, RefreshTypeOK
  <2> QED
    BY <1>1, <1>4, <2>1, LeaveStep, QuietStep
<1>5. CASE next # "idle" /\ Goto(p, next) /\ UNCHANGED raw
  <2>1. /\ next \in {"start", "abandon", "object", "seal", "check"}
        /\ next = "object" => tr[p].status = "fetched"
        /\ next = "check" => tr[p].status = "committed"
    BY <1>2, <1>5 DEF Resume, AfterFetch, Statuses, PreFetch, Complete
  <2>2. next \in Loaded /\ next \notin InWindow
    BY <2>1 DEF Loaded, Points, InWindow
  <2>3. row(p).old \in objects'
    BY <1>1, <1>2 DEF Follows
  <2> HIDE DEF next
  <2> QED
    BY <1>1, <1>3, <1>5, <2>1, <2>2, <2>3, LoadedGoto DEF RefreshInv, RefreshTypeOK
<1> QED
  BY <1>4, <1>5 DEF WriteOldObject

\* The read before the record only chooses how the call goes on.
LEMMA ReadForRecordKeeps ==
    ASSUME RefreshInv, NEW p \in Procs, ReadForRecord(p)
    PROVE  RefreshInv'
<1>1. /\ pc[p] = "record" /\ pc[p] \in Loaded
      /\ UNCHANGED <<postingVars, journal, objects, receipts, fetches, crashes>>
  BY DEF ReadForRecord, Loaded, Points
<1>2. /\ raw[p] \in Raws /\ fetches[op(p)] = 1
      /\ PostingTypeOK' /\ objects' \subseteq Raws /\ raw \in [Procs -> Raws \cup {NoRaw}]
  BY <1>1 DEF RefreshInv, RefreshTypeOK, CallOK, PostingTypeOK, postingVars
<1>3. CASE Leave(p)
  BY <1>1, <1>3, LeavingStep DEF RefreshInv, RefreshTypeOK
<1>4. CASE \E point \in {"abandon", "journalling", "recorded"} :
              Goto(p, point) /\ UNCHANGED raw
  <2>1. PICK point \in {"abandon", "journalling", "recorded"} :
              Goto(p, point) /\ UNCHANGED raw
    BY <1>4
  <2>2. point \in Loaded /\ point \notin InWindow
        /\ point \notin {"start", "object", "ready", "check", "materialize", "receipt"}
    BY DEF Loaded, Points, InWindow
  <2> QED
    BY <1>1, <1>2, <2>1, <2>2, LoadedGoto
<1> QED
  BY <1>3, <1>4 DEF ReadForRecord, GotoOrLeave

\* Storing the new bytes adds an object and removes none.
LEMMA WriteNewObjectKeeps ==
    ASSUME RefreshInv, NEW p \in Procs, WriteNewObject(p)
    PROVE  RefreshInv'
<1>1. /\ pc[p] = "object" /\ pc[p] \in Loaded /\ pc[p] \in Admitted
      /\ objects' = objects \cup {tr[p].new}
      /\ Goto(p, "ready") /\ UNCHANGED <<postingVars, journal, receipts, fetches, crashes, raw>>
  BY DEF WriteNewObject, Loaded, Admitted, Points
<1>2. tr[p].status = "fetched" /\ tr[p].new \in Raws
  BY <1>1, AdmittedCall DEF RefreshInv, CallOK, RowOK, Complete
<1>3. /\ PostingTypeOK' /\ objects' \subseteq Raws /\ raw \in [Procs -> Raws \cup {NoRaw}]
  BY <1>1, <1>2 DEF RefreshInv, RefreshTypeOK, PostingTypeOK, postingVars
<1>4. "ready" \in Loaded /\ "ready" \notin InWindow
  BY DEF Loaded, Points, InWindow
<1> QED
  BY <1>1, <1>2, <1>3, <1>4, LoadedGoto

\* The comparison before the seal changes nothing.
LEMMA CheckCurrentKeeps ==
    ASSUME RefreshInv, NEW p \in Procs, CheckCurrent(p)
    PROVE  RefreshInv'
<1>1. /\ pc[p] = "check" /\ pc[p] \in Loaded
      /\ UNCHANGED <<postingVars, journal, objects, receipts, fetches, crashes>>
  BY DEF CheckCurrent, Loaded, Points
<1>2. /\ tr[p].status = "committed"
      /\ PostingTypeOK' /\ objects' \subseteq Raws /\ raw \in [Procs -> Raws \cup {NoRaw}]
  BY <1>1 DEF RefreshInv, RefreshTypeOK, CallOK, PostingTypeOK, postingVars
<1>3. CASE Leave(p)
  BY <1>1, <1>3, LeavingStep DEF RefreshInv, RefreshTypeOK
<1>4. CASE Goto(p, "materialize") /\ UNCHANGED raw
  <2>1. "materialize" \in Loaded /\ "materialize" \notin InWindow
    BY DEF Loaded, Points, InWindow
  <2> QED
    BY <1>1, <1>2, <1>4, <2>1, LoadedGoto
<1> QED
  BY <1>3, <1>4 DEF CheckCurrent, GotoOrLeave

\* Writing the cache concerns no row.
LEMMA MaterializeKeeps ==
    ASSUME RefreshInv, NEW p \in Procs, Materialize(p)
    PROVE  RefreshInv'
<1>1. /\ pc[p] = "materialize" /\ pc[p] \in Loaded /\ pc[p] \in Admitted
      /\ cache' = [cache EXCEPT ![request[p].job] = tr[p].new]
      /\ Goto(p, "receipt") /\ UNCHANGED <<posting, journal, objects, receipts, fetches, crashes, raw>>
  BY DEF Materialize, Loaded, Admitted, Points
<1>2. tr[p].status = "committed" /\ tr[p].new \in Raws
  BY <1>1, AdmittedCall DEF RefreshInv, CallOK, RowOK, Complete
<1>3. PostingTypeOK'
  BY <1>1, <1>2, AdmittedCall DEF RefreshInv, RefreshTypeOK, PostingTypeOK
<1>4. "receipt" \in Loaded /\ "receipt" \notin InWindow
  BY DEF Loaded, Points, InWindow
<1> QED
  BY <1>1, <1>2, <1>3, <1>4, LoadedGoto DEF RefreshInv, RefreshTypeOK

\* A dead call leaves the journal and the files as they are.
LEMMA CrashKeeps ==
    ASSUME RefreshInv, NEW p \in Procs, Crash(p)
    PROVE  RefreshInv'
<1>1. crashes' \in 0..MaxCrashes
  BY DEF Crash, RefreshInv, RefreshTypeOK
<1> QED
  BY <1>1, LeavingStep DEF Crash

-------------------------------------------------------------------------------
\* The rows after a transaction that moves p's own row on from r to s.
LEMMA RowMoves ==
    ASSUME RefreshInv, NEW p \in Procs, pc[p] \in Admitted, NEW s \in Rows,
           journal' = [journal EXCEPT ![op(p)] = s],
           UNCHANGED <<objects, receipts, fetches>>,
           RowOK(s), s.receipt # NoReceipt => s.receipt.op = op(p), Advances(row(p), s),
           s.status \in Blocking => row(p).status \in Blocking,
           s.status # "intent" => s.old \in objects,
           s.status \in {"object_ready", "committed"} => s.new \in objects,
           s.status \in Complete => fetches[op(p)] = 1,
           s.status = "intent" => fetches[op(p)] = 0
    PROVE  /\ journal' \in [Ops -> Rows \cup {NoRow}] /\ journal'[op(p)] = s
           /\ JournalAdvances /\ RowsOK'
           /\ OfficialFetchCount' /\ OneActiveRefresh' /\ ResponsesAreDurable' /\ ReceiptsAreSealed'
<1>1. op(p) \in Ops /\ row(p) \in Rows /\ row(p) # NoRow /\ s # NoRow /\ row(p) = journal[op(p)]
  BY AdmittedCall DEF row
<1>2. /\ journal' \in [Ops -> Rows \cup {NoRow}]
      /\ journal'[op(p)] = s
      /\ \A o \in Ops \ {op(p)} : journal'[o] = journal[o]
  BY <1>1 DEF RefreshInv, RefreshTypeOK
<1>3. JournalAdvances
  BY <1>1, <1>2 DEF JournalAdvances, Advances
<1>4. RowsOK'
  BY <1>2 DEF RefreshInv, RowsOK, OwnReceipt
<1>5. OfficialFetchCount'
  BY <1>1, <1>2 DEF RefreshInv, OfficialFetchCount
<1>6. OneActiveRefresh'
  <2> SUFFICES ASSUME NEW o1 \in Ops, NEW o2 \in Ops,
                      journal'[o1] # NoRow, journal'[o1].status \in Blocking,
                      journal'[o2] # NoRow, journal'[o2].status \in Blocking,
                      journal'[o1].job = journal'[o2].job
               PROVE  o1 = o2
    BY DEF OneActiveRefresh
  <2>1. /\ journal[o1] # NoRow /\ journal[o1].status \in Blocking
        /\ journal[o2] # NoRow /\ journal[o2].status \in Blocking
        /\ journal[o1].job = journal[o2].job
    BY <1>1, <1>2 DEF Advances
  <2> QED
    BY <2>1 DEF RefreshInv, OneActiveRefresh
<1>7. ResponsesAreDurable'
  BY <1>2 DEF RefreshInv, ResponsesAreDurable
<1>8. ReceiptsAreSealed'
  <2> SUFFICES ASSUME NEW r \in receipts
               PROVE  /\ journal'[r.op] # NoRow /\ journal'[r.op].status = "committed"
                      /\ journal'[r.op].receipt = r
    BY DEF ReceiptsAreSealed
  <2>1. r.op \in Ops
    BY DEF RefreshInv, RefreshTypeOK, Sealed
  <2>2. /\ journal[r.op] # NoRow /\ journal[r.op].status = "committed"
        /\ journal[r.op].receipt = r
    BY DEF RefreshInv, ReceiptsAreSealed
  <2> QED
    BY <1>1, <1>2, <2>1, <2>2 DEF Advances
<1> QED
  BY <1>2, <1>3, <1>4, <1>5, <1>6, <1>7, <1>8

\* A transaction of a loaded call that leaves: only the row changes.
LEMMA MoveAndLeave ==
    ASSUME RefreshInv, NEW p \in Procs, pc[p] \in Admitted, NEW s \in Rows,
           journal' = [journal EXCEPT ![op(p)] = s],
           UNCHANGED <<postingVars, objects, receipts, fetches, crashes>>, Leave(p),
           RowOK(s), s.receipt # NoReceipt => s.receipt.op = op(p), Advances(row(p), s),
           s.status \in Blocking => row(p).status \in Blocking,
           s.status # "intent" => s.old \in objects,
           s.status \in {"object_ready", "committed"} => s.new \in objects,
           s.status \in Complete => fetches[op(p)] = 1,
           s.status = "intent" => fetches[op(p)] = 0
    PROVE  RefreshInv'
<1>1. RefreshTypeOK'
  BY RowMoves, LeaveStep DEF RefreshInv, RefreshTypeOK, PostingTypeOK, postingVars
<1> QED
  BY <1>1, RowMoves, LeaveStep, StepOfOne

\* A transaction of a loaded call that goes on to reload the row.
LEMMA MoveAndGoto ==
    ASSUME RefreshInv, NEW p \in Procs, pc[p] \in Loaded, NEW s \in Rows,
           NEW point \in {"recorded", "readied", "sealed"},
           journal' = [journal EXCEPT ![op(p)] = s],
           UNCHANGED <<objects, receipts, fetches, crashes, raw>>, Goto(p, point),
           PostingTypeOK',
           RowOK(s), s.receipt # NoReceipt => s.receipt.op = op(p), Advances(row(p), s), Follows(s, tr[p]),
           s.status \in Blocking => row(p).status \in Blocking,
           s.status # "intent" => s.old \in objects,
           s.status \in {"object_ready", "committed"} => s.new \in objects,
           s.status \in Complete => fetches[op(p)] = 1,
           s.status = "intent" => fetches[op(p)] = 0
    PROVE  RefreshInv'
<1>1. point \in Points /\ point \in Loaded /\ point \in Admitted /\ pc[p] \in Admitted
      /\ point \notin InWindow
  BY DEF Points, Loaded, Admitted, InWindow
<1>2. /\ pc' \in [Procs -> Points] /\ pc'[p] = point /\ request' = request /\ tr' = tr
      /\ op(p)' = op(p) /\ OthersRest(p)
  BY <1>1, GotoStep DEF RefreshInv, RefreshTypeOK
<1>3. /\ journal' \in [Ops -> Rows \cup {NoRow}] /\ journal'[op(p)] = s
      /\ JournalAdvances /\ RowsOK'
      /\ OfficialFetchCount' /\ OneActiveRefresh' /\ ResponsesAreDurable' /\ ReceiptsAreSealed'
  BY <1>1, RowMoves
<1>4. row(p)' = s
  BY <1>2, <1>3 DEF row
<1>5. RefreshTypeOK'
  BY <1>2, <1>3 DEF RefreshInv, RefreshTypeOK
<1>6. CallOK(p)'
  <2>1. /\ SameContext(row(p), request[p]) /\ request[p] \in Requests
        /\ tr[p] # NoRow /\ RowOK(tr[p])
    BY <1>1, AdmittedCall DEF RefreshInv, CallOK
  <2>2. row(p)' # NoRow /\ SameContext(row(p)', request'[p])
    BY <1>2, <1>4, <2>1 DEF SameContext, Advances
  <2>3. RowOK(tr'[p]) /\ Follows(row(p)', tr'[p]) /\ tr'[p] # NoRow
    BY <1>2, <1>4, <2>1
  <2> QED
    BY <1>1, <1>2, <2>1, <2>2, <2>3 DEF CallOK
<1>7. NoEntry(p)
  BY <1>1, <1>2 DEF NoEntry
<1> QED
  BY <1>2, <1>3, <1>5, <1>6, <1>7, StepOfOne

\* A transaction that finds nothing to do and goes on to reload the row.
LEMMA IdleAndGoto ==
    ASSUME RefreshInv, NEW p \in Procs, pc[p] \in Loaded,
           NEW point \in {"recorded", "readied", "sealed"}, Goto(p, point),
           UNCHANGED <<postingVars, journal, objects, receipts, fetches, crashes, raw>>
    PROVE  RefreshInv'
<1>1. point \in Loaded /\ point \notin InWindow
  BY DEF Points, Loaded, InWindow
<1> QED
  BY <1>1, LoadedGoto DEF RefreshInv, RefreshTypeOK, PostingTypeOK, postingVars

-------------------------------------------------------------------------------
\* Opening the fetch window: one occupant, who has not fetched.
LEMMA StartFetchKeeps ==
    ASSUME RefreshInv, NEW p \in Procs, StartFetch(p)
    PROVE  RefreshInv'
<1> DEFINE s == [row(p) EXCEPT !.status = "fetch_started"]
<1>1. /\ pc[p] = "start" /\ pc[p] \in Loaded /\ pc[p] \in Admitted
      /\ UNCHANGED <<postingVars, objects, receipts, fetches, crashes>>
  BY DEF StartFetch, Loaded, Admitted, Points
<1>2. CASE row(p).status # "intent" /\ Leave(p) /\ UNCHANGED journal
  BY <1>1, <1>2, LeavingStep DEF RefreshInv, RefreshTypeOK
<1>3. CASE /\ row(p).status = "intent" /\ Goto(p, "claimed") /\ UNCHANGED raw
           /\ journal' = [journal EXCEPT ![op(p)].status = "fetch_started"]
  <2>1. /\ op(p) \in Ops /\ row(p) \in Rows /\ row(p) # NoRow /\ RowOK(row(p))
        /\ SameContext(row(p), request[p]) /\ request[p] \in Requests
        /\ tr[p] \in Rows /\ RowOK(tr[p]) /\ Follows(row(p), tr[p]) /\ row(p) = journal[op(p)]
    BY <1>1, AdmittedCall DEF row
  <2>2. journal' = [journal EXCEPT ![op(p)] = s]
    BY <1>3, <2>1
  <2>3. s \in Rows /\ s.status = "fetch_started" /\ s.receipt = NoReceipt /\ RowOK(s)
    BY <1>3, <2>1 DEF Rows, Statuses, PreFetch, Complete, RowOK
  <2>4. Advances(row(p), s)
    BY <1>3, <2>1 DEF Advances, Rows, Complete
  <2>5. fetches[op(p)] = 0
    BY <1>3, <2>1 DEF RefreshInv, OfficialFetchCount
  <2>6. s.old \in objects
    BY <1>1, <2>1 DEF RefreshInv, CallOK, Rows
  <2>7. /\ journal' \in [Ops -> Rows \cup {NoRow}] /\ journal'[op(p)] = s
        /\ JournalAdvances /\ RowsOK'
        /\ OfficialFetchCount' /\ OneActiveRefresh' /\ ResponsesAreDurable' /\ ReceiptsAreSealed'
    <3>1. row(p).status \in Blocking /\ s.status \notin {"intent", "object_ready", "committed"}
          /\ s.status \notin Complete
      BY <1>3, <2>3 DEF Blocking, Complete
    <3> HIDE DEF s
    <3> QED
      BY <1>1, <2>2, <2>3, <2>4, <2>6, <3>1, RowMoves
  <2>8. /\ OthersRest(p) /\ pc' \in [Procs -> Points] /\ pc'[p] = "claimed"
        /\ request' = request /\ tr' = tr /\ op(p)' = op(p)
    BY <1>3, GotoStep DEF Points, RefreshInv, RefreshTypeOK
  <2>9. row(p)' = s
    BY <2>7, <2>8 DEF row
  <2>10. RefreshTypeOK'
    BY <1>1, <1>3, <2>7, <2>8 DEF RefreshInv, RefreshTypeOK, PostingTypeOK, postingVars
  <2>11. CallOK(p)'
    <3>1. row(p)' # NoRow /\ SameContext(row(p)', request'[p])
      BY <2>1, <2>3, <2>8, <2>9 DEF SameContext, Rows
    <3>2. tr[p].status \notin Complete
      BY <1>3, <2>1 DEF Follows, Complete
    <3>3. RowOK(tr'[p]) /\ Follows(row(p)', tr'[p]) /\ tr'[p] # NoRow
      BY <2>1, <2>8, <2>9, <3>2 DEF Follows, Rows, Complete
    <3> QED
      BY <1>1, <2>1, <2>3, <2>5, <2>8, <2>9, <3>1, <3>3 DEF CallOK, InWindow
  \* Nobody else is in the window: the row of its occupant is past "intent".
  <2>12. OneInWindow'
    <3>1. \A q \in Procs : pc[q] \in InWindow => op(q) # op(p)
      BY <1>3 DEF RefreshInv, CallOK, row
    <3> SUFFICES ASSUME NEW q \in Procs, NEW r \in Procs,
                        pc'[q] \in InWindow, pc'[r] \in InWindow, op(q)' = op(r)'
                 PROVE  q = r
      BY DEF OneInWindow
    <3>2. op(q)' = op(q) /\ op(r)' = op(r)
          /\ (q # p => pc[q] \in InWindow) /\ (r # p => pc[r] \in InWindow)
      BY <2>8 DEF OthersRest, op
    <3> QED
      BY <3>1, <3>2 DEF RefreshInv
  <2>13. \A q \in Procs : CallOK(q)'
    BY <1>1, <2>7, <2>8, <2>11, OtherCallOK
  <2> QED
    BY <2>7, <2>10, <2>12, <2>13 DEF RefreshInv, RowsOK, OneInWindow
<1> QED
  BY <1>2, <1>3 DEF StartFetch

\* The fetch: p is alone in the window, so the count of no other call moves.
LEMMA FetchOnce ==
    ASSUME RefreshInv, NEW p \in Procs, pc[p] = "fetch",
           fetches' = [fetches EXCEPT ![op(p)] = @ + 1],
           NEW point \in {"record", "abandon"}, Goto(p, point),
           raw' \in [Procs -> Raws \cup {NoRaw}],
           \A q \in Procs \ {p} : raw'[q] = raw[q],
           point = "record" => raw'[p] \in Raws,
           UNCHANGED <<postingVars, journal, objects, receipts, crashes>>
    PROVE  RefreshInv'
<1>1. /\ pc[p] \in Loaded /\ pc[p] \in Admitted /\ pc[p] \in InWindow
      /\ point \in Points /\ point \notin InWindow /\ point \in Loaded /\ point \in Admitted
  BY DEF Loaded, Admitted, Points, InWindow
<1>2. /\ op(p) \in Ops /\ row(p) \in Rows /\ row(p) # NoRow /\ RowOK(row(p))
      /\ SameContext(row(p), request[p]) /\ request[p] \in Requests
      /\ tr[p] # NoRow /\ RowOK(tr[p]) /\ Follows(row(p), tr[p]) /\ row(p) = journal[op(p)]
  BY <1>1, AdmittedCall DEF RefreshInv, CallOK, row
<1>3. row(p).status # "intent" /\ fetches[op(p)] = 0
  BY <1>1 DEF RefreshInv, CallOK
<1>4. row(p).status \notin Complete
  BY <1>2, <1>3 DEF RefreshInv, OfficialFetchCount
<1>5. /\ fetches' \in [Ops -> Nat] /\ fetches'[op(p)] = 1
      /\ \A o \in Ops \ {op(p)} : fetches'[o] = fetches[o]
  BY <1>2, <1>3 DEF RefreshInv, RefreshTypeOK
<1>6. /\ OthersRest(p) /\ pc' \in [Procs -> Points] /\ pc'[p] = point
      /\ request' = request /\ tr' = tr /\ op(p)' = op(p)
  BY <1>1, GotoStep DEF RefreshInv, RefreshTypeOK
<1>7. RefreshTypeOK'
  BY <1>5, <1>6 DEF RefreshInv, RefreshTypeOK, PostingTypeOK, postingVars
<1>8. OfficialFetchCount'
  BY <1>2, <1>3, <1>4, <1>5 DEF RefreshInv, OfficialFetchCount
<1>9. OneActiveRefresh' /\ ReceiptsAreSealed' /\ ResponsesAreDurable' /\ RowsOK' /\ JournalAdvances
  BY DEF RefreshInv, OneActiveRefresh, ReceiptsAreSealed, ResponsesAreDurable, RowsOK,
         OwnReceipt, JournalAdvances, Advances
<1>10. CallOK(p)'
  <2>1. row(p)' = row(p)
    BY <1>6 DEF row
  <2>2. SameContext(row(p)', request'[p]) /\ RowOK(tr'[p]) /\ Follows(row(p)', tr'[p])
    BY <1>2, <1>6, <2>1
  <2> QED
    BY <1>1, <1>2, <1>5, <1>6, <2>1, <2>2 DEF CallOK
<1>11. \A q \in Procs \ {p} : pc[q] \in InWindow \cup {"record", "journalling"}
                                 => fetches'[op(q)] = fetches[op(q)]
  <2> SUFFICES ASSUME NEW q \in Procs \ {p}, pc[q] \in InWindow \cup {"record", "journalling"}
               PROVE  fetches'[op(q)] = fetches[op(q)]
    OBVIOUS
  <2>1. op(q) \in Ops
    BY AdmittedCall DEF Admitted, Loaded, Points, InWindow
  <2>2. op(q) # op(p)
    BY <1>1, <1>3 DEF RefreshInv, CallOK
  <2> QED
    BY <1>5, <2>1, <2>2
<1>12. NoEntry(p)
  BY <1>1, <1>6 DEF NoEntry
<1> QED
  BY <1>6, <1>7, <1>8, <1>9, <1>10, <1>11, <1>12, StepOfOne

\* The official fetch, counted once, by the occupant of the window.
LEMMA FetchKeeps ==
    ASSUME RefreshInv, NEW p \in Procs, NEW r \in Raws, Fetch(p, r)
    PROVE  RefreshInv'
<1>1. /\ raw' \in [Procs -> Raws \cup {NoRaw}] /\ raw'[p] \in Raws
      /\ \A q \in Procs \ {p} : raw'[q] = raw[q]
  BY DEF Fetch, RefreshInv, RefreshTypeOK
<1> QED
  BY <1>1, FetchOnce DEF Fetch

\* A failed fetch is still an attempt.
LEMMA FetchFailsKeeps ==
    ASSUME RefreshInv, NEW p \in Procs, FetchFails(p)
    PROVE  RefreshInv'
BY FetchOnce DEF FetchFails, RefreshInv, RefreshTypeOK

\* A replay that finds an open window closes it for good.
LEMMA MarkIndeterminateKeeps ==
    ASSUME RefreshInv, NEW p \in Procs, MarkIndeterminate(p)
    PROVE  RefreshInv'
<1> DEFINE s == [row(p) EXCEPT !.status = "indeterminate"]
<1>1. /\ pc[p] = "abandon" /\ pc[p] \in Loaded /\ pc[p] \in Admitted /\ Leave(p)
      /\ UNCHANGED <<postingVars, objects, receipts, fetches, crashes>>
  BY DEF MarkIndeterminate, Loaded, Admitted, Points
<1>2. CASE UNCHANGED journal
  BY <1>1, <1>2, LeavingStep DEF RefreshInv, RefreshTypeOK
<1>3. CASE /\ row(p).status = "fetch_started"
           /\ journal' = [journal EXCEPT ![op(p)].status = "indeterminate"]
  <2>1. op(p) \in Ops /\ row(p) \in Rows /\ RowOK(row(p)) /\ row(p) = journal[op(p)] /\ row(p) # NoRow
    BY <1>1, AdmittedCall DEF row
  <2>2. journal' = [journal EXCEPT ![op(p)] = s]
    BY <1>3, <2>1
  <2>3. s \in Rows /\ s.status = "indeterminate" /\ s.receipt = NoReceipt /\ RowOK(s)
    BY <1>3, <2>1 DEF Rows, Statuses, PreFetch, Complete, RowOK
  <2>4. Advances(row(p), s)
    BY <1>3, <2>1 DEF Advances, Rows, Complete
  <2>5. s.old \in objects
    BY <1>3, <2>1 DEF RefreshInv, ResponsesAreDurable, Rows
  <2>6. row(p).status \in Blocking /\ s.status \notin Complete \cup {"intent"}
    BY <1>3, <2>3 DEF Blocking, Complete
  <2> HIDE DEF s
  <2> QED
    BY <1>1, <2>2, <2>3, <2>4, <2>5, <2>6, MoveAndLeave DEF Complete
<1> QED
  BY <1>2, <1>3 DEF MarkIndeterminate

\* The answer is recorded if the window is still open, or lost.
LEMMA RecordFetchKeeps ==
    ASSUME RefreshInv, NEW p \in Procs, RecordFetch(p)
    PROVE  RefreshInv'
<1> DEFINE s == [row(p) EXCEPT !.status = "fetched", !.new = raw[p]]
<1>1. /\ pc[p] = "journalling" /\ pc[p] \in Loaded /\ pc[p] \in Admitted /\ Goto(p, "recorded")
      /\ UNCHANGED <<postingVars, objects, receipts, fetches, crashes, raw>>
  BY DEF RecordFetch, Loaded, Admitted, Points
<1>2. CASE UNCHANGED journal
  BY <1>1, <1>2, IdleAndGoto
<1>3. CASE /\ row(p).status = "fetch_started"
           /\ journal' = [journal EXCEPT ![op(p)].status = "fetched", ![op(p)].new = raw[p]]
  <2>1. /\ op(p) \in Ops /\ row(p) \in Rows /\ RowOK(row(p)) /\ row(p) = journal[op(p)]
        /\ row(p) # NoRow /\ Follows(row(p), tr[p])
    BY <1>1, AdmittedCall DEF row
  <2>2. journal' = [journal EXCEPT ![op(p)] = s]
    BY <1>3, <2>1 DEF RefreshInv, RefreshTypeOK
  <2>3. raw[p] \in Raws /\ fetches[op(p)] = 1
    BY <1>1 DEF RefreshInv, CallOK
  <2>4. s \in Rows /\ s.status = "fetched" /\ s.receipt = NoReceipt /\ RowOK(s)
    BY <1>3, <2>1, <2>3 DEF Rows, Statuses, PreFetch, Complete, RowOK
  <2>5. Advances(row(p), s)
    BY <1>3, <2>1 DEF Advances, Rows, Complete
  <2>6. Follows(s, tr[p])
    BY <1>3, <2>1 DEF Follows, Rows, Complete
  <2>7. s.old \in objects
    BY <1>3, <2>1 DEF RefreshInv, ResponsesAreDurable, Rows
  <2>8. row(p).status \in Blocking
    BY <1>3 DEF Blocking
  <2>9. PostingTypeOK'
    BY <1>1 DEF RefreshInv, RefreshTypeOK, PostingTypeOK, postingVars
  <2> HIDE DEF s
  <2> QED
    BY <1>1, <2>2, <2>3, <2>4, <2>5, <2>6, <2>7, <2>8, <2>9, MoveAndGoto
<1> QED
  BY <1>2, <1>3 DEF RecordFetch

\* A row is ready only with its bytes in the store.
LEMMA MarkObjectReadyKeeps ==
    ASSUME RefreshInv, NEW p \in Procs, MarkObjectReady(p)
    PROVE  RefreshInv'
<1> DEFINE s == [row(p) EXCEPT !.status = "object_ready"]
<1>1. /\ pc[p] = "ready" /\ pc[p] \in Loaded /\ pc[p] \in Admitted
      /\ UNCHANGED <<postingVars, objects, receipts, fetches, crashes>>
  BY DEF MarkObjectReady, Loaded, Admitted, Points
<1>2. CASE UNCHANGED journal /\ Leave(p)
  BY <1>1, <1>2, LeavingStep DEF RefreshInv, RefreshTypeOK
<1>3. CASE UNCHANGED journal /\ Goto(p, "readied") /\ UNCHANGED raw
  BY <1>1, <1>3, IdleAndGoto
<1>4. CASE /\ row(p).new = tr[p].new /\ row(p).status = "fetched"
           /\ journal' = [journal EXCEPT ![op(p)].status = "object_ready"]
           /\ Goto(p, "readied") /\ UNCHANGED raw
  <2>1. /\ op(p) \in Ops /\ row(p) \in Rows /\ RowOK(row(p)) /\ row(p) = journal[op(p)]
        /\ row(p) # NoRow /\ Follows(row(p), tr[p])
    BY <1>1, AdmittedCall DEF row
  <2>2. journal' = [journal EXCEPT ![op(p)] = s]
    BY <1>4, <2>1
  <2>3. tr[p].new \in objects /\ tr[p].status = "fetched" /\ fetches[op(p)] = 1
    BY <1>1, <1>4, <2>1 DEF RefreshInv, CallOK, OfficialFetchCount, Complete
  <2>4. s \in Rows /\ s.status = "object_ready" /\ s.receipt = NoReceipt /\ RowOK(s)
        /\ s.new \in objects
    BY <1>4, <2>1, <2>3 DEF Rows, Statuses, PreFetch, Complete, RowOK
  <2>5. Advances(row(p), s)
    BY <1>4, <2>1 DEF Advances, Rows, Complete
  <2>6. Follows(s, tr[p])
    BY <1>4, <2>1, <2>3 DEF Follows, Rows, Complete
  <2>7. s.old \in objects
    BY <1>4, <2>1 DEF RefreshInv, ResponsesAreDurable, Rows
  <2>8. row(p).status \in Blocking
    BY <1>4 DEF Blocking
  <2>9. PostingTypeOK'
    BY <1>1 DEF RefreshInv, RefreshTypeOK, PostingTypeOK, postingVars
  <2> HIDE DEF s
  <2> QED
    BY <1>1, <1>4, <2>2, <2>3, <2>4, <2>5, <2>6, <2>7, <2>8, <2>9, MoveAndGoto
<1>5. row(p).status = "fetched" => row(p).status \in Complete
  BY DEF Complete
<1> QED
  BY <1>2, <1>3, <1>4, <1>5 DEF MarkObjectReady

\* The seal decides between commit and supersession and fixes the receipt.
LEMMA SealKeeps ==
    ASSUME RefreshInv, NEW p \in Procs, NEW t \in Stamps, Seal(p, t)
    PROVE  RefreshInv'
<1> DEFINE s == SealedRow(op(p), row(p), t)
<1>1. /\ pc[p] = "seal" /\ pc[p] \in Loaded /\ pc[p] \in Admitted
      /\ UNCHANGED <<cache, objects, receipts, fetches, crashes>>
  BY DEF Seal, Loaded, Admitted, Points
<1>2. CASE Leave(p) /\ UNCHANGED <<journal, posting>>
  BY <1>1, <1>2, LeavingStep DEF RefreshInv, RefreshTypeOK, postingVars
<1>3. CASE Goto(p, "sealed") /\ UNCHANGED <<raw, journal, posting>>
  BY <1>1, <1>3, IdleAndGoto DEF postingVars
<1>4. CASE /\ row(p).status = "object_ready"
           /\ journal' = [journal EXCEPT ![op(p)] = SealedRow(op(p), row(p), t)]
           /\ posting' = Refreshed(row(p))
           /\ Goto(p, "sealed") /\ UNCHANGED raw
  <2>1. /\ op(p) \in Ops /\ row(p) \in Rows /\ RowOK(row(p)) /\ row(p) = journal[op(p)]
        /\ row(p) # NoRow /\ Follows(row(p), tr[p])
    BY <1>1, AdmittedCall DEF row
  <2>2. row(p).new \in Raws /\ row(p).old \in Raws /\ row(p).job \in Jobs
    BY <1>4, <2>1 DEF RowOK, Complete, Rows
  <2>3. /\ s.status = "committed" /\ s.old = row(p).old /\ s.new = row(p).new
        /\ s.job = row(p).job /\ s.expected = row(p).expected
        /\ s.receipt = [op |-> op(p), old |-> row(p).old, new |-> row(p).new,
                        changed |-> row(p).new.content # row(p).old.content, finished |-> t]
    BY <2>1 DEF SealedRow, Rows
  <2>4. s.receipt \in Sealed /\ s.receipt.op = op(p)
    BY <2>1, <2>2, <2>3 DEF Sealed
  <2>5. s \in Rows
    BY <2>1, <2>4 DEF Rows, SealedRow, Statuses, Complete
  <2>6. RowOK(s)
    BY <2>2, <2>3, <2>4 DEF RowOK, PreFetch, Complete
  <2>7. Advances(row(p), s)
    BY <1>4, <2>3 DEF Advances, Complete
  <2>8. Follows(s, tr[p])
    BY <1>4, <2>1, <2>3 DEF Follows, Complete
  <2>9. s.old \in objects /\ s.new \in objects
    BY <1>4, <2>1, <2>3 DEF RefreshInv, ResponsesAreDurable
  <2>10. fetches[op(p)] = 1
    BY <1>4, <2>1 DEF RefreshInv, OfficialFetchCount, Complete
  <2>11. PostingTypeOK'
    BY <1>1, <1>4, <2>2
       DEF RefreshInv, RefreshTypeOK, PostingTypeOK, Refreshed, FetchStatuses
  <2>12. s.status \notin Blocking
    BY <2>3 DEF Blocking
  <2>13. journal' = [journal EXCEPT ![op(p)] = s]
    BY <1>4
  <2> HIDE DEF s
  <2> QED
    BY <1>1, <1>4, <2>3, <2>4, <2>5, <2>6, <2>7, <2>8, <2>9, <2>10, <2>11, <2>12, <2>13, MoveAndGoto
<1> QED
  BY <1>2, <1>3, <1>4 DEF Seal, GotoOrLeave

\* The receipt file is the sealed one of the row.
LEMMA WriteReceiptKeeps ==
    ASSUME RefreshInv, NEW p \in Procs, WriteReceipt(p)
    PROVE  RefreshInv'
<1>1. /\ pc[p] = "receipt" /\ pc[p] \in Loaded /\ pc[p] \in Admitted /\ Leave(p)
      /\ UNCHANGED <<postingVars, journal, objects, fetches, crashes>>
  BY DEF WriteReceipt, Loaded, Admitted, Points
\* A committed snapshot is the row itself, so its receipt is the sealed one.
<1>2. /\ op(p) \in Ops /\ tr[p] = journal[op(p)] /\ journal[op(p)] # NoRow
      /\ journal[op(p)].status = "committed" /\ journal[op(p)].receipt \in Sealed
      /\ journal[op(p)].receipt.op = op(p)
  <2>1. tr[p].status = "committed" /\ Follows(row(p), tr[p]) /\ op(p) \in Ops /\ row(p) # NoRow
        /\ row(p) \in Rows
    BY <1>1, AdmittedCall DEF RefreshInv, CallOK
  <2> QED
    BY <2>1 DEF Follows, RefreshInv, RowOK, OwnReceipt, row, Rows
<1>3. receipts' \subseteq receipts \cup {journal[op(p)].receipt}
  BY <1>2 DEF WriteReceipt
<1>4. RefreshTypeOK'
  BY <1>1, <1>2, <1>3, LeaveStep DEF RefreshInv, RefreshTypeOK, PostingTypeOK, postingVars
<1>5. ReceiptsAreSealed'
  BY <1>1, <1>2, <1>3 DEF RefreshInv, ReceiptsAreSealed
<1>6. RowsOK' /\ OfficialFetchCount' /\ OneActiveRefresh' /\ ResponsesAreDurable' /\ JournalAdvances
  BY <1>1 DEF RefreshInv, RowsOK, OwnReceipt, OfficialFetchCount, OneActiveRefresh,
              ResponsesAreDurable, JournalAdvances, Advances
<1> QED
  BY <1>1, <1>4, <1>5, <1>6, LeaveStep, StepOfOne

\* An admitted row is the only active one of its vacancy.
LEMMA BeginKeeps ==
    ASSUME RefreshInv, NEW p \in Procs, Begin(p)
    PROVE  RefreshInv'
<1> DEFINE q == request[p]
           s == [job |-> q.job, expected |-> q.expected, status |-> "intent",
                 old |-> raw[p], new |-> NoRaw, receipt |-> NoReceipt]
<1>1. /\ pc[p] = "begin" /\ raw' = [raw EXCEPT ![p] = NoRaw]
      /\ UNCHANGED <<postingVars, objects, receipts, fetches, crashes>>
      /\ op(p) \in Ops /\ q \in Requests /\ q.job \in Jobs /\ q.expected \in Contents
      /\ q.op = op(p) /\ raw[p] \in Raws
  BY OpOfCall DEF Begin, op, RefreshInv, CallOK
<1>2. /\ raw' \in [Procs -> Raws \cup {NoRaw}]
      /\ \A r \in Procs \ {p} : raw'[r] = raw[r]
      /\ PostingTypeOK'
      /\ "begun" \in Points /\ "begun" \in Admitted /\ "begun" \notin Loaded \cup InWindow
  BY <1>1 DEF RefreshInv, RefreshTypeOK, PostingTypeOK, postingVars, Points, Admitted,
              Loaded, InWindow
<1>3. CASE /\ row(p) # NoRow /\ SameContext(row(p), q) /\ Goto(p, "begun") /\ UNCHANGED journal
  <2>1. pc'[p] = "begun" /\ request' = request /\ op(p)' = op(p) /\ row(p)' = row(p)
    BY <1>2, <1>3, GotoStep DEF row
  <2>2. SameContext(row(p)', request'[p])
    BY <1>3, <2>1
  <2>3. CallOK(p)'
    BY <1>1, <1>2, <1>3, <2>1, <2>2 DEF CallOK, Points, Loaded, InWindow
  <2> QED
    BY <1>1, <1>2, <1>3, <2>3, QuietGoto DEF RefreshInv, RefreshTypeOK
<1>4. CASE /\ row(p) = NoRow /\ Admissible(q, raw[p])
           /\ journal' = [journal EXCEPT ![q.op] = s]
           /\ Goto(p, "begun")
  <2>1. s \in Rows /\ RowOK(s) /\ s # NoRow /\ s.status = "intent" /\ s.job = q.job
        /\ s.expected = q.expected /\ s.receipt = NoReceipt
    BY <1>1 DEF Rows, Statuses, PreFetch, Complete, RowOK
  <2>2. /\ journal' \in [Ops -> Rows \cup {NoRow}] /\ journal'[op(p)] = s
        /\ \A o \in Ops \ {op(p)} : journal'[o] = journal[o]
        /\ journal[op(p)] = NoRow
    BY <1>1, <1>4, <2>1 DEF RefreshInv, RefreshTypeOK, row
  <2> HIDE DEF s
  <2>3. JournalAdvances
    BY <2>2 DEF JournalAdvances, Advances
  <2>4. RowsOK'
    BY <2>1, <2>2 DEF RefreshInv, RowsOK, OwnReceipt
  <2>5. OfficialFetchCount'
    BY <1>1, <2>1, <2>2 DEF RefreshInv, OfficialFetchCount, Complete
  <2>6. OneActiveRefresh'
    <3>1. \A o \in Ops : journal[o] # NoRow /\ journal[o].status \in Blocking => journal[o].job # q.job
      BY <1>4 DEF Admissible, Blocked
    <3> QED
      BY <2>1, <2>2, <3>1 DEF RefreshInv, OneActiveRefresh
  <2>7. ResponsesAreDurable'
    BY <1>1, <2>1, <2>2 DEF RefreshInv, ResponsesAreDurable
  <2>8. ReceiptsAreSealed'
    BY <1>1, <2>2 DEF RefreshInv, ReceiptsAreSealed, RefreshTypeOK, Sealed
  <2>9. /\ OthersRest(p) /\ pc' \in [Procs -> Points] /\ pc'[p] = "begun"
        /\ request' = request /\ tr' = tr /\ op(p)' = op(p)
    BY <1>2, <1>4, GotoStep
  <2>10. RefreshTypeOK'
    BY <1>1, <1>2, <2>2, <2>9 DEF RefreshInv, RefreshTypeOK
  <2>11. CallOK(p)'
    <3>1. row(p)' = s
      BY <2>2, <2>9 DEF row
    <3>2. SameContext(row(p)', request'[p])
      BY <2>1, <2>9, <3>1 DEF SameContext
    <3> QED
      BY <1>1, <1>2, <2>1, <2>9, <3>1, <3>2 DEF CallOK, Points, Loaded, InWindow
  <2>12. NoEntry(p)
    BY <1>2, <2>9 DEF NoEntry
  <2> QED
    BY <1>1, <2>3, <2>4, <2>5, <2>6, <2>7, <2>8, <2>9, <2>10, <2>11, <2>12, StepOfOne
<1>5. CASE Leave(p) /\ UNCHANGED journal
  BY <1>1, <1>5, LeavingStep DEF RefreshInv, RefreshTypeOK
<1> QED
  BY <1>3, <1>4, <1>5 DEF Begin

-------------------------------------------------------------------------------
(***************************************************************************)
(* The invariant, and what it establishes.                                 *)
(***************************************************************************)
LEMMA InitEstablishes ==
    ASSUME Init
    PROVE  RefreshInv
<1>1. RefreshTypeOK
  BY DEF Init, RefreshInit, PostingInit, RefreshTypeOK, PostingTypeOK, Points,
         FetchStatuses, Absent
<1>2. /\ \A p \in Procs : pc[p] = "idle"
      /\ \A o \in Ops : journal[o] = NoRow /\ fetches[o] = 0
      /\ receipts = {}
  BY DEF Init, RefreshInit
<1>3. \A p \in Procs : CallOK(p)
  BY <1>2 DEF CallOK, Admitted, Loaded, InWindow
<1> QED
  BY <1>1, <1>2, <1>3 DEF RefreshInv, InWindow, OfficialFetchCount, OneActiveRefresh,
     ResponsesAreDurable, ReceiptsAreSealed

\* Every step of every process keeps the invariant, whatever the other
\* processes are in the middle of.
THEOREM RefreshStep ==
    ASSUME RefreshInv, RefreshNext
    PROVE  RefreshInv'
<1>1. ASSUME NEW p \in Procs, NEW q \in Requests, Call(p, q) PROVE RefreshInv'
  BY <1>1, CallKeeps
<1>2. ASSUME NEW p \in Procs, Step(p) PROVE RefreshInv'
  BY <1>2, ReadPostingKeeps, ReadCacheKeeps, BeginKeeps, ReloadKeeps, WriteOldObjectKeeps,
     StartFetchKeeps, FetchKeeps, FetchFailsKeeps, MarkIndeterminateKeeps, ReadForRecordKeeps,
     RecordFetchKeeps, WriteNewObjectKeeps, MarkObjectReadyKeeps, SealKeeps, CheckCurrentKeeps,
     MaterializeKeeps, WriteReceiptKeeps
     DEF Step
<1>3. ASSUME NEW p \in Procs, Crash(p) PROVE RefreshInv'
  BY <1>3, CrashKeeps
<1> QED
  BY <1>1, <1>2, <1>3 DEF RefreshNext

\* A step of someone else that changes nothing here.
LEMMA RefreshStutter ==
    ASSUME RefreshInv, UNCHANGED vars
    PROVE  RefreshInv'
<1>1. UNCHANGED <<journal, objects, receipts, fetches, crashes, pc, request, tr, raw, posting, cache>>
  BY DEF vars, refreshVars, postingVars
<1>2. RefreshTypeOK'
  BY <1>1 DEF RefreshInv, RefreshTypeOK, PostingTypeOK
<1>3. \A p \in Procs : CallOK(p)'
  BY <1>1 DEF RefreshInv, CallOK, op, row
<1> QED
  BY <1>1, <1>2, <1>3 DEF RefreshInv, OwnReceipt, OfficialFetchCount, OneActiveRefresh,
     ResponsesAreDurable, ReceiptsAreSealed, op

\* The invariant holds in every reachable state.
THEOREM RefreshInvariant == Spec => []RefreshInv
<1>1. RefreshInv /\ [RefreshNext]_vars => RefreshInv'
  BY RefreshStep, RefreshStutter
<1> QED
  BY <1>1, InitEstablishes, PTL DEF Spec

\* Type correctness, postings and caches included.
THEOREM TypeCorrect == Spec => []RefreshTypeOK
<1>1. RefreshInv => RefreshTypeOK
  BY DEF RefreshInv
<1> QED
  BY <1>1, RefreshInvariant, PTL

\* However many processes replay an operation, the official source is asked at
\* most once for it.
THEOREM FetchedAtMostOnce == Spec => []OfficialFetchCount
<1>1. RefreshInv => OfficialFetchCount
  BY DEF RefreshInv
<1> QED
  BY <1>1, RefreshInvariant, PTL

\* At most one operation of a vacancy is active or unreconciled.
THEOREM AtMostOneActive == Spec => []OneActiveRefresh
<1>1. RefreshInv => OneActiveRefresh
  BY DEF RefreshInv
<1> QED
  BY <1>1, RefreshInvariant, PTL

\* Both responses are durable before the step that depends on them.
THEOREM Durable == Spec => []ResponsesAreDurable
<1>1. RefreshInv => ResponsesAreDurable
  BY DEF RefreshInv
<1> QED
  BY <1>1, RefreshInvariant, PTL

\* Whatever receipt file was written repeats the sealed receipt.
THEOREM ReceiptsSealed == Spec => []ReceiptsAreSealed
<1>1. RefreshInv => ReceiptsAreSealed
  BY DEF RefreshInv
<1> QED
  BY <1>1, RefreshInvariant, PTL

-------------------------------------------------------------------------------
(***************************************************************************)
(* Action properties, from the same invariant.                             *)
(***************************************************************************)
LEMMA EveryStatusMayStay == \A s \in Statuses : s \in Progressions[s]
BY DEF Statuses, PreFetch, Complete, Progressions

\* What the two action properties ask of operation o's row in a step.
RowAdvances(o) ==
    journal[o] # NoRow =>
        /\ journal'[o] # NoRow
        /\ journal'[o].status \in Progressions[journal[o].status]
        /\ journal'[o].job = journal[o].job
        /\ journal'[o].expected = journal[o].expected
        /\ journal'[o].old = journal[o].old
        /\ journal[o].new # NoRaw => journal'[o].new = journal[o].new
        /\ journal[o].receipt # NoReceipt => journal'[o].receipt = journal[o].receipt

CommitReplaces(o) ==
    journal'[o] # journal[o] /\ journal'[o].status = "committed" =>
        LET j == journal[o].job IN
        /\ posting[j].status = "fetched"
        /\ posting[j].raw.content = journal[o].expected
        /\ posting'[j] = [status |-> "fetched", raw |-> journal[o].new]

\* A step that leaves the journal alone advances trivially.
LEMMA SameJournalAdvances ==
    ASSUME RefreshInv, UNCHANGED journal
    PROVE  \A o \in Ops : RowAdvances(o) /\ CommitReplaces(o)
<1> SUFFICES ASSUME NEW o \in Ops PROVE RowAdvances(o) /\ CommitReplaces(o)
  OBVIOUS
<1>1. journal[o] # NoRow => journal[o].status \in Statuses
  BY DEF RefreshInv, RefreshTypeOK, Rows
<1> QED
  BY <1>1, EveryStatusMayStay DEF RowAdvances, CommitReplaces

\* The six actions that write the journal touch the row of p's operation only.
LEMMA WritesAdvance ==
    ASSUME RefreshInv, NEW p \in Procs,
           \/ Begin(p) \/ StartFetch(p) \/ MarkIndeterminate(p) \/ RecordFetch(p)
           \/ MarkObjectReady(p) \/ \E t \in Stamps : Seal(p, t)
    PROVE  \A o \in Ops : RowAdvances(o) /\ CommitReplaces(o)
<1> SUFFICES ASSUME NEW o \in Ops PROVE RowAdvances(o) /\ CommitReplaces(o)
  OBVIOUS
<1>1. CASE UNCHANGED journal
  BY <1>1, SameJournalAdvances
<1>2. op(p) \in Ops /\ journal \in [Ops -> Rows \cup {NoRow}] /\ row(p) = journal[op(p)]
  BY OpOfCall DEF Begin, StartFetch, MarkIndeterminate, RecordFetch, MarkObjectReady, Seal,
     RefreshInv, RefreshTypeOK, row
<1>3. journal[o] # NoRow => journal[o].status \in Statuses
  BY <1>2 DEF Rows
<1>4. CASE o # op(p)
  <2>1. journal'[o] = journal[o]
    BY <1>2, <1>4 DEF Begin, StartFetch, MarkIndeterminate, RecordFetch, MarkObjectReady, Seal, op
  <2> QED
    BY <1>3, <2>1, EveryStatusMayStay DEF RowAdvances, CommitReplaces
<1>5. CASE Begin(p) /\ row(p) = NoRow /\ o = op(p) /\ journal' # journal
  <2>1. journal'[o].status = "intent"
    <3>1. \E s : journal' = [journal EXCEPT ![op(p)] = s] /\ s.status = "intent"
      BY <1>5 DEF Begin, op
    <3> QED
      BY <1>2, <1>5, <3>1
  <2> QED
    BY <1>2, <1>5, <2>1 DEF RowAdvances, CommitReplaces
<1>6. CASE Begin(p) /\ row(p) # NoRow
  BY <1>1, <1>6 DEF Begin
<1>7. ASSUME NEW s \in Statuses, o = op(p), journal' = [journal EXCEPT ![op(p)].status = s],
             row(p) # NoRow, s \in Progressions[row(p).status], s # "committed"
      PROVE  RowAdvances(o) /\ CommitReplaces(o)
  <2>1. journal'[o] = [row(p) EXCEPT !.status = s]
    BY <1>2, <1>7
  <2>2. /\ journal'[o] \in Rows /\ journal'[o].status = s /\ journal'[o].job = journal[o].job
        /\ journal'[o].expected = journal[o].expected /\ journal'[o].old = journal[o].old
        /\ journal'[o].new = journal[o].new /\ journal'[o].receipt = journal[o].receipt
    BY <1>2, <1>7, <2>1 DEF Rows
  <2> QED
    BY <1>2, <1>7, <2>2 DEF RowAdvances, CommitReplaces
<1>8. pc[p] # "begin" => row(p) # NoRow /\ RowOK(row(p)) /\ row(p) \in Rows
  <2>1. pc[p] \in {"begin", "start", "abandon", "journalling", "ready", "seal"}
    BY DEF Begin, StartFetch, MarkIndeterminate, RecordFetch, MarkObjectReady, Seal
  <2> QED
    BY <2>1, AdmittedCall DEF Admitted, Loaded, Points
<1>9. CASE StartFetch(p) /\ o = op(p)
  BY <1>1, <1>7, <1>8, <1>9 DEF StartFetch, Progressions, Statuses, PreFetch
<1>10. CASE MarkIndeterminate(p) /\ o = op(p)
  BY <1>1, <1>7, <1>8, <1>10 DEF MarkIndeterminate, Progressions, Statuses, PreFetch
<1>11. CASE MarkObjectReady(p) /\ o = op(p)
  BY <1>1, <1>7, <1>8, <1>11 DEF MarkObjectReady, Progressions, Statuses, Complete
<1>12. CASE RecordFetch(p) /\ o = op(p)
  <2>1. CASE row(p).status = "fetch_started"
    <3>1. row(p).new = NoRaw /\ row(p).receipt = NoReceipt /\ row(p) \in Rows /\ row(p) # NoRow
      BY <1>8, <1>12, <2>1 DEF RecordFetch, RowOK, PreFetch
    <3>2. journal' = [journal EXCEPT ![op(p)] = [row(p) EXCEPT !.status = "fetched", !.new = raw[p]]]
      BY <1>2, <1>12, <2>1, <3>1 DEF RecordFetch
    <3>3. journal'[o] = [row(p) EXCEPT !.status = "fetched", !.new = raw[p]]
      BY <1>2, <1>12, <3>2
    <3> raw[p] \in Raws
      BY <1>12 DEF RecordFetch, RefreshInv, CallOK
    <3>4. /\ journal'[o].status = "fetched" /\ journal'[o].job = row(p).job
          /\ journal'[o].expected = row(p).expected /\ journal'[o].old = row(p).old
          /\ journal'[o].new = raw[p] /\ journal'[o] \in Rows
      BY <3>1, <3>3 DEF Rows, Statuses, Complete
    <3>5. journal'[o].status \in Progressions[row(p).status]
      BY <2>1, <3>4 DEF Progressions
    <3> QED
      BY <1>2, <1>12, <3>1, <3>4, <3>5 DEF RowAdvances, CommitReplaces
  <2> QED
    BY <1>1, <1>12, <2>1 DEF RecordFetch
<1>13. CASE (\E t \in Stamps : Seal(p, t)) /\ o = op(p)
  <2>1. PICK t \in Stamps : Seal(p, t)
    BY <1>13
  <2>2. CASE row(p).status = "object_ready" /\ CurrentForSeal(row(p))
    <3>1. row(p).receipt = NoReceipt /\ row(p) \in Rows /\ row(p) # NoRow /\ row(p).job \in Jobs
      BY <1>8, <2>1, <2>2 DEF Seal, RowOK, Rows
    <3>2. /\ journal' = [journal EXCEPT ![op(p)] = SealedRow(op(p), row(p), t)]
          /\ posting' = Refreshed(row(p))
      BY <2>1, <2>2 DEF Seal
    <3>3. journal'[o] = SealedRow(op(p), row(p), t)
      BY <1>2, <1>13, <3>2
    <3>4. RowAdvances(o)
      <4>1. /\ row(p).new \in Raws /\ row(p).old \in Raws /\ op(p) \in Ops
        BY <1>2, <1>8, <2>1, <2>2, <3>1 DEF Seal, RowOK, Complete, Rows
      <4>2. /\ journal'[o].status = "committed" /\ journal'[o].job = row(p).job
            /\ journal'[o].expected = row(p).expected /\ journal'[o].old = row(p).old
            /\ journal'[o].new = row(p).new
        BY <3>1, <3>3 DEF SealedRow, Rows
      <4>3. journal'[o].receipt \in Sealed
        BY <2>1, <3>1, <3>3, <4>1 DEF SealedRow, Rows, Sealed
      <4>4. journal'[o] \in Rows
        BY <3>1, <3>3, <4>2, <4>3 DEF SealedRow, Rows, Statuses, Complete
      <4>5. journal'[o].status \in Progressions[row(p).status]
        BY <2>2, <4>2 DEF Progressions
      <4> QED
        BY <1>2, <1>13, <3>1, <4>2, <4>4, <4>5 DEF RowAdvances
    <3>5. CommitReplaces(o)
      BY <1>2, <1>13, <2>2, <3>1, <3>2
         DEF CommitReplaces, Refreshed, CurrentForSeal, Fetched, RefreshInv, RefreshTypeOK, PostingTypeOK
    <3> QED
      BY <3>4, <3>5
  <2> QED
    BY <1>1, <2>1, <2>2 DEF Seal
<1> QED
  BY <1>1, <1>4, <1>5, <1>6, <1>9, <1>10, <1>11, <1>12, <1>13

\* Every step of a refresh advances the journal or leaves it.
LEMMA StepAdvances ==
    ASSUME RefreshInv, [RefreshNext]_vars
    PROVE  \A o \in Ops : RowAdvances(o) /\ CommitReplaces(o)
<1>1. CASE UNCHANGED journal
  BY <1>1, SameJournalAdvances
<1>2. ASSUME NEW p \in Procs,
             \/ Begin(p) \/ StartFetch(p) \/ MarkIndeterminate(p) \/ RecordFetch(p)
             \/ MarkObjectReady(p) \/ \E t \in Stamps : Seal(p, t)
      PROVE  \A o \in Ops : RowAdvances(o) /\ CommitReplaces(o)
  BY <1>2, WritesAdvance
<1>3. ASSUME NEW p \in Procs,
             \/ \E q \in Requests : Call(p, q)
             \/ ReadPosting(p) \/ ReadCache(p) \/ Reload(p) \/ WriteOldObject(p)
             \/ \E r \in Raws : Fetch(p, r)
             \/ FetchFails(p) \/ ReadForRecord(p) \/ WriteNewObject(p)
             \/ CheckCurrent(p) \/ Materialize(p) \/ WriteReceipt(p) \/ Crash(p)
      PROVE  UNCHANGED journal
  BY <1>3 DEF Call, ReadPosting, ReadCache, Reload, WriteOldObject, Fetch, FetchFails,
     ReadForRecord, WriteNewObject, CheckCurrent, Materialize, WriteReceipt, Crash
<1> QED
  BY <1>1, <1>2, <1>3 DEF RefreshNext, Step, vars, refreshVars

\* A journal row only advances and never changes what it recorded.
THEOREM JournalAdvancesOnly == Spec => JournalOnlyAdvances
<1>1. RefreshInv /\ [RefreshNext]_vars =>
        [\A o \in Ops : journal[o] # NoRow =>
            /\ journal'[o] # NoRow
            /\ journal'[o].status \in Progressions[journal[o].status]
            /\ journal'[o].job = journal[o].job
            /\ journal'[o].expected = journal[o].expected
            /\ journal'[o].old = journal[o].old
            /\ journal[o].new # NoRaw => journal'[o].new = journal[o].new
            /\ journal[o].receipt # NoReceipt => journal'[o].receipt = journal[o].receipt]_vars
  BY StepAdvances DEF RowAdvances
<1> QED
  BY <1>1, RefreshInvariant, PTL DEF Spec, JournalOnlyAdvances

\* A commit replaces the response that the operation was asked to replace.
THEOREM CommitIsCompareAndSwap == Spec => CommitReplacesExpected
<1>1. RefreshInv /\ [RefreshNext]_vars =>
        [\A o \in Ops :
            journal'[o] # journal[o] /\ journal'[o].status = "committed" =>
                LET j == journal[o].job IN
                /\ posting[j].status = "fetched"
                /\ posting[j].raw.content = journal[o].expected
                /\ posting'[j] = [status |-> "fetched", raw |-> journal[o].new]]_vars
  BY StepAdvances DEF CommitReplaces
<1> QED
  BY <1>1, RefreshInvariant, PTL DEF Spec, CommitReplacesExpected

-------------------------------------------------------------------------------
(***************************************************************************)
(* Whose response a row and a file hold.                                   *)
(***************************************************************************)

\* Wherever a response of an operation ends up, it answers for the vacancy of
\* the operation; before it is journalled, its process has looked.
AnswersAreOwn ==
    /\ \A o \in Ops : journal[o] # NoRow /\ journal[o].new # NoRaw
                         => journal[o].new.key = journal[o].job
    /\ \A p \in Procs : pc[p] = "journalling" => raw[p].key = request[p].job

OwnInv == AnswersAreOwn /\ RowsHoldOwnResponse /\ FilesHoldOwnResponse

LEMMA OwnStarts ==
    ASSUME Init
    PROVE  OwnInv
BY DEF Init, PostingInit, RefreshInit, OwnInv, AnswersAreOwn, RowsHoldOwnResponse,
       FilesHoldOwnResponse, Absent

\* A process about to materialize holds the row as it is: it is committed.
LEMMA MaterializedRow ==
    ASSUME RefreshInv, NEW p \in Procs, pc[p] = "materialize"
    PROVE  /\ op(p) \in Ops /\ row(p) # NoRow /\ tr[p] = row(p)
           /\ row(p).job = request[p].job /\ request[p].job \in Jobs
           /\ row(p).status = "committed" /\ row(p).new \in Raws
<1>1. pc[p] \in Loaded /\ pc[p] \in Admitted
  BY DEF Loaded, Admitted, Points
<1>2. tr[p].status = "committed"
  BY DEF RefreshInv, CallOK
<1>3. row(p) = tr[p]
  BY <1>1, <1>2, AdmittedCall DEF Follows
<1> QED
  BY <1>1, <1>2, <1>3, AdmittedCall, OpOfCall DEF RowOK, Complete, SameContext

\* The row of p's operation keeps its vacancy and the response it has; only the
\* record of a fetch brings a new one.
LEMMA RowKeepsOwn ==
    ASSUME RefreshInv, AnswersAreOwn, NEW p \in Procs,
           \/ Begin(p) \/ StartFetch(p) \/ MarkIndeterminate(p) \/ RecordFetch(p)
           \/ MarkObjectReady(p) \/ \E t \in Stamps : Seal(p, t)
    PROVE  \A o \in Ops : journal'[o] # NoRow /\ journal'[o].new # NoRaw
                             => journal'[o].new.key = journal'[o].job
<1> SUFFICES ASSUME NEW o \in Ops, journal'[o] # NoRow, journal'[o].new # NoRaw
             PROVE  journal'[o].new.key = journal'[o].job
  OBVIOUS
<1>1. op(p) \in Ops /\ journal \in [Ops -> Rows \cup {NoRow}] /\ row(p) = journal[op(p)]
  BY OpOfCall DEF Begin, StartFetch, MarkIndeterminate, RecordFetch, MarkObjectReady, Seal,
     RefreshInv, RefreshTypeOK, row
<1>2. journal[o] # NoRow /\ journal[o].new # NoRaw => journal[o].new.key = journal[o].job
  BY DEF AnswersAreOwn
<1>3. CASE journal[o] # NoRow /\ journal[o].new # NoRaw
  <2>1. RowAdvances(o)
    BY WritesAdvance
  <2> QED
    BY <1>2, <1>3, <2>1 DEF RowAdvances
<1>4. CASE journal'[o] = journal[o]
  BY <1>2, <1>4
<1>5. CASE o = op(p) /\ journal'[o] # journal[o] /\ (row(p) # NoRow => row(p).new = NoRaw)
  <2>1. CASE row(p) = NoRow
    <3>1. Begin(p)
      <4>1. pc[p] \notin {"begin"} => ~(\/ StartFetch(p) \/ MarkIndeterminate(p) \/ RecordFetch(p)
                                        \/ MarkObjectReady(p) \/ \E t \in Stamps : Seal(p, t))
        BY <2>1, AdmittedCall
           DEF StartFetch, MarkIndeterminate, RecordFetch, MarkObjectReady, Seal, Admitted, Loaded, Points
      <4> QED
        BY <4>1 DEF Begin, StartFetch, MarkIndeterminate, RecordFetch, MarkObjectReady, Seal
    <3>2. \E s : journal' = [journal EXCEPT ![op(p)] = s] /\ s.new = NoRaw
      BY <1>1, <1>5, <2>1, <3>1 DEF Begin, op
    <3> QED
      BY <1>1, <1>5, <3>2
  <2>2. CASE row(p) # NoRow
    <3>1. ~Begin(p)
      BY <1>5, <2>2 DEF Begin
    <3>2. row(p) \in Rows /\ RowOK(row(p)) /\ SameContext(row(p), request[p])
      <4>1. pc[p] \in Admitted
        BY <3>1 DEF StartFetch, MarkIndeterminate, RecordFetch, MarkObjectReady, Seal, Admitted,
           Loaded, Points
      <4> QED
        BY <4>1, AdmittedCall DEF RefreshInv, CallOK
    <3>3. row(p).status \notin Complete
      BY <1>5, <2>2, <3>2 DEF RowOK
    <3>4. ASSUME NEW s \in Statuses, journal' = [journal EXCEPT ![op(p)].status = s]
          PROVE  journal'[o].new = NoRaw
      <4>1. journal'[o] = [row(p) EXCEPT !.status = s]
        BY <1>1, <1>5, <3>4
      <4> QED
        BY <1>5, <2>2, <3>2, <4>1 DEF Rows
    <3>5. ~StartFetch(p) /\ ~MarkIndeterminate(p)
      BY <1>5, <3>4 DEF StartFetch, MarkIndeterminate, Statuses, PreFetch
    <3>6. ~MarkObjectReady(p) /\ \A t \in Stamps : ~Seal(p, t)
      BY <1>5, <3>3 DEF MarkObjectReady, Seal, Complete
    <3>7. RecordFetch(p) /\ pc[p] = "journalling"
      BY <3>1, <3>5, <3>6 DEF RecordFetch
    <3>8. journal'[o] = [row(p) EXCEPT !.status = "fetched", !.new = raw[p]]
      <4>1. journal' = [journal EXCEPT ![op(p)] = [row(p) EXCEPT !.status = "fetched", !.new = raw[p]]]
        BY <1>1, <1>5, <3>7, <3>2 DEF RecordFetch
      <4> QED
        BY <1>1, <1>5, <4>1
    <3>9. journal'[o].new = raw[p] /\ journal'[o].job = row(p).job
      BY <3>2, <3>8 DEF Rows
    <3> QED
      BY <3>2, <3>7, <3>9 DEF AnswersAreOwn, SameContext
  <2> QED
    BY <2>1, <2>2
<1>6. o # op(p) => journal'[o] = journal[o]
  BY <1>1 DEF Begin, StartFetch, MarkIndeterminate, RecordFetch, MarkObjectReady, Seal, op
<1> QED
  BY <1>1, <1>3, <1>4, <1>5, <1>6

\* q does not move in this step.
Rests(q) == pc'[q] = pc[q] /\ raw'[q] = raw[q] /\ request'[q] = request[q]

\* The one way into the admission transaction, and into the record of a fetch.
LEMMA ArrivesAt ==
    ASSUME RefreshInv, [RefreshNext]_vars, NEW q \in Procs, pc'[q] \in {"begin", "journalling"}
    PROVE  \/ Rests(q)
           \/ pc'[q] = "begin" /\ ReadCache(q)
           \/ pc'[q] = "journalling" /\ ReadForRecord(q)
<1> DEFINE Elsewhere == Points \ {"begin", "journalling"}
<1>1. pc \in [Procs -> Points] /\ raw \in [Procs -> Raws \cup {NoRaw}]
      /\ request \in [Procs -> Requests \cup {NoRequest}]
  BY DEF RefreshInv, RefreshTypeOK
<1>2. ASSUME NEW p \in Procs, Leave(p) PROVE Rests(q)
  BY <1>1, <1>2 DEF Rests, Leave
<1>3. ASSUME NEW p \in Procs, NEW point \in Elsewhere, Goto(p, point),
             raw' = raw \/ \E r : raw' = [raw EXCEPT ![p] = r]
      PROVE  Rests(q)
  BY <1>1, <1>3 DEF Rests, Goto
<1>4. ASSUME NEW p \in Procs, NEW r \in Requests, Call(p, r) PROVE Rests(q)
  BY <1>1, <1>4 DEF Rests, Call
<1>5. ASSUME NEW p \in Procs, Reload(p) PROVE Rests(q)
  <2>1. pc[p] \in {"begun", "claimed", "recorded", "readied", "sealed"}
    BY <1>5 DEF Reload
  <2>2. AfterReload(pc[p], row(p).status) \notin {"begin", "journalling"}
    BY <2>1 DEF AfterReload, AfterFetch
  <2> QED
    BY <1>1, <1>2, <1>5, <2>2 DEF Rests, Reload, Proceed
<1>6. ASSUME NEW p \in Procs, WriteOldObject(p) PROVE Rests(q)
  BY <1>1, <1>2, <1>6 DEF Rests, WriteOldObject, Goto, Resume, AfterFetch
<1>7. ASSUME NEW p \in Procs, p # q, ReadForRecord(p) PROVE Rests(q)
  BY <1>1, <1>7 DEF Rests, ReadForRecord, GotoOrLeave, Goto, Leave
<1>8. ReadForRecord(q) => Rests(q) \/ pc'[q] = "journalling"
  BY <1>1, <1>2 DEF ReadForRecord, GotoOrLeave, Goto
<1>9. ASSUME NEW p \in Procs, p # q, ReadCache(p) PROVE Rests(q)
  BY <1>1, <1>9 DEF Rests, ReadCache, Goto, Leave
<1>10. ReadCache(q) => Rests(q) \/ pc'[q] = "begin"
  BY <1>1, <1>2 DEF ReadCache, Goto
<1>11. \A p \in Procs : ReadPosting(p) \/ Begin(p) \/ StartFetch(p) => Rests(q)
  BY <1>1, <1>2, <1>3 DEF Rests, ReadPosting, Begin, StartFetch, GotoOrLeave, Goto, Points
<1>12. \A p \in Procs : FetchFails(p) \/ MarkIndeterminate(p) \/ RecordFetch(p) => Rests(q)
  BY <1>1, <1>2, <1>3 DEF FetchFails, MarkIndeterminate, RecordFetch, Points
<1>13. ASSUME NEW p \in Procs, NEW r \in Raws, Fetch(p, r) PROVE Rests(q)
  BY <1>3, <1>13 DEF Fetch, Points
<1>14. \A p \in Procs : WriteNewObject(p) \/ MarkObjectReady(p) \/ (\E t \in Stamps : Seal(p, t))
                         => Rests(q)
  BY <1>1, <1>2, <1>3 DEF Rests, WriteNewObject, MarkObjectReady, Seal, GotoOrLeave, Points
<1>15. \A p \in Procs : CheckCurrent(p) \/ Materialize(p) \/ WriteReceipt(p) \/ Crash(p) => Rests(q)
  BY <1>1, <1>2, <1>3 DEF Rests, CheckCurrent, Materialize, WriteReceipt, Crash, GotoOrLeave, Points
<1>16. UNCHANGED vars => Rests(q)
  BY DEF Rests, vars, refreshVars
<1>17. ASSUME NEW p \in Procs, ReadForRecord(p) \/ ReadCache(p)
       PROVE  Rests(q) \/ p = q
  BY <1>7, <1>9, <1>17
<1>18. ASSUME NEW p \in Procs, Step(p), ~ReadForRecord(p), ~ReadCache(p)
       PROVE  Rests(q)
  <2>1. Reload(p) \/ WriteOldObject(p) \/ (\E r \in Raws : Fetch(p, r)) => Rests(q)
    BY <1>5, <1>6, <1>13
  <2>2. ReadPosting(p) \/ Begin(p) \/ StartFetch(p) => Rests(q)
    BY <1>11
  <2>3. FetchFails(p) \/ MarkIndeterminate(p) \/ RecordFetch(p) => Rests(q)
    BY <1>12
  <2>4. WriteNewObject(p) \/ MarkObjectReady(p) \/ (\E t \in Stamps : Seal(p, t)) => Rests(q)
    BY <1>14
  <2>5. CheckCurrent(p) \/ Materialize(p) \/ WriteReceipt(p) => Rests(q)
    BY <1>15
  <2> QED
    BY <1>18, <2>1, <2>2, <2>3, <2>4, <2>5 DEF Step
<1> QED
  BY <1>4, <1>8, <1>10, <1>15, <1>16, <1>17, <1>18 DEF RefreshNext

\* Every step keeps each response with its own vacancy.
LEMMA OwnStep ==
    ASSUME RefreshInv, OwnInv, [RefreshNext]_vars
    PROVE  OwnInv'
<1>1. /\ \A o \in Ops : journal[o] # NoRow /\ journal[o].new # NoRaw
                           => journal[o].new.key = journal[o].job
      /\ \A p \in Procs : pc[p] = "journalling" => raw[p].key = request[p].job
      /\ \A j \in Jobs : posting[j].raw # NoRaw => posting[j].raw.key = j
      /\ \A j \in Jobs : cache[j] # NoRaw => cache[j].key = j
  BY DEF OwnInv, AnswersAreOwn, RowsHoldOwnResponse, FilesHoldOwnResponse
<1>2. \A o \in Ops : journal'[o] # NoRow /\ journal'[o].new # NoRaw
                        => journal'[o].new.key = journal'[o].job
  <2>1. CASE UNCHANGED journal
    BY <1>1, <2>1
  <2>2. \/ UNCHANGED journal
        \/ \E p \in Procs : \/ Begin(p) \/ StartFetch(p) \/ MarkIndeterminate(p) \/ RecordFetch(p)
                            \/ MarkObjectReady(p) \/ \E t \in Stamps : Seal(p, t)
    BY DEF RefreshNext, Step, Call, ReadPosting, ReadCache, Reload, WriteOldObject, Fetch,
       FetchFails, ReadForRecord, WriteNewObject, CheckCurrent, Materialize, WriteReceipt, Crash,
       vars, refreshVars
  <2> QED
    BY <2>1, <2>2, RowKeepsOwn DEF OwnInv
<1>3. ASSUME NEW q \in Procs, pc'[q] = "journalling"
      PROVE  raw'[q].key = request'[q].job
  <2>1. CASE Rests(q)
    BY <1>1, <1>3, <2>1 DEF Rests
  <2>2. CASE ReadForRecord(q)
    <3>1. raw[q].key = request[q].job /\ UNCHANGED <<raw, request>>
      BY <1>3, <2>2 DEF ReadForRecord, GotoOrLeave, Goto, Leave, RefreshInv, RefreshTypeOK
    <3> QED
      BY <3>1
  <2> QED
    BY <1>3, <2>1, <2>2, ArrivesAt
<1>4. RowsHoldOwnResponse'
  <2>1. CASE UNCHANGED posting
    BY <1>1, <2>1 DEF RowsHoldOwnResponse
  <2>2. ASSUME NEW p \in Procs, NEW t \in Stamps, Seal(p, t), ~UNCHANGED posting
        PROVE  RowsHoldOwnResponse'
    <3>1. pc[p] \in Admitted /\ row(p).status = "object_ready" /\ posting' = Refreshed(row(p))
      BY <2>2 DEF Seal, Admitted, Loaded, Points
    <3>2. row(p) \in Rows /\ row(p) # NoRow /\ row(p).new \in Raws /\ op(p) \in Ops
      BY <3>1, AdmittedCall DEF RowOK, Complete
    <3>3. row(p).new # NoRaw => row(p).new.key = row(p).job
      BY <1>1, <3>2 DEF row
    <3>4. posting \in [Jobs -> [status: FetchStatuses, raw: Raws \cup {NoRaw}]]
      BY DEF RefreshInv, RefreshTypeOK, PostingTypeOK
    <3>5. \A j \in Jobs : posting'[j] = IF j = row(p).job
                                       THEN [status |-> "fetched", raw |-> row(p).new]
                                       ELSE posting[j]
      BY <3>1, <3>4 DEF Refreshed
    <3> QED
      BY <1>1, <3>3, <3>5 DEF RowsHoldOwnResponse
  <2>3. UNCHANGED posting \/ \E p \in Procs, t \in Stamps : Seal(p, t)
    BY DEF RefreshNext, Step, Call, ReadPosting, ReadCache, Begin, Reload, WriteOldObject,
       StartFetch, Fetch, FetchFails, MarkIndeterminate, ReadForRecord, RecordFetch,
       WriteNewObject, MarkObjectReady, CheckCurrent, Materialize, WriteReceipt, Crash,
       vars, postingVars
  <2> QED
    BY <2>1, <2>2, <2>3
<1>5. FilesHoldOwnResponse'
  <2>1. CASE UNCHANGED cache
    BY <1>1, <2>1 DEF FilesHoldOwnResponse
  <2>2. ASSUME NEW p \in Procs, Materialize(p)
        PROVE  FilesHoldOwnResponse'
    <3>1. tr[p] = row(p) /\ row(p) # NoRow /\ op(p) \in Ops /\ row(p).job = request[p].job
      BY <2>2, MaterializedRow DEF Materialize
    <3>2. tr[p].new # NoRaw => tr[p].new.key = request[p].job
      BY <1>1, <3>1 DEF row
    <3> QED
      BY <1>1, <2>2, <3>2
         DEF Materialize, FilesHoldOwnResponse, RefreshInv, RefreshTypeOK, PostingTypeOK
  <2>3. UNCHANGED cache \/ \E p \in Procs : Materialize(p)
    BY DEF RefreshNext, Step, Call, ReadPosting, ReadCache, Begin, Reload, WriteOldObject,
       StartFetch, Fetch, FetchFails, MarkIndeterminate, ReadForRecord, RecordFetch,
       WriteNewObject, MarkObjectReady, Seal, CheckCurrent, WriteReceipt, Crash,
       vars, postingVars
  <2> QED
    BY <2>1, <2>2, <2>3
<1> QED
  BY <1>2, <1>3, <1>4, <1>5 DEF OwnInv, AnswersAreOwn

\* No answer for another vacancy ever reaches a row.
THEOREM RowsHoldTheirOwn == Spec => []RowsHoldOwnResponse
<1>1. OwnInv => RowsHoldOwnResponse
  BY DEF OwnInv
<1> QED
  BY <1>1, OwnStarts, OwnStep, RefreshInvariant, PTL DEF Spec

-------------------------------------------------------------------------------
(***************************************************************************)
(* Which operation can repair the cache of a row.                          *)
(***************************************************************************)
CommittedAs(o, r) == /\ journal[o] # NoRow
                     /\ journal[o].status = "committed"
                     /\ journal[o].new = r

\* Once an operation of a vacancy is committed, the response of the row is that of
\* a committed operation.
CommittedRows ==
    \A o \in Ops : journal[o] # NoRow /\ journal[o].status = "committed" =>
        \E k \in Ops : CommittedAs(k, posting[journal[o].job].raw)

RepairInv == CacheIsRepairable /\ CommittedRows

LEMMA RepairStarts ==
    ASSUME Init
    PROVE  RepairInv
BY DEF Init, PostingInit, RefreshInit, RepairInv, CacheIsRepairable, CommittedRows, Fetched, Absent

\* A sealed row is a row.
LEMMA SealedIsRow ==
    ASSUME RefreshInv, NEW p \in Procs, NEW t \in Stamps, pc[p] = "seal",
           row(p).status = "object_ready"
    PROVE  SealedRow(op(p), row(p), t) \in Rows
<1>1. pc[p] \in Admitted
  BY DEF Admitted, Loaded, Points
<1>2. op(p) \in Ops /\ row(p) \in Rows /\ row(p).new \in Raws
  BY <1>1, AdmittedCall DEF RowOK, Complete
<1>3. row(p).old \in Raws
  BY <1>2 DEF Rows
<1> QED
  BY <1>2, <1>3 DEF SealedRow, Rows, Sealed, Statuses, Complete

\* A row that is committed after any other step was so before and is the same.
LEMMA OnlySealCommits ==
    ASSUME RefreshInv, [RefreshNext]_vars,
           \A p \in Procs, t \in Stamps :
              Seal(p, t) => ~(row(p).status = "object_ready" /\ CurrentForSeal(row(p))),
           NEW o \in Ops
    PROVE  \/ journal'[o] = journal[o]
           \/ /\ journal'[o].status # "committed"
              /\ journal[o] # NoRow => journal[o].status # "committed"
<1>1. CASE UNCHANGED journal
  BY <1>1
<1>2. ASSUME NEW p \in Procs,
             \/ Begin(p) \/ StartFetch(p) \/ MarkIndeterminate(p) \/ RecordFetch(p)
             \/ MarkObjectReady(p),
             ~UNCHANGED journal, o = op(p)
      PROVE  /\ journal'[o].status # "committed"
             /\ journal[o] # NoRow => journal[o].status # "committed"
  <2>1. journal \in [Ops -> Rows \cup {NoRow}]
    BY DEF RefreshInv, RefreshTypeOK
  <2>2. CASE Begin(p)
    <3>1. journal[o] = NoRow
      BY <1>2, <2>2 DEF Begin, row
    <3>2. \E s : journal' = [journal EXCEPT ![op(p)] = s] /\ s.status = "intent"
      BY <1>2, <2>2 DEF Begin, op
    <3> QED
      BY <1>2, <2>1, <3>1, <3>2
  <2>3. CASE ~Begin(p)
    <3>1. pc[p] \in Admitted
      BY <1>2, <2>3 DEF StartFetch, MarkIndeterminate, RecordFetch, MarkObjectReady, Admitted,
         Loaded, Points
    <3>2. row(p) \in Rows /\ row(p) = journal[op(p)]
      BY <3>1, AdmittedCall DEF row
    <3>3. row(p).status \in {"intent", "fetch_started", "fetched"}
      BY <1>2, <2>3 DEF StartFetch, MarkIndeterminate, RecordFetch, MarkObjectReady
    <3>4. ASSUME NEW s \in Statuses \ {"committed"},
                 journal' = [journal EXCEPT ![op(p)].status = s]
          PROVE  journal'[o].status # "committed"
      <4>1. journal'[o] = [row(p) EXCEPT !.status = s]
        BY <1>2, <2>1, <3>2, <3>4
      <4> QED
        BY <3>2, <4>1 DEF Rows
    <3>5. ASSUME RecordFetch(p)
          PROVE  journal'[o].status # "committed"
      <4>1. journal'[o] = [row(p) EXCEPT !.status = "fetched", !.new = raw[p]]
        <5>1. journal' = [journal EXCEPT ![op(p)] = [row(p) EXCEPT !.status = "fetched", !.new = raw[p]]]
          BY <1>2, <2>1, <3>2, <3>5 DEF RecordFetch
        <5> QED
          BY <1>2, <2>1, <5>1
      <4> QED
        BY <3>2, <4>1 DEF Rows
    <3>6. journal'[o].status # "committed"
      BY <1>2, <2>3, <3>4, <3>5
         DEF StartFetch, MarkIndeterminate, MarkObjectReady, Statuses, PreFetch, Complete
    <3> QED
      BY <1>2, <3>2, <3>3, <3>6
  <2> QED
    BY <2>2, <2>3
<1>3. \A p \in Procs : Begin(p) \/ StartFetch(p) \/ MarkIndeterminate(p) \/ RecordFetch(p)
                       \/ MarkObjectReady(p) => journal'[o] = journal[o] \/ o = op(p)
  BY DEF Begin, StartFetch, MarkIndeterminate, RecordFetch, MarkObjectReady, op, RefreshInv,
     RefreshTypeOK
<1>4. \/ UNCHANGED journal
      \/ \E p \in Procs : \/ Begin(p) \/ StartFetch(p) \/ MarkIndeterminate(p) \/ RecordFetch(p)
                          \/ MarkObjectReady(p)
  <2>1. \A p \in Procs, t \in Stamps : Seal(p, t) => UNCHANGED journal
    BY DEF Seal
  <2> QED
    BY <2>1 DEF RefreshNext, Step, Call, ReadPosting, ReadCache, Reload, WriteOldObject, Fetch,
       FetchFails, ReadForRecord, WriteNewObject, CheckCurrent, Materialize, WriteReceipt, Crash,
       vars, refreshVars
<1> QED
  BY <1>1, <1>2, <1>3, <1>4

\* What an effective seal leaves: a committed operation and its response in the row.
LEMMA SealCommits ==
    ASSUME RefreshInv, NEW p \in Procs, NEW t \in Stamps, Seal(p, t),
           row(p).status = "object_ready", CurrentForSeal(row(p))
    PROVE  \E i \in Ops, r \in Rows :
              /\ r = journal[i] /\ r # NoRow /\ r.status = "object_ready"
              /\ r.new \in Raws /\ CurrentForSeal(r)
              /\ cache' = cache
              /\ CommittedAs(i, r.new)' /\ journal'[i].job = r.job
              /\ \A k \in Ops \ {i} : journal'[k] = journal[k]
              /\ posting'[r.job] = [status |-> "fetched", raw |-> r.new]
              /\ \A j \in Jobs \ {r.job} : posting'[j] = posting[j]
<1>1. pc[p] \in Admitted /\ pc[p] = "seal"
  BY DEF Seal, Admitted, Loaded, Points
<1> PICK i \in Ops, r \in Rows : i = op(p) /\ r = row(p) /\ r = journal[i] /\ r # NoRow /\ RowOK(r)
  BY <1>1, AdmittedCall DEF row
<1>2. SealedRow(i, r, t) \in Rows /\ r.new \in Raws
  BY <1>1, SealedIsRow DEF RowOK, Complete
<1>3. /\ journal' = [journal EXCEPT ![i] = SealedRow(i, r, t)]
      /\ posting' = Refreshed(r)
      /\ cache' = cache
  BY DEF Seal
<1>4. journal'[i] = SealedRow(i, r, t) /\ SealedRow(i, r, t) # NoRow
  BY <1>2, <1>3 DEF RefreshInv, RefreshTypeOK
<1>5. CommittedAs(i, r.new)' /\ journal'[i].job = r.job
  BY <1>2, <1>4 DEF CommittedAs, SealedRow, Rows
<1>6. \A k \in Ops \ {i} : journal'[k] = journal[k]
  BY <1>3 DEF RefreshInv, RefreshTypeOK
<1>7. /\ posting'[r.job] = [status |-> "fetched", raw |-> r.new]
      /\ \A j \in Jobs \ {r.job} : posting'[j] = posting[j]
  BY <1>2, <1>3 DEF Refreshed, Rows, RefreshInv, RefreshTypeOK, PostingTypeOK
<1> QED
  BY <1>2, <1>3, <1>5, <1>6, <1>7

\* A commit leaves its own response in the row.
LEMMA SealRepairs ==
    ASSUME RefreshInv, RepairInv, NEW p \in Procs, NEW t \in Stamps, Seal(p, t),
           row(p).status = "object_ready", CurrentForSeal(row(p))
    PROVE  RepairInv'
<1> PICK i \in Ops, r \in Rows :
              /\ r = journal[i] /\ r.status = "object_ready"
              /\ cache' = cache
              /\ CommittedAs(i, r.new)' /\ journal'[i].job = r.job
              /\ \A k \in Ops \ {i} : journal'[k] = journal[k]
              /\ posting'[r.job] = [status |-> "fetched", raw |-> r.new]
              /\ \A j \in Jobs \ {r.job} : posting'[j] = posting[j]
  BY SealCommits
<1>1. \A k \in Ops : \A x : CommittedAs(k, x) => CommittedAs(k, x)'
  BY DEF CommittedAs
<1>2. CacheIsRepairable'
  <2> SUFFICES ASSUME NEW j \in Jobs, Fetched(j)', cache'[j] # posting'[j].raw
               PROVE  \E k \in Ops : CommittedAs(k, posting[j].raw)'
    BY DEF CacheIsRepairable, CommittedAs
  <2>1. CASE j = r.job
    BY <2>1 DEF CommittedAs, Rows
  <2>2. CASE j # r.job
    <3>1. posting'[j] = posting[j]
      BY <2>2
    <3>2. \E k \in Ops : CommittedAs(k, posting[j].raw)
      BY <3>1 DEF RepairInv, CacheIsRepairable, Fetched, CommittedAs
    <3> QED
      BY <1>1, <3>1, <3>2 DEF CommittedAs
  <2> QED
    BY <2>1, <2>2
<1>3. CommittedRows'
  <2> SUFFICES ASSUME NEW o \in Ops, journal'[o] # NoRow, journal'[o].status = "committed"
               PROVE  \E k \in Ops : CommittedAs(k, posting[journal[o].job].raw)'
    BY DEF CommittedRows
  <2>1. CASE journal'[o].job = r.job
    BY <2>1 DEF CommittedAs, Rows
  <2>2. CASE journal'[o].job # r.job
    <3>1. o # i
      BY <2>2
    <3>2. journal'[o] = journal[o] /\ journal[o].job \in Jobs
      BY <3>1 DEF RefreshInv, RefreshTypeOK, Rows
    <3>3. posting'[journal[o].job] = posting[journal[o].job]
      BY <2>2, <3>2
    <3>4. \E k \in Ops : CommittedAs(k, posting[journal[o].job].raw)
      BY <3>2 DEF RepairInv, CommittedRows
    <3> QED
      BY <1>1, <3>2, <3>3, <3>4 DEF CommittedAs
  <2> QED
    BY <2>1, <2>2
<1> QED
  BY <1>2, <1>3 DEF RepairInv

\* Every other step leaves the rows and the committed operations alone; if it
\* writes a cache file, then as a committed operation of that vacancy.
LEMMA RepairStep ==
    ASSUME RefreshInv, RepairInv, [RefreshNext]_vars
    PROVE  RepairInv'
<1>1. CASE \E p \in Procs, t \in Stamps :
              Seal(p, t) /\ row(p).status = "object_ready" /\ CurrentForSeal(row(p))
  BY <1>1, SealRepairs
<1>2. ASSUME \A p \in Procs, t \in Stamps :
               Seal(p, t) => ~(row(p).status = "object_ready" /\ CurrentForSeal(row(p)))
      PROVE  RepairInv'
  <2>1. UNCHANGED posting
    BY <1>2 DEF RefreshNext, Step, Call, ReadPosting, ReadCache, Begin, Reload, WriteOldObject,
       StartFetch, Fetch, FetchFails, MarkIndeterminate, ReadForRecord, RecordFetch,
       WriteNewObject, MarkObjectReady, Seal, CheckCurrent, Materialize, WriteReceipt, Crash,
       vars, postingVars
  <2>2. \A o \in Ops : \A r : CommittedAs(o, r)' <=> CommittedAs(o, r)
    BY <1>2, OnlySealCommits DEF CommittedAs
  <2>3. CommittedRows'
    <3> SUFFICES ASSUME NEW o \in Ops, journal'[o] # NoRow, journal'[o].status = "committed"
                 PROVE  \E k \in Ops : CommittedAs(k, posting[journal[o].job].raw)'
      BY DEF CommittedRows
    <3>1. journal'[o] = journal[o]
      BY <1>2, OnlySealCommits
    <3>2. \E k \in Ops : CommittedAs(k, posting[journal[o].job].raw)
      BY <3>1 DEF RepairInv, CommittedRows
    <3> QED
      BY <2>1, <2>2, <3>1, <3>2 DEF CommittedAs
  <2>4. CASE UNCHANGED cache
    BY <2>1, <2>2, <2>3, <2>4 DEF RepairInv, CacheIsRepairable, Fetched, CommittedAs
  <2>5. ASSUME NEW p \in Procs, Materialize(p)
        PROVE  CacheIsRepairable'
    <3> SUFFICES ASSUME NEW j \in Jobs, Fetched(j), cache'[j] # posting[j].raw
                 PROVE  \E k \in Ops : CommittedAs(k, posting[j].raw)
      BY <2>1, <2>2 DEF CacheIsRepairable, CommittedAs, Fetched
    <3>1. /\ row(p) # NoRow /\ op(p) \in Ops /\ row(p).job = request[p].job
          /\ row(p).status = "committed"
      BY <2>5, MaterializedRow DEF Materialize
    <3>2. CASE j = request[p].job
      BY <3>1, <3>2 DEF RepairInv, CommittedRows, row
    <3>3. CASE j # request[p].job
      BY <2>5, <3>3 DEF Materialize, RepairInv, CacheIsRepairable, CommittedAs, RefreshInv,
         RefreshTypeOK, PostingTypeOK
    <3> QED
      BY <3>2, <3>3
  <2>6. UNCHANGED cache \/ \E p \in Procs : Materialize(p)
    BY DEF RefreshNext, Step, Call, ReadPosting, ReadCache, Begin, Reload, WriteOldObject,
       StartFetch, Fetch, FetchFails, MarkIndeterminate, ReadForRecord, RecordFetch,
       WriteNewObject, MarkObjectReady, Seal, CheckCurrent, WriteReceipt, Crash,
       vars, postingVars
  <2> QED
    BY <2>3, <2>4, <2>5, <2>6 DEF RepairInv
<1> QED
  BY <1>1, <1>2

\* While only refreshes write, an outdated cache file is repaired by the replay of
\* the operation whose response the row holds.
THEOREM CacheCanBeRepaired == Spec => []CacheIsRepairable
<1>1. RepairInv => CacheIsRepairable
  BY DEF RepairInv
<1> QED
  BY <1>1, RepairStarts, RepairStep, RefreshInvariant, PTL DEF Spec
===============================================================================
