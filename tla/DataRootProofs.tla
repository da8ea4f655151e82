---------------------------- MODULE DataRootProofs ----------------------------
(***************************************************************************)
(* Proofs about the migration of a data root, for any number of processes, *)
(* operations and deaths: what an opened database promises about earlier   *)
(* operations and earlier results, and that collectors keep their promises *)
(* on a data root that is migrated.                                        *)
(***************************************************************************)
EXTENDS DataRoot, CollectorCycleProofs

USE MigrationAssumption

\* Steps of an opening that has found, made or verified the current journal.
Verified == {"results", "rename_results", "create_results", "copy_results", "open"}
Current == Verified \cup {"fill", "validate"}

\* The archive is made before the current journal of an earlier database.
ArchivedFirst == Left # {} /\ ~archived => table = "old"

\* Nothing is in a journal that is not there.
EmptyBefore == table # "current" => quarantine = {} /\ \A o \in Ops : entry[o] = NoEntry

\* Who renamed the journal is alone in filling it, and nothing is in it yet.
FillsAlone(p) ==
    step[p] \in {"recreate", "fill"} =>
        /\ archived
        /\ \A q \in Openers : step[q] \in {"recreate", "fill"} => q = p
        /\ Left # {} => quarantine = {} /\ \A o \in Ops : entry[o] = NoEntry

OpenerOK(p) ==
    /\ step[p] \in Current => table = "current"
    /\ step[p] \in Verified => Valid
    /\ FillsAlone(p)

\* Who waits for an answer has the database open, and waits for an operation of
\* its own or one that an earlier version only intended.
WindowOK(p) ==
    window[p] # NoOp =>
        /\ step[p] = "open"
        /\ entry[window[p]] # NoEntry
        /\ old[window[p]] # NoEntry => old[window[p]].status = "intent"

AskedOK(o) ==
    /\ entry[o] # NoEntry
    /\ old[o] # NoEntry => old[o].status = "intent"

\* No new operation is about a vacancy in quarantine.
NewIsFree(o) ==
    entry[o] # NoEntry /\ old[o] = NoEntry => \A q \in quarantine : old[q].job # entry[o].job

MigrationInv ==
    /\ MigrationTypeOK
    /\ ArchivedFirst
    /\ EmptyBefore
    /\ \A p \in Openers : OpenerOK(p) /\ WindowOK(p)
    /\ \A o \in asked : AskedOK(o)
    /\ \A o \in Ops : NewIsFree(o)

-------------------------------------------------------------------------------
\* Every schema of the earlier journals starts an invariant data root.
LEMMA MigrationStart ==
    ASSUME MigrationInit
    PROVE  MigrationInv
<1>1. MigrationTypeOK
  <2>1. old \in [Ops -> OldRows \cup {NoEntry}]
    BY DEF MigrationInit
  <2>2. deaths \in 0..MaxDeaths
    BY DEF MigrationInit
  <2>3. entry \in [Ops -> Entries \cup {NoEntry}] /\ window \in [Openers -> Ops \cup {NoOp}]
    BY DEF MigrationInit
  <2> QED
    BY <2>1, <2>2, <2>3 DEF MigrationInit, MigrationTypeOK, Steps
<1>2. ArchivedFirst /\ EmptyBefore
  BY DEF MigrationInit, ArchivedFirst, EmptyBefore
<1>3. \A p \in Openers : OpenerOK(p) /\ WindowOK(p)
  BY DEF MigrationInit, OpenerOK, WindowOK, FillsAlone, Verified, Current
<1>4. asked = {} /\ \A o \in Ops : NewIsFree(o)
  BY DEF MigrationInit, NewIsFree
<1> QED
  BY <1>1, <1>2, <1>3, <1>4 DEF MigrationInv

\* On a journal that is current every earlier operation has its archived row.
LEMMA CurrentIsArchived ==
    ASSUME MigrationInv, NEW p \in Openers, step[p] \in Current, Left # {}
    PROVE  archived
BY DEF MigrationInv, ArchivedFirst, OpenerOK

\* A journal that has been verified is filled: nobody is about to fill it.
LEMMA VerifiedIsFilled ==
    ASSUME MigrationInv, NEW p \in Openers, step[p] \in Verified, Left # {},
           NEW q \in Openers, step[q] \in {"recreate", "fill"}
    PROVE  FALSE
<1>1. archived /\ Valid
  BY CurrentIsArchived DEF MigrationInv, OpenerOK, Current
<1>2. PICK o \in Ops : o \in Left
  BY DEF Left
<1>3. quarantine = {} /\ entry[o] = NoEntry
  BY DEF MigrationInv, OpenerOK, FillsAlone
<1> QED
  BY <1>1, <1>2, <1>3 DEF Valid, Disposed

\* An operation that is in the journal with the status intent was intended, if
\* an earlier version left it.
LEMMA IntentWasIntent ==
    ASSUME MigrationInv, NEW p \in Openers, step[p] = "open", NEW o \in Ops,
           entry[o] # NoEntry, entry[o].status = "intent", old[o] # NoEntry
    PROVE  old[o].status = "intent"
<1>1. o \in Left /\ archived /\ Valid
  BY CurrentIsArchived DEF MigrationInv, OpenerOK, Current, Verified, Left
<1>2. entry[o].status \in Progressions[old[o].status]
  BY <1>1 DEF Valid, Disposed
<1>3. old[o].status \in Unsettled \cup {"committed"}
  BY DEF MigrationInv, MigrationTypeOK, OldRows
<1> QED
  BY <1>2, <1>3 DEF Progressions, Unsettled

-------------------------------------------------------------------------------
(***************************************************************************)
(* Opening.                                                                *)
(***************************************************************************)
\* A step of an opening that leaves the journal alone.
LEMMA OpeningStep ==
    ASSUME MigrationInv, NEW p \in Openers, window[p] = NoOp, NEW next \in Steps, Goto(p, next),
           UNCHANGED <<journalVars, window, asked>>, MigrationTypeOK',
           next \in Current => table = "current",
           next \in Verified => Valid,
           next \notin {"recreate", "fill"}
    PROVE  MigrationInv'
<1>1. Valid' = Valid /\ Left' = Left
  BY DEF Valid, Left, Disposed, Converts, journalVars
<1>2. \A q \in Openers : q # p => step'[q] = step[q]
  BY DEF Goto, MigrationInv, MigrationTypeOK
<1>3. step'[p] = next
  BY DEF Goto, MigrationInv, MigrationTypeOK
<1>4. ASSUME NEW q \in Openers PROVE OpenerOK(q)'
  BY <1>1, <1>2, <1>3 DEF MigrationInv, OpenerOK, FillsAlone, journalVars
<1> QED
  BY <1>1, <1>2, <1>4 DEF MigrationInv, ArchivedFirst, EmptyBefore, WindowOK, AskedOK, NewIsFree, journalVars

LEMMA RenameKeeps ==
    ASSUME MigrationInv, NEW p \in Openers, window[p] = NoOp, Rename(p),
           UNCHANGED <<window, asked>>,
           MigrationTypeOK'
    PROVE  MigrationInv'
<1>1. CASE table = "old" /\ ~archived
  <2>1. /\ archived' = TRUE /\ table' = "absent"
        /\ step' = [step EXCEPT ![p] = "recreate"]
        /\ UNCHANGED <<kind, old, entry, quarantine>>
    BY <1>1 DEF Rename, Goto
  <2>2. \A q \in Openers : step[q] \notin Current \cup {"recreate"}
    BY <1>1 DEF MigrationInv, OpenerOK, FillsAlone, Current
  <2>3. \A q \in Openers : step'[q] = IF q = p THEN "recreate" ELSE step[q]
    BY <2>1 DEF MigrationInv, MigrationTypeOK
  <2>4. quarantine = {} /\ \A o \in Ops : entry[o] = NoEntry
    BY <1>1 DEF MigrationInv, EmptyBefore
  <2>5. \A q \in Openers : OpenerOK(q)'
    <3> SUFFICES ASSUME NEW q \in Openers PROVE OpenerOK(q)'
      OBVIOUS
    <3>1. step'[q] \notin Current
      BY <2>2, <2>3 DEF Current, Verified
    <3>2. FillsAlone(q)'
      BY <2>1, <2>2, <2>3, <2>4 DEF FillsAlone, Current
    <3> QED
      BY <3>1, <3>2 DEF OpenerOK, Current
  <2> QED
    BY <2>1, <2>4, <2>5 DEF MigrationInv, ArchivedFirst, EmptyBefore, WindowOK, AskedOK, NewIsFree
<1>2. CASE ~(table = "old" /\ ~archived)
  BY <1>2, OpeningStep DEF Rename, Steps, Current, Verified, journalVars
<1> QED
  BY <1>1, <1>2

\* The table is created by who found none or by who renamed it.
LEMMA CreateKeeps ==
    ASSUME MigrationInv, NEW p \in Openers, window[p] = NoOp, Create(p),
           UNCHANGED <<window, asked>>,
           MigrationTypeOK'
    PROVE  MigrationInv'
<1>1. CASE table = "absent"
  <2> DEFINE next == IF step[p] = "create" THEN "validate" ELSE "fill"
  <2>1. /\ table' = "current" /\ step' = [step EXCEPT ![p] = next]
        /\ UNCHANGED <<kind, old, archived, entry, quarantine>>
    BY <1>1 DEF Create, GotoIf, Goto
  <2>2. \A q \in Openers : step'[q] = IF q = p THEN next ELSE step[q]
    BY <2>1 DEF MigrationInv, MigrationTypeOK
  <2>3. \A q \in Openers : step[q] \notin Current
    BY <1>1 DEF MigrationInv, OpenerOK
  <2>4. next = "fill" => step[p] = "recreate"
    BY DEF Create
  <2>5. Left' = Left
    BY <2>1 DEF Left
  <2>6. \A q \in Openers : OpenerOK(q)'
    <3> SUFFICES ASSUME NEW q \in Openers PROVE OpenerOK(q)'
      OBVIOUS
    <3>1. step'[q] \notin Verified
      BY <2>2, <2>3 DEF Current, Verified
    <3>2. FillsAlone(q) /\ FillsAlone(p)
      BY DEF MigrationInv, OpenerOK
    <3>3. FillsAlone(q)'
      BY <2>1, <2>2, <2>3, <2>4, <2>5, <3>2 DEF FillsAlone, Current
    <3> QED
      BY <2>1, <3>1, <3>3 DEF OpenerOK
  <2>7. ArchivedFirst'
    BY <1>1, <2>1, <2>5 DEF MigrationInv, ArchivedFirst
  <2> QED
    BY <2>1, <2>6, <2>7 DEF MigrationInv, EmptyBefore, WindowOK, AskedOK, NewIsFree
<1>2. CASE table # "absent"
  BY <1>2, OpeningStep DEF Create, GotoIf, Steps, Current, Verified, journalVars
<1> QED
  BY <1>1, <1>2

\* The journal is filled: each archived operation is disposed of.
LEMMA FillKeeps ==
    ASSUME MigrationInv, NEW p \in Openers, window[p] = NoOp, Fill(p),
           UNCHANGED <<window, asked>>,
           MigrationTypeOK'
    PROVE  MigrationInv'
<1>1. step[p] = "fill" /\ table = "current" /\ archived
  BY DEF Fill, MigrationInv, OpenerOK, FillsAlone, Current
<1>2. CASE Left = {}
  <2>1. entry' = entry
    BY <1>2 DEF Fill, MigrationInv, MigrationTypeOK
  <2>2. quarantine' = quarantine
    BY <1>2 DEF Fill
  <2> QED
    BY <1>1, <1>2, <2>1, <2>2, OpeningStep DEF Fill, Steps, Current, Verified, journalVars
<1>3. CASE Left # {}
  <2>1. /\ step' = [step EXCEPT ![p] = "open"]
        /\ UNCHANGED <<kind, old, table, archived>>
    BY <1>3 DEF Fill, Goto
  <2>2. /\ quarantine = {}
        /\ \A o \in Ops : entry[o] = NoEntry
        /\ \A q \in Openers : step[q] \in {"recreate", "fill"} => q = p
        /\ \A q \in Openers : step[q] \notin Verified
    BY <1>1, <1>3, VerifiedIsFilled DEF MigrationInv, OpenerOK, FillsAlone
  <2>3. /\ \A o \in Ops : entry'[o] = IF o \in Left /\ Converts(o) THEN Carried(o) ELSE NoEntry
        /\ quarantine' = {o \in Left : ~Converts(o)}
    BY <2>2 DEF Fill
  <2>4. Left' = Left /\ \A o \in Ops : Converts(o)' = Converts(o)
    BY <2>1 DEF Left, Converts
  <2>5. ASSUME NEW o \in Left PROVE Disposed(o)'
    <3>1. o \in Ops /\ old[o] \in OldRows
      BY DEF Left, MigrationInv, MigrationTypeOK
    <3>2. Carried(o) # NoEntry /\ old[o].status \in Progressions[old[o].status]
      <4>1. Carried(o) \in Entries
        BY <3>1 DEF Carried, OldRows, Entries
      <4>2. old[o].status \in Unsettled \cup {"committed"}
        BY <3>1 DEF OldRows
      <4> QED
        BY <4>1, <4>2 DEF Progressions, Unsettled
    <3>3. Progressions' = Progressions
      BY DEF Progressions
    <3>4. CASE Converts(o)
      <4>1. entry'[o] = Carried(o) /\ o \notin quarantine'
        BY <2>3, <3>1, <3>4
      <4>2. entry'[o].job = old'[o].job /\ entry'[o].status = old'[o].status
        BY <2>1, <4>1 DEF Carried
      <4>3. entry'[o].status \in Progressions'[old'[o].status]
        BY <2>1, <3>2, <3>3, <4>2
      <4>4. Converts(o)' /\ entry'[o] # NoEntry
        BY <2>4, <3>1, <3>2, <3>4, <4>1
      <4> QED
        BY <4>1, <4>2, <4>3, <4>4 DEF Disposed
    <3>5. CASE ~Converts(o)
      BY <2>1, <2>3, <2>4, <3>1, <3>5 DEF Disposed
    <3> QED
      BY <3>4, <3>5
  <2>6. Valid'
    BY <2>4, <2>5 DEF Valid
  <2>7. \A q \in Openers : step'[q] = IF q = p THEN "open" ELSE step[q]
    BY <2>1 DEF MigrationInv, MigrationTypeOK
  <2>8. \A q \in Openers : OpenerOK(q)'
    BY <1>1, <2>1, <2>2, <2>6, <2>7 DEF MigrationInv, OpenerOK, FillsAlone, Current
  <2>9. \A q \in Openers : WindowOK(q)'
    BY <2>1, <2>2 DEF MigrationInv, WindowOK, MigrationTypeOK
  <2>10. asked' = {}
    BY <2>2 DEF MigrationInv, AskedOK, MigrationTypeOK
  <2>11. \A o \in Ops : NewIsFree(o)'
    BY <2>1, <2>3 DEF NewIsFree, Left
  <2> QED
    BY <1>1, <2>1, <2>8, <2>9, <2>10, <2>11 DEF MigrationInv, ArchivedFirst, EmptyBefore
<1> QED
  BY <1>2, <1>3

\* Every step of an opening.
LEMMA OpenKeeps ==
    ASSUME MigrationInv, NEW p \in Openers, Open(p), MigrationTypeOK'
    PROVE  MigrationInv'
<1> USE DEF Steps, Current, Verified
<1>1. UNCHANGED <<window, asked>>
  BY DEF Open
<1>0. window[p] = NoOp
  <2>1. step[p] # "open"
    BY DEF Open, CreateSchema, Inspect, Rename, Create, Fill, Validate, InspectResults,
       RenameResults, CreateResults, CopyResults
  <2> QED
    BY <2>1 DEF MigrationInv, WindowOK
<1>2. CASE CreateSchema(p)
  BY <1>1, <1>2, <1>0, OpeningStep DEF CreateSchema
<1>3. CASE Inspect(p)
  BY <1>1, <1>3, <1>0, OpeningStep DEF Inspect
<1>4. CASE Validate(p)
  BY <1>1, <1>4, <1>0, OpeningStep DEF Validate, GotoIf, MigrationInv, OpenerOK
<1>5. CASE InspectResults(p)
  BY <1>1, <1>5, <1>0, OpeningStep DEF InspectResults, MigrationInv, OpenerOK
<1>6. CASE RenameResults(p)
  BY <1>1, <1>6, <1>0, OpeningStep DEF RenameResults, MigrationInv, OpenerOK
<1>7. CASE CreateResults(p)
  BY <1>1, <1>7, <1>0, OpeningStep DEF CreateResults, GotoIf, MigrationInv, OpenerOK
<1>8. ASSUME NEW fits \in BOOLEAN, CopyResults(p, fits) PROVE MigrationInv'
  BY <1>1, <1>8, <1>0, OpeningStep DEF CopyResults, GotoIf, MigrationInv, OpenerOK
<1> QED
  BY <1>1, <1>2, <1>3, <1>4, <1>5, <1>6, <1>7, <1>8, <1>0, RenameKeeps, CreateKeeps, FillKeeps DEF Open
-------------------------------------------------------------------------------
(***************************************************************************)
(* Refreshes.                                                              *)
(***************************************************************************)
\* What a transition of one operation in the journal has to respect.
LEMMA EntryStep ==
    ASSUME MigrationInv, NEW p \in Openers, step[p] = "open", NEW o \in Ops,
           NEW e \in Entries, entry' = [entry EXCEPT ![o] = e],
           UNCHANGED <<kind, old, table, archived, quarantine, step>>,
           entry[o] # NoEntry => e.job = entry[o].job,
           entry[o] = NoEntry =>
              old[o] = NoEntry /\ \A q \in quarantine : old[q].job # e.job,
           old[o] # NoEntry /\ entry[o].status \in Progressions[old[o].status]
              => e.status \in Progressions[old[o].status]
    PROVE  /\ entry' \in [Ops -> Entries \cup {NoEntry}]
           /\ ArchivedFirst' /\ EmptyBefore'
           /\ \A q \in Openers : OpenerOK(q)'
           /\ \A q \in Ops : entry[q] # NoEntry => entry'[q] # NoEntry
           /\ \A q \in Ops : NewIsFree(q)'
<1>1. entry \in [Ops -> Entries \cup {NoEntry}]
  BY DEF MigrationInv, MigrationTypeOK
<1>2. \A q \in Ops : entry'[q] = IF q = o THEN e ELSE entry[q]
  BY <1>1
<1>3. e # NoEntry
  OBVIOUS
<1>4. Left' = Left
  BY DEF Left
<1>5. ASSUME Valid PROVE Valid'
  <2> SUFFICES ASSUME archived, NEW q \in Left PROVE Disposed(q)'
    BY <1>4 DEF Valid
  <2>1. Disposed(q) /\ q \in Ops /\ old[q] # NoEntry
    BY <1>5 DEF Valid, Left
  <2>2. Converts(q)' = Converts(q) /\ Progressions' = Progressions
    BY DEF Converts, Progressions
  <2>3. CASE q # o
    BY <1>2, <2>1, <2>2, <2>3 DEF Disposed
  <2>4. CASE q = o
    <3>1. entry[o] # NoEntry /\ entry[o].job = old[o].job
          /\ entry[o].status \in Progressions[old[o].status] /\ Converts(o)
      BY <2>1, <2>4 DEF Disposed
    <3>2. o \notin quarantine
      BY <2>1, <2>4, <3>1 DEF Disposed
    <3>3. entry'[o] = e /\ e.job = old[o].job /\ e.status \in Progressions[old[o].status]
      BY <1>2, <2>1, <2>4, <3>1
    <3> QED
      BY <1>3, <2>2, <2>4, <3>1, <3>2, <3>3 DEF Disposed
  <2> QED
    BY <2>3, <2>4
<1>6. \A q \in Openers : OpenerOK(q)'
  <2> SUFFICES ASSUME NEW q \in Openers PROVE OpenerOK(q)'
    OBVIOUS
  <2>1. OpenerOK(q)
    BY DEF MigrationInv
  <2>2. FillsAlone(q)'
    <3>1. step[q] \in {"recreate", "fill"} => Left = {}
      BY VerifiedIsFilled DEF Verified
    <3> QED
      BY <1>4, <2>1, <3>1 DEF OpenerOK, FillsAlone
  <2> QED
    BY <1>5, <2>1, <2>2 DEF OpenerOK, Current, Verified
<1>7. ASSUME NEW q \in Ops PROVE NewIsFree(q)'
  <2>1. NewIsFree(q)
    BY DEF MigrationInv
  <2>2. CASE q # o
    BY <1>2, <2>1, <2>2 DEF NewIsFree
  <2>3. CASE q = o /\ entry[o] = NoEntry
    BY <1>2, <2>3 DEF NewIsFree
  <2>4. CASE q = o /\ entry[o] # NoEntry
    BY <1>2, <2>1, <2>4 DEF NewIsFree
  <2> QED
    BY <2>2, <2>3, <2>4
<1>8. ArchivedFirst' /\ EmptyBefore'
  BY <1>4 DEF MigrationInv, ArchivedFirst, EmptyBefore, OpenerOK, Current, Verified
<1> QED
  BY <1>1, <1>2, <1>3, <1>6, <1>7, <1>8

\* Types.
LEMMA MigrationStepTypes ==
    ASSUME MigrationInv, MigrationNext
    PROVE  MigrationTypeOK'
<1> SUFFICES ASSUME NEW p \in Openers,
                    OpenStep(p) \/ Close(p) \/ Die(p) \/ (Refresh(p) /\ UNCHANGED troubled)
             PROVE  MigrationTypeOK'
  BY DEF MigrationNext
<1>1. MigrationTypeOK /\ WindowOK(p)
  BY DEF MigrationInv
<1>2. CASE OpenStep(p)
  <2>1. UNCHANGED <<kind, old, window, asked, deaths>> /\ troubled' \in BOOLEAN
    BY <1>1, <1>2 DEF OpenStep, Open, MigrationTypeOK, journalVars, CreateSchema, Inspect, Rename,
       Create, Fill, Validate, InspectResults, RenameResults, CreateResults, CopyResults,
       TwoOpening, Opening
  <2>2. step' \in [Openers -> Steps]
    BY <1>1, <1>2 DEF OpenStep, Open, CreateSchema, Inspect, Rename, Create, Fill, Validate,
       InspectResults, RenameResults, CreateResults, CopyResults, Goto, GotoIf, MigrationTypeOK, Steps
  <2>3. /\ table' \in {"old", "current", "absent"} /\ archived' \in BOOLEAN
        /\ results' \in {"v1", "current", "absent"} /\ aside' \in BOOLEAN /\ relabelled' \in BOOLEAN
    BY <1>1, <1>2 DEF OpenStep, Open, CreateSchema, Inspect, Rename, Create, Fill, Validate,
       InspectResults, RenameResults, CreateResults, CopyResults, MigrationTypeOK, journalVars,
       resultVars
  <2>4. CASE Fill(p)
    <3>1. \A o \in Left : Carried(o) \in Entries /\ o \in Ops
      BY <1>1 DEF Left, Carried, MigrationTypeOK, OldRows, Entries
    <3>2. entry' \in [Ops -> Entries \cup {NoEntry}] /\ quarantine' \subseteq Ops
      BY <1>1, <2>4, <3>1 DEF Fill, MigrationTypeOK, Left
    <3> QED
      BY <1>1, <2>1, <2>2, <2>3, <3>2 DEF MigrationTypeOK
  <2>5. CASE ~Fill(p)
    <3>1. UNCHANGED <<entry, quarantine>>
      BY <1>2, <2>5 DEF OpenStep, Open, CreateSchema, Inspect, Rename, Create, Validate,
         InspectResults, RenameResults, CreateResults, CopyResults, journalVars
    <3> QED
      BY <1>1, <2>1, <2>2, <2>3, <3>1 DEF MigrationTypeOK
  <2> QED
    BY <2>4, <2>5
<1>3. CASE Close(p)
  BY <1>1, <1>3 DEF Close, Goto, MigrationTypeOK, Steps, journalVars, resultVars
<1>5. CASE Die(p)
  <2>1. deaths' \in 0..MaxDeaths
    BY <1>1, <1>5 DEF Die, MigrationTypeOK
  <2>2. step' \in [Openers -> Steps] /\ window' \in [Openers -> Ops \cup {NoOp}]
    BY <1>1, <1>5 DEF Die, Goto, MigrationTypeOK, Steps
  <2>3. troubled' \in BOOLEAN
    BY <1>1, <1>5 DEF Die, Opening, MigrationTypeOK
  <2> QED
    BY <1>1, <1>5, <2>1, <2>2, <2>3 DEF Die, MigrationTypeOK, journalVars, resultVars
<1>4. CASE Refresh(p) /\ UNCHANGED troubled
  <2>1. UNCHANGED <<kind, old, table, archived, quarantine, resultVars, step, deaths, troubled>>
    BY <1>4 DEF Refresh
  <2>2. window' \in [Openers -> Ops \cup {NoOp}] /\ asked' \subseteq Ops
    BY <1>1, <1>4 DEF Refresh, BeginRefresh, StartFetch, Replay, RecordFetch, FetchFails, MigrationTypeOK
  <2>3. entry' \in [Ops -> Entries \cup {NoEntry}]
    <3>1. ASSUME NEW o \in Ops, NEW s \in Unsettled, entry[o] # NoEntry, Advance(o, s)
          PROVE  entry' \in [Ops -> Entries \cup {NoEntry}]
      <4>1. [entry[o] EXCEPT !.status = s] \in Entries
        BY <1>1, <3>1 DEF MigrationTypeOK, Entries
      <4> QED
        BY <1>1, <3>1, <4>1 DEF Advance, MigrationTypeOK
    <3>2. ASSUME NEW o \in Ops, NEW j \in Jobs, BeginRefresh(p, o, j)
          PROVE  entry' \in [Ops -> Entries \cup {NoEntry}]
      BY <1>1, <3>2 DEF BeginRefresh, MigrationTypeOK, Entries, Unsettled
    <3>3. ASSUME NEW o \in Ops, StartFetch(p, o) \/ Replay(p, o)
          PROVE  entry' \in [Ops -> Entries \cup {NoEntry}]
      BY <3>1, <3>3 DEF StartFetch, Replay, Unsettled
    <3>4. CASE RecordFetch(p)
      BY <1>1, <3>1, <3>4 DEF RecordFetch, WindowOK, MigrationTypeOK, Unsettled
    <3>5. CASE FetchFails(p)
      BY <1>1, <3>5 DEF FetchFails, MigrationTypeOK
    <3> QED
      BY <1>4, <3>2, <3>3, <3>4, <3>5 DEF Refresh
  <2> QED
    BY <1>1, <2>1, <2>2, <2>3 DEF MigrationTypeOK, resultVars
<1> QED
  BY <1>2, <1>3, <1>4, <1>5

\* A refresh step leaves the database open and moves at most one operation, as
\* far as the archive allows.
LEMMA RefreshKeeps ==
    ASSUME MigrationInv, NEW p \in Openers, Refresh(p), MigrationTypeOK'
    PROVE  MigrationInv'
<1>1. UNCHANGED <<kind, old, table, archived, quarantine, step>>
  BY DEF Refresh
<1>2. entry \in [Ops -> Entries \cup {NoEntry}] /\ asked \subseteq Ops
      /\ window \in [Openers -> Ops \cup {NoOp}]
  BY DEF MigrationInv, MigrationTypeOK
<1>3. step[p] = "open" /\ table = "current" /\ Valid
  <2>1. step[p] = "open"
    BY DEF Refresh, BeginRefresh, StartFetch, Replay, RecordFetch, FetchFails, Idle, MigrationInv,
       WindowOK
  <2> QED
    BY <2>1 DEF MigrationInv, OpenerOK, Current, Verified
<1>4. ASSUME NEW o \in Ops, old[o] # NoEntry
      PROVE  archived /\ Disposed(o) /\ old[o].status \in Unsettled \cup {"committed"}
  <2>1. o \in Left
    BY <1>4 DEF Left
  <2>2. archived
    BY <1>3, <2>1, CurrentIsArchived DEF Current, Verified
  <2> QED
    BY <1>3, <1>4, <2>1, <2>2 DEF Valid, MigrationInv, MigrationTypeOK, OldRows
<1>5. ASSUME NEW o \in Ops, NEW s \in Unsettled, entry[o] # NoEntry, Advance(o, s),
             old[o] # NoEntry /\ entry[o].status \in Progressions[old[o].status]
                => s \in Progressions[old[o].status],
             \A q \in Openers : WindowOK(q)',
             \A q \in asked' : AskedOK(q)'
      PROVE  MigrationInv'
  <2> DEFINE e == [entry[o] EXCEPT !.status = s]
  <2>1. e \in Entries /\ e.job = entry[o].job /\ e.status = s
    BY <1>2, <1>5 DEF Entries
  <2>2. entry' = [entry EXCEPT ![o] = e]
    BY <1>2, <1>5 DEF Advance
  <2> HIDE DEF e
  <2>3. /\ ArchivedFirst' /\ EmptyBefore'
        /\ \A q \in Openers : OpenerOK(q)'
        /\ \A q \in Ops : NewIsFree(q)'
    BY <1>1, <1>3, <1>5, <2>1, <2>2, EntryStep
  <2> QED
    BY <1>5, <2>3 DEF MigrationInv
<1>6. ASSUME NEW o \in Ops, NEW j \in Jobs, BeginRefresh(p, o, j) PROVE MigrationInv'
  <2> DEFINE e == [job |-> j, status |-> "intent"]
  <2>1. /\ entry' = [entry EXCEPT ![o] = e] /\ UNCHANGED <<window, asked>>
        /\ entry[o] = NoEntry /\ o \notin quarantine
        /\ \A q \in quarantine : old[q].job # j
    BY <1>6 DEF BeginRefresh, MayBegin
  <2>2. e \in Entries /\ e.job = j
    BY DEF Entries, Unsettled
  <2>3. old[o] = NoEntry
    BY <1>4, <2>1 DEF Disposed
  <2> HIDE DEF e
  <2>4. /\ ArchivedFirst' /\ EmptyBefore'
        /\ \A q \in Openers : OpenerOK(q)'
        /\ \A q \in Ops : entry[q] # NoEntry => entry'[q] # NoEntry
        /\ \A q \in Ops : NewIsFree(q)'
    BY <1>1, <1>3, <2>1, <2>2, <2>3, EntryStep
  <2>5. (\A q \in Openers : WindowOK(q)') /\ (\A q \in asked' : AskedOK(q)')
    BY <1>1, <1>2, <2>1, <2>4 DEF MigrationInv, WindowOK, AskedOK
  <2> QED
    BY <2>4, <2>5 DEF MigrationInv
<1>7. ASSUME NEW o \in Ops, StartFetch(p, o) PROVE MigrationInv'
  <2>1. /\ entry[o] # NoEntry /\ entry[o].status = "intent" /\ Advance(o, "fetch_started")
        /\ window' = [window EXCEPT ![p] = o] /\ asked' = asked \cup {o}
    BY <1>7 DEF StartFetch
  <2>2. old[o] # NoEntry => old[o].status = "intent"
    BY <1>3, <2>1, IntentWasIntent
  <2>3. \A q \in Ops : entry[q] # NoEntry => entry'[q] # NoEntry
    <3>1. [entry[o] EXCEPT !.status = "fetch_started"] \in Entries
      BY <1>2, <2>1 DEF Entries, Unsettled
    <3> QED
      BY <1>2, <2>1, <3>1 DEF Advance
  <2>4. \A q \in Openers : WindowOK(q)'
    BY <1>1, <1>2, <1>3, <2>1, <2>2, <2>3 DEF MigrationInv, WindowOK
  <2>5. \A q \in asked' : AskedOK(q)'
    BY <1>1, <1>2, <2>1, <2>2, <2>3 DEF MigrationInv, AskedOK
  <2>6. old[o] # NoEntry => "fetch_started" \in Progressions[old[o].status]
    BY <2>2 DEF Progressions, Unsettled
  <2> QED
    BY <1>5, <2>1, <2>4, <2>5, <2>6 DEF Unsettled
<1>8. ASSUME NEW o \in Ops, Replay(p, o) PROVE MigrationInv'
  <2>1. PICK s \in {"indeterminate", "object_ready"} :
           /\ entry[o] # NoEntry /\ Advance(o, s) /\ UNCHANGED <<window, asked>>
           /\ s = "indeterminate" => entry[o].status = "fetch_started"
           /\ s = "object_ready" => entry[o].status = "fetched"
    BY <1>8 DEF Replay
  <2>2. \A q \in Ops : entry[q] # NoEntry => entry'[q] # NoEntry
    <3>1. [entry[o] EXCEPT !.status = s] \in Entries
      BY <1>2, <2>1 DEF Entries, Unsettled
    <3> QED
      BY <1>2, <2>1, <3>1 DEF Advance
  <2>3. (\A q \in Openers : WindowOK(q)') /\ (\A q \in asked' : AskedOK(q)')
    BY <1>1, <1>2, <2>1, <2>2 DEF MigrationInv, WindowOK, AskedOK
  <2>4. old[o] # NoEntry /\ entry[o].status \in Progressions[old[o].status]
           => s \in Progressions[old[o].status]
    BY <1>4, <2>1 DEF Progressions, Unsettled
  <2> QED
    BY <1>5, <2>1, <2>3, <2>4 DEF Unsettled
<1>9. CASE RecordFetch(p) /\ entry[window[p]].status = "fetch_started"
  <2> DEFINE o == window[p]
  <2>1. /\ o \in Ops /\ entry[o] # NoEntry /\ Advance(o, "fetched")
        /\ window' = [window EXCEPT ![p] = NoOp] /\ UNCHANGED asked
        /\ old[o] # NoEntry => old[o].status = "intent"
    BY <1>2, <1>9 DEF RecordFetch, MigrationInv, WindowOK
  <2>2. \A q \in Ops : entry[q] # NoEntry => entry'[q] # NoEntry
    <3>1. [entry[o] EXCEPT !.status = "fetched"] \in Entries
      BY <1>2, <2>1 DEF Entries, Unsettled
    <3> QED
      BY <1>2, <2>1, <3>1 DEF Advance
  <2>3. (\A q \in Openers : WindowOK(q)') /\ (\A q \in asked' : AskedOK(q)')
    BY <1>1, <1>2, <2>1, <2>2 DEF MigrationInv, WindowOK, AskedOK
  <2>4. old[o] # NoEntry => "fetched" \in Progressions[old[o].status]
    BY <2>1 DEF Progressions, Unsettled
  <2> QED
    BY <1>5, <2>1, <2>3, <2>4 DEF Unsettled
<1>10. CASE UNCHANGED <<entry, asked>> /\ window' = [window EXCEPT ![p] = NoOp]
  <2>1. Valid' = Valid /\ Left' = Left
    BY <1>1, <1>10 DEF Valid, Left, Disposed, Converts
  <2>2. \A q \in Openers : OpenerOK(q)'
    BY <1>1, <1>10, <2>1 DEF MigrationInv, OpenerOK, FillsAlone
  <2>3. \A q \in Openers : WindowOK(q)'
    BY <1>1, <1>2, <1>10 DEF MigrationInv, WindowOK
  <2> QED
    BY <1>1, <1>10, <2>1, <2>2, <2>3 DEF MigrationInv, ArchivedFirst, EmptyBefore, AskedOK, NewIsFree
<1> QED
  BY <1>6, <1>7, <1>8, <1>9, <1>10 DEF Refresh, RecordFetch, FetchFails

LEMMA MigrationStep ==
    ASSUME MigrationInv, [MigrationNext]_migrationVars
    PROVE  MigrationInv'
<1>1. CASE UNCHANGED migrationVars
  BY <1>1 DEF migrationVars, journalVars, resultVars, MigrationInv, MigrationTypeOK, ArchivedFirst,
     EmptyBefore, OpenerOK, WindowOK, FillsAlone, AskedOK, NewIsFree, Valid, Left, Disposed, Converts
<1>2. ASSUME NEW p \in Openers,
             OpenStep(p) \/ Close(p) \/ Die(p) \/ (Refresh(p) /\ UNCHANGED troubled)
      PROVE  MigrationInv'
  <2>1. MigrationTypeOK'
    BY <1>2, MigrationStepTypes DEF MigrationNext
  <2>2. CASE OpenStep(p)
    BY <2>1, <2>2, OpenKeeps DEF OpenStep
  <2>3. CASE Close(p)
    BY <2>1, <2>3, OpeningStep DEF Close, Idle, Steps, Current, Verified
  <2>4. CASE Die(p)
    <3>1. /\ UNCHANGED <<journalVars, asked>> /\ Goto(p, "closed")
          /\ window' = [window EXCEPT ![p] = NoOp]
      BY <2>4 DEF Die
    <3>2. Valid' = Valid /\ Left' = Left
      BY <3>1 DEF Valid, Left, Disposed, Converts, journalVars
    <3>3. \A q \in Openers : /\ step'[q] = IF q = p THEN "closed" ELSE step[q]
                             /\ window'[q] = IF q = p THEN NoOp ELSE window[q]
      BY <3>1 DEF Goto, MigrationInv, MigrationTypeOK
    <3>4. \A q \in Openers : OpenerOK(q)'
      BY <3>1, <3>2, <3>3 DEF MigrationInv, OpenerOK, FillsAlone, journalVars, Current, Verified
    <3>5. \A q \in Openers : WindowOK(q)'
      BY <3>1, <3>3 DEF MigrationInv, WindowOK, journalVars
    <3> QED
      BY <2>1, <3>1, <3>2, <3>4, <3>5 DEF MigrationInv, ArchivedFirst, EmptyBefore, AskedOK, NewIsFree,
         journalVars
  <2>5. CASE Refresh(p)
    BY <2>1, <2>5, RefreshKeeps
  <2> QED
    BY <1>2, <2>2, <2>3, <2>4, <2>5
<1> QED
  BY <1>1, <1>2 DEF MigrationNext

\* The invariant says what is promised.
LEMMA MigrationPromises ==
    ASSUME MigrationInv
    PROVE  OpenedStaysValid /\ InFlightIsNotRefetched
BY DEF MigrationInv, OpenedStaysValid, InFlightIsNotRefetched, OpenerOK, Verified, AskedOK, NewIsFree,
   MigrationTypeOK

\* The invariant of the journal's migration holds for any number of processes,
\* deaths and operations, whatever journal an earlier version left.
THEOREM MigrationInvariant == MigrationSpec => []MigrationInv
BY MigrationStart, MigrationStep, PTL DEF MigrationSpec

-------------------------------------------------------------------------------
(***************************************************************************)
(* Earlier results, as long as openings neither overlap nor are cut short. *)
(***************************************************************************)
ResultsFollow(p) ==
    /\ step[p] = "rename_results" => results = "v1"
    /\ step[p] = "create_results" => results = "absent"
    /\ step[p] \in {"copy_results", "open"} => results = "current"
    /\ Opening(p) /\ step[p] # "create_results" => results # "absent"

ResultsInv ==
    ~troubled =>
        /\ \A p, q \in Openers : Opening(p) /\ Opening(q) => p = q
        /\ ~relabelled
        /\ aside => \E p \in Openers : step[p] \in {"create_results", "copy_results"}
        /\ \A p, q \in Openers : step[p] = "copy_results" => step[q] # "open"
        /\ \A p \in Openers : ResultsFollow(p)

LEMMA ResultsStart ==
    ASSUME MigrationInit
    PROVE  ResultsInv
BY DEF MigrationInit, ResultsInv, ResultsFollow, Opening

\* While nothing is amiss, whoever opens the database is the only one to do so.
LEMMA OpensAlone ==
    ASSUME MigrationTypeOK, ResultsInv, NEW p \in Openers, OpenStep(p), ~troubled'
    PROVE  /\ ~troubled
           /\ \A q \in Openers \ {p} : step'[q] = step[q] /\ ~Opening(q)
<1>1. ~troubled /\ ~TwoOpening'
  BY DEF OpenStep
<1>2. \A q \in Openers \ {p} : step'[q] = step[q]
  BY DEF OpenStep, Open, CreateSchema, Inspect, Rename, Create, Fill, Validate, InspectResults,
     RenameResults, CreateResults, CopyResults, Goto, GotoIf, MigrationTypeOK
<1>3. CASE Opening(p)
  BY <1>1, <1>2, <1>3 DEF ResultsInv
<1>4. CASE ~Opening(p)
  <2>1. CreateSchema(p)
    BY <1>4 DEF Opening, OpenStep, Open, CreateSchema, Inspect, Rename, Create, Fill, Validate,
       InspectResults, RenameResults, CreateResults, CopyResults
  <2>2. Opening(p)'
    BY <2>1 DEF CreateSchema, Goto, Opening, MigrationTypeOK
  <2> QED
    BY <1>1, <1>2, <2>2 DEF TwoOpening, Opening
<1> QED
  BY <1>1, <1>2, <1>3, <1>4

LEMMA ResultsStep ==
    ASSUME MigrationInv, ResultsInv, [MigrationNext]_migrationVars
    PROVE  ResultsInv'
<1> SUFFICES ASSUME ~troubled' PROVE ResultsInv'
  BY DEF ResultsInv
<1>1. MigrationTypeOK
  BY DEF MigrationInv
<1>2. CASE UNCHANGED migrationVars
  BY <1>2 DEF migrationVars, journalVars, resultVars, ResultsInv, ResultsFollow, Opening
<1>3. ASSUME NEW p \in Openers, OpenStep(p) PROVE ResultsInv'
  <2>1. ~troubled /\ \A q \in Openers \ {p} : step'[q] = step[q] /\ ~Opening(q)
    BY <1>1, <1>3, OpensAlone
  <2>2. /\ ~relabelled /\ ResultsFollow(p)
        /\ \A q \in Openers \ {p} : step[q] \in {"closed", "open"}
        /\ \A q \in Openers \ {p} : step[q] = "open" => results = "current"
        /\ aside => step[p] \in {"create_results", "copy_results"}
        /\ step[p] = "copy_results" => \A q \in Openers \ {p} : step[q] # "open"
    BY <2>1 DEF ResultsInv, ResultsFollow, Opening
  <2>3. \A q, r \in Openers : Opening(q)' /\ Opening(r)' => q = r
    BY <2>1 DEF Opening
  <2>4. ASSUME ~relabelled', ResultsFollow(p)',
               \A q \in Openers \ {p} : step[q] = "open" => results' = "current",
               aside' => step'[p] \in {"create_results", "copy_results"},
               step'[p] = "copy_results" => \A q \in Openers \ {p} : step[q] # "open"
        PROVE  ResultsInv'
    <3>1. \A q \in Openers \ {p} : ResultsFollow(q)'
      BY <2>1, <2>2, <2>4 DEF ResultsFollow, Opening
    <3>2. \A q, r \in Openers : step'[q] = "copy_results" => step'[r] # "open"
      BY <2>1, <2>2, <2>4
    <3> QED
      BY <2>3, <2>4, <3>1, <3>2 DEF ResultsInv
  <2>6. CASE CreateSchema(p)
    BY <1>1, <2>2, <2>4, <2>6 DEF CreateSchema, Goto, ResultsFollow, Opening, MigrationTypeOK
  <2>7. CASE UNCHANGED resultVars /\ step[p] \notin {"create_results", "copy_results"} /\ Opening(p)
             /\ step'[p] \in {"create", "validate", "rename", "closed", "recreate", "fill", "results"}
    BY <2>2, <2>4, <2>7 DEF resultVars, ResultsFollow, Opening
  <2>8. Inspect(p) \/ Rename(p) \/ Create(p) \/ Validate(p)
          => /\ UNCHANGED resultVars /\ step[p] \notin {"create_results", "copy_results"}
             /\ Opening(p)
             /\ step'[p] \in {"create", "validate", "rename", "closed", "recreate", "fill", "results"}
    BY <1>1 DEF Inspect, Rename, Create, Validate, Goto, GotoIf, Opening, MigrationTypeOK
  <2>9. CASE Fill(p)
    <3>1. CASE Left = {}
      <4>1. UNCHANGED resultVars /\ step'[p] = "validate" /\ step[p] = "fill"
        BY <1>1, <2>9, <3>1 DEF Fill, Goto, MigrationTypeOK, resultVars
      <4> QED
        BY <2>7, <4>1 DEF Opening
    <3>2. CASE Left # {}
      <4>1. /\ UNCHANGED <<aside, relabelled>> /\ results' = "current" /\ step'[p] = "open"
            /\ step[p] = "fill"
        BY <1>1, <2>9, <3>2 DEF Fill, Goto, MigrationTypeOK
      <4> QED
        BY <2>2, <2>4, <4>1 DEF ResultsFollow, Opening
    <3> QED
      BY <3>1, <3>2
  <2>10. CASE InspectResults(p)
    BY <1>1, <2>2, <2>4, <2>10 DEF InspectResults, Goto, resultVars, ResultsFollow, Opening,
       MigrationTypeOK
  <2>11. CASE RenameResults(p)
    BY <1>1, <2>2, <2>4, <2>11 DEF RenameResults, Goto, resultVars, ResultsFollow, Opening,
       MigrationTypeOK
  <2>12. CASE CreateResults(p)
    BY <1>1, <2>2, <2>4, <2>12 DEF CreateResults, Goto, GotoIf, ResultsFollow, Opening, MigrationTypeOK
  <2>13. ASSUME NEW fits \in BOOLEAN, CopyResults(p, fits) PROVE ResultsInv'
    BY <1>1, <2>2, <2>4, <2>13 DEF CopyResults, Goto, GotoIf, ResultsFollow, Opening, MigrationTypeOK
  <2> QED
    BY <1>3, <2>6, <2>7, <2>8, <2>9, <2>10, <2>11, <2>12, <2>13 DEF OpenStep, Open
<1>4. ASSUME NEW p \in Openers, Close(p) \/ Die(p) PROVE ResultsInv'
  <2>1. /\ ~troubled /\ ~Opening(p) /\ UNCHANGED resultVars
        /\ \A q \in Openers : step'[q] = IF q = p THEN "closed" ELSE step[q]
    BY <1>1, <1>4 DEF Close, Die, Idle, Opening, Goto, MigrationTypeOK
  <2>2. ~relabelled' /\ results' = results /\ aside' = aside
    BY <2>1 DEF ResultsInv, resultVars
  <2>3. \A q \in Openers : step'[q] \in {step[q], "closed"}
    BY <2>1
  <2>4. \A q \in Openers : ResultsFollow(q)'
    BY <2>1, <2>2, <2>3 DEF ResultsInv, ResultsFollow, Opening
  <2>5. \A q, r \in Openers : Opening(q)' /\ Opening(r)' => q = r
    BY <2>1, <2>3 DEF ResultsInv, Opening
  <2>6. aside' => \E q \in Openers : step'[q] \in {"create_results", "copy_results"}
    <3>1. SUFFICES ASSUME aside PROVE \E q \in Openers : step'[q] \in {"create_results", "copy_results"}
      BY <2>2
    <3>2. PICK q \in Openers : step[q] \in {"create_results", "copy_results"}
      BY <2>1, <3>1 DEF ResultsInv
    <3>3. q # p
      BY <2>1, <3>2 DEF Opening
    <3>4. step'[q] = step[q]
      BY <2>1, <3>3
    <3> QED
      BY <3>2, <3>4
  <2>7. \A q, r \in Openers : step'[q] = "copy_results" => step'[r] # "open"
    BY <2>1, <2>3 DEF ResultsInv
  <2> QED
    BY <2>2, <2>4, <2>5, <2>6, <2>7 DEF ResultsInv
<1>5. ASSUME NEW p \in Openers, Refresh(p), UNCHANGED troubled PROVE ResultsInv'
  BY <1>5 DEF Refresh, ResultsInv, ResultsFollow, Opening, resultVars
<1> QED
  BY <1>2, <1>3, <1>4, <1>5 DEF MigrationNext

\* Migrated one after the other and without a death, earlier results are found.
LEMMA ResultsAreFound ==
    ASSUME ResultsInv
    PROVE  EarlierResultsAreFound
<1> SUFFICES ASSUME ~troubled, NEW p \in Openers, step[p] = "open"
             PROVE  results = "current" /\ ~aside /\ ~relabelled
  BY DEF EarlierResultsAreFound
<1>1. results = "current" /\ ~relabelled
  BY DEF ResultsInv, ResultsFollow
<1>2. ASSUME aside PROVE FALSE
  <2>1. PICK q \in Openers : step[q] \in {"create_results", "copy_results"}
    BY <1>2 DEF ResultsInv
  <2> QED
    BY <1>1, <2>1 DEF ResultsInv, ResultsFollow
<1> QED
  BY <1>1, <1>2

-------------------------------------------------------------------------------
(***************************************************************************)
(* Collectors on a data root that is migrated.                             *)
(***************************************************************************)
\* A collector at work has the database open and makes no refresh.
WorksOpen(c) == at[c] # "idle" => Idle(c)

RootInv == MigrationInv /\ CollectorInv /\ \A c \in Collectors : WorksOpen(c)

\* A step of the data root is one of the migration and one of the collectors.
LEMMA RootStepMaps ==
    ASSUME RootInv, [RootNext]_rootVars
    PROVE  [MigrationNext]_migrationVars /\ [CycleNext]_collectorVars
<1> USE CollectorsOpen
<1>1. CASE UNCHANGED rootVars
  BY <1>1 DEF rootVars
<1>2. ASSUME NEW c \in Collectors, Collect(c)
      PROVE  [MigrationNext]_migrationVars /\ [CycleNext]_collectorVars
  BY <1>2 DEF Collect, CycleNext
<1>3. ASSUME NEW c \in Collectors, Collapse(c)
      PROVE  [MigrationNext]_migrationVars /\ [CycleNext]_collectorVars
  <2>1. Idle(c)
    BY <1>3 DEF Collapse, Kill, RootInv, WorksOpen
  <2>2. Close(c)
    BY <1>3, <2>1 DEF Collapse, Close
  <2> QED
    BY <1>3, <2>2 DEF Collapse, MigrationNext, CycleNext
<1>4. ASSUME NEW p \in Openers, OpenStep(p) \/ (AtRest(p) /\ (Close(p) \/ Die(p))),
             UNCHANGED collectorVars
      PROVE  [MigrationNext]_migrationVars /\ [CycleNext]_collectorVars
  BY <1>4 DEF MigrationNext
<1>5. ASSUME NEW p \in Openers, AtRest(p) /\ Refresh(p), UNCHANGED <<collectorVars, troubled>>
      PROVE  [MigrationNext]_migrationVars /\ [CycleNext]_collectorVars
  BY <1>5 DEF MigrationNext
<1> QED
  BY <1>1, <1>2, <1>3, <1>4, <1>5 DEF RootNext

\* What a step of the collectors leaves alone, and what a process that is not at
\* work does to its connection.
LEMMA RootKeepsOpen ==
    ASSUME RootInv, [RootNext]_rootVars
    PROVE  \A c \in Collectors : WorksOpen(c)'
<1> USE CollectorsOpen
<1> SUFFICES ASSUME NEW d \in Collectors PROVE WorksOpen(d)'
  OBVIOUS
<1>1. /\ WorksOpen(d) /\ d \in Openers
      /\ step \in [Openers -> Steps] /\ window \in [Openers -> Ops \cup {NoOp}]
      /\ at \in [Collectors -> Stages]
  BY DEF RootInv, MigrationInv, MigrationTypeOK, CollectorInv, CycleTypeOK
<1>2. CASE UNCHANGED rootVars
  BY <1>1, <1>2 DEF rootVars, migrationVars, collectorVars, cycleVars, WorksOpen, Idle
<1>3. ASSUME NEW c \in Collectors, Collect(c) PROVE WorksOpen(d)'
  <2>1. d # c => at'[d] = at[d]
    BY <1>3, OthersStay DEF Collect, RootInv
  <2>2. Idle(c) /\ UNCHANGED <<step, window>>
    BY <1>3 DEF Collect, migrationVars
  <2> QED
    BY <1>1, <2>1, <2>2 DEF WorksOpen, Idle
<1>4. ASSUME NEW c \in Collectors, Collapse(c) PROVE WorksOpen(d)'
  <2>1. at' = [at EXCEPT ![c] = "idle"] /\ step' = [step EXCEPT ![c] = "closed"]
    BY <1>4 DEF Collapse, Kill, Enter, Goto
  <2>2. UNCHANGED window
    BY <1>4 DEF Collapse
  <2> QED
    BY <1>1, <2>1, <2>2 DEF WorksOpen, Idle
<1>5. ASSUME NEW p \in Openers, OpenStep(p), UNCHANGED collectorVars PROVE WorksOpen(d)'
  <2>1. step[p] # "open" /\ (\A q \in Openers \ {p} : step'[q] = step[q]) /\ UNCHANGED window
    BY <1>1, <1>5 DEF OpenStep, Open, CreateSchema, Inspect, Rename, Create, Fill, Validate,
       InspectResults, RenameResults, CreateResults, CopyResults, Goto, GotoIf
  <2> QED
    BY <1>1, <1>5, <2>1 DEF WorksOpen, Idle, collectorVars, cycleVars
<1>6. ASSUME NEW p \in Openers, AtRest(p), Close(p) \/ Die(p), UNCHANGED collectorVars
      PROVE  WorksOpen(d)'
  <2>1. \A q \in Openers \ {p} : step'[q] = step[q] /\ window'[q] = window[q]
    BY <1>1, <1>6 DEF Close, Die, Goto
  <2> QED
    BY <1>1, <1>6, <2>1 DEF AtRest, WorksOpen, Idle, collectorVars, cycleVars
<1>7. ASSUME NEW p \in Openers, AtRest(p), Refresh(p), UNCHANGED collectorVars
      PROVE  WorksOpen(d)'
  <2>1. UNCHANGED step /\ \A q \in Openers \ {p} : window'[q] = window[q]
    BY <1>1, <1>7 DEF Refresh, BeginRefresh, StartFetch, Replay, RecordFetch, FetchFails
  <2> QED
    BY <1>1, <1>7, <2>1 DEF AtRest, WorksOpen, Idle, collectorVars, cycleVars
<1> QED
  BY <1>2, <1>3, <1>4, <1>5, <1>6, <1>7 DEF RootNext

LEMMA RootStart ==
    ASSUME RootInit
    PROVE  RootInv /\ ResultsInv
<1>1. MigrationInv /\ ResultsInv
  BY MigrationStart, ResultsStart DEF RootInit
<1>2. CollectorInv
  BY AgreeStarts DEF AgreeInv, RootInit, CollectorInit
<1>3. \A c \in Collectors : WorksOpen(c)
  BY DEF RootInit, CycleInit, WorksOpen
<1> QED
  BY <1>1, <1>2, <1>3 DEF RootInv

LEMMA RootStep ==
    ASSUME RootInv, ResultsInv, [RootNext]_rootVars
    PROVE  /\ RootInv' /\ ResultsInv'
           /\ [MigrationNext]_migrationVars /\ [CycleNext]_collectorVars
<1>1. [MigrationNext]_migrationVars /\ [CycleNext]_collectorVars
  BY RootStepMaps
<1>2. MigrationInv' /\ ResultsInv'
  BY <1>1, MigrationStep, ResultsStep DEF RootInv
<1>3. CollectorInv'
  <2>1. CASE CycleNext
    BY <2>1, CycleStepKeepsTypes DEF RootInv
  <2>2. CASE UNCHANGED collectorVars
    BY <2>2, CycleStutter DEF RootInv, CollectorInv, CycleTypeOK, PostingTypeOK, collectorVars,
       postingVars
  <2> QED
    BY <1>1, <2>1, <2>2
<1> QED
  BY <1>1, <1>2, <1>3, RootKeepsOpen DEF RootInv

\* On a data root that is opened, migrated, refreshed and collected from at the
\* same time, the collectors do nothing that they do not do on their own.
THEOREM RootImplementsCollection == RootSpec => CollectorSpec
<1>1. RootInit => CollectorInit
  BY DEF RootInit, CollectorInit
<1>2. RootInv /\ ResultsInv /\ [RootNext]_rootVars
         => RootInv' /\ ResultsInv' /\ [CycleNext]_collectorVars
  BY RootStep
<1> QED
  BY <1>1, <1>2, RootStart, PTL DEF RootSpec, CollectorSpec

\* Likewise the openings and the refreshes, whatever collectors do in between.
THEOREM RootImplementsMigration == RootSpec => MigrationSpec
<1>1. RootInit => MigrationInit
  BY DEF RootInit
<1>2. RootInv /\ ResultsInv /\ [RootNext]_rootVars
         => RootInv' /\ ResultsInv' /\ [MigrationNext]_migrationVars
  BY RootStep
<1> QED
  BY <1>1, <1>2, RootStart, PTL DEF RootSpec, MigrationSpec

\* Every reachable state of a data root is well typed.
THEOREM RootTypeCorrect == RootSpec => []RootTypeOK
<1>1. RootInv => RootTypeOK
  BY DEF RootInv, RootTypeOK, MigrationInv, CollectorInv
<1>2. RootInv /\ ResultsInv /\ [RootNext]_rootVars => RootInv' /\ ResultsInv'
  BY RootStep
<1> QED
  BY <1>1, <1>2, RootStart, PTL DEF RootSpec

\* Once the database is open every earlier operation is accounted for, and what
\* refreshes make of those that were carried over is accepted by later openings.
THEOREM RootStaysValid == RootSpec => []OpenedStaysValid
BY RootImplementsMigration, MigrationInvariant, MigrationPromises, PTL

\* No fetch that an earlier version began is begun again, and no vacancy in
\* quarantine is fetched by a new operation.
THEOREM RootNeverRefetches == RootSpec => []InFlightIsNotRefetched
BY RootImplementsMigration, MigrationInvariant, MigrationPromises, PTL

\* Earlier results are where they are looked for, unless an opening was cut short
\* or overlapped another.
THEOREM RootFindsEarlierResults == RootSpec => []EarlierResultsAreFound
<1>1. RootInv /\ ResultsInv /\ [RootNext]_rootVars => RootInv' /\ ResultsInv'
  BY RootStep
<1> QED
  BY <1>1, RootStart, ResultsAreFound, PTL DEF RootSpec

\* With one collector on the data root, a file of a fetched row holds the
\* response of the row.
THEOREM RootAgrees ==
    ASSUME OneCollector
    PROVE  RootSpec => []CacheAgreesWithRow
BY RootImplementsCollection, OneCollectorAgrees
===============================================================================
