-------------------------- MODULE AssessmentPromotion --------------------------
(***************************************************************************)
(* From a processed vacancy to the handoff of an application               *)
(* (applications/assessment_promotion.py, producer.py): a promotion binds  *)
(* one included result of a processing run, the content it was read from   *)
(* and the score of the assessment; a handoff carries that score.          *)
(*                                                                         *)
(* Results and contents are in one database, scores and promotions in      *)
(* another, and every read is a transaction of its own while runs of       *)
(* Processing go on.  The vacancy's title, url and the policies are part   *)
(* of what a result and a score are; decisions of the opportunity gate are *)
(* in ResearchQueue.  The receipt file of a promotion, the bytes that its  *)
(* row holds, is left out.                                                 *)
(***************************************************************************)
EXTENDS Processing

CONSTANT Promoters      \* processes that run promote_current_processing_assessment

VARIABLES
    receipts,     \* receipts of processing runs
    promotion,    \* promotion[j]: row of `assessment_promotions`, or None
    handoffs,     \* envelopes that have been produced
    at,           \* at[p]: what promoter p reads or writes next
    held          \* held[p]: what p has read, or None

promoterVars == <<at, held>>
promotionVars == <<receipts, promotion, handoffs, promoterVars>>
allVars == <<vars, promotionVars>>

\* The score of a result: it depends on what was read and how it was aligned.
Scores == [reading: Readings, axes: Axes]
ScoreOf(r) == [reading |-> r.vacancy.reading, axes |-> r.axes]

Receipts == [config: Configs, rows: Reports]
Bindings == [receipt: Receipts, job: Jobs, result: Results, content: Versions]
Promotions == [binding: Bindings, score: Scores]
Handoffs == [job: Jobs, score: Scores, promotion: Promotions]

ASSUME PromotionAssumption == None \notin Promotions \cup Bindings

PromotionTypeOK ==
    /\ ProcessingTypeOK
    /\ receipts \subseteq Receipts
    /\ promotion \in [Jobs -> Promotions \cup {None}]
    /\ handoffs \subseteq Handoffs
    /\ at \in [Promoters -> {"idle", "current", "score", "seal"}]
    /\ held \in [Promoters -> Bindings \cup {None}]

PromotionInit ==
    /\ Init
    /\ receipts = {}
    /\ promotion = [j \in Jobs |-> None]
    /\ handoffs = {}
    /\ at = [p \in Promoters |-> "idle"]
    /\ held = [p \in Promoters |-> None]

-------------------------------------------------------------------------------
\* A run of Processing goes on; when it has written its report it writes the
\* receipt of its state, unless it dies before.
ProcessingStep ==
    /\ Next
    /\ \/ UNCHANGED receipts
       \/ \E w \in Workers :
             /\ WriteReport(w)
             /\ receipts' = receipts \cup {[config |-> config[w], rows |-> rows[w]]}
    /\ UNCHANGED <<promotion, handoffs, promoterVars>>

Await(p, next) == at' = [at EXCEPT ![p] = next]

\* A check that does not hold raises, and every process may die.
Abandon(p) ==
    /\ at[p] # "idle"
    /\ Await(p, "idle")
    /\ held' = [held EXCEPT ![p] = None]
    /\ UNCHANGED <<vars, receipts, promotion, handoffs>>

\* completed_processing: the receipt is of the present state, and includes j.
ReadResults(p, receipt, j) ==
    /\ at[p] = "idle"
    /\ receipt.rows = CompletedResults(receipt.config)
    /\ receipt.rows[j] # None
    /\ receipt.rows[j].axes # None
    /\ held' = [held EXCEPT ![p] = [receipt |-> receipt, job |-> j, result |-> receipt.rows[j],
                                    content |-> receipt.rows[j].vacancy.content]]
    /\ Await(p, "current")
    /\ UNCHANGED <<vars, receipts, promotion, handoffs>>

\* The row of the result that p holds, for the content that j has now.
CurrentKey(p) == Current(held[p].job, held[p].receipt.config)

ReadAnyCurrent(p) ==      \* mutant: the result is not compared with the one in hand
    /\ at[p] = "current"
    /\ posting[held[p].job] # 0
    /\ Completed(CurrentKey(p))
    /\ held' = [held EXCEPT ![p].content = posting[held[p].job]]
    /\ Await(p, "score")
    /\ UNCHANGED <<vars, receipts, promotion, handoffs>>

\* The row is read again, together with the content of the posting.
ReadCurrent(p) ==
    /\ at[p] = "current"
    /\ posting[held[p].job] # 0
    /\ Completed(CurrentKey(p))
    /\ row[CurrentKey(p)].result = held[p].result
    /\ held' = [held EXCEPT ![p].content = posting[held[p].job]]
    /\ Await(p, "score")
    /\ UNCHANGED <<vars, receipts, promotion, handoffs>>

Scored(j, r) == score[j] # None /\ ScoreOf(score[j]) = ScoreOf(r)

\* The assessment has the score of the result.
CheckScore(p) ==
    /\ at[p] = "score"
    /\ Scored(held[p].job, held[p].result)
    /\ Await(p, "seal")
    /\ UNCHANGED <<vars, receipts, promotion, handoffs, held>>

\* promote_processing_gate: the score is still that one, and there is no other
\* promotion.
Seal(p) ==
    /\ at[p] = "seal"
    /\ LET j == held[p].job
           sealed == [binding |-> held[p], score |-> ScoreOf(score[j])] IN
       /\ Scored(j, held[p].result)
       /\ promotion[j] \in {None, sealed}
       /\ promotion' = [promotion EXCEPT ![j] = sealed]
    /\ Await(p, "idle")
    /\ held' = [held EXCEPT ![p] = None]
    /\ UNCHANGED <<vars, receipts, handoffs>>

ProduceUnbound(j) ==      \* mutant: the promotion's score is not compared
    /\ promotion[j] # None
    /\ score[j] # None
    /\ handoffs' = handoffs \cup
          {[job |-> j, score |-> ScoreOf(score[j]), promotion |-> promotion[j]]}
    /\ UNCHANGED <<vars, receipts, promotion, promoterVars>>

\* produce_handoff: the assessment that was decided by the promotion, with the
\* score that the promotion has sealed.  A promotion never changes, so that it is
\* read after the assessment does not matter.
Produce(j) ==
    /\ promotion[j] # None
    /\ score[j] # None
    /\ ScoreOf(score[j]) = promotion[j].score
    /\ handoffs' = handoffs \cup
          {[job |-> j, score |-> ScoreOf(score[j]), promotion |-> promotion[j]]}
    /\ UNCHANGED <<vars, receipts, promotion, promoterVars>>

PromotionNext ==
    \/ ProcessingStep
    \/ \E p \in Promoters :
          \/ \E r \in receipts, j \in Jobs : ReadResults(p, r, j)
          \/ ReadCurrent(p) \/ CheckScore(p) \/ Seal(p) \/ Abandon(p)
    \/ \E j \in Jobs : Produce(j)

PromotionSpec == PromotionInit /\ [][PromotionNext]_allVars

-------------------------------------------------------------------------------
KeyOf(b) == <<b.job, b.content, b.receipt.config>>

\* A binding names a completed included result and the content it was read from.
Binds(b) ==
    /\ Completed(KeyOf(b))
    /\ row[KeyOf(b)].result = b.result
    /\ b.result.vacancy.content = b.content
    /\ b.result.axes # None

\* What is promoted is for ever a completed result of this vacancy and of the
\* content that the promotion names, although the result, the content and the
\* score are read one after the other while pages change, workers complete and
\* late workers overwrite scores (promote_current_processing_assessment).
PromotionIsOfItsContent ==
    \A j \in Jobs : promotion[j] # None => promotion[j].binding.job = j /\ Binds(promotion[j].binding)

\* The application subsystem is only ever handed the score of the result that was
\* promoted, whatever has been scored since (produce_handoff).
HandoffIsOfPromoted ==
    \A h \in handoffs :
        h.promotion = promotion[h.job] /\ h.score = ScoreOf(h.promotion.binding.result)
===============================================================================
