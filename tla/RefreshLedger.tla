----------------------------- MODULE RefreshLedger -----------------------------
(***************************************************************************)
(* What refreshes promise to their caller, without processes, crashes,     *)
(* objects or cache files: the abstract specification of VacancyRefresh.   *)
(*                                                                         *)
(* An operation is admitted over the response that it may replace, asks    *)
(* the official source at most once, and either takes the place of that    *)
(* response in one step, under one receipt, or stays unknown for good.     *)
(***************************************************************************)
EXTENDS Naturals

CONSTANTS
    Ops,        \* operation identities
    Jobs,       \* vacancies
    Contents,   \* content identities of responses
    Responses,  \* official responses; each has a `content`
    Receipts,   \* sealed receipts
    NoContext,  \* the operation is not admitted
    NoResponse, \* no response
    NoReceipt   \* no receipt

VARIABLES
    stage,      \* stage[o]: how far operation o is
    context,    \* context[o]: its vacancy and the content it may replace
    asked,      \* asked[o]: how often the official source was asked for o
    answer,     \* answer[o]: the response to o
    receipt,    \* receipt[o]: the sealed receipt of o
    current,    \* current[j]: the stored response of vacancy j
    told        \* receipts that callers have been given

operationVars == <<stage, context, asked, answer, receipt>>
ledgerVars == <<operationVars, current, told>>

LedgerInit ==
    /\ stage = [o \in Ops |-> "new"]
    /\ context = [o \in Ops |-> NoContext]
    /\ asked = [o \in Ops |-> 0]
    /\ answer = [o \in Ops |-> NoResponse]
    /\ receipt = [o \in Ops |-> NoReceipt]
    /\ current \in [Jobs -> Responses \cup {NoResponse}]
    /\ told = {}

\* An operation that is neither new nor committed bars its vacancy to others.
Barred(j) == \E o \in Ops : stage[o] \notin {"new", "committed"} /\ context[o].job = j

HasContent(j, content) == current[j] # NoResponse /\ current[j].content = content

Admit(o) ==
    /\ stage[o] = "new"
    /\ \E j \in Jobs, content \in Contents :
        /\ ~Barred(j)
        /\ HasContent(j, content)
        /\ context' = [context EXCEPT ![o] = [job |-> j, expected |-> content]]
    /\ stage' = [stage EXCEPT ![o] = "open"]
    /\ UNCHANGED <<asked, answer, receipt, current, told>>

\* An open operation may be given up while its process is about to ask.
Ask(o) ==
    /\ stage[o] \in {"open", "unknown"}
    /\ asked[o] = 0
    /\ asked' = [asked EXCEPT ![o] = 1]
    /\ UNCHANGED <<stage, context, answer, receipt, current, told>>

Answer(o) ==
    /\ stage[o] = "open"
    /\ asked[o] = 1
    /\ stage' = [stage EXCEPT ![o] = "answered"]
    /\ \E response \in Responses : answer' = [answer EXCEPT ![o] = response]
    /\ UNCHANGED <<context, asked, receipt, current, told>>

GiveUp(o) ==
    /\ stage[o] = "open"
    /\ stage' = [stage EXCEPT ![o] = "unknown"]
    /\ UNCHANGED <<context, asked, answer, receipt, current, told>>

\* The answer takes the place of the expected response, under a receipt.
Commit(o) ==
    /\ stage[o] = "answered"
    /\ HasContent(context[o].job, context[o].expected)
    /\ stage' = [stage EXCEPT ![o] = "committed"]
    /\ \E sealed \in Receipts : receipt' = [receipt EXCEPT ![o] = sealed]
    /\ current' = [current EXCEPT ![context[o].job] = answer[o]]
    /\ UNCHANGED <<context, asked, answer, told>>

Tell(o) ==
    /\ stage[o] = "committed"
    /\ told' = told \cup {receipt[o]}
    /\ UNCHANGED <<operationVars, current>>

LedgerNext ==
    \E o \in Ops : Admit(o) \/ Ask(o) \/ Answer(o) \/ GiveUp(o) \/ Commit(o) \/ Tell(o)

LedgerSpec == LedgerInit /\ [][LedgerNext]_ledgerVars

\* Another writer stores responses, or makes them stale.
Overwrite ==
    /\ current' \in [Jobs -> Responses \cup {NoResponse}]
    /\ UNCHANGED <<operationVars, told>>

SharedLedgerSpec == LedgerInit /\ [][LedgerNext \/ Overwrite]_ledgerVars
===============================================================================
