----------------------------- MODULE ControlPlane -----------------------------
(***************************************************************************)
(* The control plane of the server past its memory flows: the local budget *)
(* policy and the spend it is compared with, the retained file metadata,   *)
(* the retrieval attempts and the requests to enable retrieval, and the    *)
(* reviewed documents (app/budget_policy.py, app/flow_runtime.py,          *)
(* app/file_intake_control.py, app/document_control.py and their flows).   *)
(*                                                                         *)
(* Every request to /api/telegram/webhook is one step: it adds its         *)
(* estimated cost to the spend, also when it is refused for its cost.      *)
(* Money is counted in whole micro-dollars, one user and one robot.        *)
(***************************************************************************)
EXTENDS Integers, Sequences

CONSTANTS
    Costs,        \* estimated costs of a request
    Limits,       \* amounts a "set budget limit" may name
    Percents,     \* percentages a "set budget ... threshold" may name
    MaxSpend,     \* bound: the spend after which no more requests are sent
    MaxRecords,   \* bound: rows of each table
    MaxRestarts   \* bound: restarts with the other retrieval setting

ASSUME CostsAssumption    == Costs \subseteq Nat \ {0}
ASSUME LimitsAssumption   == Limits \subseteq Nat \ {0}
ASSUME PercentsAssumption == Percents \subseteq 1 .. 100
ASSUME PlaneBounds == MaxSpend \in Nat /\ MaxRecords \in Nat /\ MaxRestarts \in Nat

VARIABLES
    policy,     \* the ACTIVE BudgetPolicy row, or NoPolicy
    spend,      \* the costs of all TokenUsageEvent rows
    files, attempts, requests, documents,   \* the statuses of the rows, by age
    retrieval,  \* settings.file_retrieval_enabled
    restarts,
    reply,      \* how the last request ended, and what it cost
    refused     \* history: costs refused since the policy last changed

records == <<files, attempts, requests, documents>>
process == <<retrieval, restarts>>
vars == <<policy, spend, records, process, reply, refused>>

NoPolicy      == [limit |-> 0, warn |-> 0, block |-> 0]
DefaultPolicy == [limit |-> 1600, warn |-> 80, block |-> 100]

\* get_budget_policy; _get_or_create_budget_policy begins a row from the same values.
Effective == IF policy = NoPolicy THEN DefaultPolicy ELSE policy

Pending == {"DISABLED_BY_POLICY"}

-----------------------------------------------------------------------------
(* The budget *)

Reached_Exactly(amount, percent) == 100 * amount = percent * Effective.limit

\* round(amount / limit * 100, 2) >= percent; a tie of the rounding counts as up.
Reached(amount, percent) == 20000 * amount >= (200 * percent - 1) * Effective.limit

\* evaluate_budget_posture, on the spend as it will be after the request.
Posture(cost) ==
    IF Reached(spend + cost, Effective.block) THEN "BLOCK"
    ELSE IF Reached(spend + cost, Effective.warn) THEN "WARN" ELSE "ALLOW"

\* persist_route_and_token
Bill(cost) == spend <= MaxSpend /\ spend' = spend + cost

Ends(how, cost) == Bill(cost) /\ reply' = [how |-> how, cost |-> cost]

\* A request under the budget guard, refused.
Blocked(cost) ==
    /\ Posture(cost) = "BLOCK"
    /\ Ends("BLOCK", cost)
    /\ refused' = refused \cup {cost}
    /\ UNCHANGED <<policy, records, process>>

\* A request under the budget guard that may go on.
Guarded(cost) == Posture(cost) # "BLOCK" /\ Ends(Posture(cost), cost)

\* A general task, or a memory flow (see MemoryLoop for what that does).
Work(cost) == Guarded(cost) /\ UNCHANGED <<policy, records, process, refused>>

\* A command of the control plane: never refused for its cost.
Command(cost) == Ends("ANSWER", cost)

\* A listing, a status, or a command whose argument is refused.
Readout(cost) == Command(cost) /\ UNCHANGED <<policy, records, process, refused>>

SetPolicy(cost, new) ==
    /\ Command(cost)
    /\ policy' = new
    /\ refused' = {}
    /\ UNCHANGED <<records, process>>

SetLimit(cost, limit) == SetPolicy(cost, [Effective EXCEPT !.limit = limit])

SetWarn(cost, warn) ==
    /\ warn < Effective.block
    /\ SetPolicy(cost, [Effective EXCEPT !.warn = warn])

SetBlock(cost, block) ==
    /\ block > Effective.warn
    /\ SetPolicy(cost, [Effective EXCEPT !.block = block])

\* The row becomes INACTIVE and is not read again.
Reset(cost) == SetPolicy(cost, NoPolicy)

-----------------------------------------------------------------------------
(* Files, retrieval and documents *)

Added(rows, status) == Len(rows) < MaxRecords /\ rows' = Append(rows, status)

Becomes(rows, i, from, to) == rows[i] \in from /\ rows' = [rows EXCEPT ![i] = to]

\* process_file_intake keeps the metadata only when the budget allows it.
ReceiveFile(cost) ==
    /\ Guarded(cost)
    /\ Added(files, "METADATA_RECEIVED")
    /\ UNCHANGED <<policy, attempts, requests, documents, process, refused>>

ForgetFile(cost, i) ==
    /\ Command(cost)
    /\ Becomes(files, i, {"METADATA_RECEIVED"}, "FORGOTTEN")
    /\ UNCHANGED <<policy, attempts, requests, documents, process, refused>>

\* describe_file_retrieval_policy: the setting alone decides.
PlannedStatus == IF retrieval THEN "ENABLED_BY_POLICY" ELSE "DISABLED_BY_POLICY"

\* "retrieve file" and "prepare file ... for review", of a retained file.
PlanRetrieval(cost, i) ==
    /\ Command(cost)
    /\ files[i] = "METADATA_RECEIVED"
    /\ Added(attempts, PlannedStatus)
    /\ UNCHANGED <<policy, files, requests, documents, process, refused>>

CancelRetrieval(cost, i) ==
    /\ Command(cost)
    /\ Becomes(attempts, i, Pending, "CANCELLED")
    /\ UNCHANGED <<policy, files, requests, documents, process, refused>>

RequestEnablement(cost) ==
    /\ Command(cost)
    /\ Added(requests, "REQUESTED_DISABLED")
    /\ UNCHANGED <<policy, files, attempts, documents, process, refused>>

Resolve_AnyStatus(cost, i, resolution) ==
    /\ Command(cost)
    /\ requests' = [requests EXCEPT ![i] = resolution]
    /\ UNCHANGED <<policy, files, attempts, documents, process, refused>>

\* Only a request still open is resolved, and resolving it changes nothing else.
Resolve(cost, i, resolution) ==
    /\ Command(cost)
    /\ Becomes(requests, i, {"REQUESTED_DISABLED"}, resolution)
    /\ UNCHANGED <<policy, files, attempts, documents, process, refused>>

\* A refusal to decide for the user is drafted and kept like a review.
ReviewDocument(cost) ==
    /\ Guarded(cost)
    /\ Added(documents, "DRAFTED")
    /\ UNCHANGED <<policy, files, attempts, requests, process, refused>>

ForgetDocument(cost, i) ==
    /\ Command(cost)
    /\ Becomes(documents, i, {"DRAFTED"}, "FORGOTTEN")
    /\ UNCHANGED <<policy, files, attempts, requests, process, refused>>

\* A restart with FILE_RETRIEVAL_ENABLED the other way round.
Restart ==
    /\ restarts < MaxRestarts
    /\ restarts' = restarts + 1
    /\ retrieval' = ~retrieval
    /\ UNCHANGED <<policy, spend, records, reply, refused>>

-----------------------------------------------------------------------------
Init ==
    /\ policy = NoPolicy /\ spend = 0
    /\ files = <<>> /\ attempts = <<>> /\ requests = <<>> /\ documents = <<>>
    /\ retrieval \in BOOLEAN /\ restarts = 0
    /\ reply = [how |-> "none", cost |-> 0] /\ refused = {}

BudgetRequest(cost) ==
    \/ Blocked(cost)
    \/ Work(cost)
    \/ Readout(cost)
    \/ \E limit \in Limits : SetLimit(cost, limit)
    \/ \E percent \in Percents : SetWarn(cost, percent) \/ SetBlock(cost, percent)
    \/ Reset(cost)

FileRequest(cost) ==
    \/ ReceiveFile(cost)
    \/ \E i \in DOMAIN files : ForgetFile(cost, i) \/ PlanRetrieval(cost, i)
    \/ \E i \in DOMAIN attempts : CancelRetrieval(cost, i)
    \/ RequestEnablement(cost)
    \/ \E i \in DOMAIN requests :
         \E resolution \in {"APPROVED_PENDING_POLICY_CHANGE", "REJECTED"} :
           Resolve(cost, i, resolution)
    \/ ReviewDocument(cost)
    \/ \E i \in DOMAIN documents : ForgetDocument(cost, i)

\* The bound is reached: nothing more is sent.
Spent == spend > MaxSpend /\ UNCHANGED vars

Next ==
    \/ \E cost \in Costs : BudgetRequest(cost) \/ FileRequest(cost)
    \/ Restart
    \/ Spent

Spec == Init /\ [][Next]_vars

-----------------------------------------------------------------------------
(* Properties *)

\* The tables hold only the statuses their flows write, and an active policy has
\* a limit and two percentages.
TypeOK ==
    /\ policy = NoPolicy
       \/ policy \in [limit : Nat \ {0}, warn : 1 .. 100, block : 1 .. 100]
    /\ spend \in Nat
    /\ files \in Seq({"METADATA_RECEIVED", "FORGOTTEN"})
    /\ attempts \in Seq({"DISABLED_BY_POLICY", "ENABLED_BY_POLICY", "CANCELLED"})
    /\ requests \in Seq({"REQUESTED_DISABLED", "APPROVED_PENDING_POLICY_CHANGE", "REJECTED"})
    /\ documents \in Seq({"DRAFTED", "FORGOTTEN"})
    /\ retrieval \in BOOLEAN /\ restarts \in 0 .. MaxRestarts
    /\ reply \in [how : {"none", "BLOCK", "WARN", "ALLOW", "ANSWER"}, cost : Nat]
    /\ refused \subseteq Nat

\* A warning always comes before a refusal: the thresholds in force are in order
\* after any sequence of settings and resets, though each update function checks
\* its own only against the other as it is, or defaults to, at that moment.
ThresholdsOrdered == Effective.warn < Effective.block

\* What was refused for its cost is refused again, and so is everything dearer,
\* until the policy is changed: spend only grows, by refused requests too.
RefusalsStand == \A cost \in refused : Posture(cost) = "BLOCK"

\* Since the policy was last changed nothing was done that cost as much as
\* something refused: no request gets past the budget by being tried again.
NoWayRound ==
    [][reply'.how \in {"WARN", "ALLOW"} /\ spend' # spend
         => \A cost \in refused : reply'.cost < cost]_vars

Final == {"FORGOTTEN", "CANCELLED", "APPROVED_PENDING_POLICY_CHANGE", "REJECTED", "ENABLED_BY_POLICY"}

KeepsFinal(rows) ==
    /\ Len(rows) <= Len(rows')
    /\ \A i \in DOMAIN rows : rows[i] \in Final => rows'[i] = rows[i]

\* No record is lost, and a forgotten, cancelled or resolved one stays so,
\* whatever request names its id later.
RecordsFinal ==
    [][/\ KeepsFinal(files) /\ KeepsFinal(attempts)
       /\ KeepsFinal(requests) /\ KeepsFinal(documents)]_vars
=============================================================================
