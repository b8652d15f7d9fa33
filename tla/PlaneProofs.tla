----------------------------- MODULE PlaneProofs -----------------------------
(***************************************************************************)
(* The control plane, for any costs, limits, percentages and any number of *)
(* rows; and the approval loop of an action packet, for any payloads, any  *)
(* number of versions and any times.                                       *)
(*                                                                         *)
(* The plane's inductive invariant is TypeOK /\ ThresholdsOrdered /\       *)
(* RefusalsStand.  The last needs that spend never falls, which every      *)
(* request shows, and that a greater amount reaches whatever a smaller one *)
(* reached.  The packet's adds to its three properties what they leave out *)
(* of versions not resumed yet (Fresh).                                    *)
(***************************************************************************)
EXTENDS ControlPlane, ActionPackets, TLAPS

-----------------------------------------------------------------------------
(* The control plane *)

PlaneInv == TypeOK /\ ThresholdsOrdered /\ RefusalsStand

\* A limit in force is positive and its thresholds are percentages.
LEMMA EffectiveType ==
    ASSUME TypeOK
    PROVE  Effective \in [limit : Nat \ {0}, warn : 1 .. 100, block : 1 .. 100]
  BY DEF TypeOK, Effective, DefaultPolicy

\* With the policy unchanged, what an amount reaches a greater one reaches.
LEMMA ReachedGrows ==
    ASSUME TypeOK, NEW a \in Nat, NEW b \in Nat, a <= b, NEW p \in 1 .. 100,
           Reached(a, p)
    PROVE  Reached(b, p)
<1> DEFINE bar == (200 * p - 1) * Effective.limit
<1>1. bar \in Int
  <2>1. Effective.limit \in Nat
    BY EffectiveType
  <2> QED BY <2>1
<1>2. 20000 * a >= bar
  BY DEF Reached
<1> HIDE DEF bar
<1>3. 20000 * b >= bar
  BY <1>1, <1>2
<1> QED BY <1>3 DEF Reached, bar

\* Only what reaches the block threshold is blocked.
LEMMA BlockedReaches ==
    ASSUME NEW cost
    PROVE  Posture(cost) = "BLOCK" <=> Reached(spend + cost, Effective.block)
  BY DEF Posture

LEMMA PostureType ==
    ASSUME NEW cost
    PROVE  Posture(cost) \in {"BLOCK", "WARN", "ALLOW"}
  BY DEF Posture

\* Sums grow with their terms.
LEMMA SumsGrow ==
    \A s, t, c, d \in Nat : s <= t /\ c <= d => s + c \in Nat /\ t + d \in Nat /\ s + c <= t + d
  OBVIOUS

\* What is refused stays refused while the spend does not fall and the policy
\* stays.
LEMMA StillBlocked ==
    ASSUME TypeOK, NEW c \in Nat, NEW d \in Nat, c <= d, Posture(c) = "BLOCK",
           spend' \in Nat, spend <= spend', policy' = policy
    PROVE  Posture(d)' = "BLOCK"
<1>1. Effective' = Effective
  BY DEF Effective
<1>2. Effective.block \in 1 .. 100 /\ spend \in Nat
  BY EffectiveType DEF TypeOK
<1>3. Reached(spend + c, Effective.block)
  BY BlockedReaches
<1>4. spend + c \in Nat /\ spend' + d \in Nat /\ spend + c <= spend' + d
  BY <1>2, SumsGrow, Zenon
<1>5. Reached(spend' + d, Effective.block)
  BY <1>2, <1>3, <1>4, ReachedGrows
<1>6. Reached(spend + d, Effective.block)'
  BY <1>1, <1>5 DEF Reached
<1> QED BY <1>6 DEF Posture

\* Each request adds its cost to the spend.
LEMMA Billed ==
    ASSUME TypeOK, NEW cost \in Costs, NEW how \in {"BLOCK", "WARN", "ALLOW", "ANSWER"},
           Ends(how, cost)
    PROVE  /\ spend' = spend + cost /\ spend' \in Nat /\ spend < spend'
           /\ reply' = [how |-> how, cost |-> cost]
           /\ reply' \in [how : {"none", "BLOCK", "WARN", "ALLOW", "ANSWER"}, cost : Nat]
  BY CostsAssumption DEF TypeOK, Ends, Bill

LEMMA InitPlane == Init => PlaneInv
  BY PlaneBounds DEF Init, PlaneInv, TypeOK, ThresholdsOrdered, RefusalsStand, Effective, DefaultPolicy, NoPolicy

(* Rows of a table *)

\* A row added at the end of a table leaves the others as they are.
LEMMA RowAdded ==
    ASSUME NEW S, NEW rows \in Seq(S), NEW status \in S
    PROVE  /\ Append(rows, status) \in Seq(S)
           /\ Len(rows) <= Len(Append(rows, status))
           /\ DOMAIN Append(rows, status) = 1 .. Len(rows) + 1
           /\ \A i \in DOMAIN rows : Append(rows, status)[i] = rows[i]
  OBVIOUS

\* A row whose status is set leaves the others as they are.
LEMMA RowSet ==
    ASSUME NEW S, NEW rows \in Seq(S), NEW i \in DOMAIN rows, NEW status \in S
    PROVE  /\ [rows EXCEPT ![i] = status] \in Seq(S)
           /\ Len([rows EXCEPT ![i] = status]) = Len(rows)
           /\ DOMAIN [rows EXCEPT ![i] = status] = DOMAIN rows
           /\ \A j \in DOMAIN rows :
                [rows EXCEPT ![i] = status][j] = IF j = i THEN status ELSE rows[j]
  OBVIOUS

FileStatuses     == {"METADATA_RECEIVED", "FORGOTTEN"}
AttemptStatuses  == {"DISABLED_BY_POLICY", "ENABLED_BY_POLICY", "CANCELLED"}
RequestStatuses  == {"REQUESTED_DISABLED", "APPROVED_PENDING_POLICY_CHANGE", "REJECTED"}
DocumentStatuses == {"DRAFTED", "FORGOTTEN"}

TablesOK ==
    /\ files \in Seq(FileStatuses) /\ attempts \in Seq(AttemptStatuses)
    /\ requests \in Seq(RequestStatuses) /\ documents \in Seq(DocumentStatuses)

TablesKeepFinal ==
    /\ KeepsFinal(files) /\ KeepsFinal(attempts)
    /\ KeepsFinal(requests) /\ KeepsFinal(documents)

LEMMA TablesType == TypeOK => TablesOK
  BY DEF TypeOK, TablesOK, FileStatuses, AttemptStatuses, RequestStatuses, DocumentStatuses

\* An untouched table keeps its final rows.
LEMMA SameKeepsFinal ==
    ASSUME NEW S, NEW rows \in Seq(S)
    PROVE  /\ Len(rows) <= Len(rows)
           /\ \A i \in DOMAIN rows : rows[i] \in Final => rows[i] = rows[i]
  OBVIOUS

-----------------------------------------------------------------------------
(* The tables: what a request of each kind does to them *)

\* Files are received and forgotten.
LEMMA FileStep ==
    ASSUME TablesOK, UNCHANGED <<attempts, requests, documents>>,
           \/ Added(files, "METADATA_RECEIVED")
           \/ \E i \in DOMAIN files : Becomes(files, i, {"METADATA_RECEIVED"}, "FORGOTTEN")
    PROVE  TablesOK' /\ TablesKeepFinal
<1> USE DEF FileStatuses
<1>0. files \in Seq(FileStatuses)
  BY DEF TablesOK
<1>1. CASE Added(files, "METADATA_RECEIVED")
  <2>1. files' = Append(files, "METADATA_RECEIVED") /\ "METADATA_RECEIVED" \in FileStatuses
    BY <1>1 DEF Added
  <2>2. files' \in Seq(FileStatuses) /\ KeepsFinal(files)
    BY <1>0, <2>1, RowAdded DEF KeepsFinal
  <2> QED BY <2>2, SameKeepsFinal DEF TablesOK, TablesKeepFinal, KeepsFinal
<1>2. ASSUME NEW i \in DOMAIN files, Becomes(files, i, {"METADATA_RECEIVED"}, "FORGOTTEN")
      PROVE  TablesOK' /\ TablesKeepFinal
  <2>1. files' = [files EXCEPT ![i] = "FORGOTTEN"] /\ "FORGOTTEN" \in FileStatuses
        /\ files[i] \notin Final
    BY <1>2 DEF Becomes, Final
  <2>2. files' \in Seq(FileStatuses) /\ KeepsFinal(files)
    BY <1>0, <2>1, RowSet DEF KeepsFinal
  <2> QED BY <2>2, SameKeepsFinal DEF TablesOK, TablesKeepFinal, KeepsFinal
<1> QED BY <1>1, <1>2

\* Attempts are planned and cancelled; an enabled one is final.
LEMMA AttemptStep ==
    ASSUME TablesOK, UNCHANGED <<files, requests, documents>>,
           \/ Added(attempts, PlannedStatus)
           \/ \E i \in DOMAIN attempts : Becomes(attempts, i, Pending, "CANCELLED")
    PROVE  TablesOK' /\ TablesKeepFinal
<1> USE DEF AttemptStatuses
<1>0. attempts \in Seq(AttemptStatuses)
  BY DEF TablesOK
<1>1. CASE Added(attempts, PlannedStatus)
  <2>1. attempts' = Append(attempts, PlannedStatus) /\ PlannedStatus \in AttemptStatuses
    BY <1>1 DEF Added, PlannedStatus
  <2>2. attempts' \in Seq(AttemptStatuses) /\ KeepsFinal(attempts)
    BY <1>0, <2>1, RowAdded DEF KeepsFinal
  <2> QED BY <2>2, SameKeepsFinal DEF TablesOK, TablesKeepFinal, KeepsFinal
<1>2. ASSUME NEW i \in DOMAIN attempts, Becomes(attempts, i, Pending, "CANCELLED")
      PROVE  TablesOK' /\ TablesKeepFinal
  <2>1. attempts' = [attempts EXCEPT ![i] = "CANCELLED"] /\ "CANCELLED" \in AttemptStatuses
        /\ attempts[i] \notin Final
    BY <1>2 DEF Becomes, Final, Pending
  <2>2. attempts' \in Seq(AttemptStatuses) /\ KeepsFinal(attempts)
    BY <1>0, <2>1, RowSet DEF KeepsFinal
  <2> QED BY <2>2, SameKeepsFinal DEF TablesOK, TablesKeepFinal, KeepsFinal
<1> QED BY <1>1, <1>2

\* Requests are made and, once, resolved.
LEMMA RequestStep ==
    ASSUME TablesOK, UNCHANGED <<files, attempts, documents>>,
           \/ Added(requests, "REQUESTED_DISABLED")
           \/ \E i \in DOMAIN requests :
                \E resolution \in {"APPROVED_PENDING_POLICY_CHANGE", "REJECTED"} :
                  Becomes(requests, i, {"REQUESTED_DISABLED"}, resolution)
    PROVE  TablesOK' /\ TablesKeepFinal
<1> USE DEF RequestStatuses
<1>0. requests \in Seq(RequestStatuses)
  BY DEF TablesOK
<1>1. CASE Added(requests, "REQUESTED_DISABLED")
  <2>1. requests' = Append(requests, "REQUESTED_DISABLED")
        /\ "REQUESTED_DISABLED" \in RequestStatuses
    BY <1>1 DEF Added
  <2>2. requests' \in Seq(RequestStatuses) /\ KeepsFinal(requests)
    BY <1>0, <2>1, RowAdded DEF KeepsFinal
  <2> QED BY <2>2, SameKeepsFinal DEF TablesOK, TablesKeepFinal, KeepsFinal
<1>2. ASSUME NEW i \in DOMAIN requests,
             NEW resolution \in {"APPROVED_PENDING_POLICY_CHANGE", "REJECTED"},
             Becomes(requests, i, {"REQUESTED_DISABLED"}, resolution)
      PROVE  TablesOK' /\ TablesKeepFinal
  <2>1. requests' = [requests EXCEPT ![i] = resolution] /\ resolution \in RequestStatuses
        /\ requests[i] \notin Final
    BY <1>2 DEF Becomes, Final
  <2>2. requests' \in Seq(RequestStatuses) /\ KeepsFinal(requests)
    BY <1>0, <2>1, RowSet DEF KeepsFinal
  <2> QED BY <2>2, SameKeepsFinal DEF TablesOK, TablesKeepFinal, KeepsFinal
<1> QED BY <1>1, <1>2

\* Documents are drafted and forgotten.
LEMMA DocumentStep ==
    ASSUME TablesOK, UNCHANGED <<files, attempts, requests>>,
           \/ Added(documents, "DRAFTED")
           \/ \E i \in DOMAIN documents : Becomes(documents, i, {"DRAFTED"}, "FORGOTTEN")
    PROVE  TablesOK' /\ TablesKeepFinal
<1> USE DEF DocumentStatuses
<1>0. documents \in Seq(DocumentStatuses)
  BY DEF TablesOK
<1>1. CASE Added(documents, "DRAFTED")
  <2>1. documents' = Append(documents, "DRAFTED") /\ "DRAFTED" \in DocumentStatuses
    BY <1>1 DEF Added
  <2>2. documents' \in Seq(DocumentStatuses) /\ KeepsFinal(documents)
    BY <1>0, <2>1, RowAdded DEF KeepsFinal
  <2> QED BY <2>2, SameKeepsFinal DEF TablesOK, TablesKeepFinal, KeepsFinal
<1>2. ASSUME NEW i \in DOMAIN documents, Becomes(documents, i, {"DRAFTED"}, "FORGOTTEN")
      PROVE  TablesOK' /\ TablesKeepFinal
  <2>1. documents' = [documents EXCEPT ![i] = "FORGOTTEN"] /\ "FORGOTTEN" \in DocumentStatuses
        /\ documents[i] \notin Final
    BY <1>2 DEF Becomes, Final
  <2>2. documents' \in Seq(DocumentStatuses) /\ KeepsFinal(documents)
    BY <1>0, <2>1, RowSet DEF KeepsFinal
  <2> QED BY <2>2, SameKeepsFinal DEF TablesOK, TablesKeepFinal, KeepsFinal
<1> QED BY <1>1, <1>2

\* Nothing is done to the tables.
LEMMA NoRecordStep ==
    ASSUME TablesOK, UNCHANGED records
    PROVE  TablesOK' /\ TablesKeepFinal
  BY SameKeepsFinal DEF TablesOK, TablesKeepFinal, KeepsFinal, records

-----------------------------------------------------------------------------
(* Every step, seen from the tables and seen from the budget *)

\* Whatever the step, the tables hold their statuses and lose no final row.
LEMMA TablesStep ==
    ASSUME TablesOK, [Next]_vars
    PROVE  TablesOK' /\ TablesKeepFinal
<1>1. ASSUME NEW cost \in Costs, BudgetRequest(cost) PROVE TablesOK' /\ TablesKeepFinal
  <2>1. UNCHANGED records
    BY <1>1 DEF BudgetRequest, Blocked, Work, Readout, SetLimit, SetWarn, SetBlock, Reset,
                SetPolicy, records
  <2> QED BY <2>1, NoRecordStep
<1>2. ASSUME NEW cost \in Costs, FileRequest(cost) PROVE TablesOK' /\ TablesKeepFinal
  <2>1. CASE ReceiveFile(cost)
    BY <2>1, FileStep DEF ReceiveFile
  <2>2. CASE \E i \in DOMAIN files : ForgetFile(cost, i)
    BY <2>2, FileStep DEF ForgetFile
  <2>3. CASE \E i \in DOMAIN files : PlanRetrieval(cost, i)
    BY <2>3, AttemptStep DEF PlanRetrieval
  <2>4. CASE \E i \in DOMAIN attempts : CancelRetrieval(cost, i)
    BY <2>4, AttemptStep DEF CancelRetrieval
  <2>5. CASE RequestEnablement(cost)
    BY <2>5, RequestStep DEF RequestEnablement
  <2>6. CASE \E i \in DOMAIN requests :
               \E resolution \in {"APPROVED_PENDING_POLICY_CHANGE", "REJECTED"} :
                 Resolve(cost, i, resolution)
    BY <2>6, RequestStep DEF Resolve
  <2>7. CASE ReviewDocument(cost)
    BY <2>7, DocumentStep DEF ReviewDocument
  <2>8. CASE \E i \in DOMAIN documents : ForgetDocument(cost, i)
    BY <2>8, DocumentStep DEF ForgetDocument
  <2> QED BY <1>2, <2>1, <2>2, <2>3, <2>4, <2>5, <2>6, <2>7, <2>8 DEF FileRequest
<1>3. CASE Restart \/ Spent \/ UNCHANGED vars
  BY <1>3, NoRecordStep DEF Restart, Spent, vars, records
<1> QED BY <1>1, <1>2, <1>3 DEF Next

ReplyType == [how : {"none", "BLOCK", "WARN", "ALLOW", "ANSWER"}, cost : Nat]

\* A policy in the order the commands demand.
OrderedPolicy(new) ==
    /\ new = NoPolicy \/ new \in [limit : Nat \ {0}, warn : 1 .. 100, block : 1 .. 100]
    /\ new # NoPolicy => new.warn < new.block

\* A step that is billed, or is no request, and leaves the policy alone.
Quiet ==
    /\ policy' = policy /\ refused' = refused
    /\ spend' \in Nat /\ spend <= spend' /\ reply' \in ReplyType
    /\ spend' # spend /\ reply'.how \in {"WARN", "ALLOW"} => Posture(reply'.cost) # "BLOCK"

\* A step that changes the policy.
Changed ==
    /\ OrderedPolicy(policy') /\ refused' = {}
    /\ spend' \in Nat /\ reply' \in ReplyType /\ reply'.how = "ANSWER"

\* A step that refuses a request.
Refused ==
    \E cost \in Costs :
      /\ policy' = policy /\ refused' = refused \cup {cost} /\ Posture(cost) = "BLOCK"
      /\ spend' \in Nat /\ spend <= spend' /\ reply' = [how |-> "BLOCK", cost |-> cost]

\* An answer within the budget, or to a command, is quiet.
LEMMA EndsQuietly ==
    ASSUME TypeOK, NEW cost \in Costs, policy' = policy, refused' = refused,
           Guarded(cost) \/ Command(cost)
    PROVE  Quiet
<1>1. CASE Guarded(cost)
  <2>1. Posture(cost) \in {"WARN", "ALLOW"} /\ Posture(cost) # "BLOCK"
    BY <1>1, PostureType DEF Guarded
  <2>2. Ends(Posture(cost), cost)
    BY <1>1 DEF Guarded
  <2>3. spend' \in Nat /\ spend < spend' /\ reply' = [how |-> Posture(cost), cost |-> cost]
        /\ reply' \in ReplyType
    BY <2>1, <2>2, Billed DEF ReplyType
  <2>4. reply'.cost = cost /\ spend \in Nat
    BY <2>3 DEF TypeOK
  <2> QED BY <2>1, <2>3, <2>4 DEF Quiet
<1>2. CASE Command(cost)
  <2>1. spend' \in Nat /\ spend < spend' /\ reply' = [how |-> "ANSWER", cost |-> cost]
        /\ reply' \in ReplyType
    BY <1>2, Billed DEF Command, ReplyType
  <2>2. reply'.how = "ANSWER" /\ spend \in Nat
    BY <2>1 DEF TypeOK
  <2> QED BY <2>1, <2>2 DEF Quiet
<1> QED BY <1>1, <1>2

\* Setting the policy changes it in order.
LEMMA SetsPolicy ==
    ASSUME TypeOK, NEW cost \in Costs, NEW new, SetPolicy(cost, new), OrderedPolicy(new)
    PROVE  Changed
<1>1. policy' = new /\ refused' = {} /\ Ends("ANSWER", cost)
  BY DEF SetPolicy, Command
<1>2. spend' \in Nat /\ reply' \in ReplyType /\ reply' = [how |-> "ANSWER", cost |-> cost]
  BY <1>1, Billed DEF ReplyType
<1> QED BY <1>1, <1>2 DEF Changed

\* Every step is quiet, a change of the policy or a refusal.
LEMMA BudgetStep ==
    ASSUME TypeOK, ThresholdsOrdered, [Next]_vars
    PROVE  Quiet \/ Changed \/ Refused
<1>0. Effective \in [limit : Nat \ {0}, warn : 1 .. 100, block : 1 .. 100]
      /\ Effective.warn < Effective.block
  BY EffectiveType DEF ThresholdsOrdered
<1>1. ASSUME NEW cost \in Costs, BudgetRequest(cost) PROVE Quiet \/ Changed \/ Refused
  <2>1. CASE Blocked(cost)
    <3>1. Ends("BLOCK", cost) /\ policy' = policy /\ refused' = refused \cup {cost}
          /\ Posture(cost) = "BLOCK"
      BY <2>1 DEF Blocked
    <3>2. spend' \in Nat /\ spend < spend' /\ reply' = [how |-> "BLOCK", cost |-> cost]
      BY <3>1, Billed
    <3>3. spend <= spend'
      BY <3>2 DEF TypeOK
    <3> QED BY <3>1, <3>2, <3>3 DEF Refused
  <2>2. CASE Work(cost)
    BY <2>2, EndsQuietly DEF Work
  <2>3. CASE Readout(cost)
    BY <2>3, EndsQuietly DEF Readout
  <2>4. ASSUME NEW limit \in Limits, SetLimit(cost, limit) PROVE Changed
    <3>1. OrderedPolicy([Effective EXCEPT !.limit = limit])
      BY <1>0, LimitsAssumption DEF OrderedPolicy
    <3> QED BY <2>4, <3>1, SetsPolicy DEF SetLimit
  <2>5. ASSUME NEW warn \in Percents, SetWarn(cost, warn) PROVE Changed
    <3>1. OrderedPolicy([Effective EXCEPT !.warn = warn])
      BY <1>0, <2>5, PercentsAssumption DEF OrderedPolicy, SetWarn
    <3> QED BY <2>5, <3>1, SetsPolicy DEF SetWarn
  <2>6. ASSUME NEW block \in Percents, SetBlock(cost, block) PROVE Changed
    <3>1. OrderedPolicy([Effective EXCEPT !.block = block])
      BY <1>0, <2>6, PercentsAssumption DEF OrderedPolicy, SetBlock
    <3> QED BY <2>6, <3>1, SetsPolicy DEF SetBlock
  <2>7. CASE Reset(cost)
    <3>1. OrderedPolicy(NoPolicy)
      BY DEF OrderedPolicy
    <3> QED BY <2>7, <3>1, SetsPolicy DEF Reset
  <2> QED BY <1>1, <2>1, <2>2, <2>3, <2>4, <2>5, <2>6, <2>7 DEF BudgetRequest
<1>2. ASSUME NEW cost \in Costs, FileRequest(cost) PROVE Quiet
  <2>1. policy' = policy /\ refused' = refused /\ (Guarded(cost) \/ Command(cost))
    BY <1>2 DEF FileRequest, ReceiveFile, ForgetFile, PlanRetrieval, CancelRetrieval,
                RequestEnablement, Resolve, ReviewDocument, ForgetDocument
  <2> QED BY <2>1, EndsQuietly
<1>3. CASE Restart \/ Spent \/ UNCHANGED vars
  <2>1. policy' = policy /\ refused' = refused /\ spend' = spend /\ reply' = reply
    BY <1>3 DEF Restart, Spent, vars
  <2>2. spend \in Nat /\ reply \in ReplyType
    BY DEF TypeOK, ReplyType
  <2> QED BY <2>1, <2>2 DEF Quiet
<1> QED BY <1>1, <1>2, <1>3 DEF Next

-----------------------------------------------------------------------------
(* The invariant *)

\* Only a restart touches the settings.
LEMMA ProcessStep ==
    ASSUME TypeOK, [Next]_vars
    PROVE  retrieval' \in BOOLEAN /\ restarts' \in 0 .. MaxRestarts
<1>1. retrieval \in BOOLEAN /\ restarts \in 0 .. MaxRestarts
  BY DEF TypeOK
<1>2. ASSUME NEW cost \in Costs, BudgetRequest(cost) \/ FileRequest(cost) PROVE UNCHANGED process
  BY <1>2 DEF BudgetRequest, Blocked, Work, Readout, SetLimit, SetWarn, SetBlock, Reset, SetPolicy,
       FileRequest, ReceiveFile, ForgetFile, PlanRetrieval, CancelRetrieval, RequestEnablement,
       Resolve, ReviewDocument, ForgetDocument, process
<1>3. CASE Restart
  <2>1. retrieval' = ~retrieval /\ restarts' = restarts + 1 /\ restarts < MaxRestarts
    BY <1>3 DEF Restart
  <2>2. restarts' \in 0 .. MaxRestarts
    BY <1>1, <2>1, PlaneBounds
  <2> QED BY <2>1, <2>2
<1>4. CASE Spent \/ UNCHANGED vars
  BY <1>1, <1>4 DEF Spent, vars, process
<1> QED BY <1>1, <1>2, <1>3, <1>4 DEF Next, process

\* No request and no restart breaks the invariant.
LEMMA NextPlane ==
    ASSUME PlaneInv, [Next]_vars
    PROVE  PlaneInv'
<1>0. TypeOK /\ ThresholdsOrdered /\ RefusalsStand /\ (Quiet \/ Changed \/ Refused)
  BY BudgetStep DEF PlaneInv
<1>1. TablesOK'
  BY <1>0, TablesType, TablesStep
<1>2. retrieval' \in BOOLEAN /\ restarts' \in 0 .. MaxRestarts
  BY <1>0, ProcessStep
<1>3. TypeOK'
  <2>1. refused' \subseteq Nat /\ spend' \in Nat /\ reply' \in ReplyType
    <3>1. CASE Quiet
      BY <1>0, <3>1 DEF TypeOK, Quiet
    <3>2. CASE Changed
      BY <3>2 DEF Changed
    <3>3. CASE Refused
      <4>1. PICK cost \in Costs : /\ refused' = refused \cup {cost} /\ spend' \in Nat
                                  /\ reply' = [how |-> "BLOCK", cost |-> cost]
        BY <3>3 DEF Refused
      <4>2. cost \in Nat /\ refused \subseteq Nat
        BY <1>0, CostsAssumption DEF TypeOK
      <4> QED BY <4>1, <4>2 DEF ReplyType
    <3> QED BY <1>0, <3>1, <3>2, <3>3
  <2>2. policy' = NoPolicy
        \/ policy' \in [limit : Nat \ {0}, warn : 1 .. 100, block : 1 .. 100]
    BY <1>0 DEF TypeOK, Quiet, Changed, Refused, OrderedPolicy
  <2> QED BY <1>1, <1>2, <2>1, <2>2 DEF TypeOK, TablesOK, ReplyType, FileStatuses, AttemptStatuses,
          RequestStatuses, DocumentStatuses
<1>4. ThresholdsOrdered'
  <2>1. CASE policy' = policy
    BY <1>0, <2>1 DEF ThresholdsOrdered, Effective
  <2>2. CASE Changed
    BY <2>2 DEF Changed, OrderedPolicy, ThresholdsOrdered, Effective, DefaultPolicy
  <2> QED BY <1>0, <2>1, <2>2 DEF Quiet, Refused
<1>5. RefusalsStand'
  <2>1. ASSUME policy' = policy, spend' \in Nat, spend <= spend',
               NEW c \in Nat, Posture(c) = "BLOCK"
        PROVE  Posture(c)' = "BLOCK"
    BY <1>0, <2>1, StillBlocked
  <2>2. CASE Quiet
    <3>1. \A c \in refused : c \in Nat /\ Posture(c) = "BLOCK"
      BY <1>0 DEF TypeOK, RefusalsStand
    <3>2. \A c \in refused : Posture(c)' = "BLOCK"
      BY <2>1, <2>2, <3>1 DEF Quiet
    <3> QED BY <2>2, <3>2 DEF Quiet, RefusalsStand
  <2>3. CASE Changed
    BY <2>3 DEF Changed, RefusalsStand
  <2>4. CASE Refused
    <3>1. PICK cost \in Costs :
            /\ policy' = policy /\ refused' = refused \cup {cost} /\ Posture(cost) = "BLOCK"
            /\ spend' \in Nat /\ spend <= spend'
      BY <2>4 DEF Refused
    <3>2. \A c \in refused \cup {cost} : c \in Nat /\ Posture(c) = "BLOCK"
      BY <1>0, <3>1, CostsAssumption DEF TypeOK, RefusalsStand
    <3>3. \A c \in refused \cup {cost} : Posture(c)' = "BLOCK"
      BY <2>1, <3>1, <3>2
    <3> QED BY <3>1, <3>3 DEF RefusalsStand
  <2> QED BY <1>0, <2>2, <2>3, <2>4
<1> QED BY <1>3, <1>4, <1>5 DEF PlaneInv

\* The inductive invariant holds throughout the control plane's requests.
THEOREM Inductive == Spec => []PlaneInv
<1>1. PlaneInv /\ [Next]_vars => PlaneInv'
  BY NextPlane
<1> QED BY <1>1, InitPlane, PTL DEF Spec

\* The tables hold only what their flows write.
THEOREM TypeCorrect == Spec => []TypeOK
<1>1. PlaneInv => TypeOK
  BY DEF PlaneInv
<1> QED BY <1>1, Inductive, PTL

\* The warning threshold stays below the block threshold, whatever is set
\* (upsert_budget_warn_threshold_policy, upsert_budget_block_threshold_policy).
THEOREM Ordered == Spec => []ThresholdsOrdered
<1>1. PlaneInv => ThresholdsOrdered
  BY DEF PlaneInv
<1> QED BY <1>1, Inductive, PTL

\* What the budget refused it refuses until the policy changes.
THEOREM RefusedAgain == Spec => []RefusalsStand
<1>1. PlaneInv => RefusalsStand
  BY DEF PlaneInv
<1> QED BY <1>1, Inductive, PTL

\* Nothing is done that costs as much as something the budget has refused
\* (evaluate_budget_posture).
THEOREM NoWayRoundTheBudget == Spec => NoWayRound
<1>1. ASSUME PlaneInv, [Next]_vars
      PROVE  [reply'.how \in {"WARN", "ALLOW"} /\ spend' # spend
                => \A cost \in refused : reply'.cost < cost]_vars
  <2> SUFFICES ASSUME reply'.how \in {"WARN", "ALLOW"}, spend' # spend, NEW cost \in refused
               PROVE  reply'.cost < cost
    OBVIOUS
  <2>1. TypeOK /\ ThresholdsOrdered /\ Posture(cost) = "BLOCK" /\ cost \in Nat
    BY <1>1 DEF PlaneInv, RefusalsStand, TypeOK
  <2>2. Quiet
    BY <1>1, <2>1, BudgetStep DEF Changed, Refused
  <2>3. Posture(reply'.cost) # "BLOCK" /\ reply'.cost \in Nat
    BY <2>2 DEF Quiet, ReplyType
  <2>4. ASSUME cost <= reply'.cost PROVE FALSE
    <3>1. ~Reached(spend + reply'.cost, Effective.block) /\ Reached(spend + cost, Effective.block)
      BY <2>1, <2>3, BlockedReaches
    <3>2. Effective.block \in 1 .. 100 /\ spend \in Nat
      BY <2>1, EffectiveType DEF TypeOK
    <3>3. spend <= spend
      BY <3>2
    <3>4. spend + cost \in Nat /\ spend + reply'.cost \in Nat /\ spend + cost <= spend + reply'.cost
      BY <2>1, <2>3, <2>4, <3>2, <3>3, SumsGrow, Zenon
    <3> QED BY <2>1, <3>1, <3>2, <3>4, ReachedGrows
  <2> QED BY <2>1, <2>3, <2>4
<1> QED BY <1>1, Inductive, PTL DEF Spec, NoWayRound

\* No table loses a row and no final status changes (file_intake_control.py,
\* document_control.py).
THEOREM FinalStays == Spec => RecordsFinal
<1>1. ASSUME PlaneInv, [Next]_vars
      PROVE  [/\ KeepsFinal(files) /\ KeepsFinal(attempts)
              /\ KeepsFinal(requests) /\ KeepsFinal(documents)]_vars
  BY <1>1, TablesType, TablesStep DEF PlaneInv, TablesKeepFinal
<1> QED BY <1>1, Inductive, PTL DEF Spec, RecordsFinal

-----------------------------------------------------------------------------
(* The approval loop *)

Open == {"proposed", "awaiting_approval", "approved"}

\* What the properties leave out: a version not resumed yet was never used, its
\* approval can only be of the payload it has, and later versions have no past.
Fresh ==
    /\ packet.state \in Open => uses[packet.version] = 0
    /\ agreed[packet.version] \in {Nothing, packet.payload}
    /\ \A version \in Versions :
         version > packet.version => agreed[version] = Nothing /\ uses[version] = 0

PacketIInv == PacketTypeOK /\ ResumedAsApproved /\ TokenBound /\ PriorsKept /\ Fresh

\* The seven ways in which a call changes the record.
Submits == Submittable /\ Enters("awaiting_approval")
           /\ UNCHANGED <<request, priors, token, signed, agreed, uses>>

Approves == \E at \in Times : ~Late(at) /\ Approve("reviewer", at)

EndsIt == \E what \in {"reject", "cancel", "expire"} : End(what)

Edits == \E payload \in Payloads : Edit(payload)

Resumes == \E key \in Versions \cup {NoKey}, at \in Times : Resume(key, "reviewer", at)

\* Every call changes the record in one of these ways, and approves or resumes for
\* the reviewer only.
LEMMA Classified ==
    ASSUME PacketNext
    PROVE  Block \/ Submits \/ Lapse \/ Approves \/ EndsIt \/ Edits \/ Resumes
<1>1. CASE Submit
  BY <1>1 DEF Submit, Submits
<1>2. CASE \E what \in Decisions \cup {"unknown"}, version \in Versions, by \in People :
             Misfit(what, version, by)
  BY <1>2 DEF Misfit
<1>3. ASSUME NEW version \in Versions, NEW by \in People, NEW at \in Times,
             Decide(version, by, at)
      PROVE  Block \/ Lapse \/ Approves \/ EndsIt \/ Edits \/ Resumes
  <2>1. CASE \E what \in Decisions : Lapsed(what, version, by, at)
    BY <2>1 DEF Lapsed
  <2>2. CASE DecideApprove(version, by, at)
    BY <2>2 DEF DecideApprove, InTime, Fits, Approves
  <2>3. CASE \E what \in {"reject", "cancel", "expire"} : DecideEnd(what, version, by, at)
    BY <2>3 DEF DecideEnd, EndsIt
  <2>4. CASE DecideEdit(version, by, at)
    BY <2>4 DEF DecideEdit, Edits
  <2>5. CASE \E key \in Versions \cup {NoKey} : DecideResume(version, by, at, key)
    BY <2>5 DEF DecideResume, Fits, Resumes
  <2> QED
    BY <1>3, <2>1, <2>2, <2>3, <2>4, <2>5 DEF Decide
<1> QED
  BY <1>1, <1>2, <1>3 DEF PacketNext

-----------------------------------------------------------------------------
(* The invariant *)

LEMMA InitEstablishes == PacketInit => PacketIInv
<1> SUFFICES ASSUME PacketInit PROVE PacketIInv
  OBVIOUS
<1> USE PacketBounds, PayloadsAssumption
<1>1. 1 \in Versions
  BY DEF Versions
<1>2. packet.version = 1 /\ packet.payload \in Payloads /\ packet.state \in {"proposed", "blocked"}
  BY DEF PacketInit
<1>3. PacketTypeOK
  <2>1. packet \in Packets
    BY <1>1 DEF PacketInit, Packets, States, Stopped
  <2>2. priors \in Seq(Packets)
    BY DEF PacketInit
  <2> QED
    BY <2>1, <2>2 DEF PacketTypeOK, PacketInit, NoToken, NoKey, People, Times
<1>4. ResumedAsApproved
  BY <1>2 DEF PacketInit, ResumedAsApproved
<1>5. TokenBound
  BY <1>2 DEF PacketInit, TokenBound, NoToken
<1>6. PriorsKept
  BY <1>2 DEF PacketInit, PriorsKept
<1>7. Fresh
  BY <1>1, <1>2 DEF PacketInit, Fresh
<1> QED
  BY <1>3, <1>4, <1>5, <1>6, <1>7 DEF PacketIInv

\* Calls that only move a version to another state, one that is not "approved" or
\* "resumed", and leave its token or drop it.
LEMMA MovesKeep ==
    ASSUME PacketIInv,
           NEW state \in States \ {"approved", "resumed"}, Enters(state),
           state \in Open => packet.state \in Open,
           token' \in {token, NoToken},
           UNCHANGED <<request, priors, signed, agreed, uses>>
    PROVE  PacketIInv'
<1>1. packet \in Packets
  BY DEF PacketIInv, PacketTypeOK
<1>2. packet' \in Packets /\ packet'.version = packet.version
      /\ packet'.payload = packet.payload /\ packet'.state = state
  BY <1>1 DEF Enters, Packets
<1>3. token' \in [key : Versions \cup {NoKey}, used : BOOLEAN]
      /\ token'.key \in {NoKey, packet.version}
  <2>1. CASE token' = token
    BY <2>1 DEF PacketIInv, PacketTypeOK, TokenBound
  <2>2. CASE token' = NoToken
    BY <2>2 DEF NoToken, NoKey
  <2> QED
    BY <2>1, <2>2
<1>4. PacketTypeOK'
  BY <1>2, <1>3 DEF PacketIInv, PacketTypeOK
<1>5. ResumedAsApproved' /\ TokenBound'
  BY <1>2, <1>3 DEF PacketIInv, ResumedAsApproved, TokenBound
<1>6. PriorsKept' /\ Fresh'
  BY <1>2 DEF PacketIInv, PriorsKept, Fresh
<1> QED
  BY <1>4, <1>5, <1>6 DEF PacketIInv

LEMMA ApproveKeeps ==
    ASSUME PacketIInv, Approves
    PROVE  PacketIInv'
<1> USE PayloadsAssumption
<1>1. PICK at \in Times : Approve("reviewer", at)
  BY DEF Approves
<1>2. packet \in Packets /\ packet.state = "awaiting_approval"
  BY <1>1 DEF PacketIInv, PacketTypeOK, Approve, Approvable
<1>3. packet' \in Packets /\ packet'.version = packet.version
      /\ packet'.payload = packet.payload /\ packet'.state = "approved"
  BY <1>1, <1>2 DEF Approve, Enters, Packets, States
<1>4. token' = [key |-> packet.version, used |-> FALSE] /\ signed' = [by |-> "reviewer", at |-> at]
      /\ UNCHANGED <<request, priors, uses>>
  BY <1>1 DEF Approve
<1>5. /\ packet.version \in Versions /\ packet.payload \in Payloads
      /\ agreed \in [Versions -> Payloads \cup {Nothing}]
      /\ agreed' = [agreed EXCEPT ![packet.version] = packet.payload]
  BY <1>1, <1>2 DEF PacketIInv, PacketTypeOK, Packets, Approve
<1>6. /\ agreed' \in [Versions -> Payloads \cup {Nothing}]
      /\ agreed'[packet.version] = packet.payload
      /\ \A version \in Versions : version # packet.version => agreed'[version] = agreed[version]
  BY <1>5
<1>7. PacketTypeOK'
  BY <1>1, <1>3, <1>4, <1>5, <1>6 DEF PacketIInv, PacketTypeOK, People
<1>8. ResumedAsApproved'
  BY <1>3, <1>4, <1>5, <1>6 DEF PacketIInv, ResumedAsApproved
<1>9. TokenBound'
  BY <1>3, <1>4 DEF PacketIInv, TokenBound
<1>10. PriorsKept'
  <2>1. \A i \in DOMAIN priors : i \in Versions /\ i # packet.version
    BY <1>5, PacketBounds DEF PacketIInv, PriorsKept, PacketTypeOK, Versions
  <2> QED
    BY <1>3, <1>4, <1>6, <2>1 DEF PacketIInv, PriorsKept
<1>11. Fresh'
  BY <1>2, <1>3, <1>4, <1>5, <1>6, PacketBounds DEF PacketIInv, Fresh, Versions, Open
<1> QED
  BY <1>7, <1>8, <1>9, <1>10, <1>11 DEF PacketIInv

LEMMA EditKeeps ==
    ASSUME PacketIInv, Edits
    PROVE  PacketIInv'
<1> USE PacketBounds
<1>1. PICK payload \in Payloads : Edit(payload)
  BY DEF Edits
<1>2. packet \in Packets /\ packet.version \in Versions /\ packet.version + 1 \in Versions
  BY <1>1 DEF PacketIInv, PacketTypeOK, Packets, Edit, Versions
<1>3. packet' \in Packets /\ packet'.version = packet.version + 1
      /\ packet'.payload = payload /\ packet'.state = "proposed"
  BY <1>1, <1>2 DEF Edit, Revised, Packets, States
<1>4. priors' = Append(priors, packet) /\ token' = NoToken
      /\ UNCHANGED <<request, signed, agreed, uses>>
  BY <1>1 DEF Edit
<1>5. priors \in Seq(Packets) /\ Len(priors) = packet.version - 1
  BY DEF PacketIInv, PacketTypeOK, PriorsKept
<1>6. /\ priors' \in Seq(Packets) /\ Len(priors') = packet.version
      /\ priors'[packet.version] = packet
      /\ \A i \in DOMAIN priors' : i = packet.version \/ (i \in DOMAIN priors /\ priors'[i] = priors[i])
  BY <1>2, <1>4, <1>5 DEF Versions
<1>7. PacketTypeOK'
  BY <1>3, <1>4, <1>6 DEF PacketIInv, PacketTypeOK, NoToken, NoKey
<1>8. agreed[packet.version + 1] = Nothing /\ uses[packet.version + 1] = 0
  BY <1>2 DEF PacketIInv, Fresh, Versions
<1>9. ResumedAsApproved' /\ TokenBound'
  BY <1>3, <1>4 DEF PacketIInv, ResumedAsApproved, TokenBound, NoToken
<1>10. PriorsKept'
  BY <1>2, <1>3, <1>4, <1>6 DEF PacketIInv, PriorsKept, Fresh, Versions
<1>11. Fresh'
  BY <1>2, <1>3, <1>4, <1>8 DEF PacketIInv, Fresh, Versions
<1> QED
  BY <1>7, <1>9, <1>10, <1>11 DEF PacketIInv

LEMMA ResumeKeeps ==
    ASSUME PacketIInv, Resumes
    PROVE  PacketIInv'
<1>1. PICK key \in Versions \cup {NoKey}, at \in Times : Resume(key, "reviewer", at)
  BY DEF Resumes
<1>2. packet \in Packets /\ packet.version \in Versions /\ packet.state = "approved"
  BY <1>1 DEF PacketIInv, PacketTypeOK, Packets, Resume, Usable
<1>3. packet' \in Packets /\ packet'.version = packet.version
      /\ packet'.payload = packet.payload /\ packet'.state = "resumed"
  BY <1>1, <1>2 DEF Resume, Enters, Packets, States
<1>4. /\ token \in [key : Versions \cup {NoKey}, used : BOOLEAN]
      /\ token' = [token EXCEPT !.used = TRUE]
      /\ signed' = [by |-> "reviewer", at |-> at]
      /\ UNCHANGED <<request, priors, agreed>>
  BY <1>1 DEF PacketIInv, PacketTypeOK, Resume
<1>5. token'.key = token.key /\ token' \in [key : Versions \cup {NoKey}, used : BOOLEAN]
  BY <1>4
<1>6. uses \in [Versions -> Nat] /\ uses[packet.version] = 0
  BY <1>2 DEF PacketIInv, PacketTypeOK, Fresh, Open
<1>7. /\ uses' \in [Versions -> Nat] /\ uses'[packet.version] = 1
      /\ \A version \in Versions : version # packet.version => uses'[version] = uses[version]
  BY <1>1, <1>2, <1>6 DEF Resume
<1>8. PacketTypeOK'
  BY <1>3, <1>4, <1>5, <1>7 DEF PacketIInv, PacketTypeOK, People
<1>9. ResumedAsApproved'
  <2>1. agreed[packet.version] = packet.payload /\ packet.payload # Nothing
    BY <1>2, PayloadsAssumption DEF PacketIInv, ResumedAsApproved, Packets
  <2> QED
    BY <1>3, <1>4, <1>7, <2>1 DEF PacketIInv, ResumedAsApproved
<1>10. TokenBound'
  BY <1>3, <1>5, <1>7 DEF PacketIInv, TokenBound
<1>11. PriorsKept'
  BY <1>3, <1>4 DEF PacketIInv, PriorsKept
<1>12. Fresh'
  BY <1>2, <1>3, <1>4, <1>7, PacketBounds DEF PacketIInv, Fresh, Open, Versions
<1> QED
  BY <1>8, <1>9, <1>10, <1>11, <1>12 DEF PacketIInv

LEMMA StepKeeps == PacketIInv /\ [PacketNext]_packetVars => PacketIInv'
<1> SUFFICES ASSUME PacketIInv, [PacketNext]_packetVars PROVE PacketIInv'
  OBVIOUS
<1>1. CASE Block
  <2>1. "blocked" \in States \ {"approved", "resumed"} /\ "blocked" \notin Open
    BY DEF States, Stopped, Open
  <2> QED
    BY <1>1, <2>1, MovesKeep DEF Block
<1>2. CASE Submits
  <2>1. "awaiting_approval" \in States \ {"approved", "resumed"} /\ packet.state \in Open
    BY <1>2 DEF States, Open, Submits, Submittable
  <2> QED
    BY <1>2, <2>1, MovesKeep DEF Submits
<1>3. CASE Lapse
  <2>1. "expired" \in States \ {"approved", "resumed"} /\ "expired" \notin Open
    BY DEF States, Stopped, Open
  <2> QED
    BY <1>3, <2>1, MovesKeep DEF Lapse
<1>4. CASE Approves
  BY <1>4, ApproveKeeps
<1>5. CASE EndsIt
  <2>1. PICK what \in {"reject", "cancel", "expire"} : End(what)
    BY <1>5 DEF EndsIt
  <2>2. Outcome(what) \in States \ {"approved", "resumed"} /\ Outcome(what) \notin Open
    BY DEF Outcome, States, Stopped, Open
  <2> QED
    BY <2>1, <2>2, MovesKeep DEF End
<1>6. CASE Edits
  BY <1>6, EditKeeps
<1>7. CASE Resumes
  BY <1>7, ResumeKeeps
<1>8. CASE UNCHANGED packetVars
  BY <1>8 DEF packetVars, PacketIInv, PacketTypeOK, ResumedAsApproved, TokenBound, PriorsKept, Fresh
<1> QED
  BY <1>1, <1>2, <1>3, <1>4, <1>5, <1>6, <1>7, <1>8, Classified

LEMMA Invariant == PacketSpec => []PacketIInv
<1> QED
  BY InitEstablishes, StepKeeps, PTL DEF PacketSpec

-----------------------------------------------------------------------------
(* The theorems *)

\* The record holds only what the functions put there.
THEOREM PacketTypes == PacketSpec => []PacketTypeOK
<1>1. PacketIInv => PacketTypeOK
  BY DEF PacketIInv
<1> QED
  BY <1>1, Invariant, PTL

\* What is resumed is what was approved, with the payload it had then.
THEOREM ResumesWhatWasApproved == PacketSpec => []ResumedAsApproved
<1>1. PacketIInv => ResumedAsApproved
  BY DEF PacketIInv
<1> QED
  BY <1>1, Invariant, PTL

\* A resume token serves one version and one use.
THEOREM OneUse == PacketSpec => []TokenBound
<1>1. PacketIInv => TokenBound
  BY DEF PacketIInv
<1> QED
  BY <1>1, Invariant, PTL

\* Editing keeps every earlier version as it was approved.
THEOREM HistoryKept == PacketSpec => []PriorsKept
<1>1. PacketIInv => PriorsKept
  BY DEF PacketIInv
<1> QED
  BY <1>1, Invariant, PTL

\* A version that was stopped stays stopped.
THEOREM StoppedStays == PacketSpec => StoppedForGood
<1>1. ASSUME PacketIInv, [PacketNext]_packetVars, packet.state \in Stopped,
             packet'.version = packet.version
      PROVE  packet'.state \in Stopped /\ uses' = uses
  <2>1. packet \in Packets /\ packet.version \in Nat
    BY <1>1, PacketBounds DEF PacketIInv, PacketTypeOK, Packets, Versions
  <2>2. \A state : Enters(state) => packet'.state = state
    BY <2>1 DEF Enters, Packets
  <2>3. CASE Block \/ Lapse
    BY <2>2, <2>3 DEF Block, Lapse, Stopped
  <2>4. CASE Submits \/ Approves \/ EndsIt \/ Resumes
    BY <1>1, <2>4 DEF Submits, Submittable, Approves, Approve, Approvable, EndsIt, End, Endable,
                      Resumes, Resume, Usable, Stopped
  <2>5. CASE Edits
    BY <1>1, <2>1, <2>5 DEF Edits, Edit, Revised
  <2>6. CASE UNCHANGED packetVars
    BY <1>1, <2>6 DEF packetVars
  <2> QED
    BY <1>1, <2>3, <2>4, <2>5, <2>6, Classified
<1> QED
  BY <1>1, Invariant, PTL DEF PacketSpec, StoppedForGood

\* Only the actor a packet names approves or resumes it, and only in time.
THEOREM ReviewerInTime == PacketSpec => OnlyTheReviewerInTime
<1>1. ASSUME PacketIInv, [PacketNext]_packetVars, packet'.state # packet.state,
             packet'.state \in {"approved", "resumed"}
      PROVE  signed'.by = "reviewer" /\ signed'.at <= request.deadline
  <2>1. packet \in Packets /\ request.deadline \in Nat
    BY <1>1, PacketBounds DEF PacketIInv, PacketTypeOK, Times
  <2>2. \A state : Enters(state) => packet'.state = state
    BY <2>1 DEF Enters, Packets
  <2>3. CASE Approves
    BY <2>1, <2>3, PacketBounds DEF Approves, Approve, Late, Times
  <2>4. CASE Resumes
    BY <2>1, <2>4, PacketBounds DEF Resumes, Resume, Usable, Late, Times
  <2>5. CASE Block \/ Submits \/ Lapse
    BY <1>1, <2>2, <2>5 DEF Block, Submits, Lapse
  <2>6. CASE EndsIt
    BY <1>1, <2>2, <2>6 DEF EndsIt, End, Outcome
  <2>7. CASE Edits
    BY <1>1, <2>7 DEF Edits, Edit, Revised
  <2>8. CASE UNCHANGED packetVars
    BY <1>1, <2>8 DEF packetVars
  <2> QED
    BY <1>1, <2>3, <2>4, <2>5, <2>6, <2>7, <2>8, Classified
<1> QED
  BY <1>1, Invariant, PTL DEF PacketSpec, OnlyTheReviewerInTime
=============================================================================
