------------------------------ MODULE FollowUp ------------------------------
(***************************************************************************)
(* What becomes of the owner's request to follow a delivered result up:    *)
(* the intent in review (107P), the draft plan (108P), the choices shown   *)
(* over Telegram (109P), his selection (110P), the delegation it           *)
(* authorizes (111P), its local execution (112P), the way its result takes *)
(* back through inbox, surface and delivery (113P), his answer to it       *)
(* (114P) and the memory proposed from it (115P).                          *)
(*                                                                         *)
(* Every stage is called with the record a former stage returned.  The     *)
(* caller may keep such a copy while the registry moves on, so a stage     *)
(* takes any copy that is out.  A record whose ids do not match is a       *)
(* payload that does not fit, whatever id is wrong in it.                  *)
(***************************************************************************)
EXTENDS DelegationAuthority, FiniteSets

CONSTANTS Choices,         \* kinds of options the owner may name
          Authorizations,  \* authorizations the owner gives, each with its cost request
          Fixtures,        \* fixtures the local execution is run with
          MaxSelections, MaxFollowUps, MaxAttempts, MaxAnswered  \* bounds on the registries

VARIABLES request,     \* the acknowledgement that asks for a follow-up: recorded or blocked
          intent, plan, surface,  \* the status of each record in its registry
          selections,  \* <<option, fits>> -> status
          followUps,   \* <<selection, authorization>> -> its record
          authorities, \* follow-up -> its delegation
          attempts,    \* <<follow-up, fixture>> -> status
          routes,      \* attempt -> status
          followInbox, followDeliveries,
          followCalls, \* the follow-ups whose result the transport was called for, in order
          replies,     \* <<attempt, action, fits>> -> status of the owner's answer
          proposals    \* reply -> status of the memory proposed from it

Reviewed == {"dismissed", "resolved_no_action"}

chainVars == <<request, intent, plan, surface>>
choiceVars == <<selections, followUps, authorities, attempts>>
resultVars == <<routes, followInbox, followDeliveries, followCalls, replies, proposals>>
followVars == <<chainVars, choiceVars, resultVars>>

FollowInit ==
  /\ request \in {"recorded", "blocked"}
  /\ intent = "none" /\ plan = "none" /\ surface = "none"
  /\ selections = << >> /\ followUps = << >> /\ authorities = << >> /\ attempts = << >>
  /\ routes = << >> /\ followInbox = <<>> /\ followDeliveries = << >> /\ followCalls = <<>>
  /\ replies = << >> /\ proposals = << >>

(* The copies a caller may hold: every status the record had, and the duplicate a further call is answered with. *)
Copies(status) == IF status = "none" THEN {} ELSE {status, "duplicate"}

IntentCopies == Copies(intent) \cup (IF intent \in Reviewed THEN {"pending_review"} ELSE {})

(* 107P: only the first call for an acknowledgement stores an intent. *)
CreateIntent ==
  /\ intent = "none"
  /\ intent' = IF request = "recorded" THEN "pending_review" ELSE "blocked"
  /\ UNCHANGED <<request, plan, surface, choiceVars, resultVars>>

ReviewIntent(status) ==
  /\ intent = "pending_review"
  /\ intent' = status
  /\ UNCHANGED <<request, plan, surface, choiceVars, resultVars>>

PlanStatus_OfAnyIntent(copy) == "drafted"

PlanStatus(copy) == IF copy = "pending_review" THEN "drafted" ELSE "blocked"

(* 108P: the plan is drafted from the copy of the intent the caller holds. *)
CreatePlan(copy) ==
  /\ plan = "none"
  /\ plan' = PlanStatus(copy)
  /\ UNCHANGED <<request, intent, surface, choiceVars, resultVars>>

SurfaceOf(copy) == IF copy = "drafted" THEN "rendered" ELSE "blocked"

(* 109P: the choices are rendered, and delivered by the call that renders them or never. *)
CreateSurface(copy) ==
  /\ surface = "none"
  /\ surface' = SurfaceOf(copy)
  /\ UNCHANGED <<request, intent, plan, choiceVars, resultVars>>

DeliverSurface(copy, binding, ownChat, arrives) ==
  /\ surface = "none"
  /\ surface' = IF SurfaceOf(copy) = "blocked" \/ DeliveryRefused(binding, ownChat) THEN "blocked"
                ELSE IF arrives THEN "delivered" ELSE "failed"
  /\ UNCHANGED <<request, intent, plan, choiceVars, resultVars>>

(* Whatever the result was: the lineage the planner reads does not say that it failed, nor that there is a prior version. *)
Offered == {"deeper_summary", "extract_questions", "human_review_checklist", "cancel_followup"}

ActiveSelections == {s \in DOMAIN selections : selections[s] \in {"selected", "cancelled"}}

SelectionRefused(copy, option, fits) ==
  \/ \E s \in ActiveSelections : s[1] # option
  \/ copy \notin {"rendered", "delivered"}
  \/ ~fits \/ option \notin Offered

(* 110P: a selection is known by its payload; the first answer to a payload stands. *)
Select(copy, option, fits) ==
  /\ <<option, fits>> \notin DOMAIN selections
  /\ Cardinality(DOMAIN selections) < MaxSelections
  /\ selections' = Put(selections, <<option, fits>>,
                       IF SelectionRefused(copy, option, fits) THEN "blocked"
                       ELSE IF option = "cancel_followup" THEN "cancelled"
                       ELSE "selected")
  /\ UNCHANGED <<chainVars, followUps, authorities, attempts, resultVars>>

(***************************************************************************)
(* 111P: an authorized selection opens a delegation of its own, binds the  *)
(* approval its cost calls for, and registers the handle, in one call.     *)
(***************************************************************************)
AuthorizationRefused(s, authorized, preflight, a) ==
  \/ selections[s] # "selected"
  \/ ~authorized
  \/ ~FollowUpOpens(preflight, a)

(* The preflight is of interest for what it opened. *)
FollowUpRecord(status, opens, preflight) == [status |-> status, preflight |-> IF opens THEN preflight ELSE "none"]

Authorize(s, z, authorized, preflight, a) ==
  LET id        == <<s, z>>
      authority == FollowUpAuthority(id, preflight, a)
      opens     == ~AuthorizationRefused(s, authorized, preflight, a)
      status    == IF selections[s] = "cancelled" THEN "cancelled_no_action"
                   ELSE IF opens /\ authority.state = "registered" THEN "registered"
                   ELSE "blocked"
  IN  /\ id \notin DOMAIN followUps
      /\ Cardinality(DOMAIN followUps) < MaxFollowUps
      /\ followUps' = Put(followUps, id, FollowUpRecord(status, opens, preflight))
      /\ authorities' = IF opens THEN Put(authorities, id, authority) ELSE authorities
      /\ UNCHANGED <<chainVars, selections, attempts, resultVars>>

(* 112P: the outcome is the fixture's; the delegation is read and not changed. *)
StillRegistered(f) == /\ followUps[f].status = "registered"
                      /\ authorities[f].state = "registered"
                      /\ authorities[f].handle = "registered"

Outcome(fixture) == IF fixture = "failing" THEN "failed" ELSE "completed"

Execute(f, fixture) ==
  /\ <<f, fixture>> \notin DOMAIN attempts
  /\ Cardinality(DOMAIN attempts) < MaxAttempts
  /\ attempts' = Put(attempts, <<f, fixture>>, IF StillRegistered(f) /\ fixture # "unfit" THEN Outcome(fixture) ELSE "blocked")
  /\ UNCHANGED <<chainVars, selections, followUps, authorities, resultVars>>

(* The event of an attempt; one whose payload speaks of effects does not pass stage 102P. *)
CandidateEvent(at) == Event(at[1], attempts[at], "local", at[2] # "soiled")

RouteRefused(at, binding) == \/ attempts[at] = "blocked"
                             \/ ~StillRegistered(at[1])
                             \/ binding # "enabled"

(* 113P: an accepted event settles the delegation before its result is delivered. *)
RouteRefusedEarly(at) ==
  /\ routes' = Put(routes, at, "blocked")
  /\ UNCHANGED <<authorities, followInbox, followDeliveries, followCalls>>

Quarantine(at, receipt) ==
  /\ receipt.record.status # "accepted"
  /\ routes' = Put(routes, at, "blocked")
  /\ followInbox' = receipt.inbox
  /\ UNCHANGED <<authorities, followDeliveries, followCalls>>

DeliverResult_Unsettled(at, receipt, arrives) ==
  LET sent == Delivered(followDeliveries, receipt.record, "enabled", TRUE, arrives)
  IN  /\ receipt.record.status = "accepted"
      /\ followInbox' = receipt.inbox
      /\ authorities' = authorities
      /\ followDeliveries' = sent.deliveries
      /\ followCalls' = IF sent.called THEN Append(followCalls, at[1]) ELSE followCalls
      /\ routes' = Put(routes, at, IF sent.deliveries[sent.id] = "delivered" THEN "routed" ELSE "blocked")

DeliverResult(at, receipt, arrives) ==
  LET sent == Delivered(followDeliveries, receipt.record, "enabled", TRUE, arrives)
  IN  /\ receipt.record.status = "accepted"
      /\ followInbox' = receipt.inbox
      /\ authorities' = receipt.registry
      /\ followDeliveries' = sent.deliveries
      /\ followCalls' = IF sent.called THEN Append(followCalls, at[1]) ELSE followCalls
      /\ routes' = Put(routes, at, IF sent.deliveries[sent.id] = "delivered" THEN "routed" ELSE "blocked")

Route(at, binding, arrives) ==
  /\ at \notin DOMAIN routes
  /\ IF RouteRefused(at, binding) THEN RouteRefusedEarly(at)
     ELSE LET receipt == Received(followInbox, authorities, CandidateEvent(at))
          IN  Quarantine(at, receipt) \/ DeliverResult(at, receipt, arrives)
  /\ UNCHANGED <<chainVars, selections, followUps, attempts, replies, proposals>>

ReplyStatus == [acknowledge_followup_result |-> "acknowledged",
                dismiss_followup_result |-> "dismissed",
                request_followup_result_lineage_summary |-> "lineage_summary_requested"]

ReplyRefused(at, fits) == at \notin DOMAIN routes \/ routes[at] # "routed" \/ ~fits

(* 114P *)
Reply(at, action, fits) ==
  LET id == <<at, action, fits>>
  IN  /\ id \notin DOMAIN replies
      /\ Cardinality(DOMAIN replies) < MaxAnswered
      /\ replies' = Put(replies, id, IF ReplyRefused(at, fits) THEN "blocked" ELSE ReplyStatus[action])
      /\ UNCHANGED <<chainVars, choiceVars, routes, followInbox, followDeliveries, followCalls, proposals>>

(***************************************************************************)
(* 115P: the text that is judged is the whole message, which names the     *)
(* task; every task on offer is named after a summary, questions or a      *)
(* checklist, words that make a task memory of any result.                 *)
(***************************************************************************)
Durable(at) == at[2] # "sensitive" /\ at[1][1][1] \in Offered \ {"cancel_followup"}

ProposalStatus(r) ==
  IF replies[r] # "acknowledged" THEN "rejected_source"
  ELSE IF Durable(r[1]) THEN "pending_user_review"
  ELSE "no_memory_recommended"

Propose(r) == /\ r \notin DOMAIN proposals
              /\ proposals' = Put(proposals, r, ProposalStatus(r))
              /\ UNCHANGED <<chainVars, choiceVars, routes, followInbox, followDeliveries, followCalls, replies>>

FollowNext ==
  \/ CreateIntent
  \/ \E status \in Reviewed : ReviewIntent(status)
  \/ \E copy \in IntentCopies : CreatePlan(copy)
  \/ \E copy \in Copies(plan) : CreateSurface(copy)
  \/ \E copy \in Copies(plan), binding \in Bindings, ownChat, arrives \in BOOLEAN :
       DeliverSurface(copy, binding, ownChat, arrives)
  \/ \E copy \in Copies(surface), option \in Choices, fits \in BOOLEAN : Select(copy, option, fits)
  \/ \E s \in DOMAIN selections, z \in Authorizations, authorized \in BOOLEAN, preflight \in Preflights :
       \E a \in Approvals(<<s, z>>) : Authorize(s, z, authorized, preflight, a)
  \/ \E f \in DOMAIN followUps, fixture \in Fixtures : Execute(f, fixture)
  \/ \E at \in DOMAIN attempts, binding \in Bindings, arrives \in BOOLEAN : Route(at, binding, arrives)
  \/ \E at \in DOMAIN attempts, action \in DOMAIN ReplyStatus, fits \in BOOLEAN : Reply(at, action, fits)
  \/ \E r \in DOMAIN replies : Propose(r)

FollowSpec == FollowInit /\ [][FollowNext]_followVars

(***************************************************************************)
(* Types; each record is about records there are, and a plan and a surface *)
(* are only drafted and rendered from what stands before them.             *)
(***************************************************************************)
FollowTypeOK ==
  /\ request \in {"recorded", "blocked"}
  /\ intent \in {"none", "pending_review", "blocked"} \cup Reviewed
  /\ plan \in {"none", "drafted", "blocked"} /\ surface \in {"none", "rendered", "delivered", "failed", "blocked"}
  /\ \A s \in DOMAIN selections : selections[s] \in {"selected", "cancelled", "blocked"}
  /\ \A f \in DOMAIN followUps : f[1] \in DOMAIN selections
  /\ DOMAIN authorities \subseteq DOMAIN followUps
  /\ \A f \in DOMAIN authorities : authorities[f].handle \in {"none", authorities[f].state} \cap Handles
  /\ \A at \in DOMAIN attempts : at[1] \in DOMAIN followUps
  /\ DOMAIN routes \subseteq DOMAIN attempts
  /\ \A r \in DOMAIN replies : r[1] \in DOMAIN attempts
  /\ DOMAIN proposals \subseteq DOMAIN replies

(***************************************************************************)
(* The owner chooses once: of the options of one surface at most one is    *)
(* ever selected, and after a cancellation no follow-up is registered.     *)
(***************************************************************************)
OneChoice ==
  /\ Cardinality({s[1] : s \in ActiveSelections}) <= 1
  /\ (\E s \in ActiveSelections : selections[s] = "cancelled")
       => \A f \in DOMAIN followUps : followUps[f].status # "registered"

(***************************************************************************)
(* However often a follow-up is executed and its attempts are routed, the  *)
(* owner is sent one result of it, and its delegation stands as that       *)
(* result says.                                                            *)
(***************************************************************************)
OneResult ==
  /\ \A i, j \in DOMAIN followCalls : followCalls[i] = followCalls[j] => i = j
  /\ \A at \in DOMAIN routes : routes[at] = "routed" => authorities[at[1]].state = attempts[at]

AskedStepByStep(r) ==
  LET f == r[1][1]
  IN  /\ replies[r] = "acknowledged" /\ r[2] = "acknowledge_followup_result"
      /\ \E i \in DOMAIN followCalls : followCalls[i] = f
      /\ followUps[f].preflight = "require_confirmation" => authorities[f].grounds.of = {f}
      /\ selections[f[1]] = "selected"
      /\ plan = "drafted" /\ surface \in {"rendered", "delivered"}
      /\ request = "recorded" /\ intent \in {"pending_review"} \cup Reviewed

(***************************************************************************)
(* The owner chooses once, and nothing is proposed to be remembered that   *)
(* he did not ask for step by step: he acknowledged the result, which was  *)
(* sent to him, of a delegation that stood on its own approval where its   *)
(* cost called for one, of an option he selected, on a surface of a plan,  *)
(* drafted from a request that was recorded.                               *)
(***************************************************************************)
NothingUnasked ==
  /\ OneChoice
  /\ \A r \in DOMAIN proposals : proposals[r] = "pending_user_review" => AskedStepByStep(r)
=============================================================================
