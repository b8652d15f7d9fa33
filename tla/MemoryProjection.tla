-------------------------- MODULE MemoryProjection --------------------------
(***************************************************************************)
(* Which memories a request may see (99P).  An item is                     *)
(*   [order, owner, robot, kind, status, scopes, uses, sensitivity,        *)
(*    visibility, actors, group, boundary, preference, summarised];        *)
(* order is the place of its id, actors who is named on it, summarised     *)
(* whether it has a bounded summary of its own.  A request is              *)
(*   [actor, role, owner, robot, scope, use, decides, audits, most].       *)
(***************************************************************************)
EXTENDS Integers, FiniteSets

Roles        == {"owner_admin", "caregiver", "care_recipient", "robot", "routine"}
Scopes       == {"general", "caregiver", "routine", "telegram", "hermes_os", "skill_specific"}
Uses         == {"answer_personalization", "boundary_enforcement", "caregiver_context", "routine_context",
                 "telegram_context", "hermes_os_context", "skill_context", "audit_only"}
Unusable     == {"revoked", "stale", "proposed", "conflicted"}
SensitiveOf  == {"personal", "caregiver", "medical", "legal", "financial", "safety_critical"}
MaxItemsCap  == 20

(* The skill scope is never asked for here: a request with it names its skill and is refused without one. *)
RequestRejected(request) ==
  \/ request.role \notin Roles \/ request.scope \notin Scopes \ {"skill_specific"} \/ request.use \notin Uses
  \/ request.audits /\ request.decides
  \/ request.most <= 0

(* A boundary kept before there were care recipients counts as theirs. *)
OwnBoundary(request, item) ==
  /\ request.actor = item.owner /\ item.boundary
  /\ item.sensitivity = "ordinary" /\ item.visibility = "owner_private"

ActorRefused(request, item) ==
  CASE request.role = "owner_admin" -> request.actor # request.owner
    [] request.role = "caregiver" -> request.scope # "caregiver" \/ request.actor \notin item.actors
    [] request.role = "care_recipient" ->
         \/ request.scope # "caregiver"
         \/ /\ ~OwnBoundary(request, item)
            /\ request.actor \notin item.actors \/ item.visibility # "care_recipient_facing"
    [] OTHER ->
         /\ item.visibility \in {"caregiver_private", "care_recipient_facing"}
         /\ request.actor \notin item.actors

(* Everything but the conflict of a preference with a boundary. *)
Excluded(request, item) ==
  \/ item.owner # request.owner \/ item.robot # request.robot
  \/ ActorRefused(request, item)
  \/ request.role = "routine" /\ request.scope # "routine"
  \/ request.scope \notin item.scopes \/ request.use \notin item.uses
  \/ item.status \in Unusable
  \/ item.status = "never-use-for-decisions" /\ request.decides
  \/ item.sensitivity = "credential_like"

(* A sensitive item is seen only through its own summary. *)
Summarised(request, item) ==
  \/ item.sensitivity = "ordinary"
  \/ /\ item.sensitivity \in SensitiveOf /\ item.summarised
     /\ request.actor = request.owner \/ request.actor \in item.actors
     /\ request.role = "care_recipient" => item.visibility = "care_recipient_facing" \/ OwnBoundary(request, item)
     /\ request.role = "caregiver" => request.scope = "caregiver"

NoGroup == "none"

HeldGroups(request, items) ==
  {item.group : item \in {i \in items : /\ i.boundary /\ i.group # NoGroup
                                        /\ ~Excluded(request, i) /\ Summarised(request, i)}}

(* Boundaries come first, then by id. *)
Before_ById(a, b) == a.order < b.order

Before(a, b) == IF a.boundary = b.boundary THEN a.order < b.order ELSE a.boundary

Candidates(request, items) ==
  {item \in items : /\ ~Excluded(request, item) /\ Summarised(request, item)
                    /\ ~(item.preference /\ item.group # NoGroup /\ item.group \in HeldGroups(request, items))}

(* What is handed over; an audit is handed nothing. *)
Projected(request, items) ==
  LET most       == IF request.most > MaxItemsCap THEN MaxItemsCap ELSE request.most
      candidates == Candidates(request, items)
  IN  IF RequestRejected(request) \/ request.audits
      THEN {}
      ELSE {item \in candidates : Cardinality({other \in candidates : Before(other, item)}) < most}
=============================================================================
