------------------------- MODULE DelegationAuthority -------------------------
(***************************************************************************)
(* A delegated task from its request to the delivery of its result, as     *)
(* values: the authority record and its handle (stage 102P), the inbox of  *)
(* completion events (103P), the surface made of an accepted event (104P)  *)
(* and its delivery over Telegram (105P).  AsyncResults runs these         *)
(* operators for the tasks the assistant delegates, FollowUp for the       *)
(* follow-ups of their results.                                            *)
(*                                                                         *)
(* A registered delegation has one handle, so the handle is identified     *)
(* with its delegation.  The evidence an event carries is compared as a    *)
(* whole: it is that of the delegation, or not.                            *)
(***************************************************************************)
EXTENDS Naturals, Sequences, Registries

(* How the cost preflight of a task may stand to its request. *)
Preflights == {"missing", "mismatch", "block", "require_confirmation", "allow"}

TerminalStates ==
  {"cancelled", "expired", "completed", "failed", "rejected", "blocked", "preflight_blocked"}

DelegationStates == TerminalStates \cup {"awaiting_approval", "approved_local", "registered"}

(* The approval a delegation rests on: the delegations it names, and when it was bound. *)
NoGrounds == [of |-> {}, at |-> 0]

NoDelegation == [state |-> "none", handle |-> "none", grounds |-> NoGrounds, last |-> "none"]

Handles == {"none", "registered", "cancelled", "expired", "completed", "failed", "blocked"}

Enters_WithoutHandle(d, state, decision) == [d EXCEPT !.state = state, !.last = decision]

Enters(d, state, decision) ==
  [d EXCEPT !.state = state, !.last = decision,
            !.handle = IF @ = "none" THEN "none" ELSE state]

Refused(d) == Enters(d, "blocked", "block")

PreflightState(preflight) ==
  CASE preflight = "allow"                -> "approved_local"
    [] preflight = "require_confirmation" -> "awaiting_approval"
    [] OTHER                              -> "preflight_blocked"

Opened(wellFormed, preflight) ==
  LET state == IF wellFormed THEN PreflightState(preflight) ELSE "blocked"
  IN  [NoDelegation EXCEPT
         !.state = state,
         !.last = CASE state = "approved_local"    -> "allow_local_register"
                    [] state = "awaiting_approval" -> "require_approval"
                    [] OTHER                       -> "block"]

(* The approval of an action packet (101P): whose request it answers, where it stands, and the last moment of its token. *)
ApprovalRequest(id) == [of |-> {id}, state |-> "awaiting_review", until |-> 0]

ApprovalFits_AnyTask(a, id, now) == a.state = "approved" /\ now <= a.until

ApprovalFits(a, id, now) == /\ a.state = "approved"
                            /\ now <= a.until
                            /\ a.of = {id}

Bound(d, id, a, now) ==
  IF d.state = "awaiting_approval" /\ ApprovalFits(a, id, now)
  THEN [Enters(d, "approved_local", "allow_local_register") EXCEPT !.grounds = [of |-> a.of, at |-> now]]
  ELSE Refused(d)

Registered(d) ==
  IF d.state = "approved_local"
  THEN [d EXCEPT !.state = "registered", !.handle = "registered", !.last = "allow_local_register"]
  ELSE Refused(d)

(* The delegation of a follow-up (111P): opened, bound to the approval its cost calls for, and registered in one call. *)
FollowUpOpens(preflight, a) ==
  \/ preflight = "allow"
  \/ preflight = "require_confirmation" /\ a.state = "approved"

FollowUpAuthority(id, preflight, a) ==
  LET opened == Opened(TRUE, preflight)
      bound  == IF preflight = "require_confirmation" THEN Bound(opened, id, a, 1) ELSE opened
  IN  Registered(bound)

Approvals(id) == {[of |-> {id}, state |-> "approved", until |-> 1], [of |-> {id}, state |-> "approved", until |-> 0],
                  [of |-> {}, state |-> "approved", until |-> 1], ApprovalRequest(id)}

Closed(d, state) ==
  IF d.state \in TerminalStates THEN Refused(d)
  ELSE Enters(d, state, IF state = "cancelled" THEN "cancel" ELSE "expire")

Cancelled(d) == Closed(d, "cancelled")
Expired(d) == Closed(d, "expired")

(* A completion event; its id is made of the delegation, the status and the reason, not of its contents. *)
Event(of, status, reason, genuine) == [of |-> of, status |-> status, reason |-> reason, genuine |-> genuine]

EventId(e) == <<e.of, e.status, e.reason>>

EventRefused(d, e) ==
  \/ d.handle = "none"
  \/ ~e.genuine
  \/ d.state \in {"cancelled", "expired", "completed", "failed"}

Recorded(d, e) ==
  IF EventRefused(d, e) THEN [d EXCEPT !.last = "block"]
  ELSE Enters(d, e.status, IF e.status = "completed" THEN "record_completion" ELSE "record_failure")

(***************************************************************************)
(* The inbox: a sequence of records, at most one first record and one      *)
(* duplicate of it for each event id.                                      *)
(***************************************************************************)
InboxRecord(id, status, bound) == [id |-> id, status |-> status, bound |-> bound]

FirstRecord(inbox, id) == {i \in DOMAIN inbox : inbox[i].id = id /\ inbox[i].status # "duplicate"}
DuplicateRecord(inbox, id) == {i \in DOMAIN inbox : inbox[i].id = id /\ inbox[i].status = "duplicate"}

Filed(inbox, registry, record) == [record |-> record, inbox |-> Append(inbox, record), registry |-> registry]

Repeated(inbox, registry, e) ==
  LET first == inbox[CHOOSE i \in FirstRecord(inbox, EventId(e)) : TRUE]
  IN  IF DuplicateRecord(inbox, EventId(e)) # {}
      THEN [record |-> inbox[CHOOSE i \in DuplicateRecord(inbox, EventId(e)) : TRUE],
            inbox |-> inbox, registry |-> registry]
      ELSE Filed(inbox, registry, InboxRecord(EventId(e), "duplicate", first.bound))

Applied(inbox, registry, e) ==
  LET updated  == Recorded(registry[e.of], e)
      accepted == updated.state \in {"completed", "failed"} /\ updated.last # "block"
  IN  Filed(inbox, [registry EXCEPT ![e.of] = updated],
            InboxRecord(EventId(e), IF accepted THEN "accepted" ELSE "quarantined", accepted))

Received(inbox, registry, e) ==
  IF FirstRecord(inbox, EventId(e)) # {} THEN Repeated(inbox, registry, e)
  ELSE IF registry[e.of].handle = "none" \/ e.status \notin {"completed", "failed"}
       THEN Filed(inbox, registry, InboxRecord(EventId(e), "quarantined", FALSE))
       ELSE Applied(inbox, registry, e)

(***************************************************************************)
(* The surface of a record, and its delivery.  The duplicate of an         *)
(* accepted record has a surface too, under the same surface id.           *)
(***************************************************************************)
HasSurface(record) == record.bound

(* A delivery is known by the record it shows and the chat it goes to: "" without a binding. *)
DeliveryId(record, chat) == <<record.id, record.status, chat>>

Bindings == {"none", "disabled", "enabled"}

Chat(binding) == IF binding = "none" THEN "" ELSE "chat"

DeliveryRefused(binding, ownChat) == binding # "enabled" \/ ~ownChat

(* What a delivery leaves: the records, and whether the transport was called. *)
Delivered(deliveries, record, binding, ownChat, arrives) ==
  LET id == DeliveryId(record, Chat(binding))
  IN  IF DeliveryRefused(binding, ownChat)
      THEN [deliveries |-> Put(deliveries, id, "blocked"), id |-> id, called |-> FALSE]
      ELSE IF id \in DOMAIN deliveries
      THEN [deliveries |-> deliveries, id |-> id, called |-> FALSE]
      ELSE [deliveries |-> Put(deliveries, id, IF arrives THEN "delivered" ELSE "failed"),
            id |-> id, called |-> TRUE]

=============================================================================
