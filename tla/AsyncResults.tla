----------------------------- MODULE AsyncResults -----------------------------
(***************************************************************************)
(* The tasks the assistant delegates, the events that come back for them,  *)
(* and what the owner sees and answers: stages 102P to 106P.  The binding  *)
(* of the owner's chat, the approval loop (101P) and the workers that send *)
(* events are the environment; nothing here is scheduled, so nothing is    *)
(* promised to happen.                                                     *)
(***************************************************************************)
EXTENDS DelegationAuthority, FiniteSets

CONSTANTS Tasks,      \* delegation ids
          Reasons,    \* reason codes of completion events
          MaxTime,    \* bound on the clock
          MaxEvents,  \* bound on the inbox
          MaxDeliveries, \* bound on the deliveries
          MaxAnswers  \* bound on the callbacks the owner answers with

ASSUME TimeAssumption == MaxTime \in Nat

VARIABLES tasks,       \* task -> its authority record
          preflights,  \* task -> how its cost preflight stands to it
          approvals,   \* task -> the action packet asked for it
          now,
          taskInbox,
          binding,     \* the owner's Telegram binding
          deliveries,  \* delivery id -> status
          calls,       \* delivery id -> what each call of the transport for it came to
          answers      \* acknowledgement id -> status

asyncVars == <<tasks, preflights, approvals, now, taskInbox, binding, deliveries, calls, answers>>

CallbackActions == {"acknowledge", "dismiss", "view_lineage_summary", "request_followup_pending"}

AsyncInit ==
  /\ tasks = [t \in Tasks |-> NoDelegation]
  /\ preflights \in [Tasks -> Preflights]
  /\ approvals = [t \in Tasks |-> ApprovalRequest(t)]
  /\ now = 0
  /\ taskInbox = <<>>
  /\ binding = "enabled"
  /\ deliveries = << >>
  /\ calls = << >>
  /\ answers = << >>

Sets(t, d) == /\ tasks' = [tasks EXCEPT ![t] = d]
              /\ UNCHANGED <<preflights, approvals, now, taskInbox, binding, deliveries, calls, answers>>

Delegate(t, wellFormed) == /\ tasks[t] = NoDelegation
                           /\ Sets(t, Opened(wellFormed, preflights[t]))

(* The approval of another task, which the caller may hold as well. *)
OtherApproval == [of |-> {}, state |-> "approved", until |-> MaxTime]

BindApproval(t, a) == /\ tasks[t] # NoDelegation
                      /\ Sets(t, Bound(tasks[t], t, a, now))

Register(t) == tasks[t] # NoDelegation /\ Sets(t, Registered(tasks[t]))
Cancel(t)   == tasks[t] # NoDelegation /\ Sets(t, Cancelled(tasks[t]))
Expire(t)   == tasks[t] # NoDelegation /\ Sets(t, Expired(tasks[t]))

(* The approval loop answers the packet asked for a task; a token is used when its packet is resumed. *)
Approve(t, until) ==
  /\ tasks[t].state = "awaiting_approval" /\ approvals[t].state = "awaiting_review"
  /\ approvals' = [approvals EXCEPT ![t] = [@ EXCEPT !.state = "approved", !.until = until]]
  /\ UNCHANGED <<tasks, preflights, now, taskInbox, binding, deliveries, calls, answers>>

Resume(t) ==
  /\ approvals[t].state = "approved"
  /\ approvals' = [approvals EXCEPT ![t].state = "resumed"]
  /\ UNCHANGED <<tasks, preflights, now, taskInbox, binding, deliveries, calls, answers>>

Tick == /\ now < MaxTime
        /\ now' = now + 1
        /\ UNCHANGED <<tasks, preflights, approvals, taskInbox, binding, deliveries, calls, answers>>

ReceiveEvent(e) ==
  LET receipt == Received(taskInbox, tasks, e)
  IN  /\ Len(receipt.inbox) <= MaxEvents
      /\ tasks' = receipt.registry
      /\ taskInbox' = receipt.inbox
      /\ UNCHANGED <<preflights, approvals, now, binding, deliveries, calls, answers>>

Rebind(b) == /\ b # binding
             /\ binding' = b
             /\ UNCHANGED <<tasks, preflights, approvals, now, taskInbox, deliveries, calls, answers>>

Deliver(record, ownChat, arrives) ==
  LET outcome == Delivered(deliveries, record, binding, ownChat, arrives)
      before  == IF outcome.id \in DOMAIN calls THEN calls[outcome.id] ELSE <<>>
  IN  /\ HasSurface(record)
      /\ outcome.id \in DOMAIN deliveries \/ Cardinality(DOMAIN deliveries) < MaxDeliveries
      /\ deliveries' = outcome.deliveries
      /\ calls' = Put(calls, outcome.id, IF outcome.called THEN Append(before, arrives) ELSE before)
      /\ UNCHANGED <<tasks, preflights, approvals, now, taskInbox, binding, answers>>

(***************************************************************************)
(* A button pressed under a delivered result.  The id of the answer is     *)
(* made of everything the callback says, so a callback that does not match *)
(* the delivery has an id of its own.                                      *)
(***************************************************************************)
CallbackRefused_WhenBlocked(delivery, action, matches) ==
  \/ delivery \notin DOMAIN deliveries
  \/ deliveries[delivery] = "blocked"
  \/ action \notin CallbackActions
  \/ ~matches

CallbackRefused(delivery, action, matches) ==
  \/ delivery \notin DOMAIN deliveries
  \/ deliveries[delivery] # "delivered"
  \/ action \notin CallbackActions
  \/ ~matches

Answer(delivery, action, matches) ==
  LET id == <<delivery, action, matches>>
  IN  /\ id \notin DOMAIN answers   \* a known answer is returned as it is
      /\ Cardinality(DOMAIN answers) < MaxAnswers
      /\ answers' = Put(answers, id, IF CallbackRefused(delivery, action, matches) THEN "blocked" ELSE "recorded")
      /\ UNCHANGED <<tasks, preflights, approvals, now, taskInbox, binding, deliveries, calls>>

Records == {taskInbox[i] : i \in DOMAIN taskInbox}

AsyncNext ==
  \/ \E t \in Tasks : \/ \E wellFormed \in BOOLEAN : Delegate(t, wellFormed)
                      \/ \E a \in {approvals[t], OtherApproval} : BindApproval(t, a)
                      \/ Register(t)
                      \/ Cancel(t)
                      \/ Expire(t)
                      \/ \E until \in 0..MaxTime : Approve(t, until)
                      \/ Resume(t)
  \/ Tick
  \/ \E t \in Tasks, s \in {"completed", "failed", "cancelled"}, r \in Reasons, genuine \in BOOLEAN :
       ReceiveEvent(Event(t, s, r, genuine))
  \/ \E b \in Bindings : Rebind(b)
  \/ \E record \in Records, ownChat, arrives \in BOOLEAN : Deliver(record, ownChat, arrives)
  \/ \E delivery \in DOMAIN deliveries, action \in {"acknowledge", "request_followup_pending", "run_followup_now"},
        matches \in BOOLEAN : Answer(delivery, action, matches)

AsyncSpec == AsyncInit /\ [][AsyncNext]_asyncVars

(***************************************************************************)
(* Types; a handle stands where its delegation stands; an event id has one *)
(* first record and one duplicate at most; every answer, call and delivery *)
(* is about something there is.                                            *)
(***************************************************************************)
AsyncTypeOK ==
  /\ now \in 0..MaxTime /\ binding \in Bindings
  /\ \A t \in Tasks : /\ tasks[t].state \in DelegationStates \cup {"none"}
                      /\ tasks[t].handle \in {"none", tasks[t].state} \cap Handles
                      /\ approvals[t].of = {t}
  /\ \A i \in DOMAIN taskInbox :
       /\ taskInbox[i].status \in {"accepted", "quarantined", "duplicate"}
       /\ \A j \in DOMAIN taskInbox : j # i /\ taskInbox[j].id = taskInbox[i].id
            => (taskInbox[j].status = "duplicate") # (taskInbox[i].status = "duplicate")
  /\ DOMAIN calls = DOMAIN deliveries
  /\ \A id \in DOMAIN deliveries : /\ deliveries[id] \in {"blocked", "delivered", "failed"}
                                   /\ \E record \in Records : DeliveryId(record, id[3]) = id
  /\ \A id \in DOMAIN answers : id[1] \in DOMAIN deliveries /\ answers[id] \in {"recorded", "blocked"}

(***************************************************************************)
(* A task has a handle only when its preflight let it pass, or when the    *)
(* approval it rests on answered its own request and was bound in time.    *)
(***************************************************************************)
HandledOnGrounds ==
  \A t \in Tasks : tasks[t].handle # "none" =>
    \/ preflights[t] = "allow"
    \/ /\ preflights[t] = "require_confirmation"
       /\ tasks[t].grounds.of = {t}
       /\ tasks[t].grounds.at <= approvals[t].until

(***************************************************************************)
(* However often a result is handed over again, the binding is switched    *)
(* and the transport fails, the transport is called once for a record and  *)
(* a chat.                                                                 *)
(***************************************************************************)
SentOnce == \A id \in DOMAIN calls : Len(calls[id]) <= 1

(***************************************************************************)
(* What the owner answered was put before him: an answer is recorded only  *)
(* to a delivery that was sent, once, and arrived.                         *)
(***************************************************************************)
AnswersWhatWasSent ==
  /\ SentOnce
  /\ \A id \in DOMAIN answers : answers[id] = "recorded" =>
       id[1] \in DOMAIN calls /\ calls[id[1]] = <<TRUE>>
=============================================================================
