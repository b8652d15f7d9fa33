--------------------------- MODULE DelegationProofs ---------------------------
(***************************************************************************)
(* Proofs about the delegation of tasks (AsyncResults) and of follow-ups   *)
(* (FollowUp), for any tasks, options, authorizations and bounds.  A task  *)
(* has a handle only on grounds of its own, and an answer of the owner is  *)
(* recorded only to a result that was sent to him, once, and arrived.  A   *)
(* follow-up has one result, however often it is executed and routed, and  *)
(* nothing is proposed to be remembered that he did not ask for step by    *)
(* step.                                                                   *)
(*                                                                         *)
(* Both rest on the same lemmas about the authority record: one for each   *)
(* operator of DelegationAuthority, over any set of ids.                   *)
(***************************************************************************)
EXTENDS AsyncResults, FollowUp, FiniteSetTheorems, TLAPS

Decisions == {"none", "allow_local_register", "require_approval", "block", "cancel", "expire",
              "record_completion", "record_failure"}

DelegationRecords(Ids) == [state: DelegationStates \cup {"none"}, handle: Handles,
                           grounds: [of: SUBSET Ids, at: Nat], last: Decisions]

(* The states in which a delegation ends after it was opened. *)
EndStates == {"cancelled", "expired", "completed", "failed", "blocked"}

ApprovalRecords(Ids) == [of: SUBSET Ids, state: {"awaiting_review", "approved", "resumed"}, until: Nat]

(* What a delegation may rest on: its preflight alone, or the approval it was bound to. *)
Grounded(d, t, preflight, a) ==
  \/ preflight = "allow"
  \/ /\ preflight = "require_confirmation"
     /\ d.grounds.of = {t}
     /\ d.grounds.at <= a.until
     /\ a.state # "awaiting_review"

(***************************************************************************)
(* A record is fit for its task: its handle stands where it stands, it     *)
(* awaits an approval only when its preflight calls for one, and is        *)
(* grounded before it has a handle, from the moment it may be registered.  *)
(* That the approval is not awaiting its review any more keeps the time it *)
(* is good for from being set again.                                       *)
(***************************************************************************)
Fit(d, t, preflight, a) ==
  /\ d.handle \in {"none", d.state}
  /\ d.state = "awaiting_approval" => preflight = "require_confirmation"
  /\ d.state = "approved_local" \/ d.handle # "none" => Grounded(d, t, preflight, a)

-----------------------------------------------------------------------------
(* The authority record: what each step of it leaves. *)

(* A record that enters a state which awaits no approval and grants none stays fit. *)
LEMMA EntersFit ==
  ASSUME NEW Ids, NEW d \in DelegationRecords(Ids), NEW state \in EndStates, NEW decision \in Decisions,
         NEW t, NEW preflight, NEW a, Fit(d, t, preflight, a)
  PROVE  /\ Enters(d, state, decision) \in DelegationRecords(Ids)
         /\ Fit(Enters(d, state, decision), t, preflight, a)
         /\ Enters(d, state, decision).state = state /\ Enters(d, state, decision).last = decision
<1>1. state \in Handles /\ state \in DelegationStates /\ state \notin {"awaiting_approval", "approved_local"}
  BY DEF EndStates, Handles, DelegationStates, TerminalStates
<1>2. Enters(d, state, decision) \in DelegationRecords(Ids)
  BY <1>1 DEF Enters, DelegationRecords, Handles
<1>3. /\ Enters(d, state, decision).state = state
      /\ Enters(d, state, decision).last = decision
      /\ Enters(d, state, decision).grounds = d.grounds
      /\ d.handle = "none" => Enters(d, state, decision).handle = "none"
      /\ Enters(d, state, decision).handle \in {"none", state}
  BY DEF Enters, DelegationRecords
<1> QED  BY <1>1, <1>2, <1>3 DEF Fit, Grounded

LEMMA RefusedFit ==
  ASSUME NEW Ids, NEW d \in DelegationRecords(Ids), NEW t, NEW preflight, NEW a, Fit(d, t, preflight, a)
  PROVE  Refused(d) \in DelegationRecords(Ids) /\ Fit(Refused(d), t, preflight, a) /\ Refused(d).state = "blocked"
<1>1. "blocked" \in EndStates /\ "block" \in Decisions
  BY DEF EndStates, Decisions
<1> QED  BY <1>1, EntersFit DEF Refused

LEMMA OpenedFit ==
  ASSUME NEW Ids, NEW wellFormed \in BOOLEAN, NEW preflight, NEW t, NEW a
  PROVE  Opened(wellFormed, preflight) \in DelegationRecords(Ids) /\ Fit(Opened(wellFormed, preflight), t, preflight, a)
<1> DEFINE state == IF wellFormed THEN PreflightState(preflight) ELSE "blocked"
           last  == CASE state = "approved_local"    -> "allow_local_register"
                      [] state = "awaiting_approval" -> "require_approval"
                      [] OTHER                       -> "block"
<1>1. /\ state \in DelegationStates
      /\ state = "approved_local" => preflight = "allow"
      /\ state = "awaiting_approval" => preflight = "require_confirmation"
  BY DEF PreflightState, DelegationStates, TerminalStates
<1>2. last \in Decisions
  BY DEF Decisions
<1>3. Opened(wellFormed, preflight) = [NoDelegation EXCEPT !.state = state, !.last = last]
  BY DEF Opened
<1> HIDE DEF state, last
<1>4. Opened(wellFormed, preflight) = [state |-> state, handle |-> "none", grounds |-> NoGrounds, last |-> last]
  BY <1>3 DEF NoDelegation
<1>5. NoGrounds \in [of: SUBSET Ids, at: Nat]
  BY DEF NoGrounds
<1> QED  BY <1>1, <1>2, <1>4, <1>5 DEF DelegationRecords, Handles, Fit, Grounded

LEMMA BoundFit ==
  ASSUME NEW Ids, NEW d \in DelegationRecords(Ids), NEW t \in Ids, NEW preflight, NEW a \in ApprovalRecords(Ids), NEW b \in ApprovalRecords(Ids),
         Fit(d, t, preflight, a), b.of = {t} => b = a, NEW time \in Nat
  PROVE  Bound(d, t, b, time) \in DelegationRecords(Ids) /\ Fit(Bound(d, t, b, time), t, preflight, a)
<1>1. CASE d.state = "awaiting_approval" /\ ApprovalFits(b, t, time)
  <2> DEFINE e == Enters(d, "approved_local", "allow_local_register")
  <2>0. d.handle = "none"
    BY <1>1 DEF Fit, DelegationRecords, Handles
  <2>1. e \in DelegationRecords(Ids) /\ e.state = "approved_local" /\ e.handle = "none"
    BY <2>0 DEF Enters, DelegationRecords, DelegationStates, Decisions, Handles
  <2>2. Bound(d, t, b, time) = [e EXCEPT !.grounds = [of |-> b.of, at |-> time]]
    BY <1>1 DEF Bound
  <2>3. b = a /\ time <= a.until /\ a.state = "approved" /\ a.of = {t}
    BY <1>1 DEF ApprovalFits
  <2>4. preflight = "require_confirmation"
    BY <1>1 DEF Fit
  <2> HIDE DEF e
  <2>5. [of |-> {t}, at |-> time] \in [of: SUBSET Ids, at: Nat]
    OBVIOUS
  <2>6. Bound(d, t, b, time) \in DelegationRecords(Ids) /\ Bound(d, t, b, time).state = "approved_local"
        /\ Bound(d, t, b, time).handle = "none"
        /\ Bound(d, t, b, time).grounds = [of |-> {t}, at |-> time]
    BY <2>1, <2>2, <2>3, <2>5 DEF DelegationRecords
  <2> QED  BY <2>3, <2>4, <2>6 DEF Fit, Grounded
<1>2. CASE ~(d.state = "awaiting_approval" /\ ApprovalFits(b, t, time))
  BY <1>2, RefusedFit DEF Bound
<1> QED  BY <1>1, <1>2

LEMMA RegisteredFit ==
  ASSUME NEW Ids, NEW d \in DelegationRecords(Ids), NEW t, NEW preflight, NEW a, Fit(d, t, preflight, a)
  PROVE  Registered(d) \in DelegationRecords(Ids) /\ Fit(Registered(d), t, preflight, a)
<1>1. CASE d.state = "approved_local"
  <2>1. Registered(d) \in DelegationRecords(Ids) /\ Registered(d).state = "registered"
        /\ Registered(d).handle = "registered" /\ Registered(d).grounds = d.grounds
    BY <1>1 DEF Registered, DelegationRecords, DelegationStates, Decisions, Handles
  <2> QED  BY <1>1, <2>1 DEF Fit, Grounded
<1>2. CASE d.state # "approved_local"
  BY <1>2, RefusedFit DEF Registered
<1> QED  BY <1>1, <1>2

LEMMA ClosedFit ==
  ASSUME NEW Ids, NEW d \in DelegationRecords(Ids), NEW t, NEW preflight, NEW a, Fit(d, t, preflight, a), NEW state \in {"cancelled", "expired"}
  PROVE  Closed(d, state) \in DelegationRecords(Ids) /\ Fit(Closed(d, state), t, preflight, a)
<1> DEFINE last == IF state = "cancelled" THEN "cancel" ELSE "expire"
<1>1. state \in EndStates /\ last \in Decisions
  BY DEF EndStates, Decisions
<1>2. Closed(d, state) \in {Refused(d), Enters(d, state, last)}
  BY DEF Closed
<1> HIDE DEF last
<1> QED  BY <1>1, <1>2, RefusedFit, EntersFit

(* An event that is not refused leaves a delegation where it says, on the grounds it had. *)
LEMMA RecordedState ==
  ASSUME NEW Ids, NEW d \in DelegationRecords(Ids), d.handle \in {"none", d.state}, NEW e, e.status \in {"completed", "failed"}
  PROVE  /\ Recorded(d, e) \in DelegationRecords(Ids)
         /\ Recorded(d, e).handle \in {"none", Recorded(d, e).state}
         /\ Recorded(d, e).grounds = d.grounds
         /\ IF EventRefused(d, e) THEN Recorded(d, e).last = "block" ELSE Recorded(d, e).state = e.status
<1>1. CASE EventRefused(d, e)
  BY <1>1 DEF Recorded, DelegationRecords, Decisions
<1>2. CASE ~EventRefused(d, e)
  <2>1. e.status \in Handles /\ e.status \in DelegationStates
    BY DEF Handles, DelegationStates, TerminalStates
  <2> QED  BY <1>2, <2>1 DEF Recorded, Enters, DelegationRecords, Decisions, Handles
<1> QED  BY <1>1, <1>2

LEMMA RecordedFit ==
  ASSUME NEW Ids, NEW d \in DelegationRecords(Ids), NEW t, NEW preflight, NEW a, Fit(d, t, preflight, a),
         NEW e, e.status \in {"completed", "failed"}
  PROVE  Recorded(d, e) \in DelegationRecords(Ids) /\ Fit(Recorded(d, e), t, preflight, a)
<1>1. CASE EventRefused(d, e)
  <2>1. /\ Recorded(d, e) \in DelegationRecords(Ids)
        /\ Recorded(d, e).state = d.state /\ Recorded(d, e).handle = d.handle /\ Recorded(d, e).grounds = d.grounds
    BY <1>1 DEF Recorded, DelegationRecords, Decisions
  <2> QED  BY <2>1 DEF Fit, Grounded
<1>2. CASE ~EventRefused(d, e)
  <2> DEFINE last == IF e.status = "completed" THEN "record_completion" ELSE "record_failure"
  <2>1. e.status \in EndStates /\ last \in Decisions
    BY DEF EndStates, Decisions
  <2>2. Recorded(d, e) = Enters(d, e.status, last)
    BY <1>2 DEF Recorded
  <2> HIDE DEF last
  <2> QED  BY <2>1, <2>2, EntersFit
<1> QED  BY <1>1, <1>2

-----------------------------------------------------------------------------
(* The inbox: what receiving an event leaves. *)

InboxRecords(Ids) == [id: Ids, status: {"accepted", "quarantined", "duplicate"}, bound: BOOLEAN]

(* The answer to a repeated event is a duplicate, and its registry stays. *)
LEMMA RepeatedIsDuplicate ==
  ASSUME NEW Ids, NEW inbox \in Seq(InboxRecords(Ids)), NEW registry, NEW e, EventId(e) \in Ids,
         FirstRecord(inbox, EventId(e)) # {}
  PROVE  LET r == Received(inbox, registry, e)
         IN  /\ r.registry = registry
             /\ r.record \in InboxRecords(Ids) /\ r.record.status = "duplicate" /\ r.record.id = EventId(e)
             /\ IF DuplicateRecord(inbox, EventId(e)) # {} THEN r.inbox = inbox
                ELSE r.inbox = Append(inbox, r.record)
<1> DEFINE id == EventId(e)
           i  == CHOOSE n \in FirstRecord(inbox, id) : TRUE
           j  == CHOOSE n \in DuplicateRecord(inbox, id) : TRUE
<1>1. i \in DOMAIN inbox /\ inbox[i] \in InboxRecords(Ids)
  BY DEF FirstRecord
<1>2. DuplicateRecord(inbox, id) # {} => /\ inbox[j] \in InboxRecords(Ids)
                                         /\ inbox[j].status = "duplicate" /\ inbox[j].id = id
  BY DEF DuplicateRecord
<1>3. Received(inbox, registry, e) = Repeated(inbox, registry, e)
  BY DEF Received
<1>4. CASE DuplicateRecord(inbox, id) # {}
  <2>1. Repeated(inbox, registry, e) = [record |-> inbox[j], inbox |-> inbox, registry |-> registry]
    BY <1>4 DEF Repeated
  <2> QED  BY <1>2, <1>3, <1>4, <2>1
<1>5. CASE DuplicateRecord(inbox, id) = {}
  <2> DEFINE record == InboxRecord(id, "duplicate", inbox[i].bound)
  <2>1. Repeated(inbox, registry, e) = [record |-> record, inbox |-> Append(inbox, record), registry |-> registry]
    BY <1>5 DEF Repeated, Filed
  <2>2. inbox[i].bound \in BOOLEAN
    BY <1>1 DEF InboxRecords
  <2>3. record \in InboxRecords(Ids) /\ record.status = "duplicate" /\ record.id = id
    BY <2>2 DEF InboxRecord, InboxRecords
  <2> QED  BY <1>3, <1>5, <2>1, <2>3
<1> QED  BY <1>4, <1>5

(* The first record of an event: an accepted one leaves the delegation where the event says. *)
FiledFirst(Ids, inbox, registry, e, r) ==
  /\ r.record \in InboxRecords(Ids) /\ r.record.status # "duplicate" /\ r.record.id = EventId(e)
  /\ r.inbox = Append(inbox, r.record)
  /\ \/ r.registry = registry /\ r.record.status = "quarantined"
     \/ /\ e.status \in {"completed", "failed"} /\ registry[e.of].handle # "none"
        /\ r.registry = [registry EXCEPT ![e.of] = Recorded(registry[e.of], e)]
        /\ r.record.status = "accepted" => Recorded(registry[e.of], e).last # "block"

LEMMA FirstIsFiled ==
  ASSUME NEW Ids, NEW inbox \in Seq(InboxRecords(Ids)), NEW registry, NEW e, EventId(e) \in Ids,
         FirstRecord(inbox, EventId(e)) = {}
  PROVE  FiledFirst(Ids, inbox, registry, e, Received(inbox, registry, e))
<1> DEFINE id == EventId(e)
           updated  == Recorded(registry[e.of], e)
           accepted == updated.state \in {"completed", "failed"} /\ updated.last # "block"
           early    == InboxRecord(id, "quarantined", FALSE)
           record   == InboxRecord(id, IF accepted THEN "accepted" ELSE "quarantined", accepted)
<1>1. CASE registry[e.of].handle = "none" \/ e.status \notin {"completed", "failed"}
  <2>1. Received(inbox, registry, e) = [record |-> early, inbox |-> Append(inbox, early), registry |-> registry]
    BY <1>1 DEF Received, Filed
  <2>2. early \in InboxRecords(Ids) /\ early.status = "quarantined" /\ early.id = id
    BY DEF InboxRecord, InboxRecords
  <2> HIDE DEF early
  <2> DEFINE r == Received(inbox, registry, e)
  <2>3. r.record = early /\ r.inbox = Append(inbox, early) /\ r.registry = registry
    BY <2>1
  <2> HIDE DEF r
  <2>4. /\ r.record \in InboxRecords(Ids) /\ r.record.status = "quarantined" /\ r.record.id = id
        /\ r.inbox = Append(inbox, r.record) /\ r.registry = registry
    BY <2>2, <2>3
  <2> QED  BY <2>4 DEF r, FiledFirst
<1>2. CASE ~(registry[e.of].handle = "none" \/ e.status \notin {"completed", "failed"})
  <2>1. Received(inbox, registry, e) = [record |-> record, inbox |-> Append(inbox, record),
                                        registry |-> [registry EXCEPT ![e.of] = updated]]
    BY <1>2 DEF Received, Filed, Applied
  <2>2. record \in InboxRecords(Ids) /\ record.status # "duplicate" /\ record.id = id
        /\ (record.status = "accepted" => updated.last # "block")
    BY DEF InboxRecord, InboxRecords
  <2> HIDE DEF record
  <2>3. LET r == Received(inbox, registry, e)
        IN  r.record = record /\ r.inbox = Append(inbox, record) /\ r.registry = [registry EXCEPT ![e.of] = updated]
    BY <2>1
  <2> DEFINE r == Received(inbox, registry, e)
  <2> HIDE DEF r, id
  <2>4. /\ r.record \in InboxRecords(Ids) /\ r.record.status # "duplicate" /\ r.record.id = id
        /\ r.inbox = Append(inbox, r.record)
        /\ r.registry = [registry EXCEPT ![e.of] = updated]
        /\ r.record.status = "accepted" => updated.last # "block"
    BY <2>2, <2>3 DEF r
  <2>5. e.status \in {"completed", "failed"} /\ registry[e.of].handle # "none"
    BY <1>2
  <2> QED  BY <2>4, <2>5 DEF r, id, FiledFirst
<1> QED  BY <1>1, <1>2

-----------------------------------------------------------------------------

(* Delegated tasks: on what grounds a task has a handle. *)

TasksInv ==
  /\ now \in Nat
  /\ tasks \in [Tasks -> DelegationRecords(Tasks)]
  /\ approvals \in [Tasks -> ApprovalRecords(Tasks)]
  /\ \A t \in Tasks : approvals[t].of = {t} /\ Fit(tasks[t], t, preflights[t], approvals[t])

LEMMA TasksInitially == AsyncInit => TasksInv
<1> SUFFICES ASSUME AsyncInit PROVE TasksInv
  OBVIOUS
<1>1. /\ NoDelegation \in DelegationRecords(Tasks)
      /\ NoDelegation.state = "none" /\ NoDelegation.handle = "none"
  BY DEF NoDelegation, NoGrounds, DelegationRecords, Decisions, Handles
<1>2. \A t \in Tasks : ApprovalRequest(t) \in ApprovalRecords(Tasks) /\ ApprovalRequest(t).of = {t}
  BY DEF ApprovalRequest, ApprovalRecords
<1>3. \A t \in Tasks : tasks[t] = NoDelegation /\ approvals[t] = ApprovalRequest(t)
  BY DEF AsyncInit
<1>4. tasks \in [Tasks -> DelegationRecords(Tasks)] /\ approvals \in [Tasks -> ApprovalRecords(Tasks)] /\ now \in Nat
  BY <1>1, <1>2 DEF AsyncInit
<1>5. \A t \in Tasks : Fit(tasks[t], t, preflights[t], approvals[t])
  BY <1>1, <1>3 DEF Fit
<1> QED  BY <1>2, <1>3, <1>4, <1>5 DEF TasksInv

(* A step that changes one record to one that is fit. *)
LEMMA SetsFit ==
  ASSUME TasksInv, NEW t \in Tasks, NEW d \in DelegationRecords(Tasks), Fit(d, t, preflights[t], approvals[t]),
         tasks' = [tasks EXCEPT ![t] = d], UNCHANGED <<preflights, approvals, now>>
  PROVE  TasksInv'
  BY DEF TasksInv

LEMMA ApprovedRecord ==
  ASSUME NEW a \in ApprovalRecords(Tasks), NEW until \in Nat
  PROVE  LET b == [a EXCEPT !.state = "approved", !.until = until]
         IN  b \in ApprovalRecords(Tasks) /\ b.of = a.of
  BY DEF ApprovalRecords

LEMMA TasksStep ==
  ASSUME TasksInv, [AsyncNext]_asyncVars
  PROVE  TasksInv'
<1> USE DEF TasksInv
<1>1. ASSUME NEW t \in Tasks, NEW wellFormed \in BOOLEAN, Delegate(t, wellFormed)
      PROVE  TasksInv'
  BY <1>1, OpenedFit, SetsFit DEF Delegate, Sets
<1>2. ASSUME NEW t \in Tasks, NEW a \in {approvals[t], OtherApproval}, BindApproval(t, a)
      PROVE  TasksInv'
  <2>1. PICK b \in ApprovalRecords(Tasks) : (b.of = {t} => b = approvals[t]) /\ Bound(tasks[t], t, a, now) = Bound(tasks[t], t, b, now)
    <3>1. CASE a = approvals[t]
      BY <3>1
    <3>2. CASE a = OtherApproval
      <4> DEFINE c == [of |-> {}, state |-> "approved", until |-> 0]
      <4>1. c \in ApprovalRecords(Tasks) /\ c.of # {t} /\ OtherApproval.of # {t}
        BY DEF ApprovalRecords, OtherApproval
      <4> HIDE DEF c
      <4> QED  BY <3>2, <4>1 DEF Bound, ApprovalFits
    <3> QED  BY <3>1, <3>2
  <2>2. Bound(tasks[t], t, b, now) \in DelegationRecords(Tasks) /\ Fit(Bound(tasks[t], t, b, now), t, preflights[t], approvals[t])
    BY <2>1, BoundFit
  <2> QED  BY <1>2, <2>1, <2>2, SetsFit DEF BindApproval, Sets
<1>3. ASSUME NEW t \in Tasks, Register(t)
      PROVE  TasksInv'
  BY <1>3, RegisteredFit, SetsFit DEF Register, Sets
<1>4. ASSUME NEW t \in Tasks, Cancel(t) \/ Expire(t)
      PROVE  TasksInv'
  BY <1>4, ClosedFit, SetsFit DEF Cancel, Expire, Cancelled, Expired, Sets
<1>5. ASSUME NEW t \in Tasks, NEW until \in 0..MaxTime, Approve(t, until)
      PROVE  TasksInv'
  <2>1. tasks' = tasks /\ preflights' = preflights /\ now' = now
        /\ approvals[t].state = "awaiting_review" /\ tasks[t].state = "awaiting_approval"
    BY <1>5 DEF Approve
  <2>2. /\ approvals' \in [Tasks -> ApprovalRecords(Tasks)]
        /\ \A u \in Tasks : approvals'[u].of = approvals[u].of
        /\ \A u \in Tasks : u # t => approvals'[u] = approvals[u]
    <3>1. until \in Nat
      BY TimeAssumption
    <3>2. approvals' = [approvals EXCEPT ![t] = [@ EXCEPT !.state = "approved", !.until = until]]
      BY <1>5 DEF Approve
    <3> DEFINE b == [approvals[t] EXCEPT !.state = "approved", !.until = until]
    <3>3. b \in ApprovalRecords(Tasks) /\ b.of = approvals[t].of
      BY <3>1, ApprovedRecord
    <3>4. approvals' = [approvals EXCEPT ![t] = b]
      BY <3>2
    <3> HIDE DEF b
    <3> QED  BY <3>3, <3>4
  <2>3. Fit(tasks[t], t, preflights[t], approvals'[t])
    BY <2>1 DEF Fit, Grounded
  <2> QED  BY <2>1, <2>2, <2>3
<1>6. ASSUME NEW t \in Tasks, Resume(t)
      PROVE  TasksInv'
  <2>1. /\ approvals' \in [Tasks -> ApprovalRecords(Tasks)]
        /\ \A u \in Tasks : approvals'[u].of = approvals[u].of /\ approvals'[u].until = approvals[u].until
        /\ \A u \in Tasks : u # t => approvals'[u] = approvals[u]
        /\ approvals'[t].state = "resumed"
    BY <1>6 DEF Resume, ApprovalRecords
  <2>2. Fit(tasks[t], t, preflights[t], approvals'[t])
    BY <2>1 DEF Fit, Grounded
  <2> QED  BY <1>6, <2>1, <2>2 DEF Resume
<1>7. CASE Tick
  BY <1>7 DEF Tick
<1>8. ASSUME NEW t \in Tasks, NEW s \in {"completed", "failed", "cancelled"}, NEW r \in Reasons, NEW genuine \in BOOLEAN, ReceiveEvent(Event(t, s, r, genuine))
      PROVE  TasksInv'
  <2> DEFINE e == Event(t, s, r, genuine)
  <2>1. UNCHANGED <<preflights, approvals, now>> /\ tasks' = Received(taskInbox, tasks, e).registry /\ e.of = t
    BY <1>8 DEF ReceiveEvent, Event
  <2> HIDE DEF e
  <2>2. CASE tasks' = tasks
    BY <2>1, <2>2
  <2>3. CASE e.status \in {"completed", "failed"} /\ tasks' = [tasks EXCEPT ![t] = Recorded(tasks[t], e)]
    BY <2>1, <2>3, RecordedFit, SetsFit
  <2>4. \/ tasks' = tasks
        \/ e.status \in {"completed", "failed"} /\ tasks' = [tasks EXCEPT ![t] = Recorded(tasks[t], e)]
    <3>1. \/ Received(taskInbox, tasks, e).registry = tasks
          \/ /\ e.status \in {"completed", "failed"}
             /\ Received(taskInbox, tasks, e).registry = [tasks EXCEPT ![e.of] = Recorded(tasks[e.of], e)]
      BY DEF Received, Repeated, Applied, Filed
    <3> QED  BY <2>1, <3>1
  <2> QED  BY <2>2, <2>3, <2>4
<1>9. ASSUME NEW b, Rebind(b)
      PROVE  TasksInv'
  BY <1>9 DEF Rebind
<1>10. ASSUME NEW record, NEW ownChat, NEW arrives, Deliver(record, ownChat, arrives)
       PROVE  TasksInv'
  BY <1>10 DEF Deliver
<1>11. ASSUME NEW delivery, NEW action, NEW matches, Answer(delivery, action, matches)
       PROVE  TasksInv'
  BY <1>11 DEF Answer
<1>12. CASE UNCHANGED asyncVars
  BY <1>12 DEF asyncVars
<1> QED  BY <1>1, <1>2, <1>3, <1>4, <1>5, <1>6, <1>7, <1>8, <1>9, <1>10, <1>11, <1>12 DEF AsyncNext

(***************************************************************************)
(* A task has a handle only when its preflight let it pass, or when the    *)
(* approval it rests on answered its own request and was bound in time.    *)
(***************************************************************************)
THEOREM HandledOnGroundsHolds == AsyncSpec => []HandledOnGrounds
<1>1. TasksInv => HandledOnGrounds
  BY DEF TasksInv, HandledOnGrounds, Fit, Grounded
<1>2. TasksInv /\ [AsyncNext]_asyncVars => TasksInv'
  BY TasksStep
<1> QED  BY <1>1, <1>2, TasksInitially, PTL DEF AsyncSpec
-----------------------------------------------------------------------------

(***************************************************************************)
(* The transport is called for a delivery by the call that makes its       *)
(* record and by none after it, and a record that says delivered was made  *)
(* by a call that arrived.  A record may be blocked afterwards, when it is *)
(* handed over again without a binding; its call stays.                    *)
(***************************************************************************)
Once(log) == log \in {<< >>, <<TRUE>>, <<FALSE>>}

Arrived(log) == log = <<TRUE>>

DeliveriesInv ==
  /\ DOMAIN calls = DOMAIN deliveries
  /\ \A id \in DOMAIN calls : Once(calls[id]) /\ (deliveries[id] = "delivered" => Arrived(calls[id]))
  /\ \A id \in DOMAIN answers : answers[id] = "recorded" => id[1] \in DOMAIN calls /\ Arrived(calls[id[1]])

LEMMA OneCall ==
  ASSUME NEW arrives \in BOOLEAN
  PROVE  /\ Once(<< >>) /\ Once(Append(<< >>, arrives))
         /\ arrives => Arrived(Append(<< >>, arrives))
<1>1. Append(<< >>, TRUE) = <<TRUE>> /\ Append(<< >>, FALSE) = <<FALSE>>
  OBVIOUS
<1> QED  BY <1>1 DEF Once, Arrived

LEMMA OnceIsOne == ASSUME NEW log, Once(log) PROVE Len(log) <= 1
<1>1. Len(<< >>) = 0 /\ Len(<<TRUE>>) = 1 /\ Len(<<FALSE>>) = 1
  OBVIOUS
<1>2. CASE log = << >>
  BY <1>1, <1>2
<1>3. CASE log = <<TRUE>>
  BY <1>1, <1>3
<1>4. CASE log = <<FALSE>>
  BY <1>1, <1>4
<1> QED  BY <1>2, <1>3, <1>4 DEF Once

LEMMA DeliverStep ==
  ASSUME DeliveriesInv, NEW record, NEW ownChat \in BOOLEAN, NEW arrives \in BOOLEAN, Deliver(record, ownChat, arrives)
  PROVE  DeliveriesInv'
<1> DEFINE outcome == Delivered(deliveries, record, binding, ownChat, arrives)
           id      == DeliveryId(record, Chat(binding))
           before  == IF id \in DOMAIN calls THEN calls[id] ELSE << >>
<1>1. outcome.id = id
  BY DEF Delivered
<1>2. /\ deliveries' = outcome.deliveries
      /\ calls' = Put(calls, id, IF outcome.called THEN Append(before, arrives) ELSE before)
      /\ answers' = answers
  BY <1>1 DEF Deliver
<1>3. CASE ~outcome.called
  <2>1. calls' = Put(calls, id, before)
    BY <1>2, <1>3
  <2>2. \/ deliveries' = Put(deliveries, id, "blocked")
        \/ id \in DOMAIN deliveries /\ deliveries' = deliveries
    BY <1>2, <1>3 DEF Delivered
  <2> HIDE DEF id, outcome
  <2>3. /\ DOMAIN calls' = DOMAIN calls \cup {id}
        /\ \A x \in DOMAIN calls : calls'[x] = calls[x]
        /\ id \notin DOMAIN calls => calls'[id] = << >>
    BY <2>1 DEF Put
  <2>4. /\ DOMAIN deliveries' = DOMAIN deliveries \cup {id}
        /\ \A x \in DOMAIN deliveries : deliveries'[x] \in {deliveries[x], "blocked"}
        /\ id \notin DOMAIN deliveries => deliveries'[id] = "blocked"
    BY <2>2 DEF Put
  <2>5. \A x \in DOMAIN calls' : Once(calls'[x]) /\ (deliveries'[x] = "delivered" => Arrived(calls'[x]))
    BY <2>3, <2>4, OneCall DEF DeliveriesInv
  <2>6. \A x \in DOMAIN answers' : answers'[x] = "recorded" => x[1] \in DOMAIN calls' /\ Arrived(calls'[x[1]])
    BY <1>2, <2>3 DEF DeliveriesInv
  <2> QED  BY <2>3, <2>4, <2>5, <2>6 DEF DeliveriesInv
<1>4. CASE outcome.called
  <2>1. id \notin DOMAIN deliveries /\ deliveries' = Put(deliveries, id, IF arrives THEN "delivered" ELSE "failed")
    BY <1>2, <1>4 DEF Delivered
  <2>2. calls' = Put(calls, id, Append(<< >>, arrives))
    BY <1>2, <1>4, <2>1 DEF DeliveriesInv
  <2> HIDE DEF id, outcome
  <2>3. /\ DOMAIN calls' = DOMAIN calls \cup {id}
        /\ \A x \in DOMAIN calls : calls'[x] = calls[x]
        /\ calls'[id] = Append(<< >>, arrives)
    BY <2>1, <2>2 DEF DeliveriesInv, Put
  <2>4. /\ DOMAIN deliveries' = DOMAIN deliveries \cup {id}
        /\ \A x \in DOMAIN deliveries : deliveries'[x] = deliveries[x]
        /\ deliveries'[id] = "delivered" => arrives
    BY <2>1 DEF Put
  <2>5. \A x \in DOMAIN calls' : Once(calls'[x]) /\ (deliveries'[x] = "delivered" => Arrived(calls'[x]))
    BY <2>3, <2>4, OneCall DEF DeliveriesInv
  <2>6. \A x \in DOMAIN answers' : answers'[x] = "recorded" => x[1] \in DOMAIN calls' /\ Arrived(calls'[x[1]])
    BY <1>2, <2>3 DEF DeliveriesInv
  <2> QED  BY <2>3, <2>4, <2>5, <2>6 DEF DeliveriesInv
<1> QED  BY <1>3, <1>4

LEMMA AnswerStep ==
  ASSUME DeliveriesInv, NEW delivery, NEW action, NEW matches, Answer(delivery, action, matches)
  PROVE  DeliveriesInv'
<1> DEFINE id     == <<delivery, action, matches>>
           status == IF CallbackRefused(delivery, action, matches) THEN "blocked" ELSE "recorded"
<1>1. answers' = Put(answers, id, status) /\ UNCHANGED <<deliveries, calls>>
  BY DEF Answer
<1>2. status = "recorded" => delivery \in DOMAIN calls /\ Arrived(calls[delivery])
  BY DEF CallbackRefused, DeliveriesInv
<1>3. id[1] = delivery
  OBVIOUS
<1> HIDE DEF id, status
<1>4. /\ DOMAIN answers' = DOMAIN answers \cup {id}
      /\ answers'[id] = status
      /\ \A x \in DOMAIN answers : x # id => answers'[x] = answers[x]
  BY <1>1 DEF Put
<1> QED  BY <1>1, <1>2, <1>3, <1>4 DEF DeliveriesInv

LEMMA DeliveriesStep ==
  ASSUME DeliveriesInv, [AsyncNext]_asyncVars
  PROVE  DeliveriesInv'
<1>1. ASSUME UNCHANGED <<deliveries, calls, answers>>
      PROVE  DeliveriesInv'
  BY <1>1 DEF DeliveriesInv
<1>2. ASSUME NEW t \in Tasks, \/ \E wellFormed \in BOOLEAN : Delegate(t, wellFormed)
                              \/ \E a \in {approvals[t], OtherApproval} : BindApproval(t, a)
                              \/ Register(t) \/ Cancel(t) \/ Expire(t)
                              \/ \E until \in 0..MaxTime : Approve(t, until)
                              \/ Resume(t)
      PROVE  UNCHANGED <<deliveries, calls, answers>>
  BY <1>2 DEF Delegate, BindApproval, Register, Cancel, Expire, Approve, Resume, Sets
<1>3. ASSUME Tick \/ (\E b \in Bindings : Rebind(b)) \/ (\E e : ReceiveEvent(e)) \/ UNCHANGED asyncVars
      PROVE  UNCHANGED <<deliveries, calls, answers>>
  BY <1>3 DEF Tick, Rebind, ReceiveEvent, asyncVars
<1> QED  BY <1>1, <1>2, <1>3, DeliverStep, AnswerStep DEF AsyncNext

(***************************************************************************)
(* An answer of the owner is recorded only to a result that was sent to    *)
(* him, once, and arrived, however often the transport fails, the binding  *)
(* is switched and the result is handed over again.                        *)
(***************************************************************************)
THEOREM AnswersWhatWasSentHolds == AsyncSpec => []AnswersWhatWasSent
<1>1. AsyncInit => DeliveriesInv
  BY DEF AsyncInit, DeliveriesInv
<1>2. DeliveriesInv => AnswersWhatWasSent
  BY OnceIsOne DEF DeliveriesInv, AnswersWhatWasSent, SentOnce, Arrived
<1>3. DeliveriesInv /\ [AsyncNext]_asyncVars => DeliveriesInv'
  BY DeliveriesStep
<1> QED  BY <1>1, <1>2, <1>3, PTL DEF AsyncSpec
-----------------------------------------------------------------------------
(* The task inbox: one first record of an event, and one duplicate of it at most. *)

TaskEventIds == Tasks \X {"completed", "failed", "cancelled"} \X Reasons

OneOfEach(inbox) ==
  \A i, j \in DOMAIN inbox : i # j /\ inbox[i].id = inbox[j].id => (inbox[i].status = "duplicate") # (inbox[j].status = "duplicate")

EachHasFirst(inbox) == \A i \in DOMAIN inbox : FirstRecord(inbox, inbox[i].id) # {}

TaskInboxOK ==
  /\ taskInbox \in Seq(InboxRecords(TaskEventIds))
  /\ OneOfEach(taskInbox) /\ EachHasFirst(taskInbox)

LEMMA FiledOnce ==
  ASSUME NEW Ids, NEW inbox \in Seq(InboxRecords(Ids)), OneOfEach(inbox), EachHasFirst(inbox), NEW record \in InboxRecords(Ids),
         IF record.status = "duplicate" THEN FirstRecord(inbox, record.id) # {} /\ DuplicateRecord(inbox, record.id) = {}
         ELSE FirstRecord(inbox, record.id) = {}
  PROVE  OneOfEach(Append(inbox, record)) /\ EachHasFirst(Append(inbox, record))
<1> DEFINE longer == Append(inbox, record)
           last   == Len(inbox) + 1
<1>1. /\ DOMAIN longer = DOMAIN inbox \cup {last}
      /\ \A i \in DOMAIN inbox : longer[i] = inbox[i] /\ i # last
      /\ longer[last] = record
  OBVIOUS
<1> HIDE DEF longer, last
<1>2. \A i \in DOMAIN inbox : inbox[i].id = record.id => (inbox[i].status = "duplicate") # (record.status = "duplicate")
  BY DEF EachHasFirst, FirstRecord, DuplicateRecord
<1>3. OneOfEach(longer)
  BY <1>1, <1>2 DEF OneOfEach
<1>4. \A id : FirstRecord(inbox, id) \subseteq FirstRecord(longer, id)
  BY <1>1 DEF FirstRecord
<1>5. FirstRecord(longer, record.id) # {}
  <2>1. CASE record.status = "duplicate"
    BY <1>4, <2>1
  <2>2. CASE record.status # "duplicate"
    BY <1>1, <2>2 DEF FirstRecord
  <2> QED  BY <2>1, <2>2
<1>6. EachHasFirst(longer)
  <2>1. \A i \in DOMAIN inbox : FirstRecord(longer, longer[i].id) # {}
    BY <1>1, <1>4 DEF EachHasFirst
  <2> QED  BY <1>1, <1>5, <2>1 DEF EachHasFirst
<1> QED  BY <1>3, <1>6 DEF longer

LEMMA TaskInboxStep ==
  ASSUME TaskInboxOK, [AsyncNext]_asyncVars
  PROVE  TaskInboxOK' /\ Records \subseteq Records'
<1>1. ASSUME UNCHANGED taskInbox
      PROVE  TaskInboxOK' /\ Records \subseteq Records'
  BY <1>1 DEF TaskInboxOK, OneOfEach, EachHasFirst, FirstRecord, Records
<1>2. ASSUME NEW t \in Tasks, NEW s \in {"completed", "failed", "cancelled"}, NEW r \in Reasons, NEW genuine \in BOOLEAN,
             ReceiveEvent(Event(t, s, r, genuine))
      PROVE  TaskInboxOK' /\ Records \subseteq Records'
  <2> DEFINE e       == Event(t, s, r, genuine)
             receipt == Received(taskInbox, tasks, e)
  <2>1. EventId(e) \in TaskEventIds /\ taskInbox' = receipt.inbox
    BY <1>2 DEF Event, EventId, TaskEventIds, ReceiveEvent
  <2> HIDE DEF e
  <2>2. \/ taskInbox' = taskInbox
        \/ \E record \in InboxRecords(TaskEventIds) :
             /\ taskInbox' = Append(taskInbox, record)
             /\ IF record.status = "duplicate" THEN FirstRecord(taskInbox, record.id) # {} /\ DuplicateRecord(taskInbox, record.id) = {}
                ELSE FirstRecord(taskInbox, record.id) = {}
    <3>1. CASE FirstRecord(taskInbox, EventId(e)) # {}
      <4>1. /\ receipt.record \in InboxRecords(TaskEventIds) /\ receipt.record.status = "duplicate" /\ receipt.record.id = EventId(e)
            /\ IF DuplicateRecord(taskInbox, EventId(e)) # {} THEN receipt.inbox = taskInbox
               ELSE receipt.inbox = Append(taskInbox, receipt.record)
        BY <2>1, <3>1, RepeatedIsDuplicate DEF TaskInboxOK
      <4> HIDE DEF receipt
      <4> QED  BY <2>1, <3>1, <4>1
    <3>2. CASE FirstRecord(taskInbox, EventId(e)) = {}
      <4>1. FiledFirst(TaskEventIds, taskInbox, tasks, e, receipt)
        BY <2>1, <3>2, FirstIsFiled DEF TaskInboxOK
      <4> HIDE DEF receipt
      <4> QED  BY <2>1, <3>2, <4>1 DEF FiledFirst
    <3> QED  BY <3>1, <3>2
  <2>3. ASSUME NEW record \in InboxRecords(TaskEventIds), taskInbox' = Append(taskInbox, record),
               IF record.status = "duplicate" THEN FirstRecord(taskInbox, record.id) # {} /\ DuplicateRecord(taskInbox, record.id) = {}
               ELSE FirstRecord(taskInbox, record.id) = {}
        PROVE  TaskInboxOK' /\ Records \subseteq Records'
    <3>1. OneOfEach(taskInbox') /\ EachHasFirst(taskInbox') /\ taskInbox' \in Seq(InboxRecords(TaskEventIds))
      BY <2>3, FiledOnce DEF TaskInboxOK
    <3>2. Records \subseteq Records'
      BY <2>3 DEF Records, TaskInboxOK
    <3> QED  BY <3>1, <3>2 DEF TaskInboxOK, OneOfEach, EachHasFirst, FirstRecord
  <2> QED  BY <1>1, <2>2, <2>3
<1>3. ASSUME NEW t \in Tasks, \/ \E wellFormed \in BOOLEAN : Delegate(t, wellFormed)
                              \/ \E a \in {approvals[t], OtherApproval} : BindApproval(t, a)
                              \/ Register(t) \/ Cancel(t) \/ Expire(t)
                              \/ \E until \in 0..MaxTime : Approve(t, until)
                              \/ Resume(t)
      PROVE  UNCHANGED taskInbox
  BY <1>3 DEF Delegate, BindApproval, Register, Cancel, Expire, Approve, Resume, Sets
<1>4. ASSUME \/ Tick \/ (\E b \in Bindings : Rebind(b)) \/ UNCHANGED asyncVars
             \/ \E record \in Records, ownChat, arrives \in BOOLEAN : Deliver(record, ownChat, arrives)
             \/ \E delivery, action, matches : Answer(delivery, action, matches)
      PROVE  UNCHANGED taskInbox
  BY <1>4 DEF Tick, Rebind, Deliver, Answer, asyncVars
<1> QED  BY <1>1, <1>2, <1>3, <1>4 DEF AsyncNext

(* Every delivery shows a record of the inbox, and every answer is to a delivery. *)
ShownOK ==
  /\ now \in 0..MaxTime /\ binding \in Bindings
  /\ \A id \in DOMAIN deliveries : /\ deliveries[id] \in {"blocked", "delivered", "failed"}
                                   /\ \E record \in Records : DeliveryId(record, id[3]) = id
  /\ \A id \in DOMAIN answers : id[1] \in DOMAIN deliveries /\ answers[id] \in {"recorded", "blocked"}

LEMMA ShownStep ==
  ASSUME ShownOK, TaskInboxOK, [AsyncNext]_asyncVars
  PROVE  ShownOK'
<1>1. Records \subseteq Records'
  BY TaskInboxStep
<1>2. ASSUME UNCHANGED <<now, binding, deliveries, answers>>
      PROVE  ShownOK'
  BY <1>1, <1>2 DEF ShownOK
<1>3. ASSUME NEW record \in Records, NEW ownChat \in BOOLEAN, NEW arrives \in BOOLEAN, Deliver(record, ownChat, arrives)
      PROVE  ShownOK'
  <2> DEFINE id == DeliveryId(record, Chat(binding))
  <2>1. \/ deliveries' = deliveries
        \/ \E status \in {"blocked", "delivered", "failed"} : deliveries' = Put(deliveries, id, status)
    BY <1>3 DEF Deliver, Delivered
  <2>2. UNCHANGED <<now, binding, answers>>
    BY <1>3 DEF Deliver
  <2>3. DeliveryId(record, id[3]) = id
    BY DEF DeliveryId
  <2> HIDE DEF id
  <2>4. /\ DOMAIN deliveries \subseteq DOMAIN deliveries'
        /\ \A x \in DOMAIN deliveries' : /\ x = id \/ x \in DOMAIN deliveries
                                         /\ deliveries'[x] \in {"blocked", "delivered", "failed"}
    BY <2>1 DEF Put, ShownOK
  <2> QED  BY <1>1, <2>2, <2>3, <2>4 DEF ShownOK
<1>4. ASSUME NEW delivery \in DOMAIN deliveries, NEW action, NEW matches, Answer(delivery, action, matches)
      PROVE  ShownOK'
  <2> DEFINE id     == <<delivery, action, matches>>
             status == IF CallbackRefused(delivery, action, matches) THEN "blocked" ELSE "recorded"
  <2>1. answers' = Put(answers, id, status) /\ UNCHANGED <<now, binding, deliveries>>
    BY <1>4 DEF Answer
  <2>2. id[1] = delivery /\ status \in {"blocked", "recorded"}
    OBVIOUS
  <2> HIDE DEF id, status
  <2> QED  BY <1>1, <2>1, <2>2 DEF ShownOK, Put
<1>5. ASSUME NEW t \in Tasks, \/ \E wellFormed \in BOOLEAN : Delegate(t, wellFormed)
                              \/ \E a \in {approvals[t], OtherApproval} : BindApproval(t, a)
                              \/ Register(t) \/ Cancel(t) \/ Expire(t)
                              \/ \E until \in 0..MaxTime : Approve(t, until)
                              \/ Resume(t)
      PROVE  ShownOK'
  BY <1>2, <1>5 DEF Delegate, BindApproval, Register, Cancel, Expire, Approve, Resume, Sets
<1>6. ASSUME (\E e : ReceiveEvent(e)) \/ UNCHANGED asyncVars
      PROVE  ShownOK'
  BY <1>2, <1>6 DEF ReceiveEvent, asyncVars
<1>7. CASE Tick
  BY <1>1, <1>7, TimeAssumption DEF Tick, ShownOK
<1>8. ASSUME NEW b \in Bindings, Rebind(b)
      PROVE  ShownOK'
  BY <1>1, <1>8 DEF Rebind, ShownOK
<1> QED  BY <1>3, <1>4, <1>5, <1>6, <1>7, <1>8 DEF AsyncNext

AsyncIInv == TasksInv /\ DeliveriesInv /\ TaskInboxOK /\ ShownOK

(***************************************************************************)
(* Types of the delegated tasks: a handle stands where its delegation      *)
(* stands, an event has one first record and one duplicate at most, and    *)
(* every answer, call and delivery is about something there is.            *)
(***************************************************************************)
THEOREM AsyncTypes == AsyncSpec => []AsyncTypeOK
<1>1. AsyncInit => AsyncIInv
  <2> SUFFICES ASSUME AsyncInit PROVE AsyncIInv
    OBVIOUS
  <2>1. TasksInv /\ DeliveriesInv
    BY TasksInitially DEF AsyncInit, DeliveriesInv
  <2>2. taskInbox = <<>>
    BY DEF AsyncInit
  <2>3. TaskInboxOK
    BY <2>2 DEF TaskInboxOK, OneOfEach, EachHasFirst
  <2>4. ShownOK
    BY TimeAssumption DEF AsyncInit, ShownOK, Bindings
  <2> QED  BY <2>1, <2>3, <2>4 DEF AsyncIInv
<1>2. AsyncIInv /\ [AsyncNext]_asyncVars => AsyncIInv'
  BY TasksStep, DeliveriesStep, TaskInboxStep, ShownStep DEF AsyncIInv
<1>3. AsyncIInv => AsyncTypeOK
  <2> SUFFICES ASSUME AsyncIInv PROVE AsyncTypeOK
    OBVIOUS
  <2>1. \A t \in Tasks : /\ tasks[t].state \in DelegationStates \cup {"none"}
                         /\ tasks[t].handle \in {"none", tasks[t].state} \cap Handles
                         /\ approvals[t].of = {t}
    BY DEF AsyncIInv, TasksInv, DelegationRecords, Fit
  <2>2. \A i \in DOMAIN taskInbox :
          /\ taskInbox[i].status \in {"accepted", "quarantined", "duplicate"}
          /\ \A j \in DOMAIN taskInbox : j # i /\ taskInbox[j].id = taskInbox[i].id
               => (taskInbox[j].status = "duplicate") # (taskInbox[i].status = "duplicate")
    <3>1. \A i \in DOMAIN taskInbox : taskInbox[i] \in InboxRecords(TaskEventIds)
      BY DEF AsyncIInv, TaskInboxOK
    <3> QED  BY <3>1 DEF AsyncIInv, TaskInboxOK, OneOfEach, InboxRecords
  <2> QED  BY <2>1, <2>2 DEF AsyncIInv, DeliveriesInv, ShownOK, AsyncTypeOK
<1> QED  BY <1>1, <1>2, <1>3, PTL DEF AsyncSpec
-----------------------------------------------------------------------------
(* Follow-ups: what the lineage of a proposal goes through. *)

SelectionIds == Choices \X BOOLEAN

FollowUpIds == SelectionIds \X Authorizations

AttemptIds == FollowUpIds \X Fixtures

FollowEventIds == FollowUpIds \X {"completed", "failed"} \X {"local"}

Standing == {"pending_review"} \cup Reviewed

Shown == {"rendered", "delivered"}

(* Each record of the chain stands on one that stood when it was made, and still does. *)
ChainOK ==
  /\ request \in {"recorded", "blocked"}
  /\ intent \in {"none", "blocked"} \cup Standing
  /\ plan \in {"none", "drafted", "blocked"}
  /\ surface \in {"none", "failed", "blocked"} \cup Shown
  /\ intent \in Standing => request = "recorded"
  /\ plan = "drafted" => intent \in Standing
  /\ surface \in Shown => plan = "drafted"

(* Active selections are of one option, made on a surface that was shown. *)
ChoicesOK ==
  /\ DOMAIN selections \subseteq SelectionIds
  /\ \A s \in DOMAIN selections : selections[s] \in {"selected", "cancelled", "blocked"}
  /\ \A s \in ActiveSelections : /\ surface \in Shown
                                 /\ selections[s] = "cancelled" <=> s[1] = "cancel_followup"
  /\ \A s, t \in ActiveSelections : s[1] = t[1]

(* A registered follow-up is of a selected option, and has a delegation on an approval of its own where its cost calls for one. *)
Founded(f) ==
  /\ selections[f[1]] = "selected"
  /\ f \in DOMAIN authorities
  /\ followUps[f].preflight = "require_confirmation" => authorities[f].grounds.of = {f}

RegisteredOK ==
  /\ DOMAIN followUps \subseteq FollowUpIds
  /\ \A f \in DOMAIN followUps : f[1] \in DOMAIN selections
  /\ DOMAIN authorities \subseteq DOMAIN followUps
  /\ \A f \in DOMAIN authorities : /\ authorities[f] \in DelegationRecords(FollowUpIds)
                                    /\ authorities[f].handle \in {"none", authorities[f].state}
  /\ \A f \in DOMAIN followUps : followUps[f].status = "registered" => Founded(f)

AttemptsOK ==
  /\ DOMAIN attempts \subseteq AttemptIds
  /\ \A at \in DOMAIN attempts : at[1] \in DOMAIN followUps /\ attempts[at] \in {"completed", "failed", "blocked"}

(* The delegation of a follow-up is settled, and no result of it can be routed any more. *)
Settled(f) ==
  /\ f \in DOMAIN authorities
  /\ authorities[f].state \in {"completed", "failed"}
  /\ followUps[f].status = "registered"

Called(f) == \E i \in DOMAIN followCalls : followCalls[i] = f

(* What was sent is of settled delegations, each once, and of events whose first record is in the inbox. *)
CallsOK ==
  /\ followCalls \in Seq(FollowUpIds)
  /\ \A i \in DOMAIN followCalls : Settled(followCalls[i])
  /\ \A i, j \in DOMAIN followCalls : followCalls[i] = followCalls[j] => i = j

InboxOK ==
  /\ followInbox \in Seq(InboxRecords(FollowEventIds))
  /\ \A id \in DOMAIN followDeliveries : FirstRecord(followInbox, id[1]) # {}

(* A routed attempt is of a settled delegation, which stands as the attempt says, and whose result was sent. *)
RoutedOK ==
  /\ DOMAIN routes \subseteq DOMAIN attempts
  /\ \A at \in DOMAIN routes : routes[at] = "routed" => /\ Settled(at[1]) /\ Called(at[1])
                                                        /\ authorities[at[1]].state = attempts[at]

RepliesOK ==
  /\ \A r \in DOMAIN replies :
       /\ r[1] \in DOMAIN attempts
       /\ replies[r] = "acknowledged" => /\ r[2] = "acknowledge_followup_result"
                                         /\ r[1] \in DOMAIN routes /\ routes[r[1]] = "routed"
  /\ DOMAIN proposals \subseteq DOMAIN replies
  /\ \A r \in DOMAIN proposals : proposals[r] = "pending_user_review" => replies[r] = "acknowledged"

FollowIInv == ChainOK /\ ChoicesOK /\ RegisteredOK /\ AttemptsOK /\ CallsOK /\ InboxOK /\ RoutedOK /\ RepliesOK

-----------------------------------------------------------------------------
(* The chain from the request to the surface. *)

LEMMA ChainStep ==
  ASSUME ChainOK, [FollowNext]_followVars
  PROVE  ChainOK'
<1> USE DEF ChainOK, Standing, Shown, Reviewed
<1>1. CASE CreateIntent
  BY <1>1 DEF CreateIntent
<1>2. ASSUME NEW status \in Reviewed, ReviewIntent(status)
      PROVE  ChainOK'
  BY <1>2 DEF ReviewIntent
<1>3. ASSUME NEW copy \in IntentCopies, CreatePlan(copy)
      PROVE  ChainOK'
  BY <1>3 DEF CreatePlan, PlanStatus, IntentCopies, Copies
<1>4. ASSUME NEW copy \in Copies(plan), CreateSurface(copy)
      PROVE  ChainOK'
  BY <1>4 DEF CreateSurface, SurfaceOf, Copies
<1>5. ASSUME NEW copy \in Copies(plan), NEW bound, NEW ownChat, NEW arrives, DeliverSurface(copy, bound, ownChat, arrives)
      PROVE  ChainOK'
  BY <1>5 DEF DeliverSurface, SurfaceOf, Copies
<1>6. CASE UNCHANGED chainVars
  BY <1>6 DEF chainVars
<1>7. ASSUME NEW copy, NEW option, NEW fits, Select(copy, option, fits)
      PROVE  UNCHANGED chainVars
  BY <1>7 DEF Select
<1>8. ASSUME NEW s, NEW z, NEW authorized, NEW preflight, NEW a, Authorize(s, z, authorized, preflight, a)
      PROVE  UNCHANGED chainVars
  BY <1>8 DEF Authorize
<1>9. ASSUME NEW x, NEW y, Execute(x, y)
      PROVE  UNCHANGED chainVars
  BY <1>9 DEF Execute
<1>10. ASSUME NEW at, NEW bound, NEW arrives, Route(at, bound, arrives)
       PROVE  UNCHANGED chainVars
  BY <1>10 DEF Route
<1>11. ASSUME NEW at, NEW action, NEW fits, Reply(at, action, fits)
       PROVE  UNCHANGED chainVars
  BY <1>11 DEF Reply
<1>12. ASSUME NEW r, Propose(r)
       PROVE  UNCHANGED chainVars
  BY <1>12 DEF Propose
<1>13. CASE UNCHANGED followVars
  BY <1>6, <1>13 DEF followVars
<1> QED  BY <1>1, <1>2, <1>3, <1>4, <1>5, <1>6, <1>7, <1>8, <1>9, <1>10, <1>11, <1>12, <1>13 DEF FollowNext

(* What each step leaves alone, and that a surface that was shown stays. *)
LEMMA FollowFrames ==
  ASSUME [FollowNext]_followVars
  PROVE  \/ UNCHANGED <<choiceVars, resultVars>> /\ (surface \in Shown => surface' = surface)
         \/ /\ \E copy \in Copies(surface), option \in Choices, fits \in BOOLEAN : Select(copy, option, fits)
            /\ UNCHANGED <<chainVars, followUps, authorities, attempts, resultVars>>
         \/ /\ \E s \in DOMAIN selections, z \in Authorizations, authorized \in BOOLEAN, preflight \in Preflights :
                 \E a \in Approvals(<<s, z>>) : Authorize(s, z, authorized, preflight, a)
            /\ UNCHANGED <<chainVars, selections, attempts, resultVars>>
         \/ /\ \E f \in DOMAIN followUps, fixture \in Fixtures : Execute(f, fixture)
            /\ UNCHANGED <<chainVars, selections, followUps, authorities, resultVars>>
         \/ /\ \E at \in DOMAIN attempts, bound \in Bindings, arrives \in BOOLEAN : Route(at, bound, arrives)
            /\ UNCHANGED <<chainVars, selections, followUps, attempts, replies, proposals>>
         \/ /\ \E at \in DOMAIN attempts, action \in DOMAIN ReplyStatus, fits \in BOOLEAN : Reply(at, action, fits)
            /\ UNCHANGED <<chainVars, choiceVars, routes, followInbox, followDeliveries, followCalls, proposals>>
         \/ /\ \E r \in DOMAIN replies : Propose(r)
            /\ UNCHANGED <<chainVars, choiceVars, routes, followInbox, followDeliveries, followCalls, replies>>
<1>1. CASE CreateIntent
  BY <1>1 DEF CreateIntent
<1>2. ASSUME NEW status, ReviewIntent(status)
      PROVE  UNCHANGED <<surface, choiceVars, resultVars>>
  BY <1>2 DEF ReviewIntent
<1>3. ASSUME NEW copy, CreatePlan(copy)
      PROVE  UNCHANGED <<surface, choiceVars, resultVars>>
  BY <1>3 DEF CreatePlan
<1>4. ASSUME NEW copy, CreateSurface(copy)
      PROVE  UNCHANGED <<choiceVars, resultVars>> /\ surface \notin Shown
  BY <1>4 DEF CreateSurface, Shown
<1>5. ASSUME NEW copy, NEW bound, NEW ownChat, NEW arrives, DeliverSurface(copy, bound, ownChat, arrives)
      PROVE  UNCHANGED <<choiceVars, resultVars>> /\ surface \notin Shown
  BY <1>5 DEF DeliverSurface, Shown
<1>6. ASSUME NEW copy, NEW option, NEW fits, Select(copy, option, fits)
      PROVE  UNCHANGED <<chainVars, followUps, authorities, attempts, resultVars>>
  BY <1>6 DEF Select
<1>7. ASSUME NEW s, NEW z, NEW authorized, NEW preflight, NEW a, Authorize(s, z, authorized, preflight, a)
      PROVE  UNCHANGED <<chainVars, selections, attempts, resultVars>>
  BY <1>7 DEF Authorize
<1>8. ASSUME NEW f, NEW fixture, Execute(f, fixture)
      PROVE  UNCHANGED <<chainVars, selections, followUps, authorities, resultVars>>
  BY <1>8 DEF Execute
<1>9. ASSUME NEW at, NEW bound, NEW arrives, Route(at, bound, arrives)
      PROVE  UNCHANGED <<chainVars, selections, followUps, attempts, replies, proposals>>
  BY <1>9 DEF Route
<1>10. ASSUME NEW at, NEW action, NEW fits, Reply(at, action, fits)
       PROVE  UNCHANGED <<chainVars, choiceVars, routes, followInbox, followDeliveries, followCalls, proposals>>
  BY <1>10 DEF Reply
<1>11. ASSUME NEW r, Propose(r)
       PROVE  UNCHANGED <<chainVars, choiceVars, routes, followInbox, followDeliveries, followCalls, replies>>
  BY <1>11 DEF Propose
<1>12. CASE UNCHANGED followVars
  BY <1>12 DEF followVars, chainVars
<1>13. CASE FollowNext
  BY <1>1, <1>2, <1>3, <1>4, <1>5, <1>6, <1>7, <1>8, <1>9, <1>10, <1>11, <1>13 DEF FollowNext
<1> QED  BY <1>12, <1>13

-----------------------------------------------------------------------------
(* Selections and the follow-ups registered on them. *)

LEMMA ChoicesStep ==
  ASSUME ChoicesOK, [FollowNext]_followVars
  PROVE  ChoicesOK' /\ \A s \in DOMAIN selections : s \in DOMAIN selections' /\ selections'[s] = selections[s]
<1>1. ASSUME UNCHANGED selections, surface \in Shown => surface' = surface
      PROVE  ChoicesOK' /\ \A s \in DOMAIN selections : s \in DOMAIN selections' /\ selections'[s] = selections[s]
  BY <1>1 DEF ChoicesOK, ActiveSelections
<1>2. ASSUME NEW copy \in Copies(surface), NEW option \in Choices, NEW fits \in BOOLEAN, Select(copy, option, fits)
      PROVE  ChoicesOK' /\ \A s \in DOMAIN selections : s \in DOMAIN selections' /\ selections'[s] = selections[s]
  <2> DEFINE id == <<option, fits>>
             status == IF SelectionRefused(copy, option, fits) THEN "blocked"
                       ELSE IF option = "cancel_followup" THEN "cancelled" ELSE "selected"
  <2>1. id \notin DOMAIN selections /\ selections' = Put(selections, id, status) /\ surface' = surface
    BY <1>2 DEF Select, chainVars
  <2>2. id \in SelectionIds /\ id[1] = option /\ status \in {"selected", "cancelled", "blocked"}
    BY DEF SelectionIds
  <2>3. status # "blocked" => /\ surface \in Shown
                              /\ \A s \in ActiveSelections : s[1] = option
                              /\ status = "cancelled" <=> option = "cancel_followup"
    BY DEF SelectionRefused, Copies, Shown
  <2> HIDE DEF id, status
  <2>4. /\ DOMAIN selections' = DOMAIN selections \cup {id}
        /\ \A s \in DOMAIN selections : selections'[s] = selections[s]
        /\ selections'[id] = status
    BY <2>1 DEF Put
  <2>5. ActiveSelections' = IF status = "blocked" THEN ActiveSelections ELSE ActiveSelections \cup {id}
    BY <2>1, <2>2, <2>4 DEF ActiveSelections
  <2> QED  BY <2>1, <2>2, <2>3, <2>4, <2>5 DEF ChoicesOK, ActiveSelections
<1> QED  BY <1>1, <1>2, FollowFrames DEF choiceVars, chainVars

(* A delegation opened for a follow-up that is registered rests on an approval of its own. *)
LEMMA FollowUpAuthorityFit ==
  ASSUME NEW Ids, NEW id \in Ids, NEW preflight \in Preflights, NEW a \in Approvals(id), FollowUpOpens(preflight, a)
  PROVE  LET d == FollowUpAuthority(id, preflight, a)
         IN  /\ d \in DelegationRecords(Ids)
             /\ d.handle \in {"none", d.state}
             /\ d.state = "registered" /\ preflight = "require_confirmation" => d.grounds.of = {id}
<1> DEFINE opened == Opened(TRUE, preflight)
           bound  == IF preflight = "require_confirmation" THEN Bound(opened, id, a, 1) ELSE opened
<1>1. opened \in DelegationRecords(Ids) /\ Fit(opened, id, preflight, a)
  BY OpenedFit
<1>2. a \in ApprovalRecords(Ids)
  BY DEF Approvals, ApprovalRequest, ApprovalRecords
<1> HIDE DEF opened
<1>3. bound \in DelegationRecords(Ids) /\ Fit(bound, id, preflight, a)
  BY <1>1, <1>2, BoundFit
<1>4. FollowUpAuthority(id, preflight, a) = Registered(bound)
  BY DEF FollowUpAuthority, opened
<1> HIDE DEF bound
<1>5. Registered(bound) \in DelegationRecords(Ids) /\ Fit(Registered(bound), id, preflight, a)
  BY <1>3, RegisteredFit
<1>6. Registered(bound).state = "registered" => Registered(bound).handle # "none"
  BY <1>3 DEF Registered, Refused, Enters, DelegationRecords
<1> QED  BY <1>4, <1>5, <1>6 DEF Fit, Grounded

LEMMA FirstRecordKept ==
  ASSUME NEW Ids, NEW inbox \in Seq(InboxRecords(Ids)), NEW record \in InboxRecords(Ids), NEW id
  PROVE  /\ Append(inbox, record) \in Seq(InboxRecords(Ids))
         /\ FirstRecord(inbox, id) \subseteq FirstRecord(Append(inbox, record), id)
         /\ record.id = id /\ record.status # "duplicate" => FirstRecord(Append(inbox, record), id) # {}
<1>1. /\ Append(inbox, record) \in Seq(InboxRecords(Ids))
      /\ DOMAIN Append(inbox, record) = DOMAIN inbox \cup {Len(inbox) + 1}
      /\ \A i \in DOMAIN inbox : Append(inbox, record)[i] = inbox[i]
      /\ Append(inbox, record)[Len(inbox) + 1] = record
  OBVIOUS
<1> QED  BY <1>1 DEF FirstRecord

-----------------------------------------------------------------------------
(* The way of a result: a routing either leaves the delegation alone, or settles it and sends. *)

RouteRests(at) ==
  /\ UNCHANGED <<authorities, followDeliveries, followCalls>>
  /\ routes' = Put(routes, at, "blocked")
  /\ followInbox' = followInbox \/ \E record \in InboxRecords(FollowEventIds) : followInbox' = Append(followInbox, record)

RouteSettles(at) ==
  /\ StillRegistered(at[1]) /\ attempts[at] \in {"completed", "failed"}
  /\ \E d \in DelegationRecords(FollowUpIds) :
       /\ d.handle \in {"none", d.state} /\ d.grounds = authorities[at[1]].grounds /\ d.state = attempts[at]
       /\ authorities' = [authorities EXCEPT ![at[1]] = d]
  /\ \E record \in InboxRecords(FollowEventIds), status \in {"delivered", "failed"} : \E id :
       /\ followInbox' = Append(followInbox, record)
       /\ record.status # "duplicate" /\ id[1] = record.id
       /\ followDeliveries' = Put(followDeliveries, id, status)
  /\ followCalls' = Append(followCalls, at[1])
  /\ \E status : routes' = Put(routes, at, status)

LEMMA RouteEffect ==
  ASSUME RegisteredOK, AttemptsOK, InboxOK, NEW at \in DOMAIN attempts, NEW bound, NEW arrives \in BOOLEAN,
         Route(at, bound, arrives)
  PROVE  at \notin DOMAIN routes /\ (RouteRests(at) \/ RouteSettles(at))
<1> DEFINE f == at[1]
           e == CandidateEvent(at)
           r == Received(followInbox, authorities, e)
<1>1. at \notin DOMAIN routes
  BY DEF Route
<1>2. CASE RouteRefused(at, bound)
  BY <1>1, <1>2 DEF Route, RouteRefusedEarly, RouteRests
<1>3. CASE ~RouteRefused(at, bound)
  <2>1. StillRegistered(f) /\ attempts[at] \in {"completed", "failed"} /\ f \in FollowUpIds
    BY <1>3 DEF RouteRefused, AttemptsOK, AttemptIds
  <2>2. f \in DOMAIN authorities /\ authorities[f] \in DelegationRecords(FollowUpIds) /\ authorities[f].handle \in {"none", authorities[f].state}
    BY <2>1 DEF StillRegistered, RegisteredOK, Founded, AttemptsOK
  <2>3. e.of = f /\ e.status = attempts[at] /\ EventId(e) = <<f, attempts[at], "local">> /\ EventId(e) \in FollowEventIds
    BY <2>1 DEF CandidateEvent, Event, EventId, FollowEventIds
  <2>4. followInbox \in Seq(InboxRecords(FollowEventIds))
    BY DEF InboxOK
  <2>5. Quarantine(at, r) \/ DeliverResult(at, r, arrives)
    BY <1>3 DEF Route
  <2> HIDE DEF e
  <2>6. CASE FirstRecord(followInbox, EventId(e)) # {}
    <3>1. /\ r.record \in InboxRecords(FollowEventIds) /\ r.record.status = "duplicate"
          /\ r.inbox \in {followInbox, Append(followInbox, r.record)}
      BY <2>3, <2>4, <2>6, RepeatedIsDuplicate
    <3>2. Quarantine(at, r)
      BY <2>5, <3>1 DEF DeliverResult
    <3> QED  BY <1>1, <3>1, <3>2 DEF Quarantine, RouteRests
  <2>9. FirstRecord(followInbox, EventId(e)) = {} => FiledFirst(FollowEventIds, followInbox, authorities, e, r)
    BY <2>3, <2>4, FirstIsFiled
  <2> HIDE DEF r
  <2>7. CASE FirstRecord(followInbox, EventId(e)) = {} /\ r.record.status # "accepted"
    <3>1. r.record \in InboxRecords(FollowEventIds) /\ r.inbox = Append(followInbox, r.record)
      BY <2>7, <2>9 DEF FiledFirst
    <3>2. Quarantine(at, r)
      BY <2>5, <2>7 DEF DeliverResult
    <3> QED  BY <1>1, <3>1, <3>2 DEF Quarantine, RouteRests
  <2>8. CASE FirstRecord(followInbox, EventId(e)) = {} /\ r.record.status = "accepted"
    <3> DEFINE d    == Recorded(authorities[f], e)
               sent == Delivered(followDeliveries, r.record, "enabled", TRUE, arrives)
               id   == DeliveryId(r.record, "chat")
               outcome == IF arrives THEN "delivered" ELSE "failed"
    <3>1. /\ r.record \in InboxRecords(FollowEventIds) /\ r.record.status # "duplicate" /\ r.record.id = EventId(e)
          /\ r.inbox = Append(followInbox, r.record)
          /\ r.registry = [authorities EXCEPT ![f] = d] /\ d.last # "block"
      BY <2>3, <2>8, <2>9 DEF FiledFirst
    <3>2. d \in DelegationRecords(FollowUpIds) /\ d.handle \in {"none", d.state} /\ d.grounds = authorities[f].grounds
          /\ d.state = attempts[at]
      BY <2>1, <2>2, <2>3, <3>1, RecordedState
    <3>3. DeliverResult(at, r, arrives)
      BY <2>5, <2>8 DEF Quarantine
    <3>4. id[1] = r.record.id /\ id \notin DOMAIN followDeliveries
      BY <2>8, <3>1 DEF DeliveryId, InboxOK
    <3>5. sent.called /\ sent.deliveries = Put(followDeliveries, id, outcome)
      BY <3>4 DEF Delivered, DeliveryRefused, Chat
    <3>10. outcome \in {"delivered", "failed"}
      OBVIOUS
    <3> HIDE DEF d, sent, id, outcome
    <3>6. /\ authorities' = [authorities EXCEPT ![f] = d]
          /\ followInbox' = Append(followInbox, r.record)
          /\ followDeliveries' = Put(followDeliveries, id, outcome)
          /\ followCalls' = Append(followCalls, f)
          /\ \E status : routes' = Put(routes, at, status)
      BY <3>1, <3>3, <3>5 DEF DeliverResult, sent
    <3>7. \E record \in InboxRecords(FollowEventIds), status \in {"delivered", "failed"} : \E key :
            /\ followInbox' = Append(followInbox, record)
            /\ record.status # "duplicate" /\ key[1] = record.id
            /\ followDeliveries' = Put(followDeliveries, key, status)
      BY <3>1, <3>4, <3>6, <3>10
    <3>8. \E c \in DelegationRecords(FollowUpIds) :
            /\ c.handle \in {"none", c.state} /\ c.grounds = authorities[f].grounds /\ c.state = attempts[at]
            /\ authorities' = [authorities EXCEPT ![f] = c]
      BY <3>2, <3>6
    <3>9. RouteSettles(at)
      BY <2>1, <3>6, <3>7, <3>8 DEF RouteSettles
    <3> QED  BY <1>1, <3>9
  <2> QED  BY <2>6, <2>7, <2>8
<1> QED  BY <1>2, <1>3

LEMMA AttemptsStep ==
  ASSUME AttemptsOK, RegisteredOK, [FollowNext]_followVars
  PROVE  /\ AttemptsOK'
         /\ \A at \in DOMAIN attempts : at \in DOMAIN attempts' /\ attempts'[at] = attempts[at]
<1>1. ASSUME UNCHANGED attempts, DOMAIN followUps \subseteq DOMAIN followUps'
      PROVE  AttemptsOK'
  BY <1>1 DEF AttemptsOK
<1>2. ASSUME NEW s \in DOMAIN selections, NEW z \in Authorizations, NEW authorized, NEW preflight, NEW a,
             Authorize(s, z, authorized, preflight, a)
      PROVE  DOMAIN followUps \subseteq DOMAIN followUps'
  BY <1>2 DEF Authorize, Put
<1>3. ASSUME NEW f \in DOMAIN followUps, NEW fixture \in Fixtures, Execute(f, fixture), UNCHANGED followUps
      PROVE  /\ AttemptsOK'
             /\ \A at \in DOMAIN attempts : at \in DOMAIN attempts' /\ attempts'[at] = attempts[at]
  <2> DEFINE id == <<f, fixture>>
             status == IF StillRegistered(f) /\ fixture # "unfit" THEN Outcome(fixture) ELSE "blocked"
  <2>1. id \notin DOMAIN attempts /\ attempts' = Put(attempts, id, status)
    BY <1>3 DEF Execute
  <2>2. id \in AttemptIds /\ id[1] = f /\ status \in {"completed", "failed", "blocked"}
    BY DEF AttemptIds, RegisteredOK, Outcome
  <2> HIDE DEF id, status
  <2>3. /\ DOMAIN attempts' = DOMAIN attempts \cup {id}
        /\ attempts'[id] = status
        /\ \A at \in DOMAIN attempts : attempts'[at] = attempts[at]
    BY <2>1 DEF Put
  <2> QED  BY <1>3, <2>2, <2>3 DEF AttemptsOK
<1> QED  BY <1>1, <1>2, <1>3, FollowFrames DEF choiceVars

LEMMA RegisteredStep ==
  ASSUME ChoicesOK, RegisteredOK, AttemptsOK, InboxOK, [FollowNext]_followVars
  PROVE  /\ RegisteredOK'
         /\ \A f \in DOMAIN followUps : f \in DOMAIN followUps' /\ followUps'[f] = followUps[f]
<1>1. \A s \in DOMAIN selections : s \in DOMAIN selections' /\ selections'[s] = selections[s]
  BY ChoicesStep
<1>2. ASSUME UNCHANGED <<followUps, authorities>>
      PROVE  RegisteredOK'
  BY <1>1, <1>2 DEF RegisteredOK, Founded
<1>3. ASSUME NEW s \in DOMAIN selections, NEW z \in Authorizations, NEW authorized \in BOOLEAN, NEW preflight \in Preflights,
             NEW a \in Approvals(<<s, z>>), Authorize(s, z, authorized, preflight, a), UNCHANGED selections
      PROVE  /\ RegisteredOK'
             /\ \A f \in DOMAIN followUps : f \in DOMAIN followUps' /\ followUps'[f] = followUps[f]
  <2> DEFINE id    == <<s, z>>
             d     == FollowUpAuthority(id, preflight, a)
             opens == ~AuthorizationRefused(s, authorized, preflight, a)
             status == IF selections[s] = "cancelled" THEN "cancelled_no_action"
                       ELSE IF opens /\ d.state = "registered" THEN "registered" ELSE "blocked"
             record == FollowUpRecord(status, opens, preflight)
  <2>1. /\ id \notin DOMAIN followUps
        /\ followUps' = Put(followUps, id, record)
        /\ authorities' = IF opens THEN Put(authorities, id, d) ELSE authorities
    BY <1>3 DEF Authorize
  <2>2. id \in FollowUpIds /\ id[1] = s
    BY DEF FollowUpIds, ChoicesOK
  <2>3. opens => /\ d \in DelegationRecords(FollowUpIds) /\ d.handle \in {"none", d.state}
                 /\ d.state = "registered" /\ preflight = "require_confirmation" => d.grounds.of = {id}
    BY <2>2, FollowUpAuthorityFit DEF AuthorizationRefused
  <2>4. /\ record.status = "registered" => opens /\ d.state = "registered"
        /\ record.preflight = "require_confirmation" => preflight = "require_confirmation"
        /\ opens => selections[s] = "selected"
    BY DEF FollowUpRecord, AuthorizationRefused
  <2> HIDE DEF id, d, opens, record
  <2>5. /\ DOMAIN followUps' = DOMAIN followUps \cup {id}
        /\ followUps'[id] = record
        /\ \A f \in DOMAIN followUps : followUps'[f] = followUps[f]
    BY <2>1 DEF Put
  <2>6. /\ DOMAIN authorities' = IF opens THEN DOMAIN authorities \cup {id} ELSE DOMAIN authorities
        /\ opens => authorities'[id] = d
        /\ \A f \in DOMAIN authorities : authorities'[f] = authorities[f]
    <3>1. CASE opens
      <4>1. authorities' = Put(authorities, id, d)
        BY <2>1, <3>1
      <4>2. DOMAIN authorities' = DOMAIN authorities \cup {id} /\ authorities'[id] = d
            /\ \A f \in DOMAIN authorities : f # id => authorities'[f] = authorities[f]
        BY <4>1 DEF Put
      <4> QED  BY <2>1, <3>1, <4>2 DEF RegisteredOK
    <3>2. CASE ~opens
      BY <2>1, <3>2
    <3> QED  BY <3>1, <3>2
  <2>7. \A f \in DOMAIN authorities' : /\ authorities'[f] \in DelegationRecords(FollowUpIds)
                                       /\ authorities'[f].handle \in {"none", authorities'[f].state}
    BY <2>3, <2>6 DEF RegisteredOK
  <2>8. \A f \in DOMAIN followUps' : followUps'[f].status = "registered" => Founded(f)'
    BY <1>3, <2>2, <2>3, <2>4, <2>5, <2>6 DEF RegisteredOK, Founded
  <2> QED  BY <1>3, <2>2, <2>5, <2>6, <2>7, <2>8 DEF RegisteredOK
<1>4. ASSUME NEW at \in DOMAIN attempts, NEW bound \in Bindings, NEW arrives \in BOOLEAN, Route(at, bound, arrives),
             UNCHANGED <<selections, followUps>>
      PROVE  RegisteredOK'
  <2>1. CASE UNCHANGED authorities
    BY <1>2, <1>4, <2>1
  <2>2. CASE RouteSettles(at)
    <3>1. PICK d \in DelegationRecords(FollowUpIds) :
            /\ d.handle \in {"none", d.state} /\ d.grounds = authorities[at[1]].grounds
            /\ authorities' = [authorities EXCEPT ![at[1]] = d]
      BY <2>2 DEF RouteSettles
    <3>2. DOMAIN authorities' = DOMAIN authorities /\ \A f \in DOMAIN authorities : authorities'[f] = IF f = at[1] THEN d ELSE authorities[f]
      BY <3>1
    <3>3. \A f \in DOMAIN followUps : Founded(f) => Founded(f)'
      BY <1>4, <3>1, <3>2 DEF Founded
    <3> QED  BY <1>4, <3>1, <3>2, <3>3 DEF RegisteredOK
  <2> QED  BY <1>4, <2>1, <2>2, RouteEffect DEF RouteRests
<1> QED  BY <1>2, <1>3, <1>4, FollowFrames DEF choiceVars

LEMMA InboxStep ==
  ASSUME RegisteredOK, AttemptsOK, InboxOK, [FollowNext]_followVars
  PROVE  InboxOK'
<1>1. ASSUME UNCHANGED <<followInbox, followDeliveries>>
      PROVE  InboxOK'
  BY <1>1 DEF InboxOK, FirstRecord
<1>2. ASSUME NEW record \in InboxRecords(FollowEventIds), followInbox' = Append(followInbox, record),
             \/ UNCHANGED followDeliveries
             \/ record.status # "duplicate" /\ \E id, status : id[1] = record.id /\ followDeliveries' = Put(followDeliveries, id, status)
      PROVE  InboxOK'
  <2>1. followInbox' \in Seq(InboxRecords(FollowEventIds))
    BY <1>2, FirstRecordKept DEF InboxOK
  <2>2. \A id : FirstRecord(followInbox, id) # {} => FirstRecord(followInbox', id) # {}
    BY <1>2, FirstRecordKept DEF InboxOK
  <2>3. CASE UNCHANGED followDeliveries
    BY <2>1, <2>2, <2>3 DEF InboxOK
  <2>4. ASSUME NEW id, NEW status, record.status # "duplicate", id[1] = record.id, followDeliveries' = Put(followDeliveries, id, status)
        PROVE  InboxOK'
    <3>1. DOMAIN followDeliveries' = DOMAIN followDeliveries \cup {id}
      BY <2>4 DEF Put
    <3>2. FirstRecord(followInbox', id[1]) # {}
      BY <1>2, <2>4, FirstRecordKept DEF InboxOK
    <3>3. \A x \in DOMAIN followDeliveries : FirstRecord(followInbox', x[1]) # {}
      BY <2>2 DEF InboxOK
    <3>4. \A x \in DOMAIN followDeliveries' : FirstRecord(followInbox', x[1]) # {}
      BY <3>1, <3>2, <3>3
    <3> HIDE DEF FirstRecord
    <3>5. InboxOK' = (followInbox' \in Seq(InboxRecords(FollowEventIds))
                        /\ \A x \in DOMAIN followDeliveries' : FirstRecord(followInbox', x[1]) # {})
      BY DEF InboxOK, FirstRecord
    <3> QED  BY <2>1, <3>4, <3>5
  <2> QED  BY <1>2, <2>3, <2>4
<1>3. ASSUME NEW at \in DOMAIN attempts, NEW bound \in Bindings, NEW arrives \in BOOLEAN, Route(at, bound, arrives)
      PROVE  InboxOK'
  <2>1. CASE RouteRests(at)
    BY <1>1, <1>2, <2>1 DEF RouteRests
  <2>2. CASE RouteSettles(at)
    <3>1. PICK record \in InboxRecords(FollowEventIds), status \in {"delivered", "failed"} : \E id :
            /\ followInbox' = Append(followInbox, record)
            /\ record.status # "duplicate" /\ id[1] = record.id
            /\ followDeliveries' = Put(followDeliveries, id, status)
      BY <2>2 DEF RouteSettles
    <3> QED  BY <1>2, <3>1
  <2> QED  BY <1>3, <2>1, <2>2, RouteEffect
<1> QED  BY <1>1, <1>3, FollowFrames DEF resultVars

(* A settled delegation stays so: no result of it is routed again. *)
LEMMA CallsStep ==
  ASSUME ChoicesOK, RegisteredOK, AttemptsOK, InboxOK, CallsOK, RoutedOK, [FollowNext]_followVars
  PROVE  CallsOK' /\ RoutedOK'
<1> DEFINE Kept == \A f \in DOMAIN followUps : Settled(f) => Settled(f)' /\ authorities'[f].state = authorities[f].state
<1>1. \A f \in DOMAIN followUps : f \in DOMAIN followUps' /\ followUps'[f] = followUps[f]
  BY RegisteredStep
<1>2. \A at \in DOMAIN attempts : at \in DOMAIN attempts' /\ attempts'[at] = attempts[at]
  BY AttemptsStep
<1>3. \A f : Settled(f) => f \in DOMAIN followUps
  BY DEF Settled, RegisteredOK
<1>4. ASSUME UNCHANGED <<routes, followCalls>>, Kept
      PROVE  CallsOK' /\ RoutedOK'
  BY <1>1, <1>2, <1>3, <1>4 DEF CallsOK, RoutedOK, Called
<1>5. ASSUME NEW s \in DOMAIN selections, NEW z \in Authorizations, NEW authorized, NEW preflight, NEW a,
             Authorize(s, z, authorized, preflight, a)
      PROVE  Kept
  BY <1>1, <1>5 DEF Authorize, Put, Settled
<1>6. ASSUME UNCHANGED authorities
      PROVE  Kept
  BY <1>1, <1>6 DEF Settled
<1>7. ASSUME NEW at \in DOMAIN attempts, NEW bound \in Bindings, NEW arrives \in BOOLEAN, Route(at, bound, arrives),
             UNCHANGED <<followUps, attempts>>
      PROVE  CallsOK' /\ RoutedOK'
  <2>1. CASE RouteRests(at)
    <3>1. Kept /\ UNCHANGED followCalls
      BY <1>6, <2>1 DEF RouteRests
    <3>2. DOMAIN routes' = DOMAIN routes \cup {at} /\ \A x \in DOMAIN routes' : routes'[x] = "routed" => x \in DOMAIN routes /\ routes[x] = "routed"
      BY <2>1 DEF RouteRests, Put
    <3> QED  BY <1>3, <1>7, <3>1, <3>2 DEF CallsOK, RoutedOK, Called
  <2>2. CASE RouteSettles(at)
    <3> DEFINE f == at[1]
    <3>1. StillRegistered(f) /\ attempts[at] \in {"completed", "failed"} /\ f \in FollowUpIds /\ f \in DOMAIN followUps
      BY <2>2 DEF RouteSettles, AttemptsOK, AttemptIds
    <3>2. f \in DOMAIN authorities /\ followUps[f].status = "registered" /\ ~Settled(f)
      BY <3>1 DEF StillRegistered, RegisteredOK, Founded, Settled
    <3>3. PICK d : d.state = attempts[at] /\ authorities' = [authorities EXCEPT ![f] = d]
      BY <2>2 DEF RouteSettles
    <3>4. DOMAIN authorities' = DOMAIN authorities
          /\ \A x \in DOMAIN authorities : authorities'[x] = IF x = f THEN d ELSE authorities[x]
      BY <3>3
    <3>5. Settled(f)' /\ authorities'[f].state = attempts[at]
      BY <1>7, <3>1, <3>2, <3>3, <3>4 DEF Settled
    <3>6. Kept
      BY <1>7, <3>2, <3>4 DEF Settled
    <3>7. /\ followCalls' = Append(followCalls, f) /\ followCalls \in Seq(FollowUpIds)
          /\ at \notin DOMAIN routes
          /\ DOMAIN routes' = DOMAIN routes \cup {at}
          /\ \A x \in DOMAIN routes : routes'[x] = routes[x]
      BY <1>7, <2>2, RouteEffect DEF RouteSettles, CallsOK, Put
    <3>8. /\ followCalls' \in Seq(FollowUpIds)
          /\ DOMAIN followCalls' = DOMAIN followCalls \cup {Len(followCalls) + 1}
          /\ \A i \in DOMAIN followCalls : followCalls'[i] = followCalls[i]
          /\ followCalls'[Len(followCalls) + 1] = f
      BY <3>1, <3>7
    <3>9. \A i \in DOMAIN followCalls : followCalls[i] # f
      BY <3>2 DEF CallsOK
    <3>10. CallsOK'
      BY <1>3, <3>5, <3>6, <3>8, <3>9 DEF CallsOK
    <3>11. \A x : Called(x) => Called(x)'
      BY <3>8 DEF Called
    <3>12. Called(f)'
      BY <3>8 DEF Called
    <3>13. RoutedOK'
      BY <1>3, <1>7, <3>5, <3>6, <3>7, <3>11, <3>12 DEF RoutedOK
    <3> QED  BY <3>10, <3>13
  <2> QED  BY <1>7, <2>1, <2>2, RouteEffect
<1> HIDE DEF Kept
<1> QED  BY <1>4, <1>5, <1>6, <1>7, FollowFrames DEF choiceVars, resultVars

LEMMA RepliesStep ==
  ASSUME ChoicesOK, RegisteredOK, AttemptsOK, InboxOK, RoutedOK, RepliesOK, [FollowNext]_followVars
  PROVE  RepliesOK'
<1>1. \A at \in DOMAIN attempts : at \in DOMAIN attempts'
  BY AttemptsStep
<1>2. \A at \in DOMAIN routes : at \in DOMAIN routes' /\ routes'[at] = routes[at]
  <2>1. ASSUME NEW at \in DOMAIN attempts, NEW bound \in Bindings, NEW arrives \in BOOLEAN, Route(at, bound, arrives)
        PROVE  \A x \in DOMAIN routes : x \in DOMAIN routes' /\ routes'[x] = routes[x]
    <3>1. at \notin DOMAIN routes /\ \E status : routes' = Put(routes, at, status)
      BY <2>1, RouteEffect DEF RouteRests, RouteSettles
    <3> QED  BY <3>1 DEF Put
  <2> QED  BY <2>1, FollowFrames DEF resultVars
<1>3. ASSUME UNCHANGED <<replies, proposals>>
      PROVE  RepliesOK'
  BY <1>1, <1>2, <1>3 DEF RepliesOK
<1>4. ASSUME NEW at \in DOMAIN attempts, NEW action \in DOMAIN ReplyStatus, NEW fits \in BOOLEAN, Reply(at, action, fits),
             UNCHANGED proposals
      PROVE  RepliesOK'
  <2> DEFINE id     == <<at, action, fits>>
             status == IF ReplyRefused(at, fits) THEN "blocked" ELSE ReplyStatus[action]
  <2>1. id \notin DOMAIN replies /\ replies' = Put(replies, id, status)
    BY <1>4 DEF Reply
  <2>2. status = "acknowledged" => /\ id[2] = "acknowledge_followup_result"
                                   /\ id[1] \in DOMAIN routes /\ routes[id[1]] = "routed"
    BY DEF ReplyRefused, ReplyStatus
  <2>3. id[1] = at
    OBVIOUS
  <2> HIDE DEF id, status
  <2>4. /\ DOMAIN replies' = DOMAIN replies \cup {id}
        /\ replies'[id] = status
        /\ \A r \in DOMAIN replies : replies'[r] = replies[r]
    BY <2>1 DEF Put
  <2> QED  BY <1>1, <1>2, <1>4, <2>2, <2>3, <2>4 DEF RepliesOK
<1>5. ASSUME NEW r \in DOMAIN replies, Propose(r), UNCHANGED replies
      PROVE  RepliesOK'
  <2>1. /\ DOMAIN proposals' = DOMAIN proposals \cup {r}
        /\ \A x \in DOMAIN proposals : x # r => proposals'[x] = proposals[x]
        /\ proposals'[r] = "pending_user_review" => replies[r] = "acknowledged"
    BY <1>5 DEF Propose, Put, ProposalStatus
  <2> QED  BY <1>1, <1>2, <1>5, <2>1 DEF RepliesOK
<1> QED  BY <1>3, <1>4, <1>5, FollowFrames DEF resultVars

LEMMA FollowInitially == FollowInit => FollowIInv
<1> SUFFICES ASSUME FollowInit PROVE FollowIInv
  OBVIOUS
<1>1. followCalls = <<>> /\ followInbox = <<>>
  BY DEF FollowInit
<1>2. CallsOK /\ InboxOK
  BY <1>1 DEF FollowInit, CallsOK, InboxOK
<1> QED  BY <1>2 DEF FollowInit, FollowIInv, ChainOK, ChoicesOK, ActiveSelections, RegisteredOK, AttemptsOK, RoutedOK, RepliesOK,
              Standing, Shown, Reviewed

LEMMA FollowStep == FollowIInv /\ [FollowNext]_followVars => FollowIInv'
  BY ChainStep, ChoicesStep, RegisteredStep, AttemptsStep, InboxStep, CallsStep, RepliesStep DEF FollowIInv

(***************************************************************************)
(* However often a follow-up is executed and its attempts are routed, the  *)
(* owner is sent one result of it, and its delegation stands as that       *)
(* result says.                                                            *)
(***************************************************************************)
THEOREM OneResultHolds == FollowSpec => []OneResult
<1>1. FollowIInv => OneResult
  BY DEF FollowIInv, CallsOK, RoutedOK, OneResult
<1> QED  BY <1>1, FollowInitially, FollowStep, PTL DEF FollowSpec

LEMMA OneChoiceFollows == FollowIInv => OneChoice
<1> SUFFICES ASSUME FollowIInv PROVE OneChoice
  OBVIOUS
<1> DEFINE chosen == {s[1] : s \in ActiveSelections}
<1>1. Cardinality(chosen) <= 1
  <2>1. CASE chosen = {}
    BY <2>1, FS_EmptySet
  <2>2. CASE chosen # {}
    <3>1. PICK s \in ActiveSelections : TRUE
      BY <2>2
    <3>2. chosen = {s[1]}
      BY <3>1 DEF FollowIInv, ChoicesOK
    <3>3. Cardinality({s[1]}) = 1
      BY FS_Singleton
    <3> QED  BY <3>2, <3>3
  <2> QED  BY <2>1, <2>2
<1>2. ASSUME NEW s \in ActiveSelections, selections[s] = "cancelled", NEW f \in DOMAIN followUps, followUps[f].status = "registered"
      PROVE  FALSE
  <2>1. f[1] \in ActiveSelections /\ selections[f[1]] = "selected"
    BY <1>2 DEF FollowIInv, RegisteredOK, Founded, ActiveSelections
  <2> QED  BY <1>2, <2>1 DEF FollowIInv, ChoicesOK
<1> QED  BY <1>1, <1>2 DEF OneChoice

(***************************************************************************)
(* The owner chooses once, and nothing is proposed to be remembered that   *)
(* he did not ask for step by step: he acknowledged the result, which was  *)
(* sent to him, of a delegation that stood on its own approval where its   *)
(* cost called for one, of an option he selected, on a surface of a plan,  *)
(* drafted from a request that was recorded.                               *)
(***************************************************************************)
THEOREM NothingUnaskedHolds == FollowSpec => []NothingUnasked
<1>1. FollowIInv => NothingUnasked
  <2> SUFFICES ASSUME FollowIInv, NEW r \in DOMAIN proposals, proposals[r] = "pending_user_review"
               PROVE  AskedStepByStep(r)
    BY OneChoiceFollows DEF NothingUnasked
  <2> DEFINE at == r[1]
             f  == at[1]
  <2>1. replies[r] = "acknowledged" /\ r[2] = "acknowledge_followup_result" /\ at \in DOMAIN routes /\ routes[at] = "routed"
    BY DEF FollowIInv, RepliesOK
  <2>2. Settled(f) /\ Called(f)
    BY <2>1 DEF FollowIInv, RoutedOK
  <2>3. Founded(f) /\ f[1] \in ActiveSelections
    BY <2>2 DEF FollowIInv, RegisteredOK, Settled, Founded, ActiveSelections
  <2>4. surface \in Shown
    BY <2>3 DEF FollowIInv, ChoicesOK
  <2> QED  BY <2>1, <2>2, <2>3, <2>4 DEF FollowIInv, ChainOK, AskedStepByStep, Founded, Called, Standing, Shown
<1> QED  BY <1>1, FollowInitially, FollowStep, PTL DEF FollowSpec

(***************************************************************************)
(* Types of the follow-up chain: every record a stage keeps is about       *)
(* records there are, and handles stand where their delegations stand.     *)
(***************************************************************************)
THEOREM FollowTypes == FollowSpec => []FollowTypeOK
<1>1. FollowIInv => FollowTypeOK
  BY DEF FollowIInv, ChainOK, ChoicesOK, RegisteredOK, AttemptsOK, RoutedOK, RepliesOK, FollowTypeOK, DelegationRecords,
         Standing, Shown
<1> QED  BY <1>1, FollowInitially, FollowStep, PTL DEF FollowSpec
=============================================================================
