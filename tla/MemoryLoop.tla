------------------------------ MODULE MemoryLoop ------------------------------
(***************************************************************************)
(* Memory proposals and memories of one user and her active robot.         *)
(*                                                                         *)
(* A proposal becomes a memory only by an approval.  Two handlers work on  *)
(* the same two tables: the memory branch of the Telegram runtime          *)
(* (app/telegram_runtime.py, _handle_telegram_memory_proposal_loop) and    *)
(* the memory flow of the control plane (app/flows/memory_flow.py).  Both  *)
(* run to the end of a request without giving way, so that one request is  *)
(* one step.  app/memory_service.py and app/memory_control.py do the       *)
(* writing.                                                                *)
(***************************************************************************)
EXTENDS Naturals, FiniteSets

CONSTANTS
    ProposalIds,   \* bound: proposals ever made (the code draws uuids)
    MemoryIds,     \* bound: memories ever kept
    Facts,         \* what a user may ask to be remembered
    None           \* no proposal, no memory

ASSUME NoneAssumption == None \notin ProposalIds \cup MemoryIds \cup Facts

VARIABLES
    proposal,   \* ProposedMemory rows
    memory,     \* MemoryItem rows
    origin,     \* history: the proposal a memory was made from (no column)
    reply       \* what the last request answered, and the proposal it shows

vars == <<proposal, memory, origin, reply>>

-----------------------------------------------------------------------------
(* Messages.  A text is what the patterns of the runtime read in it, and    *)
(* replyTo the id found in the message it replies to.                       *)

Decisions == {"approve", "reject", "modify", "malformed"}
Requests  == Decisions \cup {"recall"}

\* A text used as the new wording of a proposal is taken word for word, also
\* when the words are those of a decision or a command.
Contents == Facts \cup {"command"}

Texts ==
    [says : {"remember"}, about : Facts]
    \cup [says : Requests, about : {None}]
    \cup [says : {"approve_id", "reject_id"}, about : ProposalIds]
    \cup [says : {"forget"}, about : MemoryIds]

Messages == [text : Texts, replyTo : ProposalIds \cup {None}]

\* The words an edit stores.
Wording(text) == IF text.says = "remember" THEN text.about ELSE "command"

-----------------------------------------------------------------------------
(* Tables *)

NoRow == [status |-> "none", content |-> None]

Pending == {p \in ProposalIds : proposal[p].status = "PENDING"}
Active  == {m \in MemoryIds : memory[m].status = "ACTIVE"}
Kept    == {m \in MemoryIds : memory[m].status # "none"}

Reply(kind, p) == [kind |-> kind, shows |-> p]

Only(kind, p) ==
    /\ reply' = Reply(kind, p)
    /\ UNCHANGED <<proposal, memory, origin>>

Decided_Unsaved(p, status) == proposal

\* A decision, as approve_proposal, reject_proposal and
\* expire_pending_proposals write it.
Decided(p, status) == [proposal EXCEPT ![p].status = status]

ExpirePending ==
    [p \in ProposalIds |->
        IF p \in Pending THEN [proposal[p] EXCEPT !.status = "EXPIRED"]
        ELSE proposal[p]]

Fresh(p) == proposal[p].status = "none"

Create(content) ==
    \E p \in ProposalIds :
        /\ Fresh(p)
        /\ proposal' = [ExpirePending EXCEPT
                            ![p] = [status |-> "PENDING", content |-> content]]
        /\ reply' = Reply("proposed", p)
        /\ UNCHANGED <<memory, origin>>

Keep(p) ==
    \E m \in MemoryIds \ Kept :
        /\ proposal' = Decided(p, "APPROVED")
        /\ memory' = [memory EXCEPT
                          ![m] = [status |-> "ACTIVE", content |-> proposal[p].content]]
        /\ origin' = [origin EXCEPT ![m] = p]
        /\ reply' = Reply("approved", p)

Refuse(p) ==
    /\ proposal' = Decided(p, "REJECTED")
    /\ reply' = Reply("rejected", p)
    /\ UNCHANGED <<memory, origin>>

Forgotten(m) == [memory EXCEPT ![m].status = "FORGOTTEN"]

Forgettable(m) == m \in Active

-----------------------------------------------------------------------------
(* The memory branch of the Telegram runtime, in the order of its tests.    *)

Editable_Always(p) == ~Fresh(p)
Editable(p) == p \in Pending

Edit(msg) ==
    LET p == msg.replyTo IN
    /\ p # None /\ Editable(p)
    /\ proposal' = [proposal EXCEPT ![p].content = Wording(msg.text)]
    /\ reply' = Reply("edited", p)
    /\ UNCHANGED <<memory, origin>>

EditUnavailable(msg) ==
    /\ msg.replyTo # None /\ ~Editable(msg.replyTo)
    /\ Only("edit_unavailable", None)

Says(msg, what) == msg.replyTo = None /\ msg.text.says = what

\* A decision that names no proposal goes to the only pending one.
OnlyPending(p) == Pending = {p}

\* None, or more than one: the user is told so.
Undecidable(msg) ==
    /\ \E what \in Decisions : Says(msg, what)
    /\ Cardinality(Pending) # 1
    /\ Only("no_pending", None)

Remind(msg)       == Says(msg, "malformed") /\ \E p \in Pending : OnlyPending(p) /\ Only("malformed_id", p)
ApproveOnly(msg)  == Says(msg, "approve")   /\ \E p \in Pending : OnlyPending(p) /\ Keep(p)
RejectOnly(msg)   == Says(msg, "reject")    /\ \E p \in Pending : OnlyPending(p) /\ Refuse(p)
AskForEdit(msg)   == Says(msg, "modify")    /\ \E p \in Pending : OnlyPending(p) /\ Only("waiting_edit", p)

DecidesById(msg) == Says(msg, "approve_id") \/ Says(msg, "reject_id")

Unknown(msg) ==
    /\ DecidesById(msg) /\ Fresh(msg.text.about)
    /\ Only("invalid_id", None)

Open_AlsoExpired(p) == proposal[p].status \in {"PENDING", "EXPIRED"}
Open(p) == p \in Pending

AlreadyFinalized(msg) ==
    /\ DecidesById(msg) /\ ~Fresh(msg.text.about) /\ ~Open(msg.text.about)
    /\ Only("already_finalized", None)

ApproveById(msg) == Says(msg, "approve_id") /\ Open(msg.text.about) /\ Keep(msg.text.about)
RejectById(msg)  == Says(msg, "reject_id") /\ Open(msg.text.about) /\ Refuse(msg.text.about)

Forget(msg) ==
    LET m == msg.text.about IN
    /\ Says(msg, "forget") /\ Forgettable(m)
    /\ memory' = Forgotten(m)
    /\ reply' = Reply("forgotten", None)
    /\ UNCHANGED <<proposal, origin>>

NothingToForget(msg) ==
    /\ Says(msg, "forget") /\ ~Forgettable(msg.text.about)
    /\ Only("not_found", None)

Recall(msg) == Says(msg, "recall") /\ Only("listed", None)

Propose(msg) == Says(msg, "remember") /\ Create(msg.text.about)

Handle(msg) ==
    \/ Edit(msg)
    \/ EditUnavailable(msg)
    \/ Undecidable(msg)
    \/ Remind(msg)
    \/ ApproveOnly(msg)
    \/ RejectOnly(msg)
    \/ AskForEdit(msg)
    \/ Unknown(msg)
    \/ AlreadyFinalized(msg)
    \/ ApproveById(msg)
    \/ RejectById(msg)
    \/ Forget(msg)
    \/ NothingToForget(msg)
    \/ Recall(msg)
    \/ Propose(msg)

-----------------------------------------------------------------------------
(* The memory flow of the control plane, and the profile that a discovery   *)
(* interview proposes.                                                      *)

\* process_memory_proposal, and handle_helper_discovery saving a profile.
FlowProposal == \E fact \in Facts : Create(fact)

\* process_memory_decision takes the latest pending proposal.
FlowApproval  == \E p \in Pending : Keep(p)
FlowRejection == \E p \in Pending : Refuse(p)

\* The budget blocks the request, the safety rules do not allow the proposal,
\* nothing is pending, or the request only lists.
FlowReplyOnly == Only("flow", None)

FlowForget == \E m \in MemoryIds :
    /\ Forgettable(m)
    /\ memory' = Forgotten(m)
    /\ reply' = Reply("forgotten", None)
    /\ UNCHANGED <<proposal, origin>>

Flow ==
    \/ FlowProposal
    \/ FlowApproval
    \/ FlowRejection
    \/ FlowReplyOnly
    \/ FlowForget

-----------------------------------------------------------------------------

Init ==
    /\ proposal = [p \in ProposalIds |-> NoRow]
    /\ memory = [m \in MemoryIds |-> NoRow]
    /\ origin = [m \in MemoryIds |-> None]
    /\ reply = Reply("none", None)

Next ==
    \/ \E msg \in Messages : Handle(msg)
    \/ Flow

Spec == Init /\ [][Next]_vars

-----------------------------------------------------------------------------
(* Properties *)

Kinds == {"none", "proposed", "approved", "rejected", "edited", "edit_unavailable",
          "no_pending", "malformed_id", "waiting_edit", "invalid_id",
          "already_finalized", "forgotten", "not_found", "listed", "flow"}

ProposalRows ==
    [status : {"PENDING", "APPROVED", "REJECTED", "EXPIRED"}, content : Contents]
    \cup {NoRow}

MemoryRows == [status : {"ACTIVE", "FORGOTTEN"}, content : Contents] \cup {NoRow}

TypeOK ==
    /\ proposal \in [ProposalIds -> ProposalRows]
    /\ memory \in [MemoryIds -> MemoryRows]
    /\ origin \in [MemoryIds -> ProposalIds \cup {None}]
    /\ reply \in [kind : Kinds, shows : ProposalIds \cup {None}]

\* A decision without an id has one proposal to mean: whoever makes the next
\* proposal, the one before it is no longer open.
OneOpenProposal == \A p, q \in Pending : p = q

\* Memories and approvals correspond one to one, whichever handler took the
\* approval and however often it was sent, and a memory still says what its
\* approved proposal says.
OneMemoryPerApproval ==
    /\ \A m \in Kept :
          /\ origin[m] \in ProposalIds
          /\ proposal[origin[m]].status = "APPROVED"
          /\ proposal[origin[m]].content = memory[m].content
    /\ \A m, n \in Kept : origin[m] = origin[n] => m = n
    /\ \A p \in ProposalIds :
          proposal[p].status = "APPROVED" => \E m \in Kept : origin[m] = p

\* A proposal that was approved, rejected or expired is never reopened,
\* reworded or decided otherwise.
VerdictsStand ==
    [][\A p \in ProposalIds :
          proposal[p].status \in {"APPROVED", "REJECTED", "EXPIRED"}
              => proposal'[p] = proposal[p]]_vars

\* A forgotten memory stays forgotten.  (A memory that is kept can only be
\* forgotten: its words are fixed.)
ForgottenForGood ==
    [][\A m \in Kept :
          /\ memory'[m].content = memory[m].content
          /\ memory[m].status = "FORGOTTEN" => memory'[m].status = "FORGOTTEN"]_vars

\* Both handlers, on the same rows, keep the promise of MemoryContract.
Contract == INSTANCE MemoryContract WITH
    Ids <- ProposalIds,
    Wordings <- Contents,
    open <- {<<p, proposal[p].content>> : p \in Pending},
    kept <- {<<origin[m], memory[m].content>> : m \in Active},
    closed <- {p \in ProposalIds : ~Fresh(p)} \ Pending

KeepsContract == Contract!Spec
=============================================================================
