---------------------------- MODULE MemoryDelivery ----------------------------
(***************************************************************************)
(* The memory loop as its user meets it on Telegram.  She decides about the *)
(* proposal she is looking at; her texts are posted in order to             *)
(* /api/telegram/runtime/webhook, and posted again when the answer is lost. *)
(*                                                                         *)
(* seen, top, verdict and told are history variables of the user's side.   *)
(***************************************************************************)
EXTENDS MemoryLoop, Sequences

CONSTANTS
    MaxInbox,   \* bound: texts posted and not yet answered
    MaxLost     \* bound: answers that do not reach Telegram

ASSUME MaxInboxAssumption == MaxInbox \in Nat \ {0}
ASSUME MaxLostAssumption  == MaxLost \in Nat

VARIABLES
    inbox,     \* the updates Telegram has to deliver, oldest first
    lost,      \* answers lost so far
    seen,      \* the wording each proposal was last shown with
    top,       \* the proposal shown last and not yet decided in her eyes
    verdict    \* for a decided proposal, the offer the decision was meant for

delivery == <<inbox, lost, seen, top, verdict>>
allVars  == <<vars, delivery>>

NoOffer   == <<None, None>>
Shown(p)  == <<p, seen[p]>>

\* What a text, written now, is about in the eyes of its writer.
Meant(text) ==
    CASE text.says \in {"approve_id", "reject_id"} -> Shown(text.about)
      [] text.says \in {"approve", "reject"} /\ top # None -> Shown(top)
      [] OTHER -> NoOffer

\* Ids, and the buttons, are known from the screen only.
Writable(msg) ==
    /\ msg.text.says \in {"approve_id", "reject_id"} => seen[msg.text.about] # None
    /\ msg.text.says \in {"approve", "reject", "modify"} => top # None
    /\ msg.text.says = "forget" => msg.text.about \in Kept
    /\ msg.replyTo # None =>
          /\ seen[msg.replyTo] # None
          /\ msg.text.says \in {"remember", "approve", "recall"}

Send(msg) ==
    /\ Len(inbox) < MaxInbox /\ Writable(msg)
    /\ inbox' = Append(inbox, [msg |-> msg, meant |-> Meant(msg.text)])
    /\ UNCHANGED <<vars, lost, seen, top, verdict>>

\* The handler runs and its changes are committed (db.session).
Process ==
    /\ inbox # <<>>
    /\ Handle(Head(inbox).msg)
    /\ verdict' =
          [p \in ProposalIds |->
              IF p \in Pending /\ proposal'[p].status \in {"APPROVED", "REJECTED"}
              THEN Head(inbox).meant ELSE verdict[p]]

ShowsOffer == reply'.kind \in {"proposed", "edited"}

\* telegram_runtime_webhook: the reply is read.  A decision or a refusal to
\* decide takes the buttons away.
Deliver ==
    /\ Process
    /\ inbox' = Tail(inbox)
    /\ seen' = IF ShowsOffer
               THEN [seen EXCEPT ![reply'.shows] = proposal'[reply'.shows].content]
               ELSE seen
    /\ top' = IF ShowsOffer THEN reply'.shows
              ELSE IF reply'.kind \in {"approved", "rejected", "no_pending", "edit_unavailable"} THEN None
              ELSE top
    /\ UNCHANGED lost

\* The same, but the answer is lost: Telegram will post the update again.
DeliverUnanswered ==
    /\ lost < MaxLost
    /\ Process
    /\ lost' = lost + 1
    /\ UNCHANGED <<inbox, seen, top>>

DeliveryInit ==
    /\ Init
    /\ inbox = <<>> /\ lost = 0
    /\ seen = [p \in ProposalIds |-> None] /\ top = None
    /\ verdict = [p \in ProposalIds |-> NoOffer]

DeliveryNext ==
    \/ \E msg \in Messages : Send(msg)
    \/ Deliver
    \/ DeliverUnanswered

DeliverySpec == DeliveryInit /\ [][DeliveryNext]_allVars

\* Telegram keeps posting an update until it is answered.
LiveDeliverySpec == DeliverySpec /\ WF_allVars(Deliver)

-----------------------------------------------------------------------------
(* Properties *)

Offers == ((ProposalIds \X (Contents \cup {None})) \cup {NoOffer})

DeliveryTypeOK ==
    /\ TypeOK
    /\ inbox \in Seq([msg : Messages, meant : Offers]) /\ Len(inbox) <= MaxInbox
    /\ lost \in 0 .. MaxLost
    /\ seen \in [ProposalIds -> Contents \cup {None}]
    /\ top \in ProposalIds \cup {None}
    /\ verdict \in [ProposalIds -> Offers]

\* The user sees exactly what would be remembered: a proposal is approved or
\* rejected only by a decision written in front of it, worded as it is kept.
DecidedAsShown ==
    \A p \in ProposalIds :
        proposal[p].status \in {"APPROVED", "REJECTED"}
            => verdict[p] = <<p, proposal[p].content>>

\* The same of what is remembered alone: its words are the words its user was
\* looking at when she approved.
KeptAsRead ==
    \A p \in ProposalIds :
        proposal[p].status = "APPROVED" => verdict[p][2] = proposal[p].content

\* A decision that names its proposal, and has come to its turn, closes it,
\* however often its answer is lost.
Named(p) ==
    inbox # <<>> /\ Head(inbox).msg.replyTo = None
                 /\ Head(inbox).msg.text.says \in {"approve_id", "reject_id"}
                 /\ Head(inbox).msg.text.about = p

DecisionTaken == \A p \in ProposalIds : Named(p) ~> (proposal[p].status # "PENDING" /\ ~Fresh(p))
=============================================================================
