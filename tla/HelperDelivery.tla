---------------------------- MODULE HelperDelivery ----------------------------
(***************************************************************************)
(* The discovery interview as its user meets it.  The helper reads the last *)
(* reply that reached her and writes texts; Telegram posts them to          *)
(* /api/telegram/runtime/webhook in order and posts an update again until   *)
(* an answer comes back.  The reply is the body of that answer, so when it  *)
(* is lost (a timeout, a restart after the commit) the update is handled a  *)
(* second time: app/main.py keeps no record of update_id.                   *)
(*                                                                         *)
(* `agreed` is a history variable: what the helper has agreed to, in her    *)
(* own eyes, by answering the question she was looking at.                  *)
(***************************************************************************)
EXTENDS HelperDiscovery, Sequences

CONSTANTS
    MaxInbox,   \* bound: updates posted and not yet answered
    MaxLost     \* bound: answers that do not reach Telegram

ASSUME MaxInboxAssumption == MaxInbox \in Nat \ {0}
ASSUME MaxLostAssumption  == MaxLost \in Nat

VARIABLES
    screen,   \* the kind of the last reply the helper has read
    inbox,    \* the updates Telegram has to deliver, oldest first
    lost,     \* answers lost so far
    agreed

delivery == <<screen, inbox, lost, agreed>>
allVars  == <<vars, delivery>>

ConsentScreens == {"consent_openai", "consent_local", "processing"}

\* On reading one of these the helper has nothing agreed with Robbie.
FreshScreens  == {"consent_openai", "consent_local", "closed", "proposal"}
NothingAgreed == [processing |-> "nothing", note |-> FALSE]

\* What answering `text` to the question on `screen` agrees to.
Agreement(text) ==
    [processing |->
        IF text = "yes" /\ screen \in {"consent_openai", "processing"} THEN "openai"
        ELSE IF text \in {"yes", "local"} /\ screen \in ConsentScreens THEN "local"
        ELSE agreed.processing,
     note |->
        IF screen = "note_offer" /\ text \in {"yes", "no", "no_note"} THEN text = "yes"
        ELSE agreed.note]

Send(text) ==
    /\ Len(inbox) < MaxInbox
    /\ inbox' = Append(inbox, text)
    /\ agreed' = Agreement(text)
    /\ Quiet /\ reply' = "none"
    /\ UNCHANGED <<row, processing, notes, settings, clock, screen, lost>>

\* telegram_runtime_webhook: the update is handled and committed, and the
\* reply is read.
Deliver ==
    /\ inbox # <<>>
    /\ Handle(Head(inbox))
    /\ inbox' = Tail(inbox)
    /\ screen' = IF reply' = "none" THEN "conversation" ELSE reply'
    /\ agreed' = IF screen' \in FreshScreens THEN NothingAgreed ELSE agreed
    /\ UNCHANGED lost

\* The same, but the answer is lost: Telegram will post the update again.
DeliverUnanswered ==
    /\ inbox # <<>> /\ lost < MaxLost
    /\ Handle(Head(inbox))
    /\ lost' = lost + 1
    /\ UNCHANGED <<inbox, screen, agreed>>

Elapse  == Tick /\ UNCHANGED delivery
Founder == WriteNote /\ UNCHANGED delivery
Redeploy == Restart /\ UNCHANGED delivery

DeliveryInit ==
    /\ Init
    /\ screen = "conversation" /\ inbox = <<>> /\ lost = 0
    /\ agreed = NothingAgreed

DeliveryNext ==
    \/ \E text \in Texts : Send(text)
    \/ Deliver
    \/ DeliverUnanswered
    \/ Elapse
    \/ Founder
    \/ Redeploy

DeliverySpec == DeliveryInit /\ [][DeliveryNext]_allVars

\* Telegram keeps posting an update until it is answered.
LiveDeliverySpec == DeliverySpec /\ WF_allVars(Deliver)

-----------------------------------------------------------------------------
(* Properties *)

\* Answers are sent to OpenAI only for a helper whose last answer about
\* processing, to a question that named OpenAI, was yes.
OpenAIOnlyWithConsent == turn.mode = "openai" => agreed.processing = "openai"

\* The founder's note is used only for a helper who said yes when this
\* interview offered it to her.
NoteOnlyWithPermission == turn.note # NoNote => agreed.note

\* No answer is kept for a helper who has not answered a consent question of
\* this interview.
AnswersOnlyAfterConsent == answers # {} => agreed.processing # "nothing"

\* All three are kept unless something disturbs them: a restart with other
\* settings, or an answer lost and its update handled again.  No restart makes
\* the interview keep answers nobody agreed to.
Undisturbed == lost = 0 /\ restarts = 0
PermissionsUndisturbed      == Undisturbed => OpenAIOnlyWithConsent /\ NoteOnlyWithPermission
AnswersConsentedWithoutLoss == lost = 0 => AnswersOnlyAfterConsent

\* Expiry is lazy, but any word from the helper brings it about: an interview
\* overdue when she writes does not keep its answers.
OverdueIsWiped ==
    (Overdue /\ inbox # <<>>) ~> (answers = {} /\ ~Overdue)
=============================================================================
