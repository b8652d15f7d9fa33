-------------------------------- MODULE Drafts --------------------------------
(***************************************************************************)
(* From a signal to a Gmail draft: suggestions of authorised signals       *)
(* (170P, 194P), the inbox (171P), the owner's decision (172P), the queue  *)
(* of drafts (177P, 195P, 208P), his confirmation (178P), the local export *)
(* (179P) and the draft created in Gmail (185P), with the queue of         *)
(* approvals and the item decisions (147P).  Every stage is computed anew  *)
(* from the receipts its caller keeps, in the order they came.             *)
(***************************************************************************)
EXTENDS Integers, FiniteSets, Sequences, SequencesExt

CONSTANTS Readings,     \* what the sources may give: sequences of [key, trigger, title, whose]
          Wishes,       \* decisions he takes, of "create_draft", "dismiss", "snooze", "save_memory", "ask_followup"
          Outputs,      \* [item, whose]: outputs put up for approval
          MaxReceipts178, MaxAsked   \* bounds

VARIABLES found,       \* signals the authorised sources give now
          decided,     \* decision receipts
          confirmed,   \* confirmation receipts
          exported,    \* local exports
          answered,    \* what requests for a Gmail draft were answered
          gmail,       \* drafts that are in Gmail
          approvals,   \* receipts of the approval queue and of task items
          revisions    \* receipts of asked revisions

draftVars == <<found, decided, confirmed, exported, answered, gmail, approvals, revisions>>

DraftInit ==
  /\ found = << >> /\ decided = << >> /\ confirmed = << >>
  /\ exported = {} /\ answered = {} /\ gmail = << >> /\ approvals = {} /\ revisions = {}

More == Cardinality(exported) + Cardinality(answered) + Cardinality(approvals) + Cardinality(revisions) < MaxAsked

(* The sources give other signals at every read; a title may change under one key. *)
ReadSignals(signals) ==
  /\ found' = signals
  /\ UNCHANGED <<decided, confirmed, exported, answered, gmail, approvals, revisions>>

SuggestionId(s) == <<s.key, s.trigger>>

(* 170P: the signals of this owner, each suggestion once. *)
Suggested ==
  LET own == {k \in DOMAIN found : found[k].whose = "owner"}
  IN  {found[k] : k \in {i \in own : \A j \in own : j < i => SuggestionId(found[j]) # SuggestionId(found[i])}}

(* 194P, of what the words of trigger and title say. *)
Priority(s) ==
  LET urgent  == s.trigger \in {"pdf_received_meeting_tomorrow", "open_task_due_soon"}
      meeting == s.trigger \in {"upcoming_meeting_no_prep", "meeting_related_document", "pdf_received_meeting_tomorrow"}
  IN  IF urgent /\ meeting THEN "P0"
      ELSE IF urgent \/ s.trigger = "email_thread_no_followup" THEN "P1"
      ELSE "P2"

NextSafeAction(s) ==
  IF Priority(s) \in {"P0", "P1"} THEN "review_now"
  ELSE IF s.trigger = "email_thread_no_followup" THEN "review_before_draft" ELSE "review_when_convenient"

Ranked(s) == [priority |-> Priority(s), next |-> NextSafeAction(s)]

(* 171P *)
Item171(s) == [suggestion |-> SuggestionId(s), title |-> s.title, rank |-> Ranked(s)]

Inbox == {Item171(s) : s \in Suggested}

InInbox(id) == {i \in Inbox : i.suggestion = id}

(* 172P *)
DecisionStatus172(id) ==
  IF id = << >> THEN "missing_suggestion_id" ELSE IF InInbox(id) = {} THEN "suggestion_not_found" ELSE "recorded_local_receipt"

Decide172(id, choice) ==
  \E title \in IF id # << >> /\ InInbox(id) # {} THEN {i.title : i \in InInbox(id)} ELSE {""} :
    /\ Len(decided) < MaxReceipts178
    /\ decided' = Append(decided, [suggestion |-> id, choice |-> choice, status |-> DecisionStatus172(id), title |-> title])
    /\ UNCHANGED <<found, confirmed, exported, answered, gmail, approvals, revisions>>

(* The identity of a decision leaves its title out. *)
DecisionKey(d) == <<d.suggestion, d.choice, d.status>>

Drafted(d) == d.choice = "create_draft" /\ d.status = "recorded_local_receipt"

DraftOf(d) == [draft |-> DecisionKey(d), title |-> d.title, basis |-> d.suggestion]

(* A draft has the place of its decision. *)
Queue == [k \in {j \in DOMAIN decided : Drafted(decided[j])} |-> DraftOf(decided[k])]

First(places) == CHOOSE k \in places : \A j \in places : k <= j

DraftsNamed(id) == {k \in DOMAIN Queue : Queue[k].draft = id}

FirstDraft(id) == Queue[First(DraftsNamed(id))]

(* 195P: what he is shown of a draft, with the suggestion it comes from. *)
Quality(draft) == [draft |-> draft.draft, intent |-> draft.title, source_basis |-> draft.basis]

Shown195 == {Quality(draft) : draft \in Range(Queue)}

(* 208P: a revision is asked of any draft named, and changes none. *)
ReviseDraft(id, how) ==
  /\ More
  /\ revisions' = revisions \cup {[draft |-> id, asked |-> how, approval |-> "pending_revision"]}
  /\ UNCHANGED <<found, decided, confirmed, exported, answered, gmail, approvals>>

(* 178P *)
ConfirmationStatus(id, choice, text) ==
  IF id = << >> THEN "missing_draft_id"
  ELSE IF DraftsNamed(id) = {} THEN "draft_not_found"
  ELSE IF choice = "edit" /\ text = "" THEN "missing_edit_text"
  ELSE IF choice = "edit" THEN "edit_pending_local_receipt"
  ELSE IF choice = "approve" THEN "approved_pending_export_local_receipt"
  ELSE IF choice = "reject" THEN "rejected_local_receipt"
  ELSE "expired_local_receipt"

Confirm(id, choice, text) ==
  LET title == IF id = << >> \/ DraftsNamed(id) = {} THEN "" ELSE FirstDraft(id).title
  IN  /\ Len(confirmed) < MaxReceipts178
      /\ confirmed' = Append(confirmed, [draft |-> id, choice |-> choice, status |-> ConfirmationStatus(id, choice, text),
                                         text |-> text, title |-> title])
      /\ UNCHANGED <<found, decided, exported, answered, gmail, approvals, revisions>>

ConfirmationKey(c) == <<c.draft, c.choice, c.status, c.text>>

ConfirmationsNamed(id) == {k \in DOMAIN confirmed : ConfirmationKey(confirmed[k]) = id}

FirstConfirmation(id) == confirmed[First(ConfirmationsNamed(id))]

Approved178_NotRefused(c) == c.status \notin {"rejected_local_receipt", "expired_local_receipt"}

Approved178(c) == c.status = "approved_pending_export_local_receipt"

(* 179P *)
ExportStatus(id) ==
  IF id = << >> THEN "missing_confirmation_id"
  ELSE IF ConfirmationsNamed(id) = {} THEN "confirmation_not_found"
  ELSE IF ~Approved178(FirstConfirmation(id)) THEN "not_approved"
  ELSE "created"

Export(id, format) ==
  /\ More
  /\ exported' = exported \cup {[confirmation |-> id, format |-> format, status |-> ExportStatus(id),
                                 title |-> IF ExportStatus(id) = "created" THEN FirstConfirmation(id).title ELSE ""]}
  /\ UNCHANGED <<found, decided, confirmed, answered, gmail, approvals, revisions>>

(* 185P: "lost" is an answer of Gmail that does not arrive, "noid" one without a draft id: the draft is there. *)
GmailOutcomes == {"created", "lost", "noid", "refused", "no_token", "bad_timeout"}

GmailStatus(id, outcome) ==
  IF ExportStatus(id) # "created" THEN ExportStatus(id)
  ELSE IF outcome = "no_token" THEN "gmail_not_connected"
  ELSE IF outcome = "created" THEN "created"
  ELSE "failed_closed"

RawMessage(id) == [confirmation |-> id, title |-> FirstConfirmation(id).title]

CreateGmailDraft(id, outcome) ==
  LET reached == ExportStatus(id) = "created" /\ outcome \in {"created", "lost", "noid"}
  IN  /\ More
      /\ gmail' = IF reached THEN Append(gmail, RawMessage(id)) ELSE gmail
      /\ answered' = answered \cup {[confirmation |-> id, status |-> GmailStatus(id, outcome)]}
      /\ UNCHANGED <<found, decided, confirmed, exported, approvals, revisions>>

(* The approval queue refuses a list with another owner's item in it; a receipt changes no item. *)
QueueRefused(items) == \E o \in items : o.whose # "owner"

ApprovalStatus(items, item, choice) ==
  IF item = "" THEN "missing_approval_id"
  ELSE IF \A o \in items : o.item # item THEN "approval_not_found"
  ELSE IF choice = "approve" THEN "approved_local_receipt"
  ELSE "rejected_local_receipt"

DecideOutput(items, item, choice) ==
  /\ ~QueueRefused(items)
  /\ More
  /\ approvals' = approvals \cup {[item |-> item, choice |-> choice, status |-> ApprovalStatus(items, item, choice)]}
  /\ UNCHANGED <<found, decided, confirmed, exported, answered, gmail, revisions>>

(* 147P: an item is taken at its word. *)
DecideItem(item, choice) ==
  /\ item # ""
  /\ More
  /\ approvals' = approvals \cup {[item |-> item, choice |-> choice,
                                   status |-> IF choice = "done" THEN "marked_done_local_receipt" ELSE "dismissed_local_receipt"]}
  /\ UNCHANGED <<found, decided, confirmed, exported, answered, gmail, revisions>>

SuggestionIds == {SuggestionId(s) : s \in UNION {Range(reading) : reading \in Readings}}

SuggestNext ==
  \/ \E reading \in Readings : ReadSignals(reading)
  \/ \E id \in SuggestionIds \cup {<< >>}, choice \in Wishes : Decide172(id, choice)
  \/ \E d \in Range(decided) \cup {[suggestion |-> << >>, choice |-> "", status |-> "", title |-> ""]},
        choice \in {"approve", "reject", "edit", "expire"}, text \in {"", "new"} :
       /\ choice # "edit" => text = ""
       /\ Confirm(IF d.choice = "" THEN << >> ELSE DecisionKey(d), choice, text)
  \/ \E c \in Range(confirmed) : Export(ConfirmationKey(c), "email_draft")
  \/ Export(<< >>, "copy")
  \/ \E c \in Range(confirmed), outcome \in GmailOutcomes : CreateGmailDraft(ConfirmationKey(c), outcome)

ReceiptNext ==
  \/ \E how \in {"shorter", "warmer"} : ReviseDraft("d", how)
  \/ \E items \in SUBSET Outputs, choice \in {"approve", "reject"} : \E item \in {o.item : o \in Outputs} \cup {""} : DecideOutput(items, item, choice)
  \/ \E o \in Outputs, choice \in {"done", "dismiss"} : DecideItem(o.item, choice)

DraftNext == SuggestNext \/ ReceiptNext

DraftSpec == DraftInit /\ [][DraftNext]_draftVars

(***************************************************************************)
(* Types; a receipt says of what it names what the stage found, and a      *)
(* draft that is there was decided about.                                  *)
(***************************************************************************)
DraftTypeOK ==
  /\ found \in Readings \cup {<< >>}
  /\ \A d \in Range(decided) : d.choice \in Wishes /\ (d.status = "recorded_local_receipt" => d.suggestion # << >>)
  /\ \A c \in Range(confirmed) : c.status \notin {"missing_draft_id", "draft_not_found"} => DraftsNamed(c.draft) # {}
  /\ \A e \in exported : e.title # "" => e.status = "created"
  /\ \A a \in answered : a.status \in {"created", "failed_closed", "gmail_not_connected", "not_approved", "confirmation_not_found"}
  /\ \A a \in approvals : a.choice \in {"approve", "reject", "done", "dismiss"}

(***************************************************************************)
(* What is exported or drafted in Gmail names one receipt, and that        *)
(* receipt is an approval: one of a rejection, an edit or an expiry sends  *)
(* nothing out, at any time.  What it carries is the title of the first    *)
(* draft he asked for under the name that was approved, as he is shown it, *)
(* though every stage is computed anew and the same suggestion may have    *)
(* been decided about again since under another title.  (An approval is    *)
(* not taken back by a later receipt of the same draft: the code looks at  *)
(* the receipt named and at no other.)  And a draft that the robot says it *)
(* created is in Gmail.                                                    *)
(***************************************************************************)
ExportedAsApproved ==
  LET askedFirst(draft, title) ==
        \E k \in DOMAIN decided :
          /\ decided[k].choice = "create_draft" /\ decided[k].suggestion \in SuggestionIds
          /\ DecisionKey(decided[k]) = draft /\ decided[k].title = title
          /\ \A j \in DOMAIN decided : j < k => DecisionKey(decided[j]) # draft
          /\ [draft |-> draft, intent |-> title, source_basis |-> decided[k].suggestion] \in Shown195
      approved(id, title) ==
        \E c \in Range(confirmed) :
          ConfirmationKey(c) = id /\ c.choice = "approve" /\ c.title = title /\ askedFirst(c.draft, title)
  IN  /\ \A g \in Range(gmail) : approved(g.confirmation, g.title)
      /\ \A e \in exported : e.status = "created" => approved(e.confirmation, e.title)
      /\ \A a \in answered : a.status = "created" => \E g \in Range(gmail) : g.confirmation = a.confirmation
=============================================================================
