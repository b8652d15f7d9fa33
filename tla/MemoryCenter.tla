----------------------------- MODULE MemoryCenter -----------------------------
(***************************************************************************)
(* How a proposed memory becomes one: the proposal shown to the owner and  *)
(* his decision (116P), its writeback to the memory center (117P), the     *)
(* local memory store with what he adds and approves there (165P), and the *)
(* review commands, which leave receipts only (136P, 173P, 187P, 209P).    *)
(***************************************************************************)
EXTENDS Integers, FiniteSets, Sequences, Registries

CONSTANTS Proposals,      \* [kind, order]: memory proposals of stage 115P
          Edits,          \* wordings an owner may give, "secret" among them
          Notes,          \* contents he keeps in the store
          Signals,        \* what a scan reads them from: calendar events and mails
          MaxCards, MaxDecisions, MaxStored, MaxReceipts, MaxVisible   \* bounds; MaxVisible is the inbox's own (5)

VARIABLES cards,       \* <<proposal, chat>> -> "rendered" or "blocked"
          decisions,   \* what the payload names -> decision status
          writebacks,  \* decision -> what the writeback came to
          center,      \* decision -> the memory item it became
          stored,      \* memory id -> the item of the store
          asked,       \* history: the ids of the memories he ever asked the store to keep
          choices,     \* receipts of what he chose for a pending proposal
          receipts     \* receipts of what he asked for a memory

reviewVars == <<cards, decisions, writebacks, center>>
storeVars  == <<stored, asked>>
centerVars == <<reviewVars, storeVars, choices, receipts>>

CenterInit ==
  /\ cards = << >> /\ decisions = << >> /\ writebacks = << >> /\ center = << >>
  /\ stored = << >> /\ asked = {} /\ choices = {} /\ receipts = {}

(* A proposal of kind "none" is one stage 115P recommends no memory for, what is sensitive among them. *)
ProposalRefused(p, chat) == p.kind = "none" \/ chat # "own"

RenderCard(p, chat) ==
  /\ <<p, chat>> \notin DOMAIN cards
  /\ Cardinality(DOMAIN cards) < MaxCards
  /\ cards' = Put(cards, <<p, chat>>, IF ProposalRefused(p, chat) THEN "blocked" ELSE "rendered")
  /\ UNCHANGED <<decisions, writebacks, center, storeVars, choices, receipts>>

Answers == {"approve", "reject", "edit", "lineage"}

Terminal == {"approved_pending_writeback", "edited_pending_writeback", "rejected_no_write"}

Payload(p, card, answer, text) == [of |-> p, card |-> card, answer |-> answer, text |-> text]

AlreadyDecided_Never(p) == FALSE

AlreadyDecided(p) == \E d \in DOMAIN decisions : d.of = p /\ decisions[d] \in Terminal

(* "by": the owner in his own chat, or somebody else; the identity of a decision holds neither. *)
SelectionUnfit(pl, card, by) ==
  \/ ProposalRefused(pl.of, card[2]) \/ cards[card] # "rendered"
  \/ pl.of # card[1] \/ pl.card # card \/ by # "owner"
  \/ pl.answer = "edit" /\ pl.text = ""

DecisionOf(pl, card, by) ==
  IF AlreadyDecided(pl.of) \/ SelectionUnfit(pl, card, by) THEN "blocked"
  ELSE IF pl.answer = "lineage" THEN "lineage_summary_requested"
  ELSE IF pl.answer = "edit" /\ pl.text = "secret" THEN "rejected_sensitive_edit"
  ELSE IF pl.answer = "edit" THEN "edited_pending_writeback"
  ELSE IF pl.answer = "reject" THEN "rejected_no_write"
  ELSE "approved_pending_writeback"

(* Whatever is decided first under an identity is what every later tap gets back. *)
BindSelection(pl, card, by) ==
  /\ pl \notin DOMAIN decisions
  /\ Cardinality(DOMAIN decisions) < MaxDecisions
  /\ decisions' = Put(decisions, pl, DecisionOf(pl, card, by))
  /\ UNCHANGED <<cards, writebacks, center, storeVars, choices, receipts>>

FinalText(d) == IF decisions[d] = "edited_pending_writeback" THEN d.text ELSE "proposed"

WritebackRefused(d, card, p) ==
  \/ decisions[d] \notin {"approved_pending_writeback", "edited_pending_writeback"}
  \/ p.kind = "none"
  \/ d.card # card \/ d.of # p \/ card[1] # p
  \/ FinalText(d) \in {"", "secret"}

Item(d, p) == [text |-> FinalText(d), kind |-> p.kind, of |-> p]

(* A writeback that was refused is not tried again with the right records. *)
WriteBack(d, card, p) ==
  LET written == ~WritebackRefused(d, card, p)
  IN  /\ d \notin DOMAIN writebacks
      /\ writebacks' = Put(writebacks, d, IF written THEN "written" ELSE "rejected")
      /\ center' = IF written THEN Put(center, d, Item(d, p)) ELSE center
      /\ UNCHANGED <<cards, decisions, storeVars, choices, receipts>>

(* 165P: a memory keeps the identity of the content it was first stored with, and of the candidate *)
(* it was, which is made of what the scan read (164P), whatever it is edited to.                   *)
ContextId(signal, note) == <<signal, note>>

OwnerId(note) == <<"owner", note>>

Ids == {ContextId(signal, note) : signal \in Signals, note \in Notes} \cup {OwnerId(note) : note \in Notes}

StoredAs(source, note) == [content |-> note, source |-> source, active |-> TRUE, pinned |-> FALSE]

Unstored_OrForgotten(id) == id \notin DOMAIN stored \/ ~stored[id].active

Unstored(id) == id \notin DOMAIN stored

Store(id, source, note) ==
  /\ Cardinality(DOMAIN stored \cup {id}) <= MaxStored
  /\ stored' = IF Unstored(id) THEN Put(stored, id, StoredAs(source, note)) ELSE stored
  /\ asked' = asked \cup {id}
  /\ UNCHANGED <<reviewVars, choices, receipts>>

ApproveCandidate(signal, note) == Store(ContextId(signal, note), "context_scan_owner_approved", note)

AddMemory(note) == Store(OwnerId(note), "telegram_memory_add", note)

Active(id) == id \in DOMAIN stored /\ stored[id].active

EditMemory(id, note) ==
  /\ Active(id)
  /\ stored' = [stored EXCEPT ![id].content = note, ![id].source = "telegram_memory_edit"]
  /\ UNCHANGED <<reviewVars, asked, choices, receipts>>

ForgetMemory(id) ==
  /\ Active(id)
  /\ stored' = [stored EXCEPT ![id].active = FALSE, ![id].pinned = FALSE]
  /\ UNCHANGED <<reviewVars, asked, choices, receipts>>

PinMemory(id) ==
  /\ Active(id)
  /\ stored' = [stored EXCEPT ![id].pinned = TRUE]
  /\ UNCHANGED <<reviewVars, asked, choices, receipts>>

(* 136P: what the commands show is a bundle: the active memories of the store and the pending proposals. *)
Bundle == {id \in DOMAIN stored : stored[id].active}

PendingShown ==
  LET pending == {p \in Proposals : p.kind # "none"}
  IN  {p \in pending : Cardinality({q \in pending : q.order < p.order}) < MaxVisible}

(* 173P *)
ReviewStatus(p, choice, text) ==
  IF p \notin PendingShown THEN "blocked_candidate_not_found"
  ELSE IF choice = "edit" /\ text = "" THEN "blocked_missing_edit_text"
  ELSE IF choice = "edit" THEN "edit_pending_local_receipt"
  ELSE IF choice = "approve" THEN "approved_pending_writeback_local_receipt"
  ELSE "rejected_local_receipt"

ReviewCandidate(p, choice, text) ==
  LET r == [about |-> p, choice |-> choice, text |-> text, status |-> ReviewStatus(p, choice, text)]
  IN  /\ Cardinality(choices \cup {r}) + Cardinality(receipts) <= MaxReceipts
      /\ choices' = choices \cup {r}
      /\ UNCHANGED <<reviewVars, storeVars, receipts>>

(* 187P and 209P: the memory must be in the bundle, and so must the one it is merged into. *)
Receive(r) ==
  /\ Cardinality(choices) + Cardinality(receipts \cup {r}) <= MaxReceipts
  /\ receipts' = receipts \cup {r}
  /\ UNCHANGED <<reviewVars, storeVars, choices>>

Receipt(command, id, target, text, status) ==
  [command |-> command, about |-> <<id, target>>, text |-> text, status |-> status]

ReceiveForget(id) ==
  Receive(Receipt("memory_forget", id, << >>, "",
                  IF id \in Bundle THEN "local_forget_receipt_created" ELSE "blocked_memory_not_found"))

EditReceiptStatus(id, text) ==
  IF id \notin Bundle THEN "blocked_memory_not_found"
  ELSE IF text = "" THEN "blocked_missing_edit_text"
  ELSE "local_edit_receipt_created"

ReceiveEdit(id, text) == Receive(Receipt("memory_edit", id, << >>, text, EditReceiptStatus(id, text)))

CorrectionStatus(correction, id, target) ==
  IF id \notin Bundle THEN "blocked_memory_not_found"
  ELSE IF correction = "merge" /\ target = << >> THEN "blocked_missing_merge_target"
  ELSE IF correction = "merge" /\ target \notin Bundle THEN "blocked_memory_not_found"
  ELSE "local_memory_correction_receipt_created"

ReceiveCorrection(correction, id, target) ==
  Receive(Receipt(correction, id, target, "", CorrectionStatus(correction, id, target)))

(* What he may name in a command: a memory of the store, forgotten ones included, or none of them. *)
Nameable == DOMAIN stored \cup {<<"unknown", "">>}

ReviewNext ==
  \/ \E p \in Proposals, chat \in {"own", "other"} : RenderCard(p, chat)
  \/ \E p \in Proposals, c, card \in DOMAIN cards, answer \in Answers, text \in Edits \cup {""}, by \in {"owner", "stranger"} :
       /\ answer # "edit" => text = ""
       /\ BindSelection(Payload(p, c, answer, text), card, by)
  \/ \E d \in DOMAIN decisions, card \in DOMAIN cards, p \in Proposals : WriteBack(d, card, p)

StoreNext ==
  \/ \E note \in Notes : AddMemory(note) \/ (\E signal \in Signals : ApproveCandidate(signal, note))
  \/ \E id \in Ids : ForgetMemory(id) \/ PinMemory(id) \/ (\E note \in Notes : EditMemory(id, note))
  \/ \E p \in Proposals, text \in Edits \cup {""} : \/ ReviewCandidate(p, "edit", text)
                                                    \/ \E choice \in {"approve", "reject"} : ReviewCandidate(p, choice, "")
  \/ \E id \in Nameable : \/ ReceiveForget(id)
                          \/ \E text \in Notes \cup {""} : ReceiveEdit(id, text)
                          \/ \E target \in Nameable \cup {<< >>} : ReceiveCorrection("merge", id, target)
                          \/ \E correction \in {"never_use", "stale", "wrong", "duplicate"} : ReceiveCorrection(correction, id, << >>)

CenterNext == ReviewNext \/ StoreNext

CenterSpec == CenterInit /\ [][CenterNext]_centerVars

(***************************************************************************)
(* Types; decisions are about cards that were rendered or blocked, and     *)
(* exactly the written decisions have an item in the center.               *)
(***************************************************************************)
CenterTypeOK ==
  /\ \A c \in DOMAIN cards : c[1] \in Proposals /\ cards[c] \in {"rendered", "blocked"}
  /\ \A d \in DOMAIN decisions : d.card \in DOMAIN cards /\ d.of \in Proposals
  /\ DOMAIN writebacks \subseteq DOMAIN decisions
  /\ DOMAIN center = {d \in DOMAIN writebacks : writebacks[d] = "written"}
  /\ asked = DOMAIN stored
  /\ \A id \in DOMAIN stored : id \in Ids /\ (stored[id].pinned => stored[id].active)
  /\ \A c \in choices : c.about \in Proposals

(***************************************************************************)
(* A memory of the center is the one decision the owner took on that       *)
(* proposal: shown to him in his own chat, in the wording he approved or   *)
(* gave, nothing sensitive in it; no proposal becomes two memories, and    *)
(* none that he refused becomes one.                                       *)
(***************************************************************************)
WrittenAsDecided ==
  \A d \in DOMAIN center :
    /\ cards[d.card] = "rendered" /\ d.card = <<center[d].of, "own">>
    /\ center[d].text = IF d.answer = "edit" THEN d.text ELSE "proposed"
    /\ center[d].text # "secret"
    /\ \A e \in DOMAIN decisions : e.of = d.of /\ decisions[e] \in Terminal => e = d

InUse == {stored[id].content : id \in Bundle}

(***************************************************************************)
(* Nothing comes back by repetition.  A memory the owner had forgotten is  *)
(* never touched again, and a text that no memory in use holds comes into  *)
(* use only by something new of his: a request he never made before, or    *)
(* an edit of a memory in use.  To add a note again, or to approve what a  *)
(* scan proposes again of the same message or event, is not new; to        *)
(* approve the same text from another message is.                          *)
(***************************************************************************)
NoReturnByRepetition ==
  [][/\ \A id \in DOMAIN stored : ~stored[id].active => id \in DOMAIN stored' /\ stored'[id] = stored[id]
     /\ \A note \in InUse' \ InUse :
          \/ \E id \in asked' \ asked : id[2] = note
          \/ \E id \in Bundle \cap Bundle' : stored'[id].content = note]_centerVars
=============================================================================
