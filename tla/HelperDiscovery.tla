--------------------------- MODULE HelperDiscovery ---------------------------
(***************************************************************************)
(* The consent-based discovery interview of app/helper_discovery.py for     *)
(* one helper: the HelperDiscoverySession row, the HelperProcessingConsent  *)
(* row, the HelperContextInvite rows left for that helper, and the settings *)
(* the handler reads.  One call of handle_helper_discovery is one database  *)
(* transaction, so each of its branches is one action; the guards repeat    *)
(* the order of the code's tests.                                           *)
(*                                                                         *)
(* Here any text may arrive at any time, so what holds of this module holds *)
(* under every order, repetition and loss of updates.  HelperDelivery adds  *)
(* the user and Telegram's delivery.                                        *)
(***************************************************************************)
EXTENDS Naturals, FiniteSets, FiniteSetsExt

CONSTANTS
    TTL,         \* HELPER_DISCOVERY_TTL_HOURS, in clock ticks
    MaxClock,    \* bound: the clock stops here
    MaxNotes,    \* bound: context notes the founder writes
    MaxRestarts  \* bound: restarts of the server with other settings

ASSUME TTLAssumption      == TTL \in Nat \ {0}
ASSUME MaxClockAssumption == MaxClock \in Nat
ASSUME MaxNotesAssumption == MaxNotes \in Nat
ASSUME RestartsAssumption == MaxRestarts \in Nat

VARIABLES
    status, step, answers, summary, proposal, expires, \* the session row
    processing,       \* the processing-consent row, "NONE" when there is none
    notes,            \* the context-invite rows, in the order they were written
    provider, key,    \* settings: interview provider, is an API key configured
    clock, restarts,
    turn,             \* the interviewer call made by the last step, if any
    reply             \* the kind of reply returned by the last step

row      == <<status, step, answers, summary, proposal, expires>>
settings == <<provider, key, restarts>>
vars     == <<row, processing, notes, settings, clock, turn, reply>>

-----------------------------------------------------------------------------
(* Data *)

\* The classes _normalize and the word sets (_YES, _NO, ...) tell apart.
Texts == {"yes", "no", "no_note", "local", "start", "pause", "continue",
          "cancel", "save", "discard", "words"}

Terminal   == {"COMPLETED", "DECLINED", "CANCELLED"}
Open       == {"ACTIVE", "PAUSED", "WAITING_PROCESSING_CONSENT",
               "WAITING_CONTEXT_CONSENT"}
Collecting == Open \cup {"READY_FOR_REVIEW"}
Statuses   == {"NO_SESSION", "WAITING_CONSENT"} \cup Collecting \cup Terminal

Questions  == 5   \* Len(HELPER_DISCOVERY_QUESTIONS)
MinAnswers == 3   \* before this many a turn that is ready is not summarised
MaxAnswers == 7   \* at this many the interview is summarised in any case

NoDeadline == 0   \* expires_at is NULL
NoNote     == 0
NoTurn     == [mode |-> "none", note |-> NoNote]

Note == 1 .. MaxNotes
Unwritten    == [state |-> "UNWRITTEN", text |-> "", expires |-> 0]
Wiped(n, s)  == [n EXCEPT !.state = s, !.text = ""]

Question(k) == <<"question", k>>
Adaptive(k) == <<"adaptive", k>>
\* Mutant: once the questions run out, every answer goes under one key.
AnswerKey_OneAdaptiveKey(k, taken) ==
    IF k < Questions THEN Question(k) ELSE Adaptive(Questions + 1)

\* _answer_key: the question's own key, else the first free adaptive key.
AnswerKey(k, taken) ==
    IF k < Questions /\ Question(k) \notin taken
    THEN Question(k)
    ELSE Adaptive(CHOOSE n \in (k + 1) .. (k + 1 + Cardinality(taken)) :
                    /\ Adaptive(n) \notin taken
                    /\ \A m \in (k + 1) .. (n - 1) : Adaptive(m) \in taken)

OpenAIEnabled == provider = "openai" /\ key

ConsentMessage == IF OpenAIEnabled THEN "consent_openai" ELSE "consent_local"

\* Mutant: < for <= at the deadline.
Overdue_OneTickLate == /\ status \notin Terminal \cup {"NO_SESSION"}
                       /\ expires # NoDeadline
                       /\ expires < clock

\* _is_expired; rows in a terminal status never expire.
Overdue == /\ status \notin Terminal \cup {"NO_SESSION"}
           /\ expires # NoDeadline
           /\ expires <= clock

\* _pending_context_invite: the newest unexpired pending note is offered; the
\* expired pending ones met on the way to it are wiped.
OfferableNotes == {n \in Note : notes[n].state = "PENDING" /\ notes[n].expires > clock}
LookedUp ==
    [n \in Note |->
        IF /\ notes[n].state = "PENDING"
           /\ notes[n].expires <= clock
           /\ \A m \in OfferableNotes : m < n
        THEN Wiped(notes[n], "EXPIRED")
        ELSE notes[n]]

\* _clear_context_invites and _consume_context_invites.
ClearedNotes ==
    [n \in Note |-> IF notes[n].state \in {"PENDING", "ACCEPTED"}
                    THEN Wiped(notes[n], "CANCELLED") ELSE notes[n]]
ConsumedNotes ==
    [n \in Note |-> IF notes[n].state = "ACCEPTED"
                    THEN Wiped(notes[n], "CONSUMED") ELSE notes[n]]

\* Mutant: a note that is only pending is shared too.
SharedNote_PendingToo(ns) ==
    LET accepted == {n \in Note : ns[n].state \in {"PENDING", "ACCEPTED"}}
    IN  IF accepted = {} THEN NoNote ELSE Max(accepted)

\* _accepted_shared_context: the newest accepted note.
SharedNote(ns) ==
    LET accepted == {n \in Note : ns[n].state = "ACCEPTED"}
    IN  IF accepted = {} THEN NoNote ELSE Max(accepted)

\* The processing mode of _generate_turn, with generate_helper_interview_turn
\* calling OpenAI only when a key is configured.
Mode(consent) ==
    IF /\ key
       /\ consent = "ACCEPTED" \/ (consent = "NONE" /\ OpenAIEnabled)
    THEN "openai" ELSE "local"

Interviews(consent, ns) == turn' = [mode |-> Mode(consent), note |-> SharedNote(ns)]
Quiet == turn' = NoTurn

-----------------------------------------------------------------------------
(* Pieces the branches share *)

Clear(s) ==
    /\ status' = s /\ step' = 0 /\ answers' = {} /\ summary' = FALSE
    /\ proposal' = FALSE /\ expires' = NoDeadline

AskConsent ==
    /\ status' = "WAITING_CONSENT" /\ step' = 0 /\ answers' = {}
    /\ summary' = FALSE /\ proposal' = FALSE /\ expires' = clock + TTL
    /\ reply' = ConsentMessage

MoveTo(s) == status' = s /\ UNCHANGED <<step, answers, summary, proposal, expires>>

\* _offer_context_or_begin, after the consent row has become `consent`.
OfferContextOrBegin(consent) ==
    /\ notes' = LookedUp
    /\ IF OfferableNotes # {}
       THEN status' = "WAITING_CONTEXT_CONSENT" /\ reply' = "note_offer" /\ Quiet
       ELSE status' = "ACTIVE" /\ reply' = "question" /\ Interviews(consent, notes')

NeedsProcessingConsent ==
    OpenAIEnabled /\ status \in {"ACTIVE", "PAUSED"} /\ processing = "NONE"

\* Past the tests every branch below "record is None" makes first.
Reached(text) ==
    status # "NO_SESSION" /\ ~Overdue /\ text # "cancel" /\ ~NeedsProcessingConsent

In(s, text) == status = s /\ Reached(text) /\ text # "start"

-----------------------------------------------------------------------------
(* handle_helper_discovery, branch by branch *)

FirstContact(text) ==
    /\ status = "NO_SESSION"
    /\ AskConsent /\ Quiet
    /\ UNCHANGED <<processing, notes>>

\* Mutant: the user is told, the row is forgotten.
Expire_OnlyTold(text) ==
    /\ Overdue
    /\ notes' = ClearedNotes
    /\ reply' = "closed" /\ Quiet
    /\ UNCHANGED <<row, processing>>

Expire(text) ==
    /\ Overdue
    /\ Clear("CANCELLED") /\ notes' = ClearedNotes
    /\ reply' = "closed" /\ Quiet
    /\ UNCHANGED processing

Cancel(text) ==
    /\ status # "NO_SESSION" /\ ~Overdue /\ text = "cancel"
    /\ Clear("CANCELLED") /\ notes' = ClearedNotes
    /\ reply' = "closed" /\ Quiet
    /\ UNCHANGED processing

AskProcessingConsent(text) ==
    /\ NeedsProcessingConsent /\ ~Overdue /\ text # "cancel"
    /\ MoveTo("WAITING_PROCESSING_CONSENT") /\ reply' = "processing" /\ Quiet
    /\ UNCHANGED <<processing, notes>>

Resume(text) ==
    /\ Reached(text) /\ text = "start" /\ status \in {"ACTIVE", "PAUSED"}
    /\ MoveTo("ACTIVE") /\ reply' = "question" /\ Interviews(processing, notes)
    /\ UNCHANGED <<processing, notes>>

\* Mutant: the summary and answers of the last interview are carried over.
StartAgain_KeepsRow(text) ==
    /\ Reached(text) /\ text = "start" /\ status \notin {"ACTIVE", "PAUSED"}
    /\ status' = "WAITING_CONSENT" /\ reply' = ConsentMessage /\ Quiet
    /\ UNCHANGED <<step, answers, summary, proposal, expires, processing, notes>>

StartAgain(text) ==
    /\ Reached(text) /\ text = "start" /\ status \notin {"ACTIVE", "PAUSED"}
    /\ AskConsent /\ Quiet
    /\ UNCHANGED <<processing, notes>>

Decline(text) ==
    /\ In("WAITING_CONSENT", text) /\ text = "no"
    /\ Clear("DECLINED") /\ reply' = "closed" /\ Quiet
    /\ UNCHANGED <<processing, notes>>

Consent(text) ==
    /\ In("WAITING_CONSENT", text) /\ text \in {"yes", "local"}
    /\ processing' = IF ~OpenAIEnabled THEN processing
                     ELSE IF text = "yes" THEN "ACCEPTED" ELSE "DECLINED"
    /\ step' = 0 /\ expires' = clock + TTL
    /\ OfferContextOrBegin(processing')
    /\ UNCHANGED <<answers, summary, proposal>>

RemindConsent(text) ==
    /\ In("WAITING_CONSENT", text) /\ text \notin {"yes", "local", "no"}
    /\ reply' = ConsentMessage /\ Quiet
    /\ UNCHANGED <<row, processing, notes>>

ChooseProcessing(text) ==
    /\ In("WAITING_PROCESSING_CONSENT", text) /\ text \in {"yes", "local"}
    /\ processing' = IF text = "yes" THEN "ACCEPTED" ELSE "DECLINED"
    /\ OfferContextOrBegin(processing')
    /\ UNCHANGED <<step, answers, summary, proposal, expires>>

RemindProcessing(text) ==
    /\ In("WAITING_PROCESSING_CONSENT", text) /\ text \notin {"yes", "local"}
    /\ reply' = "processing" /\ Quiet
    /\ UNCHANGED <<row, processing, notes>>

\* The note was withdrawn or expired since it was offered.
NoteGone(text) ==
    /\ In("WAITING_CONTEXT_CONSENT", text) /\ OfferableNotes = {}
    /\ notes' = LookedUp
    /\ MoveTo("ACTIVE") /\ reply' = "question" /\ Interviews(processing, notes')
    /\ UNCHANGED processing

DecideNote(text) ==
    /\ In("WAITING_CONTEXT_CONSENT", text) /\ OfferableNotes # {}
    /\ text \in {"yes", "no", "no_note"}
    /\ LET n == Max(OfferableNotes) IN
       notes' = [LookedUp EXCEPT ![n] =
                    IF text = "yes" THEN [@ EXCEPT !.state = "ACCEPTED"]
                                    ELSE Wiped(@, "DECLINED")]
    /\ MoveTo("ACTIVE") /\ reply' = "question" /\ Interviews(processing, notes')
    /\ UNCHANGED processing

RemindNote(text) ==
    /\ In("WAITING_CONTEXT_CONSENT", text) /\ OfferableNotes # {}
    /\ text \notin {"yes", "no", "no_note"}
    /\ notes' = LookedUp /\ reply' = "note_offer" /\ Quiet
    /\ UNCHANGED <<row, processing>>

Continue(text) ==
    /\ In("PAUSED", text) /\ text = "continue"
    /\ MoveTo("ACTIVE") /\ reply' = "question" /\ Interviews(processing, notes)
    /\ UNCHANGED <<processing, notes>>

RemindPaused(text) ==
    /\ In("PAUSED", text) /\ text # "continue"
    /\ reply' = "paused" /\ Quiet
    /\ UNCHANGED <<row, processing, notes>>

Pause(text) ==
    /\ In("ACTIVE", text) /\ text = "pause"
    /\ MoveTo("PAUSED") /\ reply' = "paused" /\ Quiet
    /\ UNCHANGED <<processing, notes>>

RecordAnswer ==
    /\ answers' = answers \cup {AnswerKey(step, answers)}
    /\ step' = step + 1
    /\ Interviews(processing, notes)

MustSummarize == step + 1 >= MaxAnswers
MaySummarize  == step + 1 >= MinAnswers  \* when turn.ready_to_summarize

AnswerAndAsk(text) ==
    /\ In("ACTIVE", text) /\ text # "pause" /\ ~MustSummarize
    /\ RecordAnswer /\ reply' = "question"
    /\ UNCHANGED <<status, summary, proposal, expires, processing, notes>>

AnswerAndSummarize(text) ==
    /\ In("ACTIVE", text) /\ text # "pause" /\ MaySummarize
    /\ RecordAnswer
    /\ status' = "READY_FOR_REVIEW" /\ summary' = TRUE
    /\ notes' = ConsumedNotes /\ reply' = "review"
    /\ UNCHANGED <<proposal, expires, processing>>

SaveProfile(text) ==
    /\ In("READY_FOR_REVIEW", text) /\ text = "save"
    /\ status' = "COMPLETED" /\ proposal' = TRUE /\ answers' = {}
    /\ reply' = "proposal" /\ Quiet
    /\ UNCHANGED <<step, summary, expires, processing, notes>>

DiscardProfile(text) ==
    /\ In("READY_FOR_REVIEW", text) /\ text \in {"discard", "no"}
    /\ Clear("COMPLETED") /\ reply' = "closed" /\ Quiet
    /\ UNCHANGED <<processing, notes>>

RemindReview(text) ==
    /\ In("READY_FOR_REVIEW", text) /\ text \notin {"save", "discard", "no"}
    /\ reply' = "review" /\ Quiet
    /\ UNCHANGED <<row, processing, notes>>

\* A closed interview returns None: the rest of the runtime answers.
FallThrough(text) ==
    /\ Reached(text) /\ text # "start" /\ status \in Terminal
    /\ reply' = "none" /\ Quiet
    /\ UNCHANGED <<row, processing, notes>>

Handle(text) ==
    /\ \/ FirstContact(text) \/ Expire(text) \/ Cancel(text)
       \/ AskProcessingConsent(text) \/ Resume(text) \/ StartAgain(text)
       \/ Decline(text) \/ Consent(text) \/ RemindConsent(text)
       \/ ChooseProcessing(text) \/ RemindProcessing(text)
       \/ NoteGone(text) \/ DecideNote(text) \/ RemindNote(text)
       \/ Continue(text) \/ RemindPaused(text) \/ Pause(text)
       \/ AnswerAndAsk(text) \/ AnswerAndSummarize(text)
       \/ SaveProfile(text) \/ DiscardProfile(text) \/ RemindReview(text)
       \/ FallThrough(text)
    /\ UNCHANGED <<settings, clock>>

-----------------------------------------------------------------------------
(* The environment *)

\* create_helper_context_invite: a new note withdraws the ones before it.
WriteNote ==
    /\ \E n \in Note :
        /\ notes[n].state = "UNWRITTEN"
        /\ \A m \in 1 .. (n - 1) : notes[m].state # "UNWRITTEN"
        /\ notes' = [ClearedNotes EXCEPT ![n] =
                        [state |-> "PENDING", text |-> "kept", expires |-> clock + TTL]]
    /\ Quiet /\ reply' = "none"
    /\ UNCHANGED <<row, processing, settings, clock>>

Tick ==
    /\ clock < MaxClock
    /\ clock' = clock + 1
    /\ Quiet /\ reply' = "none"
    /\ UNCHANGED <<row, processing, notes, settings>>

\* get_settings is read once, when the process starts.
Restart ==
    /\ restarts < MaxRestarts
    /\ restarts' = restarts + 1
    /\ provider' \in {"local", "openai"} /\ key' \in BOOLEAN
    /\ Quiet /\ reply' = "none"
    /\ UNCHANGED <<row, processing, notes, clock>>

Init ==
    /\ status = "NO_SESSION" /\ step = 0 /\ answers = {} /\ summary = FALSE
    /\ proposal = FALSE /\ expires = NoDeadline
    /\ processing = "NONE" /\ notes = [n \in Note |-> Unwritten]
    /\ provider \in {"local", "openai"} /\ key \in BOOLEAN
    /\ clock = 0 /\ restarts = 0 /\ turn = NoTurn /\ reply = "none"

Next ==
    \/ \E text \in Texts : Handle(text)
    \/ WriteNote
    \/ Tick
    \/ Restart

Spec == Init /\ [][Next]_vars

-----------------------------------------------------------------------------
(* Properties *)

Replies == {"none", "consent_openai", "consent_local", "closed", "processing",
            "question", "note_offer", "paused", "review", "proposal"}
Keys    == (({"question"} \X (0 .. (Questions - 1)))
            \cup ({"adaptive"} \X (1 .. MaxAnswers)))
NoteStates == {"UNWRITTEN", "PENDING", "ACCEPTED", "DECLINED", "EXPIRED",
               "CANCELLED", "CONSUMED"}

\* Every column holds what models.py declares for it.
TypeOK ==
    /\ status \in Statuses /\ step \in 0 .. MaxAnswers /\ answers \subseteq Keys
    /\ summary \in BOOLEAN /\ proposal \in BOOLEAN
    /\ expires \in Nat
    /\ processing \in {"NONE", "ACCEPTED", "DECLINED"}
    /\ notes \in [Note -> [state : NoteStates, text : {"", "kept"}, expires : Nat]]
    /\ provider \in {"local", "openai"} /\ key \in BOOLEAN
    /\ clock \in Nat /\ restarts \in Nat
    /\ turn \in [mode : {"none", "local", "openai"}, note : Note \cup {NoNote}]
    /\ reply \in Replies

\* While an interview collects, the answers are exactly those of the steps
\* taken: none overwritten, none lost, whatever was paused, resumed or
\* repeated (the answers_json / current_step pair).  Outside it there are none.
AnswersMatchSteps ==
    answers = IF status \in Collecting
              THEN {IF k < Questions THEN Question(k) ELSE Adaptive(k + 1)
                      : k \in 0 .. (step - 1)}
              ELSE {}

\* An interview is never summarised on fewer than three answers and never
\* asks an eighth question.
SummaryOnEnoughAnswers ==
    /\ status = "READY_FOR_REVIEW" => step \in MinAnswers .. MaxAnswers
    /\ status \in Open => step < MaxAnswers

\* Whatever the helper said and has not asked to keep belongs to a live
\* interview with a deadline: the lazy _is_expired test can still reach it.
DataHasDeadline ==
    answers # {} \/ (summary /\ ~proposal)
        => status \in Collecting /\ expires # NoDeadline

\* create_helper_context_invite, the lookups and the clears keep at most one
\* note alive, and the text of any other note is gone.
OneLiveNote ==
    LET live == {n \in Note : notes[n].state \in {"PENDING", "ACCEPTED"}}
    IN  /\ \A m, n \in live : m = n
        /\ \A n \in Note : notes[n].text = "kept" <=> n \in live

\* Answers and notes never reach an interviewer, and no profile is proposed,
\* once the 24 hours of the interview are over.
NothingUsedAfterDeadline ==
    [][turn'.mode # "none" \/ reply' = "proposal" => clock < expires']_vars

\* A note the helper refused, or that lapsed, was withdrawn or was used up,
\* never comes back to life.
NoteDecisionFinal ==
    [][\A n \in Note : notes[n].state \in {"DECLINED", "EXPIRED", "CANCELLED", "CONSUMED"}
          => notes'[n] = notes[n]]_vars

-----------------------------------------------------------------------------
(* The interview keeps the promises of InterviewContract *)

Phase == CASE status = "WAITING_CONSENT"  -> "asking"
           [] status \in Open             -> "open"
           [] status = "READY_FOR_REVIEW" -> "review"
           [] OTHER                       -> "closed"

Contract == INSTANCE InterviewContract
    WITH Fewest <- MinAnswers, Most <- MaxAnswers,
         phase <- Phase, heard <- Cardinality(answers)

\* No path through the handler skips consent, keeps an answer past the end of
\* its interview, or concludes on too few answers.
KeepsContract == Contract!ContractSpec
=============================================================================
