------------------------ MODULE HelperDiscoveryProofs ------------------------
(***************************************************************************)
(* The invariants of HelperDiscovery hold for every deadline, number of     *)
(* notes and number of restarts.  The session row and the note rows are     *)
(* disturbed by different actions, so each has an inductive invariant and   *)
(* lemmas of its own; the actions then only cite them.  The last part proves *)
(* what HelperDelivery promises the helper who reads before she answers.     *)
(***************************************************************************)
EXTENDS HelperDelivery, FiniteSetTheorems, TLAPS

-----------------------------------------------------------------------------
(* The session row *)

\* The keys of the first k answers.
KeysOf(k) == {IF j < Questions THEN Question(j) ELSE Adaptive(j + 1) : j \in 0 .. (k - 1)}

RowOK ==
    /\ status \in Statuses /\ step \in 0 .. MaxAnswers
    /\ summary \in BOOLEAN /\ proposal \in BOOLEAN /\ expires \in Nat
    /\ AnswersMatchSteps
    /\ SummaryOnEnoughAnswers
    /\ status \notin Terminal \cup {"NO_SESSION"} => expires # NoDeadline
    /\ summary /\ ~proposal => status = "READY_FOR_REVIEW"

KeyAt(j) == IF j < Questions THEN Question(j) ELSE Adaptive(j + 1)

\* One answer, one new key.
LEMMA NewKey ==
    ASSUME NEW k \in 0 .. (MaxAnswers - 1)
    PROVE  KeyAt(k) \notin KeysOf(k) /\ KeysOf(k + 1) = KeysOf(k) \cup {KeyAt(k)}
<1>1. \A i, j \in 0 .. MaxAnswers : KeyAt(i) = KeyAt(j) => i = j
  BY DEF KeyAt, Questions, MaxAnswers, Question, Adaptive
<1>2. KeysOf(k) = {KeyAt(j) : j \in 0 .. (k - 1)}
  BY DEF KeysOf, KeyAt
<1>3. KeysOf(k + 1) = {KeyAt(j) : j \in 0 .. k}
  BY DEF KeysOf, KeyAt, MaxAnswers
<1>4. 0 .. k = (0 .. (k - 1)) \cup {k}
  BY DEF MaxAnswers
<1> QED BY <1>1, <1>2, <1>3, <1>4 DEF MaxAnswers

\* So k answers take k keys.
LEMMA KeysCount ==
    ASSUME NEW k \in 0 .. MaxAnswers
    PROVE  IsFiniteSet(KeysOf(k)) /\ Cardinality(KeysOf(k)) = k
<1> DEFINE P(j) == IsFiniteSet(KeysOf(j)) /\ Cardinality(KeysOf(j)) = j
<1>1. P(0)
  <2>1. KeysOf(0) = {}
    BY DEF KeysOf
  <2> QED BY <2>1, FS_EmptySet
<1>2. ASSUME NEW j \in 0 .. (MaxAnswers - 1), P(j) PROVE P(j + 1)
  <2>1. KeyAt(j) \notin KeysOf(j) /\ KeysOf(j + 1) = KeysOf(j) \cup {KeyAt(j)}
    BY NewKey
  <2>2. IsFiniteSet(KeysOf(j) \cup {KeyAt(j)})
        /\ Cardinality(KeysOf(j) \cup {KeyAt(j)}) = Cardinality(KeysOf(j)) + 1
    BY <1>2, <2>1, FS_AddElement
  <2> QED BY <1>2, <2>1, <2>2
<1> HIDE DEF P
<1>3. P(1) /\ P(2) /\ P(3) /\ P(4) /\ P(5) /\ P(6) /\ P(7)
  <2>1. P(1) BY <1>1, <1>2 DEF MaxAnswers
  <2>2. P(2) BY <2>1, <1>2 DEF MaxAnswers
  <2>3. P(3) BY <2>2, <1>2 DEF MaxAnswers
  <2>4. P(4) BY <2>3, <1>2 DEF MaxAnswers
  <2>5. P(5) BY <2>4, <1>2 DEF MaxAnswers
  <2>6. P(6) BY <2>5, <1>2 DEF MaxAnswers
  <2>7. P(7) BY <2>6, <1>2 DEF MaxAnswers
  <2> QED BY <2>1, <2>2, <2>3, <2>4, <2>5, <2>6, <2>7
<1>4. k \in {0, 1, 2, 3, 4, 5, 6, 7}
  BY DEF MaxAnswers
<1>5. P(k)
  BY <1>1, <1>3, <1>4
<1> QED BY <1>5 DEF P

\* _answer_key finds the first key it tries free: the one of its step.
LEMMA FreshKey ==
    ASSUME NEW k \in 0 .. (MaxAnswers - 1)
    PROVE  AnswerKey(k, KeysOf(k)) = KeyAt(k)
<1>1. CASE k < Questions
  BY <1>1, NewKey DEF AnswerKey, KeyAt
<1>2. CASE ~(k < Questions)
  <2> DEFINE S == (k + 1) .. (k + 1 + Cardinality(KeysOf(k)))
             Free(n) == /\ Adaptive(n) \notin KeysOf(k)
                        /\ \A m \in (k + 1) .. (n - 1) : Adaptive(m) \in KeysOf(k)
  <2>1. Cardinality(KeysOf(k)) = k
    BY KeysCount DEF MaxAnswers
  <2>2. Adaptive(k + 1) \notin KeysOf(k)
    BY NewKey, <1>2 DEF KeyAt
  <2>3. k + 1 \in S /\ Free(k + 1)
    BY <2>1, <2>2 DEF MaxAnswers
  <2>4. ASSUME NEW n \in S, Free(n) PROVE n = k + 1
    BY <2>1, <2>2, <2>4 DEF MaxAnswers
  <2>5. (CHOOSE n \in S : Free(n)) = k + 1
    BY <2>3, <2>4
  <2>6. AnswerKey(k, KeysOf(k)) = Adaptive(CHOOSE n \in S : Free(n))
    BY <1>2 DEF AnswerKey
  <2> QED BY <2>5, <2>6, <1>2 DEF KeyAt
<1> QED BY <1>1, <1>2


\* What the branches do to the row: leave it, move it among the open
\* statuses, clear it, or start it over.
LEMMA KeepRow == RowOK /\ UNCHANGED row => RowOK'
BY DEF RowOK, row, AnswersMatchSteps, SummaryOnEnoughAnswers

LEMMA MoveRow ==
    ASSUME RowOK, status \in Open, NEW s \in Open, MoveTo(s)
    PROVE  RowOK'
BY DEF RowOK, MoveTo, AnswersMatchSteps, SummaryOnEnoughAnswers,
       Open, Collecting, Statuses, Terminal

LEMMA ClearRow ==
    ASSUME NEW s \in Terminal, Clear(s)
    PROVE  RowOK'
<1>1. status' \in Terminal /\ step' = 0 /\ answers' = {} /\ summary' = FALSE
      /\ proposal' = FALSE /\ expires' = NoDeadline
  BY DEF Clear
<1>2. AnswersMatchSteps' /\ SummaryOnEnoughAnswers'
  BY <1>1 DEF AnswersMatchSteps, SummaryOnEnoughAnswers, Terminal, Collecting, Open
<1>3. summary' \in BOOLEAN /\ proposal' \in BOOLEAN /\ ~(summary' /\ ~proposal')
  BY <1>1
<1>4. status' \in Statuses /\ step' \in 0 .. MaxAnswers /\ expires' \in Nat
  BY <1>1 DEF Statuses, NoDeadline, MaxAnswers
<1> QED BY <1>1, <1>2, <1>3, <1>4, Zenon DEF RowOK

LEMMA AskRow ==
    ASSUME clock \in Nat, AskConsent
    PROVE  RowOK'
<1>1. status' = "WAITING_CONSENT" /\ step' = 0 /\ answers' = {} /\ summary' = FALSE
      /\ proposal' = FALSE /\ expires' = clock + TTL
  BY DEF AskConsent
<1>2. AnswersMatchSteps' /\ SummaryOnEnoughAnswers'
  BY <1>1 DEF AnswersMatchSteps, SummaryOnEnoughAnswers, Collecting, Open
<1>3. expires' \in Nat /\ expires' # NoDeadline
  BY <1>1, TTLAssumption DEF NoDeadline
<1>4. summary' \in BOOLEAN /\ proposal' \in BOOLEAN /\ ~(summary' /\ ~proposal')
  BY <1>1
<1>5. status' \in Statuses /\ step' \in 0 .. MaxAnswers
  BY <1>1 DEF Statuses, MaxAnswers
<1> QED BY <1>1, <1>2, <1>3, <1>4, <1>5, Zenon DEF RowOK

LEMMA ConsentRow ==
    ASSUME RowOK, clock \in Nat, NEW text, Consent(text)
    PROVE  RowOK'
<1>1. status = "WAITING_CONSENT" /\ answers = {} /\ answers' = {}
  BY DEF Consent, In, RowOK, AnswersMatchSteps, Collecting, Open
<1>2. status' \in {"ACTIVE", "WAITING_CONTEXT_CONSENT"} /\ step' = 0
      /\ expires' = clock + TTL /\ summary' = summary /\ proposal' = proposal
  BY DEF Consent, OfferContextOrBegin
<1>3. ~(summary /\ ~proposal)
  BY <1>1 DEF RowOK
<1>4. AnswersMatchSteps' /\ SummaryOnEnoughAnswers'
  BY <1>1, <1>2 DEF AnswersMatchSteps, SummaryOnEnoughAnswers, Open, Collecting, MaxAnswers
<1> QED BY <1>1, <1>2, <1>3, <1>4, TTLAssumption
        DEF RowOK, Statuses, Collecting, Open, Terminal, MaxAnswers, NoDeadline

LEMMA RecordRow ==
    ASSUME RowOK, status = "ACTIVE", RecordAnswer
    PROVE  /\ step < MaxAnswers /\ step' = step + 1
           /\ answers' = KeysOf(step')
<1>1. step \in 0 .. (MaxAnswers - 1) /\ answers = KeysOf(step)
  BY DEF RowOK, SummaryOnEnoughAnswers, AnswersMatchSteps, KeysOf, Open, Collecting, MaxAnswers
<1> QED BY <1>1, NewKey, FreshKey DEF RecordAnswer, MaxAnswers

LEMMA AskNextRow ==
    ASSUME RowOK, NEW text, AnswerAndAsk(text)
    PROVE  RowOK'
<1>1. status = "ACTIVE" /\ RecordAnswer /\ ~(step + 1 >= MaxAnswers)
      /\ UNCHANGED <<status, summary, proposal, expires>>
  BY DEF AnswerAndAsk, In, MustSummarize
<1>2. step \in 0 .. MaxAnswers /\ step' = step + 1 /\ answers' = KeysOf(step')
  BY <1>1, RecordRow DEF RowOK
<1> QED BY <1>1, <1>2
        DEF RowOK, AnswersMatchSteps, KeysOf, SummaryOnEnoughAnswers, Collecting, Open, MaxAnswers

LEMMA SummarizeRow ==
    ASSUME RowOK, NEW text, AnswerAndSummarize(text)
    PROVE  RowOK'
<1>1. status = "ACTIVE" /\ RecordAnswer /\ step + 1 >= MinAnswers
      /\ status' = "READY_FOR_REVIEW" /\ summary' = TRUE
      /\ UNCHANGED <<proposal, expires>>
  BY DEF AnswerAndSummarize, In, MaySummarize
<1>2. step \in 0 .. MaxAnswers /\ step < MaxAnswers /\ step' = step + 1 /\ answers' = KeysOf(step')
  BY <1>1, RecordRow DEF RowOK
<1> QED BY <1>1, <1>2
        DEF RowOK, AnswersMatchSteps, KeysOf, SummaryOnEnoughAnswers, Collecting, Open,
            Statuses, Terminal, MaxAnswers, MinAnswers

LEMMA SaveRow ==
    ASSUME RowOK, NEW text, SaveProfile(text)
    PROVE  RowOK'
BY DEF SaveProfile, In, RowOK, AnswersMatchSteps, SummaryOnEnoughAnswers,
       Collecting, Open, Statuses, Terminal

-----------------------------------------------------------------------------
(* The notes *)

NotesOK ==
    /\ notes \in [Note -> [state : NoteStates, text : {"", "kept"}, expires : Nat]]
    /\ OneLiveNote

Live(ns) == {n \in Note : ns[n].state \in {"PENDING", "ACCEPTED"}}

LEMMA KeepNotes == NotesOK /\ UNCHANGED notes => NotesOK'
BY DEF NotesOK, OneLiveNote

\* Wiping some of the notes leaves at most one alive, and no text behind.
LEMMA WipeNotes ==
    ASSUME NotesOK, NEW W \in SUBSET Note,
           \A n \in W : notes[n].state \in {"PENDING", "ACCEPTED"},
           NEW s \in {"EXPIRED", "CANCELLED", "CONSUMED"},
           notes' = [n \in Note |-> IF n \in W THEN Wiped(notes[n], s) ELSE notes[n]]
    PROVE  NotesOK'
<1>1. \A n \in Note :
        /\ n \in W => notes'[n] = Wiped(notes[n], s)
        /\ n \notin W => notes'[n] = notes[n]
  OBVIOUS
<1>2. \A n \in W : Wiped(notes[n], s) \in [state : NoteStates, text : {"", "kept"}, expires : Nat]
                   /\ Wiped(notes[n], s).state = s /\ Wiped(notes[n], s).text = ""
  BY DEF Wiped, NotesOK, NoteStates
<1>3. notes' \in [Note -> [state : NoteStates, text : {"", "kept"}, expires : Nat]]
  BY <1>1, <1>2 DEF NotesOK
<1>4. Live(notes') = Live(notes) \ W
  BY <1>1, <1>2 DEF Live
<1>5. OneLiveNote'
  BY <1>1, <1>2, <1>4 DEF NotesOK, OneLiveNote, Live
<1> QED BY <1>3, <1>5 DEF NotesOK

LEMMA LookUpNotes == NotesOK /\ notes' = LookedUp => NotesOK'
<1> SUFFICES ASSUME NotesOK, notes' = LookedUp PROVE NotesOK'
  OBVIOUS
<1> DEFINE W == {n \in Note : /\ notes[n].state = "PENDING" /\ notes[n].expires <= clock
                             /\ \A m \in OfferableNotes : m < n}
<1>1. notes' = [n \in Note |-> IF n \in W THEN Wiped(notes[n], "EXPIRED") ELSE notes[n]]
  BY DEF LookedUp
<1> QED BY <1>1, WipeNotes

LEMMA ClearNotes == NotesOK /\ notes' = ClearedNotes => NotesOK'
<1> SUFFICES ASSUME NotesOK, notes' = ClearedNotes PROVE NotesOK'
  OBVIOUS
<1> DEFINE W == {n \in Note : notes[n].state \in {"PENDING", "ACCEPTED"}}
<1>1. notes' = [n \in Note |-> IF n \in W THEN Wiped(notes[n], "CANCELLED") ELSE notes[n]]
  BY DEF ClearedNotes
<1> QED BY <1>1, WipeNotes

LEMMA ConsumeNotes == NotesOK /\ notes' = ConsumedNotes => NotesOK'
<1> SUFFICES ASSUME NotesOK, notes' = ConsumedNotes PROVE NotesOK'
  OBVIOUS
<1> DEFINE W == {n \in Note : notes[n].state = "ACCEPTED"}
<1>1. notes' = [n \in Note |-> IF n \in W THEN Wiped(notes[n], "CONSUMED") ELSE notes[n]]
  BY DEF ConsumedNotes
<1> QED BY <1>1, WipeNotes

\* With one live note, Max picks it: the note offered and the note shared.
LEMMA OfferedNote ==
    ASSUME NotesOK, OfferableNotes # {}
    PROVE  /\ Max(OfferableNotes) \in Note
           /\ OfferableNotes = {Max(OfferableNotes)}
           /\ Live(notes) = {Max(OfferableNotes)}
<1> PICK n \in OfferableNotes : TRUE
  OBVIOUS
<1>1. n \in Note /\ Live(notes) = {n} /\ OfferableNotes = {n}
  BY DEF OfferableNotes, NotesOK, OneLiveNote, Live
<1>2. Max(OfferableNotes) = n
  BY <1>1 DEF Max, Note
<1> QED BY <1>1, <1>2

LEMMA DecideNotes ==
    ASSUME NotesOK, clock \in Nat, NEW text, DecideNote(text)
    PROVE  NotesOK'
<1> DEFINE n == Max(OfferableNotes)
<1>1. OfferableNotes # {} /\ n \in Note /\ Live(notes) = {n} /\ OfferableNotes = {n}
  BY OfferedNote DEF DecideNote
<1>2. LookedUp = notes
  <2>1. \A m \in Note : notes[m].state = "PENDING" => m = n
    BY <1>1 DEF Live
  <2>2. notes[n].expires > clock /\ notes[n].expires \in Nat
    BY <1>1 DEF OfferableNotes, NotesOK
  <2>3. \A m \in Note : ~(notes[m].state = "PENDING" /\ notes[m].expires <= clock)
    BY <2>1, <2>2
  <2> QED BY <2>3 DEF LookedUp, NotesOK
<1>3. notes' = [notes EXCEPT ![n] = IF text = "yes" THEN [@ EXCEPT !.state = "ACCEPTED"]
                                    ELSE Wiped(@, "DECLINED")]
  BY <1>2 DEF DecideNote
<1>4. notes[n].text = "kept"
  BY <1>1 DEF NotesOK, OneLiveNote, Live
<1>5. \/ notes'[n].state = "ACCEPTED" /\ notes'[n].text = "kept"
      \/ notes'[n].state = "DECLINED" /\ notes'[n].text = ""
  BY <1>1, <1>3, <1>4 DEF NotesOK, Wiped
<1>6. \A m \in Note : m # n => notes'[m] = notes[m]
  BY <1>3 DEF NotesOK
<1>7. notes' \in [Note -> [state : NoteStates, text : {"", "kept"}, expires : Nat]]
  BY <1>1, <1>3 DEF NotesOK, Wiped, NoteStates
<1>8. OneLiveNote'
  BY <1>1, <1>5, <1>6 DEF NotesOK, OneLiveNote, Live
<1> QED BY <1>7, <1>8 DEF NotesOK

LEMMA WriteNotes ==
    ASSUME NotesOK, clock \in Nat, WriteNote
    PROVE  NotesOK'
<1> PICK n \in Note :
        notes' = [ClearedNotes EXCEPT ![n] =
                    [state |-> "PENDING", text |-> "kept", expires |-> clock + TTL]]
  BY DEF WriteNote
<1> DEFINE C == ClearedNotes
<1>1. \A m \in Note : C[m].state \notin {"PENDING", "ACCEPTED"} /\ C[m].text = ""
  BY DEF ClearedNotes, Wiped, NotesOK, OneLiveNote
<1>2. C \in [Note -> [state : NoteStates, text : {"", "kept"}, expires : Nat]]
  BY DEF ClearedNotes, Wiped, NotesOK, NoteStates
<1> DEFINE r == [state |-> "PENDING", text |-> "kept", expires |-> clock + TTL]
<1>3. r \in [state : NoteStates, text : {"", "kept"}, expires : Nat]
      /\ r.state = "PENDING" /\ r.text = "kept"
  BY TTLAssumption DEF NoteStates
<1>4. notes' = [C EXCEPT ![n] = r]
  OBVIOUS
<1> HIDE DEF C, r
<1>5. notes' \in [Note -> [state : NoteStates, text : {"", "kept"}, expires : Nat]]
  BY <1>2, <1>3, <1>4
<1>6. \A m \in Note : notes'[m] = IF m = n THEN r ELSE C[m]
  BY <1>2, <1>4
<1>7. \A m \in Note : IF m = n THEN notes'[m].state = "PENDING" /\ notes'[m].text = "kept"
                      ELSE notes'[m].state \notin {"PENDING", "ACCEPTED"} /\ notes'[m].text = ""
  BY <1>1, <1>3, <1>6
<1>8. Live(notes') = {n}
  BY <1>7 DEF Live
<1>9. OneLiveNote'
  BY <1>7, <1>8 DEF OneLiveNote, Live
<1> QED BY <1>5, <1>9 DEF NotesOK

-----------------------------------------------------------------------------
(* Every action *)

RestOK ==
    /\ processing \in {"NONE", "ACCEPTED", "DECLINED"}
    /\ provider \in {"local", "openai"} /\ key \in BOOLEAN
    /\ clock \in Nat /\ restarts \in Nat

CallOK ==
    /\ turn \in [mode : {"none", "local", "openai"}, note : Note \cup {NoNote}]
    /\ reply \in Replies

IInv == RowOK /\ NotesOK /\ RestOK /\ CallOK

\* With one live note there is at most one accepted note, and it is the one
\* the interviewer is given.
LEMMA QuietCall == Quiet /\ reply' \in Replies => CallOK'
BY DEF Quiet, NoTurn, CallOK

LEMMA InterviewCall ==
    ASSUME NEW ns, \A m, n \in Live(ns) : m = n,
           NEW consent, Interviews(consent, ns), reply' \in Replies
    PROVE  CallOK'
<1> DEFINE A == {n \in Note : ns[n].state = "ACCEPTED"}
<1>1. SharedNote(ns) \in Note \cup {NoNote}
  <2>1. CASE A = {}
    BY <2>1 DEF SharedNote
  <2>2. CASE A # {}
    <3> PICK n \in A : TRUE
      BY <2>2
    <3>1. A = {n} /\ n \in Note
      BY DEF Live
    <3>2. Max(A) = n
      BY <3>1 DEF Max, Note
    <3> QED BY <3>1, <3>2, <2>2 DEF SharedNote
  <2> QED BY <2>1, <2>2
<1>2. Mode(consent) \in {"local", "openai"}
  BY DEF Mode
<1> QED BY <1>1, <1>2 DEF Interviews, CallOK

\* _offer_context_or_begin, whoever calls it.
LEMMA OfferOK ==
    ASSUME NotesOK, NEW consent, OfferContextOrBegin(consent)
    PROVE  NotesOK' /\ CallOK'
<1>1. NotesOK'
  BY LookUpNotes DEF OfferContextOrBegin
<1>2. \A m, n \in Live(notes') : m = n
  BY <1>1 DEF NotesOK, OneLiveNote, Live
<1>3. CASE OfferableNotes # {}
  <2>1. Quiet /\ reply' = "note_offer"
    BY <1>3 DEF OfferContextOrBegin
  <2> QED BY <1>1, <2>1, QuietCall DEF Replies
<1>4. CASE OfferableNotes = {}
  <2>1. Interviews(consent, notes') /\ reply' = "question"
    BY <1>4 DEF OfferContextOrBegin
  <2>2. reply' \in Replies
    BY <2>1 DEF Replies
  <2> QED BY <1>1, <1>2, <2>1, <2>2, InterviewCall
<1> QED BY <1>1, <1>3, <1>4

LEMMA HandleOK ==
    ASSUME IInv, NEW text, Handle(text)
    PROVE  RowOK' /\ NotesOK' /\ CallOK' /\ processing' \in {"NONE", "ACCEPTED", "DECLINED"}
<1> USE DEF IInv
<1>a. processing \in {"NONE", "ACCEPTED", "DECLINED"} /\ clock \in Nat
  BY DEF RestOK
<1>b. \A m, n \in Live(notes) : m = n
  BY DEF NotesOK, OneLiveNote, Live
<1>1. CASE FirstContact(text)
  BY <1>1, <1>a, AskRow, KeepNotes, QuietCall DEF FirstContact, AskConsent, ConsentMessage, Replies
<1>2. CASE Expire(text)
  BY <1>2, <1>a, ClearRow, ClearNotes, QuietCall DEF Expire, Terminal, Replies
<1>3. CASE Cancel(text)
  BY <1>3, <1>a, ClearRow, ClearNotes, QuietCall DEF Cancel, Terminal, Replies
<1>4. CASE AskProcessingConsent(text)
  BY <1>4, <1>a, MoveRow, KeepNotes, QuietCall
     DEF AskProcessingConsent, NeedsProcessingConsent, Open, Replies
<1>5. CASE Resume(text)
  BY <1>5, <1>a, <1>b, MoveRow, KeepNotes, InterviewCall DEF Resume, Open, Replies
<1>6. CASE StartAgain(text)
  BY <1>6, <1>a, AskRow, KeepNotes, QuietCall DEF StartAgain, AskConsent, ConsentMessage, Replies
<1>7. CASE Decline(text)
  BY <1>7, <1>a, ClearRow, KeepNotes, QuietCall DEF Decline, Terminal, Replies
<1>8. CASE Consent(text)
  <2>1. RowOK'
    BY <1>8, <1>a, ConsentRow
  <2>2. NotesOK' /\ CallOK'
    BY <1>8, OfferOK DEF Consent
  <2> QED BY <1>8, <1>a, <2>1, <2>2 DEF Consent
<1>9. CASE RemindConsent(text)
  BY <1>9, <1>a, KeepRow, KeepNotes, QuietCall DEF RemindConsent, ConsentMessage, Replies
<1>10. CASE ChooseProcessing(text)
  <2>1. NotesOK' /\ CallOK'
    BY <1>10, OfferOK DEF ChooseProcessing
  <2>2. \E s \in Open : MoveTo(s)
    BY <1>10 DEF ChooseProcessing, OfferContextOrBegin, MoveTo, Open
  <2>3. RowOK'
    BY <1>10, <2>2, MoveRow DEF ChooseProcessing, In, Open
  <2> QED BY <1>10, <2>1, <2>3 DEF ChooseProcessing
<1>11. CASE RemindProcessing(text)
  BY <1>11, <1>a, KeepRow, KeepNotes, QuietCall DEF RemindProcessing, Replies
<1>12. CASE NoteGone(text)
  <2>1. NotesOK'
    BY <1>12, LookUpNotes DEF NoteGone
  <2>2. \A m, n \in Live(notes') : m = n
    BY <2>1 DEF NotesOK, OneLiveNote, Live
  <2> QED BY <1>12, <1>a, <2>1, <2>2, MoveRow, InterviewCall DEF NoteGone, In, Open, Replies
<1>13. CASE DecideNote(text)
  <2>1. NotesOK'
    BY <1>13, <1>a, DecideNotes
  <2>2. \A m, n \in Live(notes') : m = n
    BY <2>1 DEF NotesOK, OneLiveNote, Live
  <2> QED BY <1>13, <1>a, <2>1, <2>2, MoveRow, InterviewCall DEF DecideNote, In, Open, Replies
<1>14. CASE RemindNote(text)
  BY <1>14, <1>a, KeepRow, LookUpNotes, QuietCall DEF RemindNote, Replies
<1>15. CASE Continue(text)
  BY <1>15, <1>a, <1>b, MoveRow, KeepNotes, InterviewCall DEF Continue, In, Open, Replies
<1>16. CASE RemindPaused(text)
  BY <1>16, <1>a, KeepRow, KeepNotes, QuietCall DEF RemindPaused, Replies
<1>17. CASE Pause(text)
  BY <1>17, <1>a, MoveRow, KeepNotes, QuietCall DEF Pause, In, Open, Replies
<1>18. CASE AnswerAndAsk(text)
  BY <1>18, <1>a, <1>b, AskNextRow, KeepNotes, InterviewCall DEF AnswerAndAsk, RecordAnswer, Replies
<1>19. CASE AnswerAndSummarize(text)
  BY <1>19, <1>a, <1>b, SummarizeRow, ConsumeNotes, InterviewCall
     DEF AnswerAndSummarize, RecordAnswer, Replies
<1>20. CASE SaveProfile(text)
  BY <1>20, <1>a, SaveRow, KeepNotes, QuietCall DEF SaveProfile, Replies
<1>21. CASE DiscardProfile(text)
  BY <1>21, <1>a, ClearRow, KeepNotes, QuietCall DEF DiscardProfile, Terminal, Replies
<1>22. CASE RemindReview(text)
  BY <1>22, <1>a, KeepRow, KeepNotes, QuietCall DEF RemindReview, Replies
<1>23. CASE FallThrough(text)
  BY <1>23, <1>a, KeepRow, KeepNotes, QuietCall DEF FallThrough, Replies
<1> QED BY <1>1, <1>2, <1>3, <1>4, <1>5, <1>6, <1>7, <1>8, <1>9, <1>10, <1>11, <1>12,
           <1>13, <1>14, <1>15, <1>16, <1>17, <1>18, <1>19, <1>20, <1>21, <1>22, <1>23
        DEF Handle

-----------------------------------------------------------------------------
(* The invariant *)

LEMMA InitOK == Init => IInv
<1> SUFFICES ASSUME Init PROVE IInv
  OBVIOUS
<1>1. RowOK
  <2>1. AnswersMatchSteps /\ SummaryOnEnoughAnswers
    BY DEF Init, AnswersMatchSteps, SummaryOnEnoughAnswers, Collecting, Open
  <2>2. summary \in BOOLEAN /\ proposal \in BOOLEAN /\ ~(summary /\ ~proposal)
    BY DEF Init
  <2>3. status \in Statuses /\ step \in 0 .. MaxAnswers /\ expires \in Nat
        /\ status = "NO_SESSION"
    BY DEF Init, Statuses, MaxAnswers, NoDeadline
  <2> QED BY <2>1, <2>2, <2>3 DEF RowOK
<1>2. NotesOK
  <2>1. \A n \in Note : notes[n] = Unwritten
    BY DEF Init
  <2>2. \A n \in Note : notes[n].state = "UNWRITTEN" /\ notes[n].text = ""
    <3>1. Unwritten.state = "UNWRITTEN" /\ Unwritten.text = ""
      BY DEF Unwritten
    <3> QED BY <2>1, <3>1
  <2>3. Live(notes) = {}
    BY <2>2 DEF Live
  <2> QED BY <2>2, <2>3 DEF Init, NotesOK, OneLiveNote, Live, Unwritten, NoteStates
<1>3. RestOK /\ CallOK
  BY DEF Init, RestOK, CallOK, NoTurn, Replies
<1> QED BY <1>1, <1>2, <1>3 DEF IInv

LEMMA NextOK == IInv /\ [Next]_vars => IInv'
<1> SUFFICES ASSUME IInv, [Next]_vars PROVE IInv'
  OBVIOUS
<1>1. ASSUME NEW text \in Texts, Handle(text) PROVE IInv'
  BY <1>1, HandleOK DEF IInv, RestOK, Handle, settings
<1>2. CASE WriteNote
  <2>1. RowOK' /\ NotesOK' /\ CallOK'
    BY <1>2, KeepRow, WriteNotes, QuietCall DEF WriteNote, IInv, RestOK, Replies
  <2> QED BY <1>2, <2>1 DEF IInv, RestOK, WriteNote, settings
<1>3. CASE Tick
  <2>1. RowOK' /\ NotesOK' /\ CallOK'
    BY <1>3, KeepRow, KeepNotes, QuietCall DEF Tick, IInv, Replies
  <2> QED BY <1>3, <2>1 DEF IInv, RestOK, Tick, settings
<1>4. CASE Restart
  <2>1. RowOK' /\ NotesOK' /\ CallOK'
    BY <1>4, KeepRow, KeepNotes, QuietCall DEF Restart, IInv, Replies
  <2> QED BY <1>4, <2>1 DEF IInv, RestOK, Restart
<1>5. CASE UNCHANGED vars
  <2>1. RowOK' /\ NotesOK'
    BY <1>5, KeepRow, KeepNotes DEF vars, IInv
  <2> QED BY <1>5, <2>1 DEF IInv, RestOK, CallOK, vars, settings
<1> QED BY <1>1, <1>2, <1>3, <1>4, <1>5 DEF Next

THEOREM Invariance == Spec => []IInv
<1>1. Init => IInv
  BY InitOK
<1>2. IInv /\ [Next]_vars => IInv'
  BY NextOK
<1> QED BY <1>1, <1>2, PTL DEF Spec

\* Type correctness.
THEOREM TypeCorrect == Spec => []TypeOK
<1>1. IInv => TypeOK
  <2> SUFFICES ASSUME IInv PROVE TypeOK
    OBVIOUS
  <2>1. answers \subseteq Keys
    <3>1. answers = {} \/ answers = KeysOf(step)
      BY DEF IInv, RowOK, AnswersMatchSteps, KeysOf
    <3>2. step \in 0 .. MaxAnswers
      BY DEF IInv, RowOK
    <3>3. \A j \in 0 .. (step - 1) : KeyAt(j) \in Keys
      BY <3>2 DEF KeyAt, Question, Adaptive, Questions, MaxAnswers, Keys
    <3> QED BY <3>1, <3>3 DEF KeysOf, KeyAt
  <2> QED BY <2>1 DEF IInv, RowOK, NotesOK, RestOK, CallOK, TypeOK
<1> QED BY <1>1, Invariance, PTL

\* Whatever arrives in whatever order, the answers kept are those of the steps
\* taken, and a summary rests on three to seven of them.
THEOREM AnswersKept == Spec => [](AnswersMatchSteps /\ SummaryOnEnoughAnswers)
<1>1. IInv => AnswersMatchSteps /\ SummaryOnEnoughAnswers
  BY DEF IInv, RowOK
<1> QED BY <1>1, Invariance, PTL

\* Temporary data always has a deadline the lazy expiry can find.
THEOREM DeadlineKept == Spec => []DataHasDeadline
<1>1. IInv => DataHasDeadline
  <2> SUFFICES ASSUME IInv PROVE DataHasDeadline
    OBVIOUS
  <2>1. answers # {} => status \in Collecting
    BY DEF IInv, RowOK, AnswersMatchSteps
  <2>2. summary /\ ~proposal => status \in Collecting
    BY DEF IInv, RowOK, Collecting
  <2>3. status \in Collecting => expires # NoDeadline
    BY DEF IInv, RowOK, Collecting, Open, Terminal
  <2> QED BY <2>1, <2>2, <2>3 DEF DataHasDeadline
<1> QED BY <1>1, Invariance, PTL

\* At most one note is pending or accepted, however many were written.
THEOREM OneNote == Spec => []OneLiveNote
<1>1. IInv => OneLiveNote
  BY DEF IInv, NotesOK
<1> QED BY <1>1, Invariance, PTL

-----------------------------------------------------------------------------
(* What a step may never do *)

\* A branch that reaches the interviewer or the proposal has passed the
\* _is_expired test, and leaves a deadline ahead.
LEMMA UsedInTime ==
    ASSUME IInv, [Next]_vars, turn'.mode # "none" \/ reply' = "proposal", ~UNCHANGED vars
    PROVE  clock < expires'
<1>1. \A text : Reached(text) /\ status \notin Terminal => clock < expires
  BY DEF Reached, Overdue, IInv, RowOK, RestOK
<1>2. ~Quiet \/ reply' = "proposal"
  BY DEF Quiet, NoTurn
<1>3. PICK text \in Texts : Handle(text)
  BY <1>2 DEF Next, WriteNote, Tick, Restart
<1>4. CASE Consent(text)
  BY <1>4, TTLAssumption DEF Consent, IInv, RestOK
<1>5. CASE ~Consent(text)
  <2>1. UNCHANGED expires /\ Reached(text) /\ status \notin Terminal
    BY <1>2, <1>3, <1>5
       DEF Handle, FirstContact, AskConsent, ConsentMessage, Expire, Cancel, AskProcessingConsent,
           Resume, StartAgain, Decline, RemindConsent, ChooseProcessing, RemindProcessing,
           NoteGone, DecideNote, RemindNote, Continue, RemindPaused, Pause, AnswerAndAsk,
           AnswerAndSummarize, SaveProfile, DiscardProfile, RemindReview, FallThrough,
           In, MoveTo, Terminal, row
  <2> QED BY <1>1, <2>1
<1> QED BY <1>4, <1>5

\* No answer, note or summary is used once the interview's 24 hours are over.
THEOREM UseEndsAtDeadline == Spec => NothingUsedAfterDeadline
<1>1. IInv /\ [Next]_vars
        => [turn'.mode # "none" \/ reply' = "proposal" => clock < expires']_vars
  BY UsedInTime
<1> QED BY <1>1, Invariance, PTL DEF Spec, NothingUsedAfterDeadline

Decided == {"DECLINED", "EXPIRED", "CANCELLED", "CONSUMED"}

LEMMA DecidedStays ==
    ASSUME IInv, [Next]_vars, NEW n \in Note, notes[n].state \in Decided
    PROVE  notes'[n] = notes[n]
<1>1. LookedUp[n] = notes[n] /\ ClearedNotes[n] = notes[n] /\ ConsumedNotes[n] = notes[n]
  BY DEF LookedUp, ClearedNotes, ConsumedNotes, Decided
<1>2. ASSUME NEW text \in Texts, DecideNote(text) PROVE notes'[n] = notes[n]
  <2>1. Max(OfferableNotes) # n
    BY <1>2, OfferedNote DEF IInv, OfferableNotes, DecideNote, Decided
  <2> QED BY <1>1, <1>2, <2>1 DEF DecideNote, LookedUp
<1>3. ASSUME NEW text \in Texts, Handle(text), ~DecideNote(text) PROVE notes'[n] = notes[n]
  BY <1>1, <1>3
     DEF Handle, FirstContact, Expire, Cancel, AskProcessingConsent, Resume, StartAgain,
         Decline, Consent, RemindConsent, ChooseProcessing, RemindProcessing, NoteGone,
         RemindNote, Continue, RemindPaused, Pause, AnswerAndAsk, AnswerAndSummarize,
         SaveProfile, DiscardProfile, RemindReview, FallThrough, OfferContextOrBegin
<1>4. CASE WriteNote
  BY <1>1, <1>4 DEF WriteNote, Decided, ClearedNotes
<1>5. CASE Tick \/ Restart \/ UNCHANGED vars
  BY <1>5 DEF Tick, Restart, vars
<1> QED BY <1>2, <1>3, <1>4, <1>5 DEF Next

\* A refused, lapsed, withdrawn or used note is never offered or used again.
THEOREM DecisionsStand == Spec => NoteDecisionFinal
<1>1. IInv /\ [Next]_vars
        => [\A n \in Note : notes[n].state \in {"DECLINED", "EXPIRED", "CANCELLED", "CONSUMED"}
              => notes'[n] = notes[n]]_vars
  BY DecidedStays DEF Decided
<1> QED BY <1>1, Invariance, PTL DEF Spec, NoteDecisionFinal

-----------------------------------------------------------------------------
(* Refinement *)

\* The answers the contract counts are the steps of the open interview, and
\* its phase follows the status.
Counted ==
    /\ status \in Statuses /\ step \in 0 .. MaxAnswers
    /\ Cardinality(answers) = (IF status \in Collecting THEN step ELSE 0)
    /\ status \in Open => Phase = "open"
    /\ status = "WAITING_CONSENT" => Phase = "asking"
    /\ status = "READY_FOR_REVIEW" => Phase = "review"
    /\ status \in Terminal \cup {"NO_SESSION"} => Phase = "closed"

LEMMA IInvCounts == IInv => Counted
<1> SUFFICES ASSUME IInv PROVE Counted
  OBVIOUS
<1>1. step \in 0 .. MaxAnswers /\ status \in Statuses
  BY DEF IInv, RowOK
<1>2. answers = IF status \in Collecting THEN KeysOf(step) ELSE {}
  BY DEF IInv, RowOK, AnswersMatchSteps, KeysOf
<1>3. Cardinality(answers) = (IF status \in Collecting THEN step ELSE 0)
  BY <1>1, <1>2, KeysCount, FS_EmptySet
<1> QED BY <1>1, <1>3 DEF Counted, Phase, Statuses, Collecting, Open, Terminal

LEMMA StepKeepsContract ==
    ASSUME IInv, Counted, Counted', RowOK', [Next]_vars
    PROVE  [Contract!ContractNext]_(Contract!contract)
<1> DEFINE H == Cardinality(answers)
<1> USE DEF Contract!ContractNext, Contract!contract
<1>1. ASSUME status' \in Terminal PROVE Contract!ContractNext
  BY <1>1 DEF Counted, Contract!Close, Terminal, Collecting, Open
<1>2. ASSUME status' = "WAITING_CONSENT" PROVE Contract!ContractNext
  BY <1>2 DEF Counted, Contract!Ask, Collecting, Open
<1>3. ASSUME status = "WAITING_CONSENT", status' \in Open, step' = 0
      PROVE  Contract!ContractNext
  BY <1>3 DEF Counted, Contract!Agree, Collecting
<1>4. ASSUME status \in Open, status' \in Open, answers' = answers
      PROVE  UNCHANGED Contract!contract
  BY <1>4 DEF Counted
<1>5. ASSUME UNCHANGED row PROVE UNCHANGED Contract!contract
  BY <1>5 DEF row, Phase
<1>6. ASSUME NEW text, Handle(text)
      PROVE  \/ status' \in Terminal
             \/ status' = "WAITING_CONSENT"
             \/ status = "WAITING_CONSENT" /\ status' \in Open /\ step' = 0
             \/ status \in Open /\ status' \in Open /\ answers' = answers
             \/ UNCHANGED row
             \/ AnswerAndAsk(text)
             \/ AnswerAndSummarize(text)
  BY <1>6 DEF Handle, FirstContact, AskConsent, Expire, Cancel, Clear, AskProcessingConsent,
       Resume, StartAgain, Decline, Consent, RemindConsent, ChooseProcessing, RemindProcessing,
       NoteGone, DecideNote, RemindNote, Continue, RemindPaused, Pause, SaveProfile,
       DiscardProfile, RemindReview, FallThrough, OfferContextOrBegin, In, MoveTo,
       NeedsProcessingConsent, Open, Terminal
<1>7. ASSUME NEW text, AnswerAndAsk(text) PROVE Contract!ContractNext
  <2>1. status = "ACTIVE" /\ status' = status /\ step' = step + 1 /\ step + 1 < MaxAnswers
    BY <1>7 DEF AnswerAndAsk, RecordAnswer, In, MustSummarize, Counted, MaxAnswers
  <2> QED BY <2>1 DEF Counted, Contract!Hear, Collecting, Open
<1>8. ASSUME NEW text, AnswerAndSummarize(text) PROVE Contract!ContractNext
  <2>1. status = "ACTIVE" /\ status' = "READY_FOR_REVIEW" /\ step' = step + 1
    BY <1>8 DEF AnswerAndSummarize, RecordAnswer, In
  <2>2. step' \in MinAnswers .. MaxAnswers
    BY <2>1 DEF RowOK, SummaryOnEnoughAnswers
  <2> QED BY <2>1, <2>2 DEF Counted, Contract!Conclude, Collecting, Open
<1>9. ASSUME WriteNote \/ Tick \/ Restart \/ UNCHANGED vars PROVE UNCHANGED row
  BY <1>9 DEF WriteNote, Tick, Restart, vars, row
<1>10. ASSUME NEW text \in Texts, Handle(text) PROVE [Contract!ContractNext]_(Contract!contract)
  BY <1>1, <1>2, <1>3, <1>4, <1>5, <1>6, <1>7, <1>8, <1>10
<1> QED BY <1>5, <1>9, <1>10 DEF Next

\* The handler implements InterviewContract for every deadline, any number of
\* notes and restarts, and any order or repetition of updates.
THEOREM ContractKept == Spec => KeepsContract
<1>1. Init => Contract!ContractInit
  BY FS_EmptySet DEF Init, Contract!ContractInit, Phase, Open
<1>2. IInv /\ Counted /\ Counted' /\ RowOK' /\ [Next]_vars
        => [Contract!ContractNext]_(Contract!contract)
  BY StepKeepsContract
<1>3. IInv => RowOK
  BY DEF IInv
<1> QED BY <1>1, <1>2, <1>3, IInvCounts, Invariance, PTL
        DEF Spec, KeepsContract, Contract!ContractSpec

-----------------------------------------------------------------------------
(* The helper and her screen                                               *)
(*                                                                         *)
(* What she agreed to is what the rows act on because, as long as no answer *)
(* was lost, the question on her screen is the one the row is waiting at,   *)
(* and a text on its way was written at that question.                      *)

AcceptedNote == \E n \in Note : notes[n].state = "ACCEPTED"
OnItsWay(words) == inbox # <<>> /\ Head(inbox) \in words

ExchangeOK ==
    /\ inbox \in Seq(Texts) /\ Len(inbox) <= 1 /\ lost \in Nat
    /\ agreed \in [processing : {"nothing", "openai", "local"}, note : BOOLEAN]

\* Kept by every restart: some consent question was on the screen.
ConsentOK ==
    /\ status = "WAITING_CONSENT" =>
        /\ screen \in {"consent_openai", "consent_local"}
        /\ OnItsWay({"yes", "local"}) => agreed.processing # "nothing"
    /\ status \in Collecting => agreed.processing # "nothing"

\* Without a restart it was the question the settings call for, and the
\* processing row follows the answer.
ProcessingOK ==
    /\ status # "WAITING_PROCESSING_CONSENT"
    /\ status = "WAITING_CONSENT" =>
        /\ screen = ConsentMessage
        /\ OnItsWay({"yes"}) /\ OpenAIEnabled => agreed.processing = "openai"
    /\ status \in Collecting =>
        /\ screen \in {"question", "note_offer", "paused", "review"}
        /\ OpenAIEnabled => processing # "NONE"
        /\ processing = "ACCEPTED" => agreed.processing = "openai"
    /\ ~OpenAIEnabled => processing = "NONE"
    /\ OpenAIOnlyWithConsent

PermissionOK ==
    /\ status = "WAITING_CONTEXT_CONSENT" =>
        /\ screen = "note_offer"
        /\ OnItsWay({"yes"}) => agreed.note
    /\ status \in {"ACTIVE", "PAUSED"} => screen # "note_offer"
    /\ AcceptedNote => status \in {"ACTIVE", "PAUSED"} /\ agreed.note
    /\ NoteOnlyWithPermission

ReaderOK ==
    /\ ExchangeOK
    /\ lost = 0 => ConsentOK
    /\ Undisturbed => ProcessingOK /\ PermissionOK

\* An interview starts to collect at a consent question answered with yes or
\* local; the question asked and the status it is asked at go together.
ConsentCrossed(text) ==
    /\ status' = "WAITING_CONSENT" => reply' \in {"consent_openai", "consent_local"}
    /\ reply' \in FreshScreens => status' \notin Collecting
    /\ status' \in Collecting =>
         status \in Collecting \/ (status = "WAITING_CONSENT" /\ text \in {"yes", "local"})

LEMMA HandleConsent ==
    ASSUME NEW text, Handle(text), IInv
    PROVE  ConsentCrossed(text)
<1> USE DEF ConsentCrossed, FreshScreens, Collecting, Open, Statuses, Terminal
<1>r. status \in Statuses
  BY DEF IInv, RowOK
<1>1. CASE FirstContact(text) \/ StartAgain(text)
  BY <1>1 DEF FirstContact, StartAgain, AskConsent, ConsentMessage
<1>2. CASE Expire(text) \/ Cancel(text) \/ Decline(text) \/ DiscardProfile(text)
  BY <1>2 DEF Expire, Cancel, Decline, DiscardProfile, Clear
<1>3. CASE AskProcessingConsent(text) \/ Resume(text)
  BY <1>3 DEF AskProcessingConsent, NeedsProcessingConsent, Resume, MoveTo
<1>4. CASE Consent(text) \/ ChooseProcessing(text)
  BY <1>4 DEF Consent, ChooseProcessing, OfferContextOrBegin, In
<1>5. CASE RemindConsent(text) \/ RemindProcessing(text)
  BY <1>5 DEF RemindConsent, RemindProcessing, ConsentMessage, In, row
<1>6. CASE NoteGone(text) \/ DecideNote(text) \/ RemindNote(text)
  BY <1>6 DEF NoteGone, DecideNote, RemindNote, MoveTo, In, row
<1>7. CASE Continue(text) \/ RemindPaused(text) \/ Pause(text)
  BY <1>7 DEF Continue, RemindPaused, Pause, MoveTo, In, row
<1>8. CASE AnswerAndAsk(text) \/ AnswerAndSummarize(text)
  BY <1>8 DEF AnswerAndAsk, AnswerAndSummarize, In, row
<1>9. CASE SaveProfile(text) \/ RemindReview(text) \/ FallThrough(text)
  BY <1>9 DEF SaveProfile, RemindReview, FallThrough, In, row
<1> QED BY <1>1, <1>2, <1>3, <1>4, <1>5, <1>6, <1>7, <1>8, <1>9 DEF Handle

\* With the settings the interview began under, the processing row is decided
\* at the consent question and a call to OpenAI follows the row.
Settled ==
    /\ status # "WAITING_PROCESSING_CONSENT"
    /\ status \in Collecting /\ OpenAIEnabled => processing # "NONE"
    /\ ~OpenAIEnabled => processing = "NONE"

ProcessingCrossed(text) ==
    /\ status' # "WAITING_PROCESSING_CONSENT"
    /\ status' = "WAITING_CONSENT" => reply' = ConsentMessage
    /\ status' \in Collecting => reply' \in {"question", "note_offer", "paused", "review"}
    /\ status' \in Collecting /\ OpenAIEnabled => processing' # "NONE"
    /\ ~OpenAIEnabled => processing' = "NONE"
    /\ status' \in Collecting /\ processing' = "ACCEPTED" =>
         \/ status \in Collecting /\ processing = "ACCEPTED"
         \/ status = "WAITING_CONSENT" /\ text = "yes" /\ OpenAIEnabled
    /\ turn'.mode = "openai" => status' \in Collecting /\ processing' = "ACCEPTED"

LEMMA OpenAICall ==
    ASSUME NEW consent, NEW ns, Interviews(consent, ns), turn'.mode = "openai"
    PROVE  consent = "ACCEPTED" \/ (consent = "NONE" /\ OpenAIEnabled)
BY DEF Interviews, Mode

LEMMA QuietTurn == Quiet => turn'.mode = "none" /\ turn'.note = NoNote
BY DEF Quiet, NoTurn

LEMMA HandleProcessing ==
    ASSUME NEW text, Handle(text), IInv, Settled
    PROVE  ProcessingCrossed(text)
<1> USE DEF ProcessingCrossed, Settled, Collecting, Open, Statuses, Terminal
<1>r. status \in Statuses
  BY DEF IInv, RowOK
<1>n. ~NeedsProcessingConsent
  BY DEF NeedsProcessingConsent
<1>1. CASE FirstContact(text) \/ StartAgain(text)
  BY <1>1, QuietTurn DEF FirstContact, StartAgain, AskConsent
<1>2. CASE Expire(text) \/ Cancel(text) \/ Decline(text) \/ DiscardProfile(text)
  BY <1>2, QuietTurn DEF Expire, Cancel, Decline, DiscardProfile, Clear
<1>3. CASE Resume(text)
  BY <1>3, OpenAICall DEF Resume, MoveTo
<1>4. CASE Consent(text)
  <2>1. CASE OfferableNotes # {}
    BY <1>4, <2>1, QuietTurn DEF Consent, OfferContextOrBegin, In
  <2>2. CASE OfferableNotes = {}
    <3>1. Interviews(processing', notes') /\ status' = "ACTIVE" /\ reply' = "question"
      BY <1>4, <2>2 DEF Consent, OfferContextOrBegin
    <3>2. turn'.mode = "openai" => processing' = "ACCEPTED" \/ (processing' = "NONE" /\ OpenAIEnabled)
      BY <3>1 DEF Interviews, Mode
    <3> QED BY <1>4, <3>1, <3>2 DEF Consent, In
  <2> QED BY <2>1, <2>2
<1>5. CASE RemindConsent(text) \/ RemindProcessing(text)
  BY <1>5, QuietTurn DEF RemindConsent, RemindProcessing, In, row
<1>6. CASE NoteGone(text) \/ DecideNote(text)
  BY <1>6, <1>r DEF NoteGone, DecideNote, MoveTo, In, Interviews, Mode
<1>7. CASE Continue(text) \/ RemindPaused(text) \/ Pause(text) \/ RemindNote(text)
  BY <1>7, QuietTurn, OpenAICall DEF Continue, RemindPaused, Pause, RemindNote, MoveTo, In, row
<1>8. CASE AnswerAndAsk(text) \/ AnswerAndSummarize(text)
  BY <1>8, OpenAICall DEF AnswerAndAsk, AnswerAndSummarize, RecordAnswer, In, row
<1>9. CASE SaveProfile(text) \/ RemindReview(text) \/ FallThrough(text)
  BY <1>9, QuietTurn DEF SaveProfile, RemindReview, FallThrough, In, row
<1>10. ~AskProcessingConsent(text) /\ ~ChooseProcessing(text)
  BY <1>n DEF AskProcessingConsent, ChooseProcessing, In
<1> QED BY <1>1, <1>2, <1>3, <1>4, <1>5, <1>6, <1>7, <1>8, <1>9, <1>10 DEF Handle

\* The note on offer is accepted at its question, and once accepted it is
\* there only while the interview it was accepted in is being held.
NotesCrossed(text) ==
    /\ status' = "WAITING_CONTEXT_CONSENT" => reply' = "note_offer"
    /\ status' \in {"ACTIVE", "PAUSED"} => reply' # "note_offer"
    /\ AcceptedNote' =>
         /\ status' \in {"ACTIVE", "PAUSED"}
         /\ AcceptedNote \/ (status = "WAITING_CONTEXT_CONSENT" /\ text = "yes")
    /\ turn'.note # NoNote => AcceptedNote' \/ (AcceptedNote /\ status' \in Collecting)

LEMMA NoteShared ==
    ASSUME NEW ns, \A n \in Note : ns[n].state # "ACCEPTED"
    PROVE  SharedNote(ns) = NoNote
BY DEF SharedNote

LEMMA NoneAccepted ==
    ASSUME IInv
    PROVE  /\ DOMAIN LookedUp = Note
           /\ \A n \in Note :
                /\ LookedUp[n].state = "ACCEPTED" => notes[n].state = "ACCEPTED"
                /\ ClearedNotes[n].state # "ACCEPTED"
                /\ ConsumedNotes[n].state # "ACCEPTED"
<1>1. \A n \in Note : notes[n] \in [state : NoteStates, text : {"", "kept"}, expires : Nat]
  BY DEF IInv, NotesOK
<1>2. ASSUME NEW n \in Note, NEW s \in {"EXPIRED", "CANCELLED", "CONSUMED"}
      PROVE  Wiped(notes[n], s).state = s
  BY <1>1 DEF Wiped
<1> QED BY <1>1, <1>2 DEF LookedUp, ClearedNotes, ConsumedNotes

LEMMA HandleNotes ==
    ASSUME NEW text, Handle(text), IInv, Settled,
           AcceptedNote => status \in {"ACTIVE", "PAUSED"}
    PROVE  NotesCrossed(text)
<1> USE DEF NotesCrossed, Settled, Collecting, Open, Statuses, Terminal, AcceptedNote
<1>r. status \in Statuses
  BY DEF IInv, RowOK
<1>n. ~NeedsProcessingConsent
  BY DEF NeedsProcessingConsent, Collecting
<1>1. CASE FirstContact(text) \/ StartAgain(text)
  BY <1>1, QuietTurn DEF FirstContact, StartAgain, AskConsent, ConsentMessage
<1>2. CASE Expire(text) \/ Cancel(text)
  BY <1>2, QuietTurn, NoneAccepted DEF Expire, Cancel, Clear
<1>3. CASE Decline(text) \/ DiscardProfile(text)
  BY <1>3, QuietTurn DEF Decline, DiscardProfile, Clear, In
<1>4. CASE Resume(text) \/ Continue(text)
  BY <1>4, NoteShared DEF Resume, Continue, MoveTo, Interviews
<1>5. CASE Consent(text)
  <2>1. ~AcceptedNote' /\ notes' = LookedUp
    BY <1>5, NoneAccepted DEF Consent, In, OfferContextOrBegin
  <2>2. CASE OfferableNotes # {}
    BY <1>5, <2>1, <2>2, QuietTurn DEF Consent, OfferContextOrBegin
  <2>3. CASE OfferableNotes = {}
    BY <1>5, <2>1, <2>3, NoteShared DEF Consent, OfferContextOrBegin, Interviews
  <2> QED BY <2>2, <2>3
<1>6. CASE RemindConsent(text) \/ RemindProcessing(text)
  BY <1>6, QuietTurn DEF RemindConsent, RemindProcessing, ConsentMessage, In, row
<1>7. CASE NoteGone(text)
  <2>1. ~AcceptedNote' /\ notes' = LookedUp
    BY <1>7, NoneAccepted DEF NoteGone, In
  <2> QED BY <1>7, <2>1, NoteShared DEF NoteGone, MoveTo, Interviews
<1>8. CASE DecideNote(text)
  <2>1. status' = "ACTIVE" /\ reply' = "question" /\ status = "WAITING_CONTEXT_CONSENT"
    BY <1>8 DEF DecideNote, MoveTo, In
  <2>2. AcceptedNote' => text = "yes"
    <3> DEFINE n == Max(OfferableNotes)
    <3>0. n \in Note /\ ~AcceptedNote
      BY <1>8, <2>1, OfferedNote DEF DecideNote, IInv
    <3> HIDE DEF n
    <3>1. ASSUME text # "yes" PROVE notes' = [LookedUp EXCEPT ![n] = Wiped(@, "DECLINED")]
      BY <1>8, <3>1 DEF DecideNote, n
    <3>2. ASSUME text # "yes", NEW m \in Note PROVE notes'[m].state # "ACCEPTED"
      <4>1. CASE m # n
        BY <3>0, <3>1, <3>2, <4>1, NoneAccepted
      <4>2. CASE m = n
        <5>1. LookedUp[n] \in [state : NoteStates, text : {"", "kept"}, expires : Nat]
          BY <3>0 DEF LookedUp, Wiped, IInv, NotesOK, NoteStates
        <5>2. notes'[n] = Wiped(LookedUp[n], "DECLINED")
          BY <3>0, <3>1, <3>2, NoneAccepted
        <5> QED BY <4>2, <5>1, <5>2 DEF Wiped
      <4> QED BY <4>1, <4>2
    <3> QED BY <3>2
  <2> QED BY <1>8, <2>1, <2>2, NoteShared DEF DecideNote, Interviews
<1>9. CASE RemindNote(text)
  BY <1>9, QuietTurn, NoneAccepted DEF RemindNote, In, row
<1>10. CASE RemindPaused(text) \/ Pause(text)
  BY <1>10, QuietTurn DEF RemindPaused, Pause, MoveTo, In, row
<1>11. CASE AnswerAndAsk(text)
  BY <1>11, NoteShared DEF AnswerAndAsk, RecordAnswer, In, Interviews
<1>12. CASE AnswerAndSummarize(text)
  BY <1>12, NoteShared, NoneAccepted DEF AnswerAndSummarize, RecordAnswer, In, Interviews
<1>13. CASE SaveProfile(text) \/ RemindReview(text) \/ FallThrough(text)
  BY <1>13, QuietTurn DEF SaveProfile, RemindReview, FallThrough, In, row
<1>14. ~AskProcessingConsent(text) /\ ~ChooseProcessing(text)
  BY <1>n DEF AskProcessingConsent, ChooseProcessing, In
<1> QED BY <1>1, <1>2, <1>3, <1>4, <1>5, <1>6, <1>7, <1>8, <1>9, <1>10, <1>11, <1>12,
           <1>13, <1>14 DEF Handle

\* One text at a time: the helper writes when she has read the answer to the
\* last text.  A second text written ahead would answer a question she has not
\* seen, and the promises below would not hold of it.
ReadsFirst == MaxInbox = 1

\* A step that is not a handler's makes no call and leaves the row alone.
LEMMA OutsideOK ==
    ASSUME ReaderOK, Quiet, UNCHANGED <<row, processing, delivery>>,
           \/ UNCHANGED <<settings, notes>>
           \/ UNCHANGED settings /\ ~AcceptedNote'
           \/ restarts' # 0
    PROVE  ReaderOK'
<1> USE DEF ReaderOK, delivery, row, settings
<1>1. turn'.mode = "none" /\ turn'.note = NoNote
  BY QuietTurn
<1>2. ExchangeOK'
  BY DEF ExchangeOK
<1>3. ConsentOK => ConsentOK'
  BY DEF ConsentOK, OnItsWay
<1>4. ASSUME Undisturbed' PROVE Undisturbed /\ UNCHANGED settings /\ (AcceptedNote' => AcceptedNote)
  BY <1>4 DEF Undisturbed, AcceptedNote
<1>5. Undisturbed' => ProcessingOK'
  BY <1>1, <1>4 DEF ProcessingOK, OnItsWay, ConsentMessage, OpenAIEnabled, OpenAIOnlyWithConsent
<1>6. Undisturbed' => PermissionOK'
  BY <1>1, <1>4 DEF PermissionOK, OnItsWay, NoteOnlyWithPermission
<1> QED BY <1>2, <1>3, <1>5, <1>6

LEMMA SendOK ==
    ASSUME IInv, ReaderOK, ReadsFirst, NEW text \in Texts, Send(text)
    PROVE  ReaderOK'
<1> USE DEF Send, row, settings
<1>1. ExchangeOK /\ inbox = <<>>
  BY DEF ReaderOK, ExchangeOK, ReadsFirst
<1>2. inbox' = <<text>> /\ inbox' # <<>> /\ Head(inbox') = text
  BY <1>1
<1>3. agreed' = Agreement(text)
  OBVIOUS
<1>4. ExchangeOK'
  <2>1. agreed.processing \in {"nothing", "openai", "local"} /\ agreed.note \in BOOLEAN
    BY <1>1 DEF ExchangeOK
  <2>2. agreed' \in [processing : {"nothing", "openai", "local"}, note : BOOLEAN]
    <3> DEFINE p == IF text = "yes" /\ screen \in {"consent_openai", "processing"} THEN "openai"
                    ELSE IF text \in {"yes", "local"} /\ screen \in ConsentScreens THEN "local"
                    ELSE agreed.processing
               n == IF screen = "note_offer" /\ text \in {"yes", "no", "no_note"}
                    THEN text = "yes" ELSE agreed.note
    <3>1. p \in {"nothing", "openai", "local"} /\ n \in BOOLEAN
      BY <2>1
    <3>2. agreed' = [processing |-> p, note |-> n]
      BY <1>3 DEF Agreement
    <3> HIDE DEF p, n
    <3> QED BY <3>1, <3>2
  <2>3. inbox' \in Seq(Texts) /\ Len(inbox') <= 1 /\ lost' \in Nat
    BY <1>1, <1>2 DEF ExchangeOK
  <2> QED BY <2>2, <2>3 DEF ExchangeOK
<1>5. turn'.mode = "none" /\ turn'.note = NoNote
  BY QuietTurn
<1>6. /\ agreed'.processing =
           IF text = "yes" /\ screen \in {"consent_openai", "processing"} THEN "openai"
           ELSE IF text \in {"yes", "local"} /\ screen \in ConsentScreens THEN "local"
           ELSE agreed.processing
      /\ agreed'.note = IF screen = "note_offer" /\ text \in {"yes", "no", "no_note"}
                        THEN text = "yes" ELSE agreed.note
  BY <1>3 DEF Agreement
<1>7. ConsentOK => ConsentOK'
  BY <1>2, <1>6 DEF ConsentOK, OnItsWay, ConsentScreens
<1>8. ProcessingOK => ProcessingOK'
  BY <1>2, <1>5, <1>6
     DEF ProcessingOK, OnItsWay, ConsentScreens, ConsentMessage, OpenAIEnabled, OpenAIOnlyWithConsent
<1>9. PermissionOK => PermissionOK'
  BY <1>2, <1>5, <1>6 DEF PermissionOK, OnItsWay, NoteOnlyWithPermission, AcceptedNote
<1> QED BY <1>4, <1>7, <1>8, <1>9 DEF ReaderOK, Undisturbed

LEMMA DeliverOK ==
    ASSUME IInv, ReaderOK, Deliver
    PROVE  ReaderOK'
<1> DEFINE text == Head(inbox)
<1>0. /\ Handle(text) /\ inbox # <<>> /\ UNCHANGED <<settings, lost>>
      /\ screen' = IF reply' = "none" THEN "conversation" ELSE reply'
      /\ agreed' = IF screen' \in FreshScreens THEN NothingAgreed ELSE agreed
  BY DEF Deliver, Handle
<1> HIDE DEF text
<1>1. ExchangeOK' /\ inbox' = <<>>
  <2>1. inbox' = <<>>
    BY DEF ReaderOK, ExchangeOK, Deliver
  <2>2. agreed' = NothingAgreed \/ agreed' = agreed
    BY <1>0
  <2>3. agreed' \in [processing : {"nothing", "openai", "local"}, note : BOOLEAN]
    <3>1. NothingAgreed \in [processing : {"nothing", "openai", "local"}, note : BOOLEAN]
      BY DEF NothingAgreed
    <3> QED BY <2>2, <3>1 DEF ReaderOK, ExchangeOK
  <2>4. lost' \in Nat
    BY <1>0 DEF ReaderOK, ExchangeOK
  <2> QED BY <2>1, <2>3, <2>4 DEF ExchangeOK
<1>2. ConsentCrossed(text)
  BY <1>0, HandleConsent
<1>3. /\ reply' \in FreshScreens <=> screen' \in FreshScreens
      /\ screen' \notin FreshScreens => agreed' = agreed
  BY <1>0 DEF FreshScreens
<1>4. ASSUME ConsentOK PROVE ConsentOK'
  BY <1>0, <1>1, <1>2, <1>3, <1>4 DEF ConsentOK, ConsentCrossed, OnItsWay, text
<1>5. ASSUME ProcessingOK, PermissionOK, UNCHANGED settings PROVE ProcessingOK' /\ PermissionOK'
  <2>1. Settled /\ (AcceptedNote => status \in {"ACTIVE", "PAUSED"})
    BY <1>5 DEF Settled, ProcessingOK, PermissionOK
  <2>2. ProcessingCrossed(text) /\ NotesCrossed(text)
    BY <1>0, <2>1, HandleProcessing, HandleNotes
  <2>3. ConsentMessage' = ConsentMessage /\ OpenAIEnabled' = OpenAIEnabled
    BY <1>5 DEF ConsentMessage, OpenAIEnabled, settings
  <2>4. reply' = "none" => status' \notin Collecting \cup {"WAITING_CONSENT"}
    BY <2>2 DEF ProcessingCrossed, ConsentMessage
  <2>5. status' \in Collecting => agreed' = agreed /\ screen' = reply'
    BY <1>0, <1>2, <1>3, <2>4 DEF ConsentCrossed
  <2>6. status' \in Collecting /\ processing' = "ACCEPTED" => agreed'.processing = "openai"
    BY <1>0, <1>5, <2>2, <2>5 DEF ProcessingOK, ProcessingCrossed, OnItsWay, text
  <2>7. ProcessingOK'
    BY <1>0, <1>1, <2>2, <2>3, <2>4, <2>5, <2>6
       DEF ProcessingOK, ProcessingCrossed, OnItsWay, OpenAIOnlyWithConsent
  <2>8. AcceptedNote' => agreed'.note
    <3>1. AcceptedNote' => status' \in Collecting
      BY <2>2 DEF NotesCrossed, Collecting, Open
    <3> QED BY <1>0, <1>5, <2>2, <2>5, <3>1 DEF PermissionOK, NotesCrossed, OnItsWay, text
  <2>9. NoteOnlyWithPermission'
    BY <1>5, <2>2, <2>5, <2>8 DEF PermissionOK, NotesCrossed, NoteOnlyWithPermission
  <2>10. PermissionOK'
    BY <1>0, <1>1, <2>2, <2>5, <2>8, <2>9
       DEF PermissionOK, NotesCrossed, OnItsWay, Collecting, Open
  <2> QED BY <2>7, <2>10
<1> QED BY <1>0, <1>1, <1>4, <1>5 DEF ReaderOK, Undisturbed, settings

LEMMA ReaderInit == DeliveryInit => IInv /\ ReaderOK
<1> SUFFICES ASSUME DeliveryInit PROVE ReaderOK
  BY InitOK DEF DeliveryInit
<1>1. /\ status = "NO_SESSION" /\ processing = "NONE" /\ turn = NoTurn /\ screen = "conversation"
      /\ inbox = <<>> /\ lost = 0 /\ agreed = NothingAgreed
      /\ \A n \in Note : notes[n] = Unwritten
  BY DEF DeliveryInit, Init
<1>2. ~AcceptedNote
  <2>1. Unwritten.state = "UNWRITTEN"
    BY DEF Unwritten
  <2> QED BY <1>1, <2>1 DEF AcceptedNote
<1>3. turn.mode = "none" /\ turn.note = NoNote
  BY <1>1 DEF NoTurn
<1>4. ExchangeOK
  BY <1>1 DEF ExchangeOK, NothingAgreed
<1> QED BY <1>1, <1>2, <1>3, <1>4
    DEF ReaderOK, ConsentOK, ProcessingOK, PermissionOK, OpenAIOnlyWithConsent,
        NoteOnlyWithPermission, Collecting, Open

LEMMA ReaderNext ==
    ASSUME ReadsFirst, IInv, ReaderOK, [DeliveryNext]_allVars
    PROVE  IInv' /\ ReaderOK'
<1>1. ASSUME NEW text \in Texts, Send(text) PROVE IInv' /\ ReaderOK'
  <2>1. IInv'
    BY <1>1, KeepRow, KeepNotes, QuietCall DEF Send, IInv, RestOK, settings, Replies
  <2> QED BY <1>1, <2>1, SendOK
<1>2. CASE Deliver
  <2>1. Head(inbox) \in Texts
    BY <1>2 DEF Deliver, ReaderOK, ExchangeOK
  <2> QED BY <1>2, <2>1, DeliverOK, NextOK DEF Deliver, Next
<1>3. CASE DeliverUnanswered
  <2>1. Head(inbox) \in Texts /\ lost' \in Nat /\ lost' # 0 /\ UNCHANGED <<inbox, screen, agreed>>
    BY <1>3 DEF DeliverUnanswered, ReaderOK, ExchangeOK
  <2>2. IInv'
    BY <1>3, <2>1, NextOK DEF DeliverUnanswered, Next
  <2>3. ExchangeOK'
    BY <2>1 DEF ReaderOK, ExchangeOK
  <2> QED BY <2>1, <2>2, <2>3 DEF ReaderOK, Undisturbed
<1>4. CASE Elapse
  BY <1>4, OutsideOK, NextOK DEF Elapse, Tick, Next, settings
<1>5. CASE Founder
  <2>1. ~AcceptedNote'
    <3> PICK n \in Note :
            notes' = [ClearedNotes EXCEPT ![n] =
                        [state |-> "PENDING", text |-> "kept", expires |-> clock + TTL]]
      BY <1>5 DEF Founder, WriteNote
    <3>1. DOMAIN ClearedNotes = Note
      BY DEF ClearedNotes
    <3> QED BY <3>1, NoneAccepted DEF AcceptedNote
  <2> QED BY <1>5, <2>1, OutsideOK, NextOK DEF Founder, WriteNote, Next
<1>6. CASE Redeploy
  <2>1. restarts' # 0
    BY <1>6 DEF Redeploy, Restart, IInv, RestOK
  <2> QED BY <1>6, <2>1, OutsideOK, NextOK DEF Redeploy, Restart, Next
<1>7. CASE UNCHANGED allVars
  <2>1. IInv'
    BY <1>7, NextOK DEF allVars, Next
  <2>2. ReaderOK'
    BY <1>7 DEF allVars, vars, row, settings, delivery, ReaderOK, ExchangeOK, ConsentOK, OnItsWay,
        ProcessingOK, PermissionOK, AcceptedNote, Undisturbed, ConsentMessage, OpenAIEnabled,
        OpenAIOnlyWithConsent, NoteOnlyWithPermission
  <2> QED BY <2>1, <2>2
<1> QED BY <1>1, <1>2, <1>3, <1>4, <1>5, <1>6, <1>7 DEF DeliveryNext

LEMMA ReaderInvariance ==
    ASSUME ReadsFirst
    PROVE  DeliverySpec => [](IInv /\ ReaderOK)
<1>1. DeliveryInit => IInv /\ ReaderOK
  BY ReaderInit
<1>2. (IInv /\ ReaderOK) /\ [DeliveryNext]_allVars => (IInv /\ ReaderOK)'
  BY ReaderNext
<1> QED BY <1>1, <1>2, PTL DEF DeliverySpec

\* With every answer read and the settings left alone, OpenAI is called only
\* after a yes to the question that names it, and the founder's note is used
\* only after a yes to its offer.
THEOREM PermissionsKept ==
    ASSUME ReadsFirst
    PROVE  DeliverySpec => []PermissionsUndisturbed
<1>1. IInv /\ ReaderOK => PermissionsUndisturbed
  BY DEF ReaderOK, ProcessingOK, PermissionOK, PermissionsUndisturbed
<1> QED BY <1>1, ReaderInvariance, PTL

\* Whatever the restarts, no answer is kept before a consent question of the
\* interview was answered, as long as no answer of the server is lost.
THEOREM AnswersConsented ==
    ASSUME ReadsFirst
    PROVE  DeliverySpec => []AnswersConsentedWithoutLoss
<1>1. IInv /\ ReaderOK => AnswersConsentedWithoutLoss
  BY DEF ReaderOK, ConsentOK, AnswersConsentedWithoutLoss, AnswersOnlyAfterConsent,
         IInv, RowOK, AnswersMatchSteps
<1> QED BY <1>1, ReaderInvariance, PTL
=============================================================================
